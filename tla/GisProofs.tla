------------------------------ MODULE GisProofs -----------------------------
(***************************************************************************)
(* Proofs about the GIS side of the system.                                *)
(*                                                                         *)
(* MapServices, for any candidates, limits and failures: the meta data of  *)
(* a success are true, the provider is spared, and the candidate an agent  *)
(* chose is the one a search uses.                                         *)
(*                                                                         *)
(* Routing, for any maps, requests and limits: the searches expand no node *)
(* twice and end with cheapest paths, answers are cheapest routes and can  *)
(* be driven, and a matched trace is a likeliest one.                      *)
(***************************************************************************)
EXTENDS MapServices, Routing, TLAPS, FiniteSetTheorems, FunctionTheorems,
        SequenceTheorems, WellFoundedInduction

Statuses ==
    {"none", "ok", "throttled", "refused", "failing", "denied", "limited",
     "unavailable", "invalid", "ambiguous", "unpublished"}
Shapes == [status : Statuses \ {"ambiguous"}, list : Seq(Candidates)]
Calls ==
    [at : {"idle", "lookup", "send", "received", "prepare", "local"},
     tool : {"none", "lookup", "search", "route"}, key : Keys, index : Nat,
     try : Nat, answer : Shapes, attempts : Nat, hit : BOOLEAN,
     cached : BOOLEAN, requests : Nat]
Replies ==
    [status : Statuses, attempts : Nat, hit : BOOLEAN, requests : Nat,
     cached : BOOLEAN, index : Nat, key : Keys]

\* The state has the shape its steps expect.
TypeInv ==
    /\ world \in Lists
    /\ tokens \in 0 .. Burst
    /\ DOMAIN cache \subseteq Keys
    /\ \A k \in DOMAIN cache : cache[k] \in [answer : Shapes, left : Nat]
    /\ call \in Calls
    /\ call.at = "send" => call.try \in 1 .. MaxAttempts
    /\ reply \in Replies
    /\ seen \in Seq(Candidates)
    /\ relisted \in BOOLEAN
    /\ debt \in Nat

\* The requests a call has made are accounted for, but for those of the HTTP
\* request that is under way, and a success from the cache made none.
Accounted == call.attempts = call.requests /\ (call.hit <=> call.requests = 0)

MetaInv ==
    /\ call.at \in {"lookup", "prepare"} => Accounted
    /\ call.at = "received" /\ call.answer.status = "ok" => Accounted
    /\ call.at = "send" =>
          call.requests = call.attempts + call.try - 1 /\ ~call.hit
    /\ call.at = "local" => ~call.hit
    /\ MetaTrue

\* What the provider has been sent beyond its due, what the bucket still
\* allows and what the request under way may still send never exceed a full
\* bucket and one request.
Worth(n) == MaxAttempts * n
Pending == IF call.at = "send" THEN MaxAttempts - call.try + 1 ELSE 0
SpareInv == debt + Worth(tokens) + Pending <= Worth(Burst) + MaxAttempts

\* What was received for the place is what the memory cache has for it.
ReceivedInv ==
    ~config.redis /\ call.at = "received" /\ call.key = Place
        /\ call.answer.status = "ok" =>
           Place \in DOMAIN cache /\ cache[Place].answer = call.answer

\* A list in the cache is the one the agent chose from, until the place was
\* asked for again.
CacheInv ==
    ~config.redis /\ ~relisted /\ seen # <<>> /\ Place \in DOMAIN cache
        /\ cache[Place].answer.status = "ok" =>
           cache[Place].answer.list = seen

\* A call with an index is a search, which went on with the chosen candidate.
ChosenInv ==
    call.at # "idle" /\ call.index > 0 =>
        /\ call.at # "local" /\ call.tool = "search" /\ seen # <<>>
        /\ call.at = "prepare" => call.key # Place
        /\ call.key # Place /\ ~relisted /\ ~config.redis =>
              call.key = seen[call.index]

PickInv == ReceivedInv /\ CacheInv /\ ChosenInv /\ PickHonoured

-----------------------------------------------------------------------------
(* What steps do to the call and the reply.  The fields of a record are      *)
(* stated one by one: equality of records with Boolean fields is beyond the  *)
(* provers.                                                                  *)

Same == call'.tool = call.tool /\ call'.key = call.key /\ call'.index = call.index
Counts == call'.attempts = call.attempts /\ call'.requests = call.requests

\* How a call begins.
Begins(c) ==
    /\ c \in Calls
    /\ c.at \in {"lookup", "local"}
    /\ c.attempts = 0 /\ c.requests = 0 /\ (c.hit <=> c.at = "lookup")
    /\ c.index > 0 =>
          c.at = "lookup" /\ c.tool = "search" /\ c.key = Place /\ seen # <<>>

LEMMA Limits ==
    MaxAttempts \in Nat /\ MaxAttempts >= 1 /\ Burst \in Nat /\ CacheTtl \in Nat
BY LimitAssumption

LEMMA NoCallShape ==
    /\ NoCall \in Calls /\ NoCall.at = "idle"
    /\ NoReply \in Replies /\ NoReply.status \notin Described
<1>1. NoAnswer \in Shapes
  BY DEF NoAnswer, Bad, Shapes, Statuses
<1>2. Place \in Keys
  BY DEF Keys
<1>3. NoCall \in Calls /\ NoCall.at = "idle"
  BY <1>1, <1>2 DEF NoCall, Calls
<1>4. NoReply \in Replies /\ NoReply.status \notin Described
  BY <1>2 DEF NoReply, Replies, Statuses, Described
<1> QED
  BY <1>3, <1>4

\* What has meta data tells what the call counted; the rest tells nothing of it.
LEMMA FinishShape ==
  ASSUME NEW status \in Statuses, NEW c \in Calls, Finish(status, c)
  PROVE  /\ call' = NoCall
         /\ reply' \in Replies /\ reply'.status = status
         /\ status \in Described =>
              /\ reply'.attempts = c.attempts /\ reply'.requests = c.requests
              /\ reply'.hit = c.hit
              /\ reply'.index = c.index /\ reply'.key = c.key
<1>1. CASE status \in Described
  BY <1>1 DEF Finish, Replied, Calls, Replies
<1>2. CASE status \notin Described
  BY <1>2, NoCallShape DEF Finish, Replied, Calls, Replies
<1> QED
  BY <1>1, <1>2

LEMMA OnlineShape ==
  ASSUME NEW tool \in {"lookup", "search", "route"}, NEW key \in Keys, NEW index \in Nat,
         index > 0 => tool = "search" /\ key = Place /\ seen # <<>>
  PROVE  Begins([NoCall EXCEPT !.at = "lookup", !.tool = tool, !.key = key,
                               !.index = index, !.hit = TRUE])
<1> DEFINE c == [NoCall EXCEPT !.at = "lookup", !.tool = tool, !.key = key,
                              !.index = index, !.hit = TRUE]
<1>1. c \in Calls
  BY NoCallShape DEF Calls
<1>2. /\ c.at = "lookup" /\ c.tool = tool /\ c.key = key /\ c.index = index
      /\ c.hit /\ c.attempts = 0 /\ c.requests = 0
  BY DEF NoCall
<1> QED
  BY <1>1, <1>2 DEF Begins

LEMMA BeginShape ==
  ASSUME TypeInv, CallBegins
  PROVE  /\ call.at = "idle"
         /\ UNCHANGED <<environment, tokens, cache, agent, debt>>
         /\ \/ Begins(call') /\ reply' = NoReply
            \/ call' = NoCall /\ reply' \in Replies /\ reply'.status \notin Described
<1> DEFINE Outcome ==
           /\ call.at = "idle"
           /\ UNCHANGED <<environment, tokens, cache, agent, debt>>
           /\ \/ Begins(call') /\ reply' = NoReply
              \/ call' = NoCall /\ reply' \in Replies /\ reply'.status \notin Described
<1>1. ASSUME NEW c, Begins(c), Begin(c) PROVE Outcome
  BY <1>1 DEF Begin
<1>2. ASSUME Unconfigured PROVE Outcome
  BY <1>2, NoCallShape, FinishShape DEF Unconfigured, Statuses, Described
<1>3. ASSUME NEW tool \in {"lookup", "search", "route"}, NEW key \in Keys, NEW index \in Nat,
             index > 0 => tool = "search" /\ key = Place /\ seen # <<>>,
             OnlineCall(tool, key, index)
      PROVE  Outcome
  BY <1>1, <1>2, <1>3, OnlineShape DEF OnlineCall
<1>4. ASSUME NEW key \in Keys, LookUp(key) PROVE Outcome
  BY <1>3, <1>4 DEF LookUp
<1>5. ASSUME NEW index \in 0 .. Len(seen), SearchByPlace(index) PROVE Outcome
  <2>1. seen \in Seq(Candidates) /\ index \in Nat /\ (index > 0 => seen # <<>>)
    BY <1>5 DEF TypeInv
  <2> QED
    BY <1>3, <1>5, <2>1 DEF SearchByPlace, Keys
<1>6. ASSUME NEW wanted \in Wanted, NEW profile \in Profiles, Route(wanted, profile)
      PROVE  Outcome
  <2> DEFINE c == [NoCall EXCEPT !.at = "local", !.tool = "route", !.key = Trip,
                                 !.index = 0, !.try = IF profile = "driving" THEN 1 ELSE 0]
  <2>1. Begins(c)
    <3>1. c \in Calls
      BY NoCallShape DEF Calls, Keys
    <3>2. /\ c.at = "local" /\ c.index = 0 /\ ~c.hit
          /\ c.attempts = 0 /\ c.requests = 0
      BY DEF NoCall
    <3> QED
      BY <3>1, <3>2 DEF Begins
  <2>2. OnlineCall("route", Trip, 0) \/ Unconfigured \/ Begin(c)
    BY <1>6 DEF Route
  <2> QED
    <3>1. Trip \in Keys /\ 0 \in Nat /\ ~(0 > 0) /\ "route" \in {"lookup", "search", "route"}
      BY DEF Keys
    <3> QED
      BY <1>1, <1>2, <1>3, <2>1, <2>2, <3>1
<1> HIDE DEF Outcome
<1>7. Outcome
  BY <1>4, <1>5, <1>6 DEF CallBegins
<1> QED
  BY <1>7 DEF Outcome

LEMMA RouteShape ==
  ASSUME TypeInv, RouteLocally
  PROVE  /\ call.at = "local" /\ UNCHANGED <<environment, tokens, cache, agent, debt>>
         /\ \/ /\ call' \in Calls /\ call'.at = "prepare" /\ Same
               /\ call'.attempts = 1 /\ call'.requests = 1 /\ call'.hit = call.hit
               /\ reply' = reply
            \/ call' = NoCall /\ reply' \in Replies /\ reply'.status \notin Described
<1> DEFINE done == [call EXCEPT !.attempts = 1, !.requests = 1]
<1>1. done \in Calls
  BY DEF TypeInv, Calls
<1>2. CASE call' = [done EXCEPT !.at = "prepare"] /\ UNCHANGED reply
  BY <1>2 DEF RouteLocally, TypeInv, Calls, Same
<1>3. CASE Finish("refused", done)
  BY <1>1, <1>3, FinishShape DEF RouteLocally, Statuses, Described
<1> QED
  BY <1>2, <1>3 DEF RouteLocally

LEMMA HitShape ==
  ASSUME TypeInv, Hit
  PROVE  /\ call.at = "lookup" /\ call.key \in DOMAIN cache
         /\ call' \in Calls /\ call'.at = "received" /\ Same /\ Counts
         /\ call'.hit = call.hit
         /\ call'.answer = cache[call.key].answer
         /\ UNCHANGED <<environment, tokens, cache, reply, agent, debt>>
<1>1. /\ call.at = "lookup" /\ call.key \in DOMAIN cache
      /\ call' = [call EXCEPT !.at = "received", !.answer = cache[call.key].answer,
                              !.attempts = @ + 0, !.cached = TRUE]
      /\ UNCHANGED <<environment, tokens, cache, reply, agent, debt>>
  BY DEF Hit, Live, HitAttempts
<1>2. cache[call.key].answer \in Shapes /\ call.attempts + 0 \in Nat
  BY <1>1 DEF TypeInv, Calls
<1>3. call' \in Calls
  BY <1>1, <1>2 DEF TypeInv, Calls
<1>4. /\ call'.at = "received" /\ call'.hit = call.hit
      /\ call'.answer = cache[call.key].answer /\ Same /\ Counts
  BY <1>1, <1>2 DEF TypeInv, Calls, Same, Counts
<1> QED
  BY <1>1, <1>3, <1>4

LEMMA MissShape ==
  ASSUME TypeInv, Miss
  PROVE  /\ call.at = "lookup"
         /\ call' \in Calls /\ Same /\ Counts /\ ~call'.hit
         /\ \/ call'.at = "send" /\ call'.try = 1 /\ tokens >= 1 /\ tokens' = tokens - 1
            \/ /\ call'.at = "received" /\ call'.answer.status = "limited"
               /\ tokens' = tokens
         /\ DOMAIN cache' \subseteq DOMAIN cache
         /\ \A k \in DOMAIN cache' : cache'[k] = cache[k]
         /\ UNCHANGED <<environment, reply, agent, debt>>
<1>1. /\ DOMAIN cache' \subseteq DOMAIN cache
      /\ \A k \in DOMAIN cache' : cache'[k] = cache[k]
  BY DEF Miss
<1>2. CASE call' = [call EXCEPT !.at = "send", !.try = 1, !.hit = FALSE,
                                !.cached = FALSE]
           /\ HasToken /\ tokens' = tokens - 1
  BY <1>1, <1>2 DEF Miss, HasToken, TypeInv, Calls, Same, Counts
<1>3. CASE call' = [call EXCEPT !.at = "received", !.answer = Bad("limited"),
                                !.hit = FALSE, !.cached = FALSE]
           /\ tokens' = tokens
  <2>1. Bad("limited") \in Shapes /\ Bad("limited").status = "limited"
    BY DEF Bad, Shapes, Statuses
  <2>2. call' \in Calls
    BY <1>3, <2>1 DEF TypeInv, Calls
  <2>3. /\ call'.at = "received" /\ call'.answer = Bad("limited")
        /\ ~call'.hit /\ Same /\ Counts
    BY <1>3 DEF TypeInv, Calls, Same, Counts
  <2> QED
    BY <1>1, <1>3, <2>1, <2>2, <2>3 DEF Miss
<1> QED
  BY <1>2, <1>3 DEF Miss

\* What has just been received is in the cache when there is no Redis, and
\* nothing else is there that was not.
LEMMA PutShape ==
  ASSUME TypeInv, NEW key \in Keys, NEW answer \in Shapes, Put(key, answer)
  PROVE  /\ DOMAIN cache' \subseteq Keys
         /\ \A k \in DOMAIN cache' : cache'[k] \in [answer : Shapes, left : Nat]
         /\ ~config.redis => key \in DOMAIN cache' /\ cache'[key].answer = answer
         /\ \A k \in DOMAIN cache' \ {key} : k \in DOMAIN cache /\ cache'[k] = cache[k]
<1> DEFINE with(kept) == [k \in kept \cup {key} |->
              IF k = key THEN [answer |-> answer, left |-> CacheTtl] ELSE cache[k]]
<1>1. [answer |-> answer, left |-> CacheTtl] \in [answer : Shapes, left : Nat]
  BY Limits
<1>2. \/ config.redis /\ cache' = cache
      \/ \E kept \in SUBSET DOMAIN cache : cache' = with(kept)
  BY DEF Put
<1>3. CASE cache' = cache /\ config.redis
  BY <1>3 DEF TypeInv
<1>4. CASE \E kept \in SUBSET DOMAIN cache : cache' = with(kept)
  <2>1. PICK kept \in SUBSET DOMAIN cache : cache' = with(kept)
    BY <1>4
  <2> QED
    BY <2>1, <1>1 DEF TypeInv
<1> QED
  BY <1>2, <1>3, <1>4

LEMMA SendShape ==
  ASSUME TypeInv, Send
  PROVE  /\ call.at = "send" /\ debt' = debt + 1
         /\ call' \in Calls /\ Same /\ call'.requests = call.requests + 1
         /\ call'.hit = call.hit
         /\ \/ /\ call'.at = "send" /\ call'.try = call.try + 1
               /\ call.try < MaxAttempts /\ call'.attempts = call.attempts
               /\ UNCHANGED <<cache, relisted>>
            \/ /\ call'.at = "received"
               /\ call'.attempts = call.attempts + call.try
               /\ relisted' = (relisted \/ (call.key = Place /\ seen # <<>>))
               /\ \/ Put(call.key, call'.answer)
                  \/ cache' = cache /\ ~Succeeds(call'.answer)
         /\ UNCHANGED <<environment, tokens, reply, seen>>
<1>1. PICK answer \in MayAnswer(call.key) :
        LET sent == [call EXCEPT !.requests = @ + 1] IN
          \/ /\ MayRetry(answer)
             /\ call' = [sent EXCEPT !.try = @ + 1]
             /\ UNCHANGED <<cache, relisted>>
          \/ /\ ~MayRetry(answer)
             /\ call' = [sent EXCEPT !.at = "received", !.answer = answer,
                                     !.attempts = @ + call.try]
             /\ relisted' = (relisted \/ (call.key = Place /\ seen # <<>>))
             /\ IF Succeeds(answer)
                THEN Put(call.key, answer)
                ELSE UNCHANGED cache
  BY DEF Send
<1>2. answer \in Shapes
  <2>1. \A list \in Seq(Candidates) : Good(list) \in Shapes
    BY DEF Good, Shapes, Statuses
  <2>2. \A status \in Failures : Bad(status) \in Shapes
    BY WorldAssumption DEF Bad, Shapes, Statuses
  <2>3. world \in Seq(Candidates) /\ <<>> \in Seq(Candidates)
    BY WorldAssumption DEF TypeInv
  <2> QED
    BY <2>1, <2>2, <2>3 DEF MayAnswer
<1>3. CASE /\ MayRetry(answer)
           /\ call' = [[call EXCEPT !.requests = @ + 1] EXCEPT !.try = @ + 1]
           /\ UNCHANGED <<cache, relisted>>
  <2>1. call.try < MaxAttempts /\ call.try \in Nat /\ call.try + 1 \in Nat
    BY <1>3 DEF MayRetry, TypeInv, Calls
  <2> QED
    <3>1. call' \in Calls
      <4>1. [call EXCEPT !.requests = @ + 1] \in Calls
        BY DEF TypeInv, Calls
      <4>2. \A c \in Calls, n \in Nat : [c EXCEPT !.try = n] \in Calls
        BY DEF Calls
      <4>3. [call EXCEPT !.requests = @ + 1].try = call.try
        BY DEF TypeInv, Calls
      <4> QED
        BY <1>3, <2>1, <4>1, <4>2, <4>3
    <3>2. /\ call'.at = call.at /\ Same /\ call'.requests = call.requests + 1
          /\ call'.hit = call.hit /\ call'.attempts = call.attempts
          /\ call'.try = call.try + 1
      BY <1>3 DEF TypeInv, Calls, Same
    <3> QED
      BY <1>3, <2>1, <3>1, <3>2 DEF Send
<1>4. CASE /\ call' = [[call EXCEPT !.requests = @ + 1]
                         EXCEPT !.at = "received", !.answer = answer,
                                !.attempts = @ + call.try]
           /\ relisted' = (relisted \/ (call.key = Place /\ seen # <<>>))
           /\ IF Succeeds(answer) THEN Put(call.key, answer) ELSE UNCHANGED cache
  <2>1. /\ call' \in Calls /\ Same /\ call'.requests = call.requests + 1
        /\ call'.hit = call.hit /\ call'.at = "received"
        /\ call'.attempts = call.attempts + call.try
        /\ call'.answer = answer
    <3>1. call.attempts + call.try \in Nat /\ call.requests + 1 \in Nat
      BY DEF TypeInv, Calls
    <3>2. call' \in Calls
      BY <1>2, <1>4, <3>1 DEF TypeInv, Calls
    <3>3. /\ Same /\ call'.requests = call.requests + 1
          /\ call'.hit = call.hit /\ call'.at = "received"
          /\ call'.attempts = call.attempts + call.try
          /\ call'.answer = answer
      BY <1>4 DEF TypeInv, Calls, Same
    <3> QED
      BY <3>2, <3>3
  <2> QED
    BY <1>4, <2>1 DEF Send
<1> QED
  BY <1>1, <1>3, <1>4

LEMMA FailShape ==
  ASSUME TypeInv, Fail
  PROVE  /\ call' = NoCall /\ reply' \in Replies /\ reply'.status \notin Described
         /\ UNCHANGED <<environment, tokens, cache, agent, debt>>
<1>1. call \in Calls /\ call.answer.status \in Statuses \ {"ambiguous"}
  BY DEF TypeInv, Calls, Shapes
<1> QED
  BY <1>1, FinishShape DEF Fail, Described

\* Meta data tell what the call counted.
Told ==
    reply'.status \in Described =>
        /\ reply'.attempts = call.attempts /\ reply'.requests = call.requests
        /\ reply'.hit = call.hit

\* The half of a search that finds the place.
LEMMA ResolveShape ==
  ASSUME TypeInv, Resolve
  PROVE  /\ call.at = "received" /\ call.answer.status = "ok" /\ call.key = Place
         /\ \/ /\ call' = NoCall /\ reply' \in Replies /\ reply'.status # "ok" /\ Told
               /\ \/ UNCHANGED agent
                  \/ seen' = call.answer.list /\ relisted' = FALSE
            \/ /\ call' \in Calls /\ call'.at = "lookup" /\ Counts
               /\ call'.tool = call.tool /\ call'.index = call.index
               /\ call'.hit = call.hit
               /\ call.index > 0 => call'.key = call.answer.list[call.index]
               /\ UNCHANGED <<reply, agent>>
         /\ UNCHANGED <<environment, tokens, cache, debt>>
<1> DEFINE list == call.answer.list
<1>1. call \in Calls /\ list \in Seq(Candidates) /\ call.index \in Nat
  BY DEF TypeInv, Calls, Shapes
<1>2. ASSUME NEW status \in {"invalid", "ambiguous"}, Finish(status, call)
      PROVE  call' = NoCall /\ reply' \in Replies /\ reply'.status # "ok" /\ Told
  BY <1>1, <1>2, FinishShape DEF Statuses, Told
<1>3. CASE Finish("invalid", call) /\ UNCHANGED agent
  BY <1>2, <1>3 DEF Resolve
<1>4. CASE Finish("ambiguous", call) /\ seen' = list /\ relisted' = FALSE
  BY <1>2, <1>4 DEF Resolve
<1>5. CASE /\ call.index = 0 => Len(list) = 1
           /\ call.index <= Len(list)
           /\ call' = [call EXCEPT !.at = "lookup", !.key = Selected(list, call.index)]
           /\ UNCHANGED <<reply, agent>>
  <2>1. Selected(list, call.index) \in Keys
    BY <1>1, <1>5 DEF Selected, Keys
  <2>2. call' \in Calls
    BY <1>1, <1>5, <2>1 DEF Calls
  <2>3. /\ call'.at = "lookup" /\ Counts /\ call'.tool = call.tool
        /\ call'.index = call.index /\ call'.hit = call.hit
        /\ call'.key = Selected(list, call.index)
    BY <1>1, <1>5 DEF Calls, Counts
  <2>4. call.index > 0 => call'.key = list[call.index]
    BY <1>1, <2>3 DEF Selected
  <2> QED
    BY <1>5, <2>2, <2>3, <2>4 DEF Resolve
<1> QED
  BY <1>3, <1>4, <1>5 DEF Resolve

LEMMA AcceptShape ==
  ASSUME TypeInv, Accept
  PROVE  /\ call.at = "received" /\ call.answer.status = "ok"
         /\ call.tool = "search" => call.key # Place
         /\ call' \in Calls /\ call'.at = "prepare" /\ Same /\ Counts
         /\ call'.hit = call.hit
         /\ UNCHANGED <<environment, tokens, cache, reply, agent, debt>>
BY DEF Accept, TypeInv, Calls, Same, Counts

LEMMA PrepareShape ==
  ASSUME TypeInv, Prepare
  PROVE  /\ call.at = "prepare" /\ call' = NoCall /\ reply' \in Replies
         /\ Told
         /\ reply'.status = "ok" =>
              reply'.index = call.index /\ reply'.key = call.key
         /\ UNCHANGED <<environment, tokens, cache, agent, debt>>
<1>1. \E status \in {"ok", "unpublished"} : Finish(status, call)
  BY DEF Prepare
<1>2. call \in Calls /\ {"ok", "unpublished"} \subseteq Statuses
  BY DEF TypeInv, Statuses
<1> QED
  BY <1>1, <1>2, FinishShape DEF Prepare, Described, Told

LEMMA TickShape ==
  ASSUME TypeInv, Tick
  PROVE  /\ \/ tokens < Burst /\ tokens' = tokens + 1
            \/ tokens = Burst /\ tokens' = tokens
         /\ DOMAIN cache' \subseteq DOMAIN cache
         /\ ~config.redis => DOMAIN cache' = DOMAIN cache
         /\ \A k \in DOMAIN cache' :
              /\ cache'[k] \in [answer : Shapes, left : Nat]
              /\ cache'[k].answer = cache[k].answer
         /\ debt' = IF debt > MaxAttempts THEN debt - MaxAttempts ELSE 0
         /\ UNCHANGED <<environment, call, reply, agent>>
<1>1. cache' = [k \in {k \in DOMAIN cache : config.redis => cache[k].left > 1} |->
                   [cache[k] EXCEPT !.left = Less(@)]]
  BY DEF Tick
<1>2. /\ DOMAIN cache' \subseteq DOMAIN cache
      /\ ~config.redis => DOMAIN cache' = DOMAIN cache
  BY <1>1
<1>3. ASSUME NEW k \in DOMAIN cache'
      PROVE  /\ cache'[k] \in [answer : Shapes, left : Nat]
             /\ cache'[k].answer = cache[k].answer
  <2>1. cache[k] \in [answer : Shapes, left : Nat] /\ Less(cache[k].left) \in Nat
    BY <1>2, <1>3 DEF TypeInv, Less
  <2>2. cache'[k] = [cache[k] EXCEPT !.left = Less(cache[k].left)]
    BY <1>1, <1>3
  <2> QED
    BY <2>1, <2>2
<1>4. \/ tokens < Burst /\ tokens' = tokens + 1
      \/ tokens = Burst /\ tokens' = tokens
  <2>1. tokens \in Nat /\ Burst \in Nat /\ tokens <= Burst
    BY Limits DEF TypeInv
  <2>2. tokens' = IF tokens < Burst THEN tokens + 1 ELSE tokens
    BY DEF Tick, Refilled
  <2> QED
    BY <2>1, <2>2
<1> QED
  BY <1>2, <1>3, <1>4 DEF Tick

-----------------------------------------------------------------------------
(* The shape is kept *)

LEMMA TypeStep ==
  ASSUME TypeInv, [Next]_vars
  PROVE  TypeInv'
<1> USE DEF environment, agent
<1>1. CASE CallBegins
  <2>1. call' \in Calls /\ call'.at # "send" /\ reply' \in Replies
    BY <1>1, BeginShape, NoCallShape DEF Begins
  <2> QED
    BY <1>1, <2>1, BeginShape DEF TypeInv
<1>2. CASE RouteLocally
  <2>1. call' \in Calls /\ call'.at # "send" /\ reply' \in Replies
    BY <1>2, RouteShape, NoCallShape DEF TypeInv
  <2> QED
    BY <1>2, <2>1, RouteShape DEF TypeInv
<1>3. CASE Hit
  BY <1>3, HitShape DEF TypeInv
<1>4. CASE Miss
  <2>1. tokens' \in 0 .. Burst
    BY <1>4, MissShape, Limits DEF TypeInv
  <2>2. call'.at = "send" => call'.try \in 1 .. MaxAttempts
    BY <1>4, MissShape, Limits DEF TypeInv
  <2> QED
    BY <1>4, <2>1, <2>2, MissShape DEF TypeInv
<1>5. CASE Send
  <2>1. /\ DOMAIN cache' \subseteq Keys
        /\ \A k \in DOMAIN cache' : cache'[k] \in [answer : Shapes, left : Nat]
    <3>1. call.key \in Keys /\ call'.answer \in Shapes
      BY <1>5, SendShape DEF TypeInv, Calls
    <3> QED
      BY <1>5, <3>1, SendShape, PutShape DEF TypeInv
  <2>2. call'.at = "send" => call'.try \in 1 .. MaxAttempts
    BY <1>5, SendShape, Limits DEF TypeInv
  <2>3. relisted' \in BOOLEAN
    BY <1>5, SendShape DEF TypeInv
  <2> QED
    BY <1>5, <2>1, <2>2, <2>3, SendShape DEF TypeInv
<1>6. CASE Fail
  BY <1>6, FailShape, NoCallShape DEF TypeInv
<1>7. CASE Resolve
  <2>1. seen' \in Seq(Candidates) /\ relisted' \in BOOLEAN
    BY <1>7, ResolveShape DEF TypeInv, Calls, Shapes
  <2>2. call' \in Calls /\ call'.at # "send" /\ reply' \in Replies
    BY <1>7, ResolveShape, NoCallShape DEF TypeInv
  <2> QED
    BY <1>7, <2>1, <2>2, ResolveShape DEF TypeInv
<1>8. CASE Accept
  BY <1>8, AcceptShape DEF TypeInv
<1>9. CASE Prepare
  BY <1>9, PrepareShape, NoCallShape DEF TypeInv
<1>10. CASE Tick
  <2>1. tokens' \in 0 .. Burst /\ debt' \in Nat
    BY <1>10, TickShape, Limits DEF TypeInv
  <2> QED
    BY <1>10, <2>1, TickShape DEF TypeInv
<1>11. CASE ProviderChanges \/ UNCHANGED vars
  BY <1>11 DEF ProviderChanges, vars, TypeInv
<1> QED
  BY <1>1, <1>2, <1>3, <1>4, <1>5, <1>6, <1>7, <1>8, <1>9, <1>10, <1>11
     DEF Next, Step

-----------------------------------------------------------------------------
(* The meta data *)

LEMMA MetaStep ==
  ASSUME TypeInv, MetaInv, [Next]_vars
  PROVE  MetaInv'
<1> USE DEF environment, agent
<1>1. CASE CallBegins
  BY <1>1, BeginShape, NoCallShape DEF Begins, MetaInv, MetaTrue, Accounted
<1>2. CASE RouteLocally
  BY <1>2, RouteShape, NoCallShape DEF MetaInv, MetaTrue, Accounted
<1>3. CASE Hit
  BY <1>3, HitShape DEF MetaInv, MetaTrue, Accounted, Counts
<1>4. CASE Miss
  <2>1. call.attempts \in Nat /\ call.requests \in Nat
    BY DEF TypeInv, Calls
  <2> QED
    BY <1>4, <2>1, MissShape DEF MetaInv, MetaTrue, Accounted, Counts
<1>5. CASE Send
  <2>1. /\ call.attempts \in Nat /\ call.requests \in Nat
        /\ call.try \in Nat /\ call.try >= 1
    BY <1>5, SendShape DEF TypeInv, Calls
  <2>2. call.requests = call.attempts + call.try - 1 /\ ~call.hit
    BY <1>5, SendShape DEF MetaInv
  <2>3. CASE call'.at = "send"
    BY <1>5, <2>1, <2>2, <2>3, SendShape DEF MetaInv, MetaTrue
  <2>4. CASE call'.at = "received"
    <3>1. /\ call'.attempts = call.attempts + call.try
          /\ call'.requests = call.requests + 1 /\ ~call'.hit /\ reply' = reply
      BY <1>5, <2>2, <2>4, SendShape
    <3>2. Accounted'
      BY <2>1, <2>2, <3>1 DEF Accounted
    <3> QED
      BY <2>4, <3>1, <3>2 DEF MetaInv, MetaTrue
  <2> QED
    BY <1>5, <2>3, <2>4, SendShape
<1>6. CASE Fail
  BY <1>6, FailShape, NoCallShape DEF MetaInv, MetaTrue
<1>7. CASE Resolve
  BY <1>7, ResolveShape, NoCallShape DEF MetaInv, MetaTrue, Accounted, Counts, Told
<1>8. CASE Accept
  BY <1>8, AcceptShape DEF MetaInv, MetaTrue, Accounted, Counts
<1>9. CASE Prepare
  BY <1>9, PrepareShape, NoCallShape DEF MetaInv, MetaTrue, Accounted, Told
<1>10. CASE Tick
  BY <1>10, TickShape DEF MetaInv, MetaTrue, Accounted
<1>11. CASE ProviderChanges \/ UNCHANGED vars
  BY <1>11 DEF ProviderChanges, vars, MetaInv, MetaTrue, Accounted
<1> QED
  BY <1>1, <1>2, <1>3, <1>4, <1>5, <1>6, <1>7, <1>8, <1>9, <1>10, <1>11
     DEF Next, Step

-----------------------------------------------------------------------------
(* What the provider is spared *)

\* A token is worth MaxAttempts requests.
LEMMA TokenWorth ==
  ASSUME NEW n \in Nat
  PROVE  /\ Worth(n) \in Nat
         /\ Worth(n + 1) = Worth(n) + MaxAttempts
         /\ \A m \in Nat : n <= m => Worth(n) <= Worth(m)
<1>1. Worth(n) \in Nat /\ Worth(n + 1) = Worth(n) + MaxAttempts
  BY Limits DEF Worth
<1>2. ASSUME NEW m \in Nat, n <= m PROVE Worth(n) <= Worth(m)
  BY <1>2, Limits DEF Worth
<1> QED
  BY <1>1, <1>2

LEMMA SpareStep ==
  ASSUME TypeInv, SpareInv, [Next]_vars
  PROVE  SpareInv'
<1> USE DEF environment, agent
<1>1. /\ debt \in Nat /\ tokens \in Nat /\ tokens <= Burst
      /\ Pending \in Nat /\ Pending <= MaxAttempts
      /\ Worth(tokens) \in Nat /\ Worth(Burst) \in Nat
      /\ MaxAttempts \in Nat
  <2>1. debt \in Nat /\ tokens \in Nat /\ tokens <= Burst
    BY Limits DEF TypeInv
  <2>2. Worth(tokens) \in Nat /\ Worth(Burst) \in Nat
    BY <2>1, TokenWorth, Limits
  <2>3. Pending \in Nat /\ Pending <= MaxAttempts
    <3>1. call.at = "send" => call.try \in 1 .. MaxAttempts
      BY DEF TypeInv
    <3> QED
      BY <3>1, Limits DEF Pending
  <2> QED
    BY <2>1, <2>2, <2>3, Limits
<1>2. debt + Worth(tokens) + Pending <= Worth(Burst) + MaxAttempts
  BY DEF SpareInv
<1>3. ASSUME UNCHANGED <<tokens, debt>>, Pending' = Pending PROVE SpareInv'
  BY <1>2, <1>3 DEF SpareInv
<1>4. CASE CallBegins \/ RouteLocally \/ Hit \/ Fail \/ Resolve \/ Accept \/ Prepare
  <2>1. UNCHANGED <<tokens, debt>> /\ call.at # "send" /\ call'.at # "send"
    BY <1>4, BeginShape, RouteShape, HitShape, FailShape, ResolveShape, AcceptShape,
       PrepareShape, NoCallShape DEF Begins, Fail
  <2> QED
    BY <1>3, <2>1 DEF Pending
<1>5. CASE Miss
  <2>1. CASE call'.at = "send" /\ call'.try = 1 /\ tokens >= 1 /\ tokens' = tokens - 1
    <3>1. Pending = 0 /\ Pending' = MaxAttempts /\ debt' = debt
      BY <1>1, <1>5, <2>1, MissShape DEF Pending
    <3>2. Worth(tokens) = Worth(tokens') + MaxAttempts
      BY <1>1, <2>1, TokenWorth
    <3>3. tokens' \in Nat
      BY <1>1, <2>1
    <3>4. Worth(tokens') \in Nat
      BY <3>3, TokenWorth
    <3>5. debt' + Worth(tokens') + Pending' <= Worth(Burst) + MaxAttempts
      BY <1>1, <1>2, <3>1, <3>2, <3>4
    <3> QED
      BY <3>5 DEF SpareInv
  <2>2. CASE call'.at = "received" /\ tokens' = tokens
    BY <1>3, <1>5, <2>2, MissShape DEF Pending
  <2> QED
    BY <1>5, <2>1, <2>2, MissShape
<1>6. CASE Send
  <2>1. call.try \in Nat /\ call.try <= MaxAttempts
    BY <1>6, SendShape DEF TypeInv
  <2>2. debt' = debt + 1 /\ tokens' = tokens
    BY <1>6, SendShape
  <2>3. Pending' \in Nat /\ Pending' + 1 <= Pending
    <3>1. CASE call'.at = "send" /\ call'.try = call.try + 1 /\ call.try < MaxAttempts
      BY <1>1, <1>6, <2>1, <3>1, SendShape DEF Pending
    <3>2. CASE call'.at = "received"
      BY <1>1, <1>6, <2>1, <3>2, SendShape DEF Pending
    <3> QED
      BY <1>6, <3>1, <3>2, SendShape
  <2>4. Worth(tokens') = Worth(tokens)
    BY <2>2
  <2>5. \A p, q \in Nat :
          debt + Worth(tokens) + p <= Worth(Burst) + MaxAttempts /\ q + 1 <= p
            => (debt + 1) + Worth(tokens) + q <= Worth(Burst) + MaxAttempts
    BY <1>1
  <2>6. Pending \in Nat
    BY <1>1
  <2>7. (debt + 1) + Worth(tokens) + Pending' <= Worth(Burst) + MaxAttempts
    BY <1>2, <2>3, <2>5, <2>6
  <2>8. debt' + Worth(tokens') + Pending' <= Worth(Burst) + MaxAttempts
    BY <2>2, <2>4, <2>7
  <2> QED
    BY <2>8 DEF SpareInv
<1>7. CASE Tick
  <2>1. Pending' = Pending /\ debt' = IF debt > MaxAttempts THEN debt - MaxAttempts ELSE 0
    BY <1>7, TickShape DEF Pending
  <2>2. CASE tokens' = tokens + 1 /\ tokens < Burst
    <3>1. /\ Worth(tokens') = Worth(tokens) + MaxAttempts
          /\ Worth(tokens') <= Worth(Burst)
      BY <1>1, <2>2, TokenWorth, Limits
    <3> QED
      BY <1>1, <1>2, <2>1, <3>1 DEF SpareInv
  <2>3. CASE tokens' = tokens
    BY <1>1, <1>2, <2>1, <2>3 DEF SpareInv
  <2> QED
    BY <1>7, <2>2, <2>3, TickShape
<1>8. CASE ProviderChanges \/ UNCHANGED vars
  BY <1>3, <1>8 DEF ProviderChanges, vars, Pending
<1> QED
  BY <1>4, <1>5, <1>6, <1>7, <1>8 DEF Next, Step

-----------------------------------------------------------------------------
(* The chosen candidate *)

LEMMA PickStep ==
  ASSUME TypeInv, PickInv, [Next]_vars
  PROVE  PickInv'
<1> USE DEF environment, agent, PickInv
<1>1. CASE CallBegins
  <2>1. ReceivedInv' /\ CacheInv'
    BY <1>1, BeginShape, NoCallShape DEF Begins, ReceivedInv, CacheInv
  <2>2. ChosenInv'
    BY <1>1, BeginShape, NoCallShape DEF Begins, ChosenInv
  <2>3. PickHonoured'
    BY <1>1, BeginShape, NoCallShape DEF PickHonoured, Described
  <2> QED
    BY <2>1, <2>2, <2>3
<1>2. CASE RouteLocally
  <2>1. ReceivedInv' /\ CacheInv'
    BY <1>2, RouteShape, NoCallShape DEF ReceivedInv, CacheInv
  <2>2. ChosenInv'
    BY <1>2, RouteShape, NoCallShape DEF ChosenInv, Same
  <2>3. PickHonoured'
    BY <1>2, RouteShape DEF PickHonoured, Described
  <2> QED
    BY <2>1, <2>2, <2>3
<1>3. CASE Hit
  <2>1. ReceivedInv' /\ CacheInv'
    BY <1>3, HitShape DEF ReceivedInv, CacheInv, Same
  <2>2. ChosenInv'
    BY <1>3, HitShape DEF ChosenInv, Same
  <2>3. PickHonoured'
    BY <1>3, HitShape DEF PickHonoured
  <2> QED
    BY <2>1, <2>2, <2>3
<1>4. CASE Miss
  <2>1. ReceivedInv' /\ CacheInv'
    BY <1>4, MissShape DEF ReceivedInv, CacheInv
  <2>2. ChosenInv'
    BY <1>4, MissShape DEF ChosenInv, Same
  <2>3. PickHonoured'
    BY <1>4, MissShape DEF PickHonoured
  <2> QED
    BY <2>1, <2>2, <2>3
<1>5. CASE Send
  <2>1. CASE call'.at = "send" /\ UNCHANGED <<cache, relisted>>
    BY <1>5, <2>1, SendShape DEF ReceivedInv, CacheInv, ChosenInv, PickHonoured, Same
  <2>2. CASE /\ call'.at = "received"
             /\ relisted' = (relisted \/ (call.key = Place /\ seen # <<>>))
             /\ \/ Put(call.key, call'.answer)
                \/ cache' = cache /\ ~Succeeds(call'.answer)
    <3>1. call.key \in Keys /\ call'.answer \in Shapes
      BY <1>5, SendShape DEF TypeInv, Calls
    <3>2. ReceivedInv'
      BY <1>5, <2>2, <3>1, SendShape, PutShape DEF ReceivedInv, Same, Succeeds
    <3>3. CacheInv'
      BY <1>5, <2>2, <3>1, SendShape, PutShape DEF CacheInv
    <3>4. ChosenInv' /\ PickHonoured'
      BY <1>5, <2>2, SendShape DEF ChosenInv, PickHonoured, Same
    <3> QED
      BY <3>2, <3>3, <3>4
  <2> QED
    BY <1>5, <2>1, <2>2, SendShape
<1>6. CASE Fail
  BY <1>6, FailShape, NoCallShape
     DEF ReceivedInv, CacheInv, ChosenInv, PickHonoured, Described
<1>7. CASE Resolve
  <2>1. CASE call' = NoCall /\ reply'.status # "ok" /\ UNCHANGED agent
    BY <1>7, <2>1, ResolveShape, NoCallShape
       DEF ReceivedInv, CacheInv, ChosenInv, PickHonoured
  <2>2. CASE /\ call' = NoCall /\ reply'.status # "ok"
             /\ seen' = call.answer.list /\ relisted' = FALSE
    BY <1>7, <2>2, ResolveShape, NoCallShape
       DEF ReceivedInv, CacheInv, ChosenInv, PickHonoured
  <2>3. CASE /\ call'.at = "lookup" /\ call'.tool = call.tool
             /\ call'.index = call.index
             /\ call.index > 0 => call'.key = call.answer.list[call.index]
             /\ UNCHANGED <<reply, agent>>
    <3>1. ~config.redis /\ ~relisted /\ seen # <<>> => call.answer.list = seen
      BY <1>7, ResolveShape DEF ReceivedInv, CacheInv
    <3>2. ChosenInv'
      BY <1>7, <2>3, <3>1, ResolveShape DEF ChosenInv
    <3> QED
      BY <1>7, <2>3, <3>2, ResolveShape DEF ReceivedInv, CacheInv, PickHonoured
  <2> QED
    BY <1>7, <2>1, <2>2, <2>3, ResolveShape
<1>8. CASE Accept
  <2>1. ChosenInv'
    BY <1>8, AcceptShape DEF ChosenInv, Same
  <2> QED
    BY <1>8, <2>1, AcceptShape DEF ReceivedInv, CacheInv, PickHonoured
<1>9. CASE Prepare
  <2>1. PickHonoured'
    BY <1>9, PrepareShape DEF ChosenInv, PickHonoured
  <2> QED
    BY <1>9, <2>1, PrepareShape, NoCallShape DEF ReceivedInv, CacheInv, ChosenInv
<1>10. CASE Tick
  <2>1. ReceivedInv'
    BY <1>10, TickShape DEF ReceivedInv
  <2>2. CacheInv'
    BY <1>10, TickShape DEF CacheInv
  <2> QED
    BY <1>10, <2>1, <2>2, TickShape DEF ChosenInv, PickHonoured
<1>11. CASE ProviderChanges \/ UNCHANGED vars
  BY <1>11 DEF ProviderChanges, vars, ReceivedInv, CacheInv, ChosenInv, PickHonoured
<1> QED
  BY <1>1, <1>2, <1>3, <1>4, <1>5, <1>6, <1>7, <1>8, <1>9, <1>10, <1>11
     DEF Next, Step

-----------------------------------------------------------------------------
MapInv == TypeInv /\ MetaInv /\ SpareInv /\ PickInv

LEMMA MapInit == Init => MapInv
<1> SUFFICES ASSUME Init PROVE MapInv
  OBVIOUS
<1> USE DEF Init
<1>1. TypeInv
  <2>1. tokens \in 0 .. Burst /\ DOMAIN cache = {} /\ debt \in Nat
    BY Limits
  <2>2. <<>> \in Seq(Candidates)
    OBVIOUS
  <2>3. seen \in Seq(Candidates)
    BY <2>2
  <2> QED
    BY <2>1, <2>3, NoCallShape DEF TypeInv
<1>2. MetaInv
  BY NoCallShape DEF MetaInv, MetaTrue
<1>3. SpareInv
  <2>1. Pending = 0 /\ Worth(Burst) \in Nat
    BY NoCallShape, TokenWorth, Limits DEF Pending
  <2> QED
    BY <2>1, Limits DEF SpareInv
<1>4. PickInv
  BY NoCallShape DEF PickInv, ReceivedInv, CacheInv, ChosenInv, PickHonoured, Described
<1> QED
  BY <1>1, <1>2, <1>3, <1>4 DEF MapInv

LEMMA MapAlways == Spec => []MapInv
<1>1. MapInv /\ [Next]_vars => MapInv'
  BY TypeStep, MetaStep, SpareStep, PickStep DEF MapInv
<1> QED
  BY <1>1, MapInit, PTL DEF Spec

-----------------------------------------------------------------------------
\* A success, and a list to choose from, tell how many requests were made for them,
\* and that none was made only when none was, whatever was retried, cached or
\* resolved first.
THEOREM MetaHonest == Spec => []MetaTrue
<1>1. MapInv => MetaTrue
  BY DEF MapInv, MetaInv
<1> QED
  BY <1>1, MapAlways, PTL

\* Retries pass the limiter by, and the provider still gets no more than
\* MaxAttempts requests a tick and a burst of a full bucket and one.
THEOREM Spared == Spec => []ProviderSpared
<1>1. MapInv => ProviderSpared
  <2> SUFFICES ASSUME MapInv PROVE ProviderSpared
    OBVIOUS
  <2>1. /\ tokens \in Nat /\ debt \in Nat /\ Pending \in Nat
        /\ debt + Worth(tokens) + Pending <= Worth(Burst) + MaxAttempts
    BY Limits DEF MapInv, TypeInv, SpareInv, Pending
  <2>2. /\ Worth(tokens) \in Nat
        /\ Worth(Burst) + MaxAttempts = (Burst + 1) * MaxAttempts
        /\ Worth(Burst) + MaxAttempts \in Nat
    BY <2>1, TokenWorth, Limits DEF Worth
  <2>3. debt <= Worth(Burst) + MaxAttempts
    BY <2>1, <2>2
  <2> QED
    BY <2>2, <2>3 DEF ProviderSpared
<1> QED
  BY <1>1, MapAlways, PTL

\* Without Redis, a search by the candidate the agent chose uses it, as long
\* as the place was not asked for again.
THEOREM Honoured == Spec => []PickHonoured
<1>1. MapInv => PickHonoured
  BY DEF MapInv, PickInv
<1> QED
  BY <1>1, MapAlways, PTL

-----------------------------------------------------------------------------
(* What the cache and the call hold *)

\* The answer in hand is one a request can have, and the tries keep to their
\* number.
CallHeld ==
    /\ call.answer \in Answers \cup {NoAnswer}
    /\ call.try \in 0 .. MaxAttempts

\* The memory cache keeps to its size, and entries expire in time.
CacheHeld ==
    /\ IsFiniteSet(DOMAIN cache)
    /\ ~config.redis => Cardinality(DOMAIN cache) <= MaxEntries
    /\ \A k \in DOMAIN cache : cache[k] \in [answer : Answers, left : 0 .. CacheTtl]

HoldInv ==
    /\ config \in Configs
    /\ healthy \in BOOLEAN
    /\ CallHeld
    /\ CacheHeld
    /\ seen \in Lists \cup {<<>>}

LEMMA NoCallHeld ==
    NoCall.answer = NoAnswer /\ NoCall.try = 0 /\ 0 \in 0 .. MaxAttempts
        /\ 1 \in 0 .. MaxAttempts
BY Limits DEF NoCall

\* A call begins with nothing in hand.
LEMMA BeginHeld ==
  ASSUME CallBegins
  PROVE  call'.answer = NoAnswer /\ call'.try \in {0, 1}
<1>1. ASSUME NEW tool, NEW key, NEW index, OnlineCall(tool, key, index)
      PROVE  call'.answer = NoAnswer /\ call'.try = 0
  <2>1. \/ call' = [NoCall EXCEPT !.at = "lookup", !.tool = tool, !.key = key,
                                 !.index = index, !.hit = TRUE]
        \/ call' = NoCall
    BY <1>1 DEF OnlineCall, Begin, Unconfigured, Finish
  <2>2. CASE call' = NoCall
    BY <2>2, NoCallHeld
  <2>3. CASE call' = [NoCall EXCEPT !.at = "lookup", !.tool = tool, !.key = key,
                                    !.index = index, !.hit = TRUE]
    <3>1. call'.answer = NoCall.answer /\ call'.try = NoCall.try
      BY <2>3 DEF NoCall
    <3> QED
      BY <3>1, NoCallHeld
  <2> QED
    BY <2>1, <2>2, <2>3
<1>2. ASSUME NEW wanted \in Wanted, NEW profile \in Profiles, Route(wanted, profile)
      PROVE  call'.answer = NoAnswer /\ call'.try \in {0, 1}
  <2>1. \/ OnlineCall("route", Trip, 0)
        \/ call' = NoCall
        \/ call' = [NoCall EXCEPT !.at = "local", !.tool = "route", !.key = Trip,
                                  !.index = 0,
                                  !.try = IF profile = "driving" THEN 1 ELSE 0]
    BY <1>2 DEF Route, Begin, Unconfigured, Finish
  <2>2. CASE call' = [NoCall EXCEPT !.at = "local", !.tool = "route", !.key = Trip,
                                    !.index = 0,
                                    !.try = IF profile = "driving" THEN 1 ELSE 0]
    <3>1. call'.answer = NoCall.answer /\ call'.try = IF profile = "driving" THEN 1 ELSE 0
      BY <2>2 DEF NoCall
    <3> QED
      BY <3>1, NoCallHeld
  <2> QED
    BY <1>1, <2>1, <2>2, NoCallHeld
<1> QED
  BY <1>1, <1>2 DEF CallBegins, LookUp, SearchByPlace

\* Every step leaves in the call an answer that a request can have.
LEMMA CallHeldStep ==
  ASSUME TypeInv, HoldInv, [Next]_vars
  PROVE  CallHeld'
<1> USE DEF environment, agent
<1> DEFINE A == Answers \cup {NoAnswer}
<1>1. /\ call \in Calls /\ call.answer \in A /\ call.try \in 0 .. MaxAttempts
      /\ MaxAttempts \in Nat
  BY Limits DEF TypeInv, HoldInv, CallHeld
<1>2. CASE CallBegins
  BY <1>2, BeginHeld, NoCallHeld DEF CallHeld
<1>3. CASE call' = NoCall
  BY <1>3, NoCallHeld DEF CallHeld
<1>4. CASE RouteLocally
  <2>1. \/ call' = NoCall
        \/ call' = [[call EXCEPT !.attempts = 1, !.requests = 1] EXCEPT !.at = "prepare"]
    BY <1>4 DEF RouteLocally, Finish
  <2>2. CASE call' = [[call EXCEPT !.attempts = 1, !.requests = 1] EXCEPT !.at = "prepare"]
    <3>1. call'.answer = call.answer /\ call'.try = call.try
      BY <1>1, <2>2 DEF Calls
    <3> QED
      BY <1>1, <3>1 DEF CallHeld
  <2> QED
    BY <1>3, <2>1, <2>2
<1>5. CASE Hit
  <2>1. call'.answer \in Answers
    BY <1>5, HitShape DEF HoldInv, CacheHeld
  <2>2. call'.try = call.try
    BY <1>1, <1>5 DEF Hit, Calls
  <2> QED
    BY <1>1, <2>1, <2>2 DEF CallHeld
<1>6. CASE Miss
  <2>1. \/ call' = [call EXCEPT !.at = "send", !.try = 1, !.hit = FALSE, !.cached = FALSE]
        \/ call' = [call EXCEPT !.at = "received", !.answer = Bad("limited"),
                                !.hit = FALSE, !.cached = FALSE]
    BY <1>6 DEF Miss
  <2>2. Bad("limited") \in Answers
    BY DEF Answers
  <2>3. /\ call'.answer \in {call.answer, Bad("limited")}
        /\ call'.try \in {1, call.try}
    BY <1>1, <2>1 DEF Calls
  <2> QED
    BY <1>1, <2>2, <2>3, NoCallHeld DEF CallHeld
<1>7. CASE Send
  <2>1. PICK answer \in MayAnswer(call.key) :
          LET sent == [call EXCEPT !.requests = @ + 1] IN
          \/ MayRetry(answer) /\ call' = [sent EXCEPT !.try = @ + 1]
          \/ call' = [sent EXCEPT !.at = "received", !.answer = answer,
                                  !.attempts = @ + call.try]
    BY <1>7 DEF Send
  <2>2. answer \in Answers
    BY DEF MayAnswer, Answers, TypeInv
  <2>3. \/ call.try < MaxAttempts /\ call'.try = call.try + 1 /\ call'.answer = call.answer
        \/ call'.try = call.try /\ call'.answer = answer
    BY <1>1, <2>1 DEF Calls, MayRetry
  <2>4. call'.try \in 0 .. MaxAttempts
    BY <1>1, <2>3
  <2> QED
    BY <1>1, <2>2, <2>3, <2>4 DEF CallHeld
<1>8. CASE Fail \/ Prepare
  BY <1>3, <1>8 DEF Fail, Prepare, Finish
<1>9. CASE Resolve \/ Accept
  <2>1. \/ call' = NoCall
        \/ call' = [call EXCEPT !.at = "lookup",
                                !.key = Selected(call.answer.list, call.index)]
        \/ call' = [call EXCEPT !.at = "prepare"]
    BY <1>9 DEF Resolve, Accept, Finish
  <2>2. CASE call' # NoCall
    <3>1. call'.answer = call.answer /\ call'.try = call.try
      BY <1>1, <2>1, <2>2 DEF Calls
    <3> QED
      BY <1>1, <3>1 DEF CallHeld
  <2> QED
    BY <1>3, <2>2
<1>10. CASE Tick \/ ProviderChanges \/ UNCHANGED vars
  BY <1>1, <1>10 DEF Tick, ProviderChanges, vars, CallHeld
<1> QED
  BY <1>2, <1>4, <1>5, <1>6, <1>7, <1>8, <1>9, <1>10 DEF Next, Step

\* An entry is put in the place of another when there is no room.
LEMMA PutHeld ==
  ASSUME CacheHeld, NEW key, NEW answer \in Answers, Put(key, answer), config' = config
  PROVE  CacheHeld'
<1> DEFINE with(kept) == [k \in kept \cup {key} |->
              IF k = key THEN [answer |-> answer, left |-> CacheTtl] ELSE cache[k]]
           entry == [answer |-> answer, left |-> CacheTtl]
           D == DOMAIN cache
<1>1. entry \in [answer : Answers, left : 0 .. CacheTtl]
  BY Limits
<1>2. ASSUME NEW kept \in SUBSET D, cache' = with(kept)
      PROVE  /\ DOMAIN cache' = kept \cup {key}
             /\ \A k \in DOMAIN cache' :
                   cache'[k] \in [answer : Answers, left : 0 .. CacheTtl]
  BY <1>1, <1>2 DEF CacheHeld
<1>3. IsFiniteSet(D) /\ Cardinality(D) \in Nat /\ MaxEntries \in Nat \ {0}
  BY FS_CardinalityType, LimitAssumption DEF CacheHeld
<1>4. ASSUME NEW kept \in SUBSET D
      PROVE  /\ IsFiniteSet(kept \cup {key})
             /\ Cardinality(kept \cup {key})
                  = IF key \in kept THEN Cardinality(kept) ELSE Cardinality(kept) + 1
  <2>1. IsFiniteSet(kept)
    BY <1>3, FS_Subset
  <2> HIDE DEF D
  <2> QED
    BY <2>1, FS_AddElement
<1>5. CASE cache' = cache /\ config.redis
  BY <1>5 DEF CacheHeld
<1>6. CASE cache' = with(D) /\ config.redis
  <2>1. D \in SUBSET D
    OBVIOUS
  <2> QED
    BY <1>2, <1>4, <1>6, <2>1 DEF CacheHeld
<1>7. CASE /\ ~config.redis /\ cache' = with(D)
           /\ key \in D \/ ~(Cardinality(D) >= MaxEntries)
  <2>1. D \in SUBSET D
    OBVIOUS
  <2>2. Cardinality(D) <= MaxEntries
    BY <1>7 DEF CacheHeld
  <2>3. Cardinality(D \cup {key}) <= MaxEntries
    <3>1. Cardinality(D \cup {key}) = IF key \in D THEN Cardinality(D) ELSE Cardinality(D) + 1
      BY <1>4, <2>1
    <3>2. key \in D \/ ~(Cardinality(D) >= MaxEntries)
      BY <1>7
    <3> HIDE DEF D
    <3> QED
      BY <1>3, <2>2, <3>1, <3>2
  <2>4. DOMAIN cache' = D \cup {key} /\ IsFiniteSet(D \cup {key})
    BY <1>2, <1>4, <1>7, <2>1
  <2> HIDE DEF D
  <2> QED
    BY <1>2, <1>7, <2>1, <2>3, <2>4 DEF CacheHeld
<1>8. CASE ~config.redis /\ key \notin D /\ \E first \in D : cache' = with(D \ {first})
  <2>1. PICK first \in D : cache' = with(D \ {first})
    BY <1>8
  <2> DEFINE kept == D \ {first}
  <2>2. kept \in SUBSET D /\ key \notin kept /\ cache' = with(kept)
    BY <1>8, <2>1
  <2>3. Cardinality(kept) = Cardinality(D) - 1
    <3> HIDE DEF D
    <3> QED
      BY <1>3, <2>1, FS_RemoveElement
  <2>4. Cardinality(D) <= MaxEntries
    BY <1>8 DEF CacheHeld
  <2> HIDE DEF kept, D
  <2>5. Cardinality(kept \cup {key}) = Cardinality(kept) + 1 /\ IsFiniteSet(kept \cup {key})
    BY <1>4, <2>2
  <2>6. Cardinality(kept \cup {key}) <= MaxEntries
    BY <1>3, <2>3, <2>4, <2>5
  <2> QED
    BY <1>2, <2>2, <2>5, <2>6 DEF CacheHeld
<1> QED
  BY <1>5, <1>6, <1>7, <1>8 DEF Put

\* Fewer entries, which may be older.
LEMMA FewerHeld ==
  ASSUME CacheHeld, config' = config, DOMAIN cache' \subseteq DOMAIN cache,
         \A k \in DOMAIN cache' : cache'[k] \in [answer : Answers, left : 0 .. CacheTtl]
  PROVE  CacheHeld'
<1>1. IsFiniteSet(DOMAIN cache) /\ Cardinality(DOMAIN cache) \in Nat
  BY FS_CardinalityType DEF CacheHeld
<1>2. /\ IsFiniteSet(DOMAIN cache') /\ Cardinality(DOMAIN cache') \in Nat
      /\ Cardinality(DOMAIN cache') <= Cardinality(DOMAIN cache)
  BY <1>1, FS_Subset, FS_CardinalityType
<1>3. ~config.redis => Cardinality(DOMAIN cache') <= MaxEntries
  BY <1>1, <1>2, LimitAssumption DEF CacheHeld
<1> QED
  BY <1>2, <1>3 DEF CacheHeld

LEMMA CacheHeldStep ==
  ASSUME TypeInv, HoldInv, [Next]_vars
  PROVE  CacheHeld'
<1> USE DEF environment, agent
<1>1. CASE UNCHANGED <<config, cache>>
  BY <1>1 DEF HoldInv, CacheHeld
<1>2. CASE Miss
  BY <1>2, MissShape, FewerHeld DEF HoldInv, CacheHeld
<1>3. CASE Send
  <2>1. config' = config
    BY <1>3 DEF Send
  <2>2. cache' = cache \/ \E answer \in MayAnswer(call.key) : Put(call.key, answer)
    BY <1>3 DEF Send
  <2>3. MayAnswer(call.key) \subseteq Answers
    BY DEF MayAnswer, Answers, TypeInv
  <2> QED
    BY <1>1, <2>1, <2>2, <2>3, PutHeld DEF HoldInv
<1>4. CASE Tick
  <2>1. ASSUME NEW k \in DOMAIN cache'
        PROVE  cache'[k] \in [answer : Answers, left : 0 .. CacheTtl]
    <3>1. k \in DOMAIN cache /\ cache'[k] = [cache[k] EXCEPT !.left = Less(cache[k].left)]
      BY <1>4, <2>1 DEF Tick
    <3>2. cache[k] \in [answer : Answers, left : 0 .. CacheTtl]
      BY <3>1 DEF HoldInv, CacheHeld
    <3>3. Less(cache[k].left) \in 0 .. CacheTtl
      BY <3>2, Limits DEF Less
    <3> QED
      BY <3>1, <3>2, <3>3
  <2> QED
    BY <1>4, <2>1, TickShape, FewerHeld DEF HoldInv
<1>5. CASE CallBegins
  BY <1>1, <1>5, BeginShape
<1>6. CASE RouteLocally \/ Hit \/ Fail \/ Resolve \/ Accept \/ Prepare
  BY <1>1, <1>6 DEF RouteLocally, Hit, Fail, Resolve, Accept, Prepare
<1>7. CASE ProviderChanges \/ UNCHANGED vars
  BY <1>1, <1>7 DEF ProviderChanges, vars
<1> QED
  BY <1>2, <1>3, <1>4, <1>5, <1>6, <1>7 DEF Next, Step

LEMMA HoldStep ==
  ASSUME TypeInv, HoldInv, [Next]_vars
  PROVE  HoldInv'
<1> USE DEF environment, agent
<1>1. config' = config
  <2>1. CASE CallBegins
    BY <2>1, BeginShape
  <2>2. CASE ~CallBegins
    BY <2>2 DEF Next, Step, RouteLocally, Hit, Miss, Send, Fail, Resolve, Accept, Prepare,
       Tick, ProviderChanges, vars
  <2> QED
    BY <2>1, <2>2
<1>2. seen' \in Lists \cup {<<>>}
  <2>1. CASE CallBegins
    BY <2>1, BeginShape DEF HoldInv
  <2>2. CASE Resolve
    <3>1. seen' = seen \/ (call.answer.status = "ok" /\ seen' = call.answer.list)
      BY <2>2 DEF Resolve
    <3>2. call.answer \in Answers \cup {NoAnswer}
      BY DEF HoldInv, CallHeld
    <3>3. call.answer.status = "ok" => call.answer.list \in Lists \cup {<<>>}
      BY <3>2, WorldAssumption DEF Answers, Good, Bad, NoAnswer
    <3> QED
      BY <3>1, <3>3 DEF HoldInv
  <2>3. CASE ~CallBegins /\ ~Resolve
    BY <2>3 DEF Next, Step, RouteLocally, Hit, Miss, Send, Fail, Accept, Prepare,
       Tick, ProviderChanges, vars, HoldInv
  <2> QED
    BY <2>1, <2>2, <2>3
<1>3. healthy' \in BOOLEAN
  <2>1. CASE ProviderChanges
    BY <2>1 DEF ProviderChanges
  <2>2. CASE CallBegins \/ Step \/ Tick \/ UNCHANGED vars
    <3>1. healthy' = healthy
      <4>1. CASE CallBegins
        BY <4>1 DEF CallBegins, LookUp, SearchByPlace, Route, OnlineCall, Begin,
           Unconfigured, environment
      <4>2. CASE Step \/ Tick \/ UNCHANGED vars
        BY <4>2 DEF Step, RouteLocally, Hit, Miss, Send, Fail, Resolve, Accept, Prepare,
           Tick, vars, environment
      <4> QED
        BY <2>2, <4>1, <4>2
    <3>2. healthy \in BOOLEAN
      BY DEF HoldInv
    <3> QED
      BY <3>1, <3>2
  <2> QED
    BY <2>1, <2>2 DEF Next
<1> QED
  BY <1>1, <1>2, <1>3, CallHeldStep, CacheHeldStep DEF HoldInv

LEMMA HoldInit == Init => HoldInv
<1> SUFFICES ASSUME Init PROVE HoldInv
  OBVIOUS
<1>1. DOMAIN cache = {} /\ IsFiniteSet({}) /\ Cardinality({}) = 0
  BY FS_EmptySet DEF Init
<1>2. CacheHeld
  BY <1>1, LimitAssumption DEF CacheHeld
<1>3. CallHeld
  BY NoCallHeld DEF Init, CallHeld
<1> QED
  BY <1>2, <1>3 DEF Init, HoldInv

\* Whatever is asked, fails or expires, the memory cache holds no more entries
\* than GIS_CACHE_MAX_ENTRIES, every entry a possible answer that expires
\* within its time, the bucket no more tokens than its burst, and a request
\* has no more tries than GIS_PROVIDER_MAX_ATTEMPTS.
THEOREM MapTyped == Spec => []TypeOK
<1>1. TypeInv /\ HoldInv => TypeOK
  <2> SUFFICES ASSUME TypeInv, HoldInv PROVE TypeOK
    OBVIOUS
  <2>1. call.at \in {"idle", "lookup", "send", "received", "prepare", "local"}
        /\ call.key \in Keys
    BY DEF TypeInv, Calls
  <2> QED
    BY <2>1 DEF TypeInv, HoldInv, CallHeld, CacheHeld, TypeOK
<1>2. Spec => [](TypeInv /\ HoldInv)
  <2>1. Spec => []TypeInv
    <3>1. MapInv => TypeInv
      BY DEF MapInv
    <3> QED
      BY <3>1, MapAlways, PTL
  <2>2. TypeInv /\ HoldInv /\ [Next]_vars => HoldInv'
    BY HoldStep
  <2> QED
    BY <2>1, <2>2, HoldInit, PTL DEF Spec
<1> QED
  BY <1>1, <1>2, PTL

-----------------------------------------------------------------------------
(* Sets and sequences *)

\* Numbers have a least one.
LEMMA LeastNatural ==
  ASSUME NEW T, T \subseteq Nat, T # {}
  PROVE  \E m \in T : \A y \in T : m <= y
<1> DEFINE Below == {1 .. n : n \in T}
<1>1. \A n \in Nat : 1 .. n \in FiniteSubsetsOf(Nat)
  BY FS_Interval DEF FiniteSubsetsOf
<1>2. Below \subseteq FiniteSubsetsOf(Nat) /\ Below # {}
  BY <1>1
<1>3. IsWellFoundedOn(StrictSubsetOrdering(Nat), FiniteSubsetsOf(Nat))
  BY FS_StrictSubsetOrderingWellFounded
<1>4. PICK M \in Below : \A N \in Below : <<N, M>> \notin StrictSubsetOrdering(Nat)
  <2> HIDE DEF Below
  <2> QED
    BY <1>2, <1>3, WFMin
<1>5. PICK m \in T : M = 1 .. m
  OBVIOUS
<1>6. ASSUME NEW y \in T, y < m PROVE FALSE
  <2>1. 1 .. y \subseteq 1 .. m /\ 1 .. y # 1 .. m
    <3>1. m \in 1 .. m /\ m \notin 1 .. y
      BY <1>6
    <3> QED
      BY <3>1, <1>6
  <2>2. <<1 .. y, 1 .. m>> \in StrictSubsetOrdering(Nat)
    BY <2>1 DEF StrictSubsetOrdering
  <2> QED
    BY <1>4, <1>5, <2>2
<1> HIDE DEF Below
<1>7. \A y \in T : y \in Nat /\ m \in Nat /\ ~(y < m)
  BY <1>6
<1>8. \A y \in T : m <= y
  BY <1>7
<1> QED
  BY <1>8

\* Induction over the natural numbers.
LEMMA NaturalsReached ==
  ASSUME NEW S, 0 \in S, \A n \in Nat : n \in S => n + 1 \in S
  PROVE  Nat \subseteq S
<1> SUFFICES ASSUME Nat \ S # {} PROVE FALSE
  OBVIOUS
<1>1. PICK m \in Nat \ S : \A y \in Nat \ S : m <= y
  BY LeastNatural
<1>2. m - 1 \in Nat /\ m - 1 \in S
  BY <1>1
<1> QED
  BY <1>1, <1>2

-----------------------------------------------------------------------------
(* Sets of numbers in their order *)

Rank(S, n) == Cardinality({m \in S : m <= n})

\* No two members have one rank, so each rank is that of a member.
LEMMA Ranked ==
  ASSUME NEW S, S \subseteq Nat, IsFiniteSet(S)
  PROVE  /\ Cardinality(S) \in Nat
         /\ \A i \in 1..Cardinality(S) : \E n \in S : Rank(S, n) = i
         /\ \A n \in S : Rank(S, n) \in 1..Cardinality(S)
         /\ \A n, m \in S : n # m => Rank(S, n) # Rank(S, m)
<1>1. Cardinality(S) \in Nat
  BY FS_CardinalityType
<1>2. \A n \in S : /\ IsFiniteSet({m \in S : m <= n})
                   /\ Rank(S, n) \in Nat /\ Rank(S, n) <= Cardinality(S)
  <2> TAKE n \in S
  <2> DEFINE B == {m \in S : m <= n}
  <2>1. B \in SUBSET S
    OBVIOUS
  <2> HIDE DEF B
  <2>2. IsFiniteSet(B) /\ Cardinality(B) <= Cardinality(S)
    BY <2>1, FS_Subset
  <2>3. Cardinality(B) \in Nat
    BY <2>2, FS_CardinalityType
  <2> QED
    BY <2>2, <2>3 DEF Rank, B
<1>3. \A n \in S : Rank(S, n) # 0
  <2> TAKE n \in S
  <2>1. n \in {m \in S : m <= n}
    OBVIOUS
  <2>2. IsFiniteSet({m \in S : m <= n})
    BY <1>2
  <2> QED
    BY <2>1, <2>2, FS_EmptySet DEF Rank
<1>4. \A n, m \in S : n < m => Rank(S, n) # Rank(S, m)
  <2> SUFFICES ASSUME NEW n \in S, NEW m \in S, n < m, Rank(S, n) = Rank(S, m) PROVE FALSE
    OBVIOUS
  <2> DEFINE A == {k \in S : k <= n}
             B == {k \in S : k <= m}
  <2>0. n \in Nat /\ m \in Nat
    OBVIOUS
  <2>1. A \in SUBSET B /\ m \in B /\ m \notin A
    <3>1. \A k \in S : k \in Nat /\ (k <= n => k <= m)
      BY <2>0
    <3>2. A \subseteq B
      BY <3>1
    <3>3. m \in B /\ m \notin A
      BY <2>0
    <3> QED
      BY <3>2, <3>3
  <2>2. IsFiniteSet(B) /\ Cardinality(A) = Cardinality(B)
    BY <1>2 DEF Rank
  <2> HIDE DEF A, B
  <2> QED
    BY <2>1, <2>2, FS_Subset
<1>5. \A n, m \in S : n # m => Rank(S, n) # Rank(S, m)
  BY <1>4
<1>6. \A n \in S : Rank(S, n) \in 1..Cardinality(S)
  <2> TAKE n \in S
  <2>1. Rank(S, n) \in Nat /\ Rank(S, n) <= Cardinality(S) /\ Rank(S, n) # 0
    BY <1>2, <1>3
  <2> QED
    BY <1>1, <2>1
<1> DEFINE f == [n \in S |-> Rank(S, n)]
           I == 1..Cardinality(S)
<1>7. IsFiniteSet(I) /\ Cardinality(I) = Cardinality(S)
  BY <1>1, FS_Interval
<1>8. f \in Injection(S, I)
  BY <1>5, <1>6 DEF Injection, IsInjective
<1>9. f \in Surjection(S, I)
  <2> HIDE DEF f, I
  <2> QED
    BY <1>7, <1>8, FS_Injection
<1>10. \A i \in I : \E n \in S : f[n] = i
  BY <1>9 DEF Surjection
<1> QED
  BY <1>1, <1>5, <1>6, <1>10

\* A set in its order names each member once.
LEMMA Ordered ==
  ASSUME NEW S, S \subseteq Nat, IsFiniteSet(S)
  PROVE  /\ InOrder(S) \in Seq(S)
         /\ Len(InOrder(S)) = Cardinality(S)
         /\ Range(InOrder(S)) = S
<1>1. \A i \in 1..Cardinality(S) :
         /\ InOrder(S)[i] = CHOOSE n \in S : Rank(S, n) = i
         /\ InOrder(S)[i] \in S /\ Rank(S, InOrder(S)[i]) = i
  <2> TAKE i \in 1..Cardinality(S)
  <2>1. InOrder(S)[i] = CHOOSE n \in S : Rank(S, n) = i
    BY DEF InOrder, Rank
  <2>2. \E n \in S : Rank(S, n) = i
    BY Ranked
  <2> QED
    BY <2>1, <2>2
<1>2. Cardinality(S) \in Nat
  BY FS_CardinalityType
<1>3. InOrder(S) \in [1..Cardinality(S) -> S]
  BY <1>1 DEF InOrder
<1>4. InOrder(S) \in Seq(S) /\ Len(InOrder(S)) = Cardinality(S)
  BY <1>2, <1>3
<1>5. ASSUME NEW n \in S PROVE n \in Range(InOrder(S))
  <2>1. Rank(S, n) \in 1..Cardinality(S)
    BY Ranked
  <2>2. InOrder(S)[Rank(S, n)] = n
    BY <1>1, <2>1, Ranked, ZenonT(30)
  <2> QED
    BY <2>1, <2>2, <1>3 DEF Range
<1>6. Range(InOrder(S)) \subseteq S
  BY <1>3 DEF Range
<1> QED
  BY <1>4, <1>5, <1>6

-----------------------------------------------------------------------------
(* The arrays of a network *)

\* What a graph that is accepted is made of.
LEMMA Validated ==
  ASSUME NEW g, Validate(g)
  PROVE  /\ Cardinality(g.nodes) \in Nat /\ Cardinality(g.edges) \in Nat
         /\ g.nodes = 0..(Cardinality(g.nodes) - 1)
         /\ g.edges = 0..(Cardinality(g.edges) - 1)
         /\ g.nodes \subseteq Nat /\ g.edges \subseteq Nat
         /\ IsFiniteSet(g.nodes) /\ IsFiniteSet(g.edges)
         /\ g.position \in [g.nodes -> Int \X Int]
         /\ g.target \in [g.edges -> g.nodes]
         /\ g.distance \in [g.edges -> Nat] /\ g.duration \in [g.edges -> Nat]
         /\ g.offsets \in [0..Cardinality(g.nodes) -> Nat]
         /\ g.offsets[0] = 0
         /\ g.offsets[Cardinality(g.nodes)] = Cardinality(g.edges)
         /\ \A node \in g.nodes : g.offsets[node] <= g.offsets[node + 1]
<1> DEFINE N == Cardinality(g.nodes)
           M == Cardinality(g.edges)
<1>1. N \in Nat /\ M \in Nat /\ g.nodes = 0..(N - 1) /\ g.edges = 0..(M - 1)
  BY DEF Validate
<1>2. IsFiniteSet(0..(N - 1)) /\ IsFiniteSet(0..(M - 1))
  BY <1>1, FS_Interval
<1>3. g.nodes \subseteq Nat /\ g.edges \subseteq Nat
  <2> HIDE DEF N, M
  <2> QED
    BY <1>1
<1>4. IsFiniteSet(g.nodes) /\ IsFiniteSet(g.edges)
  BY <1>1, <1>2
<1> QED
  BY <1>1, <1>3, <1>4 DEF Validate

\* Offsets ascend over any distance.
LEMMA Ascending ==
  ASSUME NEW g, Validate(g), NEW i \in 0..Cardinality(g.nodes),
         NEW j \in 0..Cardinality(g.nodes), i <= j
  PROVE  g.offsets[i] <= g.offsets[j]
<1> DEFINE N == Cardinality(g.nodes)
           S == {d \in Nat : i + d <= N => g.offsets[i] <= g.offsets[i + d]}
<1>1. N \in Nat /\ g.nodes = 0..(N - 1) /\ g.offsets \in [0..N -> Nat]
  BY Validated
<1>2. \A node \in 0..(N - 1) : g.offsets[node] <= g.offsets[node + 1]
  BY Validated
<1> HIDE DEF N
<1>3. 0 \in S
  BY <1>1 DEF N
<1>4. ASSUME NEW d \in Nat, d \in S PROVE d + 1 \in S
  <2>1. CASE i + (d + 1) <= N
    <3>1. i + d \in 0..(N - 1) /\ i + d \in 0..N /\ i \in 0..N /\ i + (d + 1) \in 0..N
      BY <2>1, <1>1 DEF N
    <3>2. g.offsets[i] <= g.offsets[i + d]
      BY <1>4, <3>1
    <3>3. g.offsets[i + d] <= g.offsets[i + (d + 1)]
      BY <1>2, <3>1
    <3>4. g.offsets[i] \in Nat /\ g.offsets[i + d] \in Nat /\ g.offsets[i + (d + 1)] \in Nat
      BY <1>1, <3>1
    <3>5. g.offsets[i] <= g.offsets[i + (d + 1)]
      BY <3>2, <3>3, <3>4
    <3> QED
      BY <3>5
  <2>2. CASE ~(i + (d + 1) <= N)
    BY <2>2
  <2> QED
    BY <2>1, <2>2
<1>5. Nat \subseteq S
  <2> HIDE DEF S
  <2> QED
    BY <1>3, <1>4, NaturalsReached
<1>6. j - i \in Nat /\ i + (j - i) = j /\ j <= N
  BY <1>1 DEF N
<1>7. j - i \in S
  BY <1>5, <1>6
<1> QED
  BY <1>6, <1>7

\* EdgeSource is the node between whose offsets the edge is, and only that.
LEMMA SourceIs ==
  ASSUME NEW g, Validate(g), NEW e \in g.edges
  PROVE  /\ EdgeSource(g, e) \in g.nodes
         /\ g.offsets[EdgeSource(g, e)] <= e /\ e < g.offsets[EdgeSource(g, e) + 1]
         /\ \A n \in g.nodes :
               g.offsets[n] <= e /\ e < g.offsets[n + 1] => n = EdgeSource(g, e)
<1> DEFINE N == Cardinality(g.nodes)
           T == {n \in 0..N : e < g.offsets[n]}
<1>1. /\ N \in Nat /\ g.nodes = 0..(N - 1) /\ g.offsets \in [0..N -> Nat] /\ e \in Nat
      /\ g.offsets[0] = 0 /\ e < g.offsets[N]
  BY Validated
<1>2. \A i, j \in 0..N : i <= j => g.offsets[i] <= g.offsets[j]
  BY Ascending
<1> HIDE DEF N
<1>3. T \subseteq Nat /\ N \in T
  BY <1>1
<1>4. PICK m \in T : \A y \in T : m <= y
  <2> HIDE DEF T
  <2> QED
    BY <1>3, LeastNatural
<1>5. m \in 1..N /\ e < g.offsets[m]
  BY <1>1, <1>4
<1>6. {n \in DOMAIN g.offsets : g.offsets[n] <= e} = 0..(m - 1)
  <2>1. \A n \in 0..N : g.offsets[n] <= e <=> n < m
    <3> TAKE n \in 0..N
    <3>0. n \in Int /\ m \in 0..N /\ m \in Int /\ g.offsets[n] \in Nat /\ g.offsets[m] \in Nat
      BY <1>1, <1>5
    <3>1. n < m => n \notin T
      BY <1>4, <3>0
    <3>2. ~(n < m) => g.offsets[m] <= g.offsets[n]
      BY <1>2, <3>0
    <3> QED
      BY <1>1, <1>5, <3>0, <3>1, <3>2
  <2>2. DOMAIN g.offsets = 0..N
    BY <1>1
  <2>3. \A n : n \in 0..(m - 1) <=> n \in 0..N /\ n < m
    BY <1>1, <1>5
  <2> QED
    BY <2>1, <2>2, <2>3
<1>7. Cardinality(0..(m - 1)) = m
  BY <1>5, FS_Interval
<1>8. EdgeSource(g, e) = m - 1
  BY <1>5, <1>6, <1>7 DEF EdgeSource
<1>9. m - 1 \in g.nodes /\ (m - 1) + 1 = m /\ m - 1 \in 0..N
  BY <1>1, <1>5
<1>10. g.offsets[m - 1] <= e
  BY <1>6, <1>5
<1>11. ASSUME NEW n \in g.nodes, g.offsets[n] <= e, e < g.offsets[n + 1]
       PROVE  n = m - 1
  <2>1. n \in 0..N /\ n + 1 \in 0..N /\ n \in Int
    BY <1>1
  <2>2. n + 1 \in T
    BY <2>1, <1>11
  <2>3. m <= n + 1
    BY <2>2, <1>4
  <2>4. n \in 0..(m - 1)
    BY <1>6, <2>1, <1>11, <1>1
  <2> QED
    BY <2>1, <2>3, <2>4, <1>5
<1> QED
  BY <1>5, <1>8, <1>9, <1>10, <1>11

\* The edges out of a node are those it is the source of.
LEMMA OutgoingAre ==
  ASSUME NEW g, Validate(g), NEW n \in g.nodes
  PROVE  /\ Outgoing(g, n) \in Seq(g.edges)
         /\ Range(Outgoing(g, n)) = {e \in g.edges : EdgeSource(g, e) = n}
<1> DEFINE a == g.offsets[n]
           b == g.offsets[n + 1]
           S == a..(b - 1)
           N == Cardinality(g.nodes)
           M == Cardinality(g.edges)
<1>1. /\ N \in Nat /\ M \in Nat /\ g.nodes = 0..(N - 1) /\ g.edges = 0..(M - 1)
      /\ g.offsets \in [0..N -> Nat] /\ g.offsets[N] = M
  BY Validated
<1> HIDE DEF N, M
<1>2. n \in 0..N /\ n + 1 \in 0..N /\ N \in 0..N /\ n + 1 <= N
  BY <1>1
<1>3. a \in Nat /\ b \in Nat /\ b <= M
  BY <1>1, <1>2, Ascending DEF N
<1>10. \A e \in g.edges : g.offsets[n] <= e /\ e < g.offsets[n + 1] => n = EdgeSource(g, e)
  BY SourceIs
<1>11. \A e \in g.edges : EdgeSource(g, e) = n => a <= e /\ e < b
  BY SourceIs
<1>12. \A e \in g.edges : a <= e /\ e < b => n = EdgeSource(g, e)
  BY <1>10
<1>13. Outgoing(g, n) = InOrder(S)
  BY DEF Outgoing
<1> HIDE DEF a, b
<1>4. S \in SUBSET g.edges /\ S \subseteq Nat /\ IsFiniteSet(S)
  <2>1. \A e \in S : e \in Nat /\ e <= M - 1
    BY <1>3, <1>1
  <2>2. S \subseteq 0..(M - 1) /\ S \subseteq Nat
    BY <2>1, <1>1
  <2>3. IsFiniteSet(S)
    BY <1>3, FS_Interval
  <2> QED
    BY <1>1, <2>2, <2>3
<1>5. \A e \in g.edges : e \in S <=> EdgeSource(g, e) = n
  <2> TAKE e \in g.edges
  <2>1. e \in S <=> a <= e /\ e < b
    BY <1>1, <1>3
  <2> HIDE DEF S
  <2> QED
    BY <2>1, <1>11, <1>12
<1>6. InOrder(S) \in Seq(S) /\ Range(InOrder(S)) = S
  <2> HIDE DEF S
  <2> QED
    BY <1>4, Ordered
<1>8. InOrder(S) \in Seq(g.edges)
  <2>1. S \in SUBSET g.edges
    BY <1>4
  <2> HIDE DEF S
  <2> QED
    BY <2>1, <1>6
<1>9. S = {e \in g.edges : EdgeSource(g, e) = n}
  <2> HIDE DEF S
  <2> QED
    BY <1>4, <1>5
<1> HIDE DEF S
<1> QED
  BY <1>6, <1>13, <1>8, <1>9

\* The edges into a node are all of them.
LEMMA IncomingAre ==
  ASSUME NEW g, Validate(g), NEW n \in g.nodes
  PROVE  /\ Incoming(g, n) \in Seq(g.edges)
         /\ Range(Incoming(g, n)) = {e \in g.edges : g.target[e] = n}
<1> DEFINE S == {e \in g.edges : g.target[e] = n}
<1>1. S \in SUBSET g.edges /\ g.edges \subseteq Nat /\ IsFiniteSet(g.edges)
  BY Validated
<1>2. Incoming(g, n) = InOrder(S)
  BY DEF Incoming
<1> HIDE DEF S
<1>3. IsFiniteSet(S) /\ S \subseteq Nat
  BY <1>1, FS_Subset
<1>4. InOrder(S) \in Seq(S) /\ Range(InOrder(S)) = S
  BY <1>3, Ordered
<1>5. InOrder(S) \in Seq(g.edges)
  BY <1>1, <1>4
<1> QED
  BY <1>2, <1>4, <1>5 DEF S

-----------------------------------------------------------------------------
(* A search from one side.  A view is what it sees of the network: edges    *)
(* that lead from a near node to a far one, weights and estimates, and the  *)
(* node it began with.  c is the cost of each node, q the queue.            *)

ViewOK(v) ==
    /\ IsFiniteSet(v.nodes) /\ v.edges \subseteq Nat
    /\ v.near \in [v.edges -> v.nodes] /\ v.far \in [v.edges -> v.nodes]
    /\ v.weight \in [v.edges -> Nat]
    /\ v.h \in [v.nodes -> Nat]
    /\ v.root \in v.nodes
    /\ \A e \in v.edges : v.h[v.near[e]] <= v.weight[e] + v.h[v.far[e]]

\* The nodes that were reached and are not waiting with the cost they have:
\* those that were expanded.
Closed(v, c, q) == {n \in v.nodes : c[n] < Infinite /\ <<c[n] + v.h[n], n>> \notin q}

\* No entry is less than what its node costs now, and none is less than an
\* expanded node was.
Steady(v, c, q) ==
    /\ c \in [v.nodes -> 0..Infinite]
    /\ q \subseteq Nat \X v.nodes
    /\ \A entry \in q : c[entry[2]] < Infinite /\ c[entry[2]] + v.h[entry[2]] <= entry[1]
    /\ \A n \in Closed(v, c, q), entry \in q : c[n] + v.h[n] <= entry[1]

\* x is the node expanded last.
Latest(v, c, q, x) ==
    /\ x \in Closed(v, c, q)
    /\ \A n \in Closed(v, c, q) : c[n] + v.h[n] <= c[x] + v.h[x]
    /\ \A entry \in q : c[x] + v.h[x] <= entry[1]

\* What stands for no cost is more than nothing.
LEMMA InfiniteNat == Infinite \in Nat /\ 0 < Infinite
BY GridAssumption

\* The first entry of a queue.
LEMMA TopIs ==
  ASSUME NEW N, N \subseteq Nat, NEW q, q \subseteq Nat \X N, q # {}
  PROVE  /\ Top(q) \in q
         /\ \A entry \in q : Top(q)[1] <= entry[1]
<1> DEFINE T == {entry[1] : entry \in q}
<1>1. T \subseteq Nat /\ T # {}
  OBVIOUS
<1>2. PICK a \in T : \A y \in T : a <= y
  <2> HIDE DEF T
  <2> QED
    BY <1>1, LeastNatural
<1> DEFINE U == {n \in N : <<a, n>> \in q}
<1>3. U \subseteq Nat /\ U # {}
  <2>1. PICK entry \in q : entry[1] = a
    OBVIOUS
  <2>2. entry = <<a, entry[2]>> /\ entry[2] \in N
    BY <2>1
  <2> QED
    BY <2>2
<1>4. PICK b \in U : \A y \in U : b <= y
  <2> HIDE DEF U
  <2> QED
    BY <1>3, LeastNatural
<1>5. <<a, b>> \in q
  OBVIOUS
<1>6. \A other \in q : a < other[1] \/ (a = other[1] /\ b <= other[2])
  <2> TAKE other \in q
  <2>1. other = <<other[1], other[2]>> /\ other[1] \in Nat /\ other[2] \in N /\ a \in Nat
    BY <1>1
  <2>2. a <= other[1]
    BY <1>2
  <2>3. a = other[1] => b <= other[2]
    BY <2>1, <1>4
  <2> QED
    BY <2>1, <2>2, <2>3
<1> DEFINE First(entry) == \A other \in q :
               \/ entry[1] < other[1]
               \/ entry[1] = other[1] /\ entry[2] <= other[2]
<1>7. First(<<a, b>>)
  BY <1>6
<1>8. Top(q) = CHOOSE entry \in q : First(entry)
  BY DEF Top
<1>9. Top(q) \in q /\ First(Top(q))
  <2> HIDE DEF First
  <2> QED
    BY <1>5, <1>7, <1>8
<1>10. \A entry \in q : Top(q)[1] <= entry[1]
  <2> TAKE other \in q
  <2>1. Top(q)[1] \in Nat /\ other[1] \in Nat
    BY <1>9
  <2> QED
    BY <1>9, <2>1
<1> QED
  BY <1>9, <1>10

\* The queue and the node whose cost the search began with.
LEMMA SteadyFirst ==
  ASSUME NEW v, ViewOK(v)
  PROVE  LET c == [node \in v.nodes |-> IF node = v.root THEN 0 ELSE Infinite]
             q == {<<v.h[v.root], v.root>>}
         IN  Steady(v, c, q) /\ Closed(v, c, q) = {}
<1> DEFINE c == [node \in v.nodes |-> IF node = v.root THEN 0 ELSE Infinite]
           q == {<<v.h[v.root], v.root>>}
<1>1. /\ v.root \in v.nodes /\ v.h[v.root] \in Nat
      /\ c \in [v.nodes -> 0..Infinite] /\ c[v.root] = 0
      /\ \A n \in v.nodes : n # v.root => c[n] = Infinite
      /\ 0 < Infinite
  BY InfiniteNat DEF ViewOK
<1>2. Closed(v, c, q) = {}
  <2> SUFFICES ASSUME NEW n \in Closed(v, c, q) PROVE FALSE
    OBVIOUS
  <2>1. n \in v.nodes /\ c[n] < Infinite /\ <<c[n] + v.h[n], n>> \notin q
    BY DEF Closed
  <2>2. n = v.root
    BY <1>1, <2>1, InfiniteNat
  <2> QED
    BY <1>1, <2>1, <2>2
<1>3. q \subseteq Nat \X v.nodes
  BY <1>1
<1>4. \A entry \in q : entry[1] = v.h[v.root] /\ entry[2] = v.root
  OBVIOUS
<1> HIDE DEF c, q
<1>5. \A entry \in q : c[entry[2]] < Infinite /\ c[entry[2]] + v.h[entry[2]] <= entry[1]
  BY <1>1, <1>4
<1>6. Steady(v, c, q)
  BY <1>1, <1>2, <1>3, <1>5 DEF Steady
<1> QED
  BY <1>2, <1>6 DEF c, q

\* Discarding an entry whose node costs less now.
LEMMA SteadyStale ==
  ASSUME NEW v, ViewOK(v), NEW c, NEW q, Steady(v, c, q),
         NEW entry \in q, c[entry[2]] + v.h[entry[2]] # entry[1]
  PROVE  Steady(v, c, q \ {entry}) /\ Closed(v, c, q \ {entry}) = Closed(v, c, q)
<1>1. Closed(v, c, q \ {entry}) = Closed(v, c, q)
  <2>1. \A n : <<c[n] + v.h[n], n>> # entry
    OBVIOUS
  <2> QED
    BY <2>1 DEF Closed
<1> QED
  BY <1>1 DEF Steady

\* Taking the first entry to expand its node.
LEMMA SteadyPop ==
  ASSUME NEW v, ViewOK(v), NEW c, NEW q, Steady(v, c, q),
         NEW entry \in q, \A other \in q : entry[1] <= other[1],
         ~(entry[1] > c[entry[2]] + v.h[entry[2]])
  PROVE  LET x == entry[2]
         IN  /\ Steady(v, c, q \ {entry})
             /\ Closed(v, c, q \ {entry}) = Closed(v, c, q) \cup {x}
             /\ x \notin Closed(v, c, q)
             /\ Latest(v, c, q \ {entry}, x)
<1> DEFINE x == entry[2]
           r == q \ {entry}
<1>1. entry = <<entry[1], x>> /\ entry[1] \in Nat /\ x \in v.nodes
  BY DEF Steady
<1>2. c[x] < Infinite /\ c[x] + v.h[x] <= entry[1]
  BY DEF Steady
<1>3. c[x] \in 0..Infinite /\ v.h[x] \in Nat
  BY <1>1 DEF Steady, ViewOK
<1>4. entry[1] = c[x] + v.h[x]
  BY <1>1, <1>2, <1>3, InfiniteNat
<1>5. entry = <<c[x] + v.h[x], x>>
  BY <1>1, <1>4
<1>6. x \notin Closed(v, c, q)
  BY <1>5 DEF Closed
<1>7. Closed(v, c, r) = Closed(v, c, q) \cup {x}
  <2>1. x \in Closed(v, c, r)
    BY <1>1, <1>2, <1>5 DEF Closed
  <2>2. \A n \in v.nodes : n # x => (n \in Closed(v, c, r) <=> n \in Closed(v, c, q))
    <3> TAKE n \in v.nodes
    <3>1. n # x => <<c[n] + v.h[n], n>> # entry
      BY <1>1
    <3> QED
      BY <3>1 DEF Closed
  <2>3. Closed(v, c, r) \subseteq v.nodes /\ Closed(v, c, q) \subseteq v.nodes
    BY DEF Closed
  <2> HIDE DEF x, r
  <2> QED
    BY <2>1, <2>2, <2>3
<1>8. \A n \in Closed(v, c, q) : c[n] + v.h[n] <= c[x] + v.h[x]
  BY <1>4 DEF Steady
<1>9. \A other \in r : c[x] + v.h[x] <= other[1]
  BY <1>4
<1>10. \A n \in Closed(v, c, r), other \in r : c[n] + v.h[n] <= other[1]
  <2> TAKE n \in Closed(v, c, r), other \in r
  <2>1. CASE n = x
    BY <2>1, <1>9
  <2>2. CASE n # x
    BY <2>2, <1>7 DEF Steady
  <2> QED
    BY <2>1, <2>2
<1>11. \A n \in Closed(v, c, r) : c[n] + v.h[n] <= c[x] + v.h[x]
  <2> TAKE n \in Closed(v, c, r)
  <2>1. CASE n = x
    BY <2>1, <1>3
  <2>2. CASE n # x
    BY <2>2, <1>7, <1>8
  <2> QED
    BY <2>1, <2>2
<1>12. Steady(v, c, r)
  BY <1>10 DEF Steady
<1>13. Latest(v, c, r, x)
  BY <1>7, <1>9, <1>11 DEF Latest
<1> QED
  BY <1>6, <1>7, <1>12, <1>13

\* An edge out of the node being expanded changes nothing about expanded nodes.
LEMMA SteadyRelax ==
  ASSUME NEW v, ViewOK(v), NEW c, NEW q, Steady(v, c, q),
         NEW x, Latest(v, c, q, x),
         NEW e \in v.edges, v.near[e] = x, c[x] + v.weight[e] < c[v.far[e]]
  PROVE  LET next == v.far[e]
             cost == c[x] + v.weight[e]
             c2 == [c EXCEPT ![next] = cost]
             q2 == q \cup {<<cost + v.h[next], next>>}
         IN  /\ next \notin Closed(v, c, q)
             /\ Steady(v, c2, q2)
             /\ Closed(v, c2, q2) = Closed(v, c, q)
             /\ Latest(v, c2, q2, x)
             /\ c2[x] = c[x]
<1> DEFINE next == v.far[e]
           w == v.weight[e]
           cost == c[x] + w
           c2 == [c EXCEPT ![next] = cost]
           new == <<cost + v.h[next], next>>
           q2 == q \cup {new}
<1>1. /\ x \in v.nodes /\ next \in v.nodes /\ w \in Nat
      /\ c[x] \in 0..Infinite /\ c[next] \in 0..Infinite
      /\ v.h[x] \in Nat /\ v.h[next] \in Nat /\ v.h[x] <= w + v.h[next]
  BY DEF ViewOK, Steady, Latest, Closed
<1>2. cost < c[next]
  OBVIOUS
<1>3. cost \in 0..Infinite /\ cost < Infinite /\ cost \in Nat
  BY <1>1, <1>2, InfiniteNat
<1>4. next \notin Closed(v, c, q)
  <2> SUFFICES ASSUME next \in Closed(v, c, q) PROVE FALSE
    OBVIOUS
  <2>1. c[next] + v.h[next] <= c[x] + v.h[x]
    BY DEF Latest
  <2> QED
    BY <2>1, <1>1, <1>2, InfiniteNat
<1>5. x # next
  BY <1>4 DEF Latest
<1>6. /\ c \in [v.nodes -> 0..Infinite]
      /\ \A n \in v.nodes : n # next => c2[n] = c[n]
      /\ c2[next] = cost /\ c2[x] = c[x]
      /\ c2 \in [v.nodes -> 0..Infinite]
  BY <1>1, <1>3, <1>5 DEF Steady
<1>7. q \subseteq Nat \X v.nodes
  BY DEF Steady
<1>8. new[1] = cost + v.h[next] /\ new[2] = next /\ new \in Nat \X v.nodes
  BY <1>1, <1>3
<1> HIDE DEF c2, new
<1>9. Closed(v, c2, q2) = Closed(v, c, q)
  <2>1. next \notin Closed(v, c2, q2)
    BY <1>6 DEF Closed, new
  <2>2. \A n \in v.nodes : n # next => (n \in Closed(v, c2, q2) <=> n \in Closed(v, c, q))
    BY <1>6, <1>8 DEF Closed
  <2>3. Closed(v, c2, q2) \subseteq v.nodes /\ Closed(v, c, q) \subseteq v.nodes
    BY DEF Closed
  <2> QED
    BY <2>1, <2>2, <2>3, <1>4
<1>10. c[x] + v.h[x] <= new[1]
  BY <1>1, <1>3, <1>8, InfiniteNat
<1>11. \A n \in Closed(v, c, q) : n \in v.nodes /\ c2[n] = c[n] /\ c[n] + v.h[n] <= c[x] + v.h[x]
  BY <1>4, <1>6 DEF Latest, Closed
<1>12. \A entry \in q : c[x] + v.h[x] <= entry[1]
  BY DEF Latest
<1>13. \A n \in Closed(v, c2, q2), entry \in q2 : c2[n] + v.h[n] <= entry[1]
  <2> TAKE n \in Closed(v, c2, q2), entry \in q2
  <2>1. CASE entry = new
    <3>1. n \in v.nodes /\ c2[n] = c[n] /\ c[n] \in 0..Infinite /\ v.h[n] \in Nat
      BY <1>9, <1>11 DEF Steady, ViewOK
    <3>2. c[n] + v.h[n] <= c[x] + v.h[x]
      BY <1>9, <1>11
    <3>3. new[1] \in Nat
      BY <1>8
    <3> QED
      BY <3>1, <3>2, <3>3, <2>1, <1>1, <1>10, InfiniteNat
  <2>2. CASE entry # new
    BY <2>2, <1>9, <1>11 DEF Steady
  <2> QED
    BY <2>1, <2>2
<1>14. \A entry \in q2 : c2[entry[2]] < Infinite /\ c2[entry[2]] + v.h[entry[2]] <= entry[1]
  <2> TAKE entry \in q2
  <2>1. CASE entry = new
    BY <2>1, <1>1, <1>3, <1>6, <1>8
  <2>2. CASE entry # new
    <3> DEFINE n == entry[2]
    <3>1. entry \in q /\ n \in v.nodes /\ entry[1] \in Nat
      BY <2>2, <1>7
    <3>2. c[n] < Infinite /\ c[n] + v.h[n] <= entry[1]
      BY <3>1 DEF Steady
    <3>3. c[n] \in 0..Infinite /\ v.h[n] \in Nat
      BY <3>1 DEF Steady, ViewOK
    <3> HIDE DEF n
    <3>4. c2[n] <= c[n] /\ c2[n] \in Nat
      BY <3>1, <3>3, <1>1, <1>2, <1>3, <1>6, InfiniteNat
    <3>5. c2[n] < Infinite /\ c2[n] + v.h[n] <= entry[1]
      BY <3>1, <3>2, <3>3, <3>4, InfiniteNat
    <3> QED
      BY <3>5 DEF n
  <2> QED
    BY <2>1, <2>2
<1>15. q2 \subseteq Nat \X v.nodes
  BY <1>7, <1>8
<1>16. Steady(v, c2, q2)
  BY <1>6, <1>13, <1>14, <1>15 DEF Steady
<1>17. \A n \in Closed(v, c2, q2) : c2[n] + v.h[n] <= c2[x] + v.h[x]
  BY <1>6, <1>9, <1>11
<1>18. \A entry \in q2 : c2[x] + v.h[x] <= entry[1]
  BY <1>6, <1>10, <1>12
<1>19. x \in Closed(v, c2, q2)
  BY <1>9 DEF Latest
<1>20. Latest(v, c2, q2, x)
  BY <1>17, <1>18, <1>19 DEF Latest
<1> QED
  BY <1>4, <1>6, <1>9, <1>16, <1>20 DEF c2, new

-----------------------------------------------------------------------------
(* Loops that carry a value from one round to the next *)

IsLoop(T, first, n, round) == first \in T /\ n \in Nat /\ round \in [1..n -> [T -> T]]

\* A loop has a value after each round.
LEMMA LoopRuns ==
  ASSUME NEW T, NEW first, NEW n, NEW round, IsLoop(T, first, n, round)
  PROVE  \E f \in [0..n -> T] : f[0] = first /\ \A k \in 1..n : f[k] = round[k][f[k - 1]]
<1>0. first \in T /\ n \in Nat /\ round \in [1..n -> [T -> T]]
  BY DEF IsLoop
<1> DEFINE Runs(m, f) == f[0] = first /\ \A k \in 1..m : f[k] = round[k][f[k - 1]]
           S == {m \in Nat : m <= n => \E f \in [0..m -> T] : Runs(m, f)}
<1>1. 0 \in S
  <2> DEFINE f == [k \in 0..0 |-> first]
  <2>1. f \in [0..0 -> T] /\ f[0] = first
    BY <1>0
  <2>2. Runs(0, f)
    BY <2>1
  <2> HIDE DEF f
  <2> QED
    BY <2>1, <2>2
<1>2. ASSUME NEW m \in Nat, m \in S PROVE m + 1 \in S
  <2> SUFFICES ASSUME m + 1 <= n PROVE \E f \in [0..(m + 1) -> T] : Runs(m + 1, f)
    OBVIOUS
  <2>1. PICK f \in [0..m -> T] : Runs(m, f)
    BY <1>0, <1>2
  <2> DEFINE g == [k \in 0..(m + 1) |-> IF k = m + 1 THEN round[k][f[m]] ELSE f[k]]
  <2>2. f[m] \in T /\ m + 1 \in 1..n
    BY <1>0
  <2>3. round[m + 1][f[m]] \in T
    BY <1>0, <2>2
  <2>4. g \in [0..(m + 1) -> T]
    BY <2>3
  <2>5. /\ g[0] = f[0] /\ g[m + 1] = round[m + 1][f[m]] /\ g[m] = f[m]
        /\ \A k \in 1..m : g[k] = f[k] /\ g[k - 1] = f[k - 1]
    OBVIOUS
  <2> HIDE DEF g
  <2>6. \A k \in 1..(m + 1) : g[k] = round[k][g[k - 1]]
    <3> TAKE k \in 1..(m + 1)
    <3>1. CASE k = m + 1
      BY <3>1, <2>5
    <3>2. CASE k # m + 1
      <4>1. k \in 1..m
        BY <3>2
      <4> QED
        BY <4>1, <2>1, <2>5
    <3> QED
      BY <3>1, <3>2
  <2> QED
    BY <2>1, <2>4, <2>5, <2>6
<1>3. Nat \subseteq S
  <2> HIDE DEF S
  <2> QED
    BY <1>1, <1>2, NaturalsReached
<1>4. n \in S
  BY <1>0, <1>3
<1> QED
  BY <1>0, <1>4

\* The running sums of a path.
Sums(values, path, F) ==
    /\ F \in [0..Len(path) -> Nat]
    /\ F[0] = 0
    /\ \A k \in 1..Len(path) : F[k] = F[k - 1] + values[path[k]]

\* A total is what adding edge by edge comes to.
LEMMA TotalIs ==
  ASSUME NEW E, NEW values \in [E -> Nat], NEW path \in Seq(E)
  PROVE  \E F : Sums(values, path, F) /\ Total(values, path) = F[Len(path)]
<1> DEFINE n == Len(path)
           Rec(F) == F = [k \in 0..n |-> IF k = 0 THEN 0 ELSE F[k - 1] + values[path[k]]]
           round == [k \in 1..n |-> [t \in Nat |-> t + values[path[k]]]]
<1>1. n \in Nat /\ \A k \in 1..n : path[k] \in E /\ values[path[k]] \in Nat
  BY LenProperties
<1>2. round \in [1..n -> [Nat -> Nat]]
  <2> HIDE DEF n
  <2> QED
    BY <1>1
<1>3. PICK F \in [0..n -> Nat] : F[0] = 0 /\ \A k \in 1..n : F[k] = round[k][F[k - 1]]
  <2>1. IsLoop(Nat, 0, n, round)
    <3> HIDE DEF n, round
    <3> QED
      BY <1>1, <1>2 DEF IsLoop
  <2> HIDE DEF n, round
  <2> QED
    BY <2>1, LoopRuns
<1>4. \A k \in 1..n : F[k] = F[k - 1] + values[path[k]]
  <2> TAKE k \in 1..n
  <2>1. F[k - 1] \in Nat
    <3> HIDE DEF n
    <3> QED
      BY <1>1
  <2> QED
    BY <1>3, <2>1
<1>5. Rec(F)
  <2> HIDE DEF n
  <2>1. \A k \in 0..n : F[k] = IF k = 0 THEN 0 ELSE F[k - 1] + values[path[k]]
    BY <1>1, <1>3, <1>4
  <2> QED
    BY <2>1
<1>6. Rec(CHOOSE G : Rec(G))
  <2> HIDE DEF Rec
  <2> QED
    BY <1>5
<1> DEFINE G == CHOOSE G : Rec(G)
<1>7. Total(values, path) = G[n]
  BY DEF Total
<1>8. Rec(G)
  BY <1>6
<1> HIDE DEF G
<1>9. /\ DOMAIN G = 0..n /\ G[0] = 0
      /\ \A k \in 1..n : G[k] = G[k - 1] + values[path[k]]
  <2> HIDE DEF n
  <2>1. /\ DOMAIN G = 0..n
        /\ \A k \in 0..n : G[k] = IF k = 0 THEN 0 ELSE G[k - 1] + values[path[k]]
    BY <1>8, Zenon
  <2> QED
    BY <2>1, <1>1
<1>10. \A k \in 0..n : G[k] \in Nat
  <2> DEFINE S == {k \in Nat : k <= n => G[k] \in Nat}
  <2>1. 0 \in S
    BY <1>9
  <2>2. ASSUME NEW k \in Nat, k \in S PROVE k + 1 \in S
    <3>1. CASE k + 1 <= n
      <4>1. k + 1 \in 1..n /\ (k + 1) - 1 = k /\ k <= n
        BY <3>1, <1>1
      <4>2. G[k] \in Nat
        BY <2>2, <4>1
      <4>3. G[k + 1] = G[k] + values[path[k + 1]]
        BY <4>1, <1>9
      <4> QED
        BY <4>1, <4>2, <4>3, <1>1
    <3>2. CASE ~(k + 1 <= n)
      BY <3>2
    <3> QED
      BY <3>1, <3>2
  <2>3. Nat \subseteq S
    <3> HIDE DEF S
    <3> QED
      BY <2>1, <2>2, NaturalsReached
  <2> QED
    BY <2>3, <1>1
<1>11. G = [k \in 0..n |-> G[k]]
  BY <1>8
<1>12. G \in [0..n -> Nat]
  <2> HIDE DEF n
  <2> QED
    BY <1>10, <1>11
<1>13. Sums(values, path, G)
  BY <1>9, <1>12 DEF Sums
<1> QED
  BY <1>7, <1>13

\* The first n members of p are those of q from a place on.
IsPart(p, n, q, from) ==
    /\ n \in 0..Len(p) /\ from \in Nat /\ from + n <= Len(q)
    /\ \A k \in 1..n : q[from + k] = p[k]

\* Running sums that add the same numbers from two places on differ by the same.
LEMMA SumsAgree ==
  ASSUME NEW E, NEW values \in [E -> Nat], NEW p \in Seq(E), NEW q \in Seq(E),
         NEW F, Sums(values, p, F), NEW G, Sums(values, q, G),
         NEW n, NEW from, IsPart(p, n, q, from)
  PROVE  G[from + n] = G[from] + F[n]
<1>00. /\ n \in 0..Len(p) /\ from \in Nat /\ from + n <= Len(q)
       /\ \A k \in 1..n : q[from + k] = p[k]
  BY DEF IsPart
<1> DEFINE S == {k \in Nat : k <= n => G[from + k] = G[from] + F[k]}
<1>0. Len(p) \in Nat /\ Len(q) \in Nat /\ n \in Nat /\ n <= Len(p)
  BY <1>00, LenProperties
<1>1. /\ F \in [0..Len(p) -> Nat] /\ F[0] = 0
      /\ \A k \in 1..Len(p) : F[k] = F[k - 1] + values[p[k]]
      /\ G \in [0..Len(q) -> Nat]
      /\ \A k \in 1..Len(q) : G[k] = G[k - 1] + values[q[k]]
  BY DEF Sums
<1>2. from \in 0..Len(q) /\ G[from] \in Nat /\ from + 0 = from
  <2>1. from \in 0..Len(q) /\ from + 0 = from
    BY <1>00, <1>0
  <2>2. G \in [0..Len(q) -> Nat]
    BY <1>1
  <2> QED
    BY <2>1, <2>2
<1>3. 0 \in S
  BY <1>1, <1>2
<1>4. ASSUME NEW k \in Nat, k \in S PROVE k + 1 \in S
  <2> SUFFICES ASSUME k + 1 <= n PROVE G[from + (k + 1)] = G[from] + F[k + 1]
    OBVIOUS
  <2>1. /\ k + 1 \in 1..n /\ k + 1 \in 1..Len(p) /\ from + (k + 1) \in 1..Len(q)
        /\ (k + 1) - 1 = k /\ (from + (k + 1)) - 1 = from + k
        /\ k \in 0..Len(p) /\ from + k \in 0..Len(q)
    BY <1>00, <1>0
  <2>2. G[from + k] = G[from] + F[k]
    BY <1>0, <1>4, <2>1
  <2>3. q[from + (k + 1)] = p[k + 1] /\ p[k + 1] \in E
    BY <1>00, <2>1, LenProperties
  <2>4. values[p[k + 1]] \in Nat /\ F[k] \in Nat
    BY <1>1, <2>1, <2>3
  <2>5. G[from + (k + 1)] = G[from + k] + values[q[from + (k + 1)]]
    BY <1>1, <2>1
  <2>6. F[k + 1] = F[k] + values[p[k + 1]]
    BY <1>1, <2>1
  <2>7. G[from + (k + 1)] = (G[from] + F[k]) + values[p[k + 1]]
    BY <2>2, <2>3, <2>5
  <2>8. G[from] \in Nat
    BY <1>2
  <2> DEFINE a == G[from]
             b == F[k]
             w == values[p[k + 1]]
  <2>9. (a + b) + w = a + (b + w)
    <3>1. a \in Nat /\ b \in Nat /\ w \in Nat
      BY <2>4, <2>8
    <3> HIDE DEF a, b, w
    <3> QED
      BY <3>1
  <2> QED
    BY <2>6, <2>7, <2>9
<1>5. Nat \subseteq S
  <2> HIDE DEF S
  <2> QED
    BY <1>3, <1>4, NaturalsReached
<1> QED
  BY <1>0, <1>5

\* What a path costs: nothing, one edge, one path after another.
LEMMA TotalsAdd ==
  ASSUME NEW E, NEW values \in [E -> Nat]
  PROVE  /\ \A p \in Seq(E) : Total(values, p) \in Nat
         /\ Total(values, <<>>) = 0
         /\ \A e \in E : Total(values, <<e>>) = values[e]
         /\ \A p, q \in Seq(E) : Total(values, p \o q) = Total(values, p) + Total(values, q)
<1>1. ASSUME NEW p \in Seq(E) PROVE Total(values, p) \in Nat
  <2>1. PICK F : Sums(values, p, F) /\ Total(values, p) = F[Len(p)]
    BY TotalIs
  <2>2. Len(p) \in 0..Len(p)
    BY LenProperties
  <2> QED
    BY <2>1, <2>2 DEF Sums
<1>2. Total(values, <<>>) = 0
  <2>1. <<>> \in Seq(E) /\ Len(<<>>) = 0
    BY EmptySeq
  <2>2. PICK F : Sums(values, <<>>, F) /\ Total(values, <<>>) = F[Len(<<>>)]
    BY <2>1, TotalIs
  <2> QED
    BY <2>1, <2>2 DEF Sums
<1>3. ASSUME NEW e \in E PROVE Total(values, <<e>>) = values[e]
  <2>1. <<e>> \in Seq(E) /\ Len(<<e>>) = 1 /\ <<e>>[1] = e
    OBVIOUS
  <2>2. PICK F : Sums(values, <<e>>, F) /\ Total(values, <<e>>) = F[Len(<<e>>)]
    BY <2>1, TotalIs
  <2>3. F[0] = 0 /\ F[1] = F[0] + values[e]
    BY <2>1, <2>2 DEF Sums
  <2>4. values[e] \in Nat
    OBVIOUS
  <2> QED
    BY <2>1, <2>2, <2>3, <2>4
<1>4. ASSUME NEW p \in Seq(E), NEW q \in Seq(E)
      PROVE  Total(values, p \o q) = Total(values, p) + Total(values, q)
  <2> DEFINE r == p \o q
  <2>1. /\ r \in Seq(E) /\ Len(r) = Len(p) + Len(q) /\ Len(p) \in Nat /\ Len(q) \in Nat
        /\ \A i \in 1..(Len(p) + Len(q)) :
              r[i] = IF i <= Len(p) THEN p[i] ELSE q[i - Len(p)]
    BY ConcatProperties, LenProperties
  <2> HIDE DEF r
  <2>2. PICK F : Sums(values, p, F) /\ Total(values, p) = F[Len(p)]
    BY TotalIs
  <2>3. PICK G : Sums(values, q, G) /\ Total(values, q) = G[Len(q)]
    BY TotalIs
  <2>4. PICK H : Sums(values, r, H) /\ Total(values, r) = H[Len(r)]
    BY <2>1, TotalIs
  <2> DEFINE m == Len(p)
             n == Len(q)
  <2>5. \A k \in 1..m : r[0 + k] = p[k]
    BY <2>1
  <2>6. \A k \in 1..n : r[m + k] = q[k]
    <3> TAKE k \in 1..n
    <3>1. m + k \in 1..(m + n) /\ ~(m + k <= m) /\ (m + k) - m = k
      BY <2>1
    <3> QED
      BY <2>1, <3>1
  <2>7. /\ m \in 0..Len(p) /\ n \in 0..Len(q) /\ 0 \in Nat /\ m \in Nat
        /\ 0 + m <= Len(r) /\ m + n <= Len(r) /\ m \in 0..Len(r)
    BY <2>1
  <2> HIDE DEF m, n
  <2>12. IsPart(p, m, r, 0) /\ IsPart(q, n, r, m)
    BY <2>5, <2>6, <2>7 DEF IsPart
  <2>8. H[0 + m] = H[0] + F[m]
    BY <2>1, <2>2, <2>4, <2>12, SumsAgree
  <2>9. H[m + n] = H[m] + G[n]
    BY <2>1, <2>3, <2>4, <2>12, SumsAgree
  <2> USE DEF m, n
  <2>10. H[0] = 0 /\ F[Len(p)] \in Nat /\ 0 + Len(p) = Len(p)
    BY <2>1, <2>2, <2>4, <2>7 DEF Sums
  <2>11. H[Len(r)] = F[Len(p)] + G[Len(q)]
    BY <2>1, <2>8, <2>9, <2>10
  <2> QED
    BY <2>2, <2>3, <2>4, <2>11 DEF r
<1> QED
  BY <1>1, <1>2, <1>3, <1>4

-----------------------------------------------------------------------------
(* Paths of edges *)

\* The path leads from a to b, each edge from where the one before it ends.
Leads(E, from, to, path, a, b) ==
    /\ path \in Seq(E)
    /\ path = <<>> => a = b
    /\ path # <<>> => from[path[1]] = a /\ to[path[Len(path)]] = b
    /\ \A i \in 1..(Len(path) - 1) : to[path[i]] = from[path[i + 1]]

\* An edge leads from its one end to the other.
LEMMA LeadsOne ==
  ASSUME NEW E, NEW from, NEW to, NEW e \in E
  PROVE  Leads(E, from, to, <<e>>, from[e], to[e])
<1>1. <<e>> \in Seq(E) /\ Len(<<e>>) = 1 /\ <<e>>[1] = e /\ <<e>> # <<>>
  OBVIOUS
<1>2. 1..(Len(<<e>>) - 1) = {}
  BY <1>1
<1> QED
  BY <1>1, <1>2 DEF Leads

\* Paths that meet make a path.
LEMMA LeadsOn ==
  ASSUME NEW E, NEW from, NEW to, NEW a, NEW b, NEW c,
         NEW p, Leads(E, from, to, p, a, b), NEW q, Leads(E, from, to, q, b, c)
  PROVE  Leads(E, from, to, p \o q, a, c)
<1>1. p \in Seq(E) /\ q \in Seq(E)
  BY DEF Leads
<1>2. CASE p = <<>>
  <2>1. p \o q = q /\ a = b
    BY <1>1, <1>2, ConcatEmptySeq DEF Leads
  <2> QED
    BY <2>1
<1>3. CASE q = <<>>
  <2>1. p \o q = p /\ b = c
    BY <1>1, <1>3, ConcatEmptySeq DEF Leads
  <2> QED
    BY <2>1
<1>4. CASE p # <<>> /\ q # <<>>
  <2> DEFINE r == p \o q
             m == Len(p)
             n == Len(q)
  <2>1. /\ r \in Seq(E) /\ Len(r) = m + n
        /\ \A i \in 1..(m + n) : r[i] = IF i <= m THEN p[i] ELSE q[i - m]
    BY <1>1, ConcatProperties
  <2>2. m \in Nat \ {0} /\ n \in Nat \ {0}
    BY <1>1, <1>4, EmptySeq
  <2>3. /\ from[p[1]] = a /\ to[p[m]] = b /\ from[q[1]] = b /\ to[q[n]] = c
        /\ \A i \in 1..(m - 1) : to[p[i]] = from[p[i + 1]]
        /\ \A i \in 1..(n - 1) : to[q[i]] = from[q[i + 1]]
    BY <1>4 DEF Leads
  <2> HIDE DEF r, m, n
  <2>4. \A i \in 1..m : r[i] = p[i]
    BY <2>1, <2>2
  <2>5. \A i \in 1..n : r[m + i] = q[i]
    <3> TAKE i \in 1..n
    <3>1. m + i \in 1..(m + n) /\ ~(m + i <= m) /\ (m + i) - m = i
      BY <2>2
    <3> QED
      BY <2>1, <3>1
  <2>6. r[1] = p[1] /\ r[m] = p[m] /\ r[m + 1] = q[1] /\ r[m + n] = q[n]
    <3>1. 1 \in 1..m /\ m \in 1..m /\ 1 \in 1..n /\ n \in 1..n
      BY <2>2
    <3> QED
      BY <2>4, <2>5, <3>1
  <2>7. \A i \in 1..((m + n) - 1) : to[r[i]] = from[r[i + 1]]
    <3> TAKE i \in 1..((m + n) - 1)
    <3>1. CASE i < m
      <4>1. i \in 1..(m - 1) /\ i \in 1..m /\ i + 1 \in 1..m
        BY <3>1, <2>2
      <4> QED
        BY <4>1, <2>3, <2>4
    <3>2. CASE i = m
      BY <3>2, <2>3, <2>6
    <3>3. CASE i > m
      <4> DEFINE j == i - m
      <4>1. j \in 1..(n - 1) /\ j \in 1..n /\ j + 1 \in 1..n /\ i = m + j /\ i + 1 = m + (j + 1)
        BY <3>3, <2>2
      <4> HIDE DEF j
      <4>2. r[i] = q[j] /\ r[i + 1] = q[j + 1]
        BY <4>1, <2>5
      <4> QED
        BY <4>1, <4>2, <2>3
    <3> QED
      BY <3>1, <3>2, <3>3, <2>2
  <2>8. r # <<>>
    BY <2>1, <2>2
  <2>9. Leads(E, from, to, r, a, c)
    BY <2>1, <2>3, <2>6, <2>7, <2>8 DEF Leads
  <2> QED
    BY <2>9 DEF r
<1> QED
  BY <1>2, <1>3, <1>4

\* A path with one more edge, at its end or before its beginning.
Joined(side, path, edge) == IF side = "out" THEN Append(path, edge) ELSE <<edge>> \o path

\* The path is one between the root and n, in the direction of travel.
Branch(v, path, n) ==
    IF v.side = "out" THEN Leads(v.edges, v.near, v.far, path, v.root, n)
                      ELSE Leads(v.edges, v.far, v.near, path, n, v.root)

\* An edge makes the path to its near end one to its far end.
LEMMA JoinedBranch ==
  ASSUME NEW v, ViewOK(v), NEW path, NEW e \in v.edges, Branch(v, path, v.near[e])
  PROVE  /\ Branch(v, Joined(v.side, path, e), v.far[e])
         /\ path \in Seq(v.edges)
         /\ Total(v.weight, Joined(v.side, path, e)) = Total(v.weight, path) + v.weight[e]
<1>1. path \in Seq(v.edges) /\ <<e>> \in Seq(v.edges)
  <2>1. \A from, to, a, b : Leads(v.edges, from, to, path, a, b) => path \in Seq(v.edges)
    BY DEF Leads
  <2>2. path \in Seq(v.edges)
    BY <2>1 DEF Branch
  <2>3. <<e>> \in Seq(v.edges)
    OBVIOUS
  <2> QED
    BY <2>2, <2>3
<1>2. /\ v.weight \in [v.edges -> Nat]
      /\ Total(v.weight, path) \in Nat /\ Total(v.weight, <<e>>) = v.weight[e] /\ v.weight[e] \in Nat
      /\ Total(v.weight, path \o <<e>>) = Total(v.weight, path) + Total(v.weight, <<e>>)
      /\ Total(v.weight, <<e>> \o path) = Total(v.weight, <<e>>) + Total(v.weight, path)
  <2>1. v.weight \in [v.edges -> Nat]
    BY DEF ViewOK
  <2> QED
    BY <1>1, <2>1, TotalsAdd
<1>3. CASE v.side = "out"
  <2>1. Joined(v.side, path, e) = path \o <<e>>
    <3>1. Append(path, e) = path \o <<e>>
      BY <1>1
    <3> QED
      BY <1>3, <3>1 DEF Joined
  <2>2. Leads(v.edges, v.near, v.far, path, v.root, v.near[e])
    BY <1>3 DEF Branch
  <2>3. Leads(v.edges, v.near, v.far, <<e>>, v.near[e], v.far[e])
    BY LeadsOne
  <2>4. Leads(v.edges, v.near, v.far, path \o <<e>>, v.root, v.far[e])
    BY <2>2, <2>3, LeadsOn
  <2> QED
    BY <1>1, <1>2, <1>3, <2>1, <2>4 DEF Branch
<1>4. CASE v.side # "out"
  <2>1. Joined(v.side, path, e) = <<e>> \o path
    BY <1>4 DEF Joined
  <2>2. Leads(v.edges, v.far, v.near, path, v.near[e], v.root)
    BY <1>4 DEF Branch
  <2>3. Leads(v.edges, v.far, v.near, <<e>>, v.far[e], v.near[e])
    BY LeadsOne
  <2>4. Leads(v.edges, v.far, v.near, <<e>> \o path, v.far[e], v.root)
    BY <2>2, <2>3, LeadsOn
  <2> QED
    BY <1>1, <1>2, <1>4, <2>1, <2>4 DEF Branch
<1> QED
  BY <1>3, <1>4

-----------------------------------------------------------------------------
(* The predecessors make a tree of cheapest paths so far.  p is the edge by *)
(* which each node was reached.                                            *)

Tree(v, c, q, p) ==
    /\ p \in [v.nodes -> v.edges \cup {NoEdge}]
    /\ c[v.root] = 0 /\ p[v.root] = NoEdge
    /\ \A n \in v.nodes : p[n] = NoEdge => n = v.root \/ c[n] = Infinite
    /\ \A n \in v.nodes : p[n] # NoEdge =>
          /\ v.far[p[n]] = n
          /\ v.near[p[n]] \in Closed(v, c, q) /\ c[n] < Infinite
          /\ c[n] = c[v.near[p[n]]] + v.weight[p[n]]

\* The paths back along the predecessors.
IsBack(v, p, f) ==
    f = [n \in v.nodes |-> IF n = v.root \/ p[n] = NoEdge THEN <<>>
                           ELSE Joined(v.side, f[v.near[p[n]]], p[n])]

Grown(v, c, p) ==
    /\ \E f : IsBack(v, p, f)
    /\ \A f : IsBack(v, p, f) =>
          \A n \in v.nodes : c[n] < Infinite =>
              Branch(v, f[n], n) /\ Total(v.weight, f[n]) = c[n]

\* NoEdge is not an edge.
LEMMA NoEdgeIsNone ==
  ASSUME NEW v, ViewOK(v)
  PROVE  NoEdge \notin v.edges
BY DEF ViewOK, NoEdge

\* A search begins with a tree of its root alone.
LEMMA TreeFirst ==
  ASSUME NEW v, ViewOK(v), NEW q
  PROVE  LET c == [node \in v.nodes |-> IF node = v.root THEN 0 ELSE Infinite]
             p == [node \in v.nodes |-> NoEdge]
         IN  Tree(v, c, q, p) /\ Grown(v, c, p)
<1> DEFINE c == [node \in v.nodes |-> IF node = v.root THEN 0 ELSE Infinite]
           p == [node \in v.nodes |-> NoEdge]
<1>1. v.root \in v.nodes /\ v.weight \in [v.edges -> Nat]
  BY DEF ViewOK
<1>2. /\ \A n \in v.nodes : p[n] = NoEdge
      /\ p \in [v.nodes -> v.edges \cup {NoEdge}]
      /\ c[v.root] = 0 /\ \A n \in v.nodes : n # v.root => c[n] = Infinite
  BY <1>1
<1> HIDE DEF c, p
<1>3. Tree(v, c, q, p)
  BY <1>1, <1>2 DEF Tree
<1>4. \E f : IsBack(v, p, f)
  <2> DEFINE f == [n \in v.nodes |-> <<>>]
  <2>1. f = [n \in v.nodes |-> IF n = v.root \/ p[n] = NoEdge THEN <<>>
                               ELSE Joined(v.side, f[v.near[p[n]]], p[n])]
    BY <1>2
  <2>2. IsBack(v, p, f)
    BY <2>1 DEF IsBack
  <2> QED
    BY <2>2
<1>5. ASSUME NEW f, IsBack(v, p, f), NEW n \in v.nodes, c[n] < Infinite
      PROVE  Branch(v, f[n], n) /\ Total(v.weight, f[n]) = c[n]
  <2>1. n = v.root
    BY <1>2, <1>5, InfiniteNat
  <2>2. f[n] = <<>>
    BY <1>2, <1>5 DEF IsBack
  <2>3. <<>> \in Seq(v.edges) /\ Len(<<>>) = 0 /\ 1..(Len(<<>>) - 1) = {}
    BY EmptySeq
  <2>4. Leads(v.edges, v.near, v.far, <<>>, v.root, v.root)
    BY <2>3 DEF Leads
  <2>5. Leads(v.edges, v.far, v.near, <<>>, v.root, v.root)
    BY <2>3 DEF Leads
  <2>6. Branch(v, f[n], n)
    BY <2>1, <2>2, <2>4, <2>5 DEF Branch
  <2>7. Total(v.weight, <<>>) = 0
    BY <1>1, TotalsAdd
  <2> QED
    BY <1>2, <2>1, <2>2, <2>6, <2>7
<1>6. Grown(v, c, p)
  BY <1>4, <1>5 DEF Grown
<1> QED
  BY <1>3, <1>6 DEF c, p

\* An entry that leaves the queue does not fell the tree, if no expanded node
\* becomes one that is not.
LEMMA TreeKept ==
  ASSUME NEW v, NEW c, NEW q, NEW p, Tree(v, c, q, p), NEW q2,
         Closed(v, c, q) \subseteq Closed(v, c, q2)
  PROVE  Tree(v, c, q2, p)
BY DEF Tree

\* An edge that improves the cost of its far end keeps the tree.
LEMMA TreeRelax ==
  ASSUME NEW v, ViewOK(v), NEW c, NEW q, NEW p, Steady(v, c, q),
         Tree(v, c, q, p), Grown(v, c, p),
         NEW x, Latest(v, c, q, x),
         NEW e \in v.edges, v.near[e] = x, c[x] + v.weight[e] < c[v.far[e]]
  PROVE  LET next == v.far[e]
             cost == c[x] + v.weight[e]
             c2 == [c EXCEPT ![next] = cost]
             q2 == q \cup {<<cost + v.h[next], next>>}
             p2 == [p EXCEPT ![next] = e]
         IN  Tree(v, c2, q2, p2) /\ Grown(v, c2, p2)
<1> DEFINE next == v.far[e]
           cost == c[x] + v.weight[e]
           c2 == [c EXCEPT ![next] = cost]
           q2 == q \cup {<<cost + v.h[next], next>>}
           p2 == [p EXCEPT ![next] = e]
           K == Closed(v, c, q)
<1>1. next \notin K /\ Closed(v, c2, q2) = K /\ x \in K
  BY SteadyRelax, SMTT(30) DEF Latest
<1>2. /\ x \in v.nodes /\ next \in v.nodes /\ K \subseteq v.nodes
      /\ v.root \in v.nodes /\ e # NoEdge
      /\ c \in [v.nodes -> 0..Infinite] /\ v.weight[e] \in Nat
  BY <1>1, NoEdgeIsNone DEF Closed, ViewOK, Steady
<1>3. /\ p \in [v.nodes -> v.edges \cup {NoEdge}]
      /\ c[v.root] = 0 /\ p[v.root] = NoEdge
      /\ \A n \in v.nodes : p[n] = NoEdge => n = v.root \/ c[n] = Infinite
      /\ \A n \in v.nodes : p[n] # NoEdge =>
            /\ v.far[p[n]] = n /\ v.near[p[n]] \in K /\ c[n] < Infinite
            /\ c[n] = c[v.near[p[n]]] + v.weight[p[n]]
  BY DEF Tree
<1>4. c[x] \in 0..Infinite /\ c[next] \in 0..Infinite /\ cost < c[next] /\ cost \in Nat
  BY <1>2, InfiniteNat
<1>5. next # v.root /\ cost < Infinite
  BY <1>3, <1>4, <1>2, InfiniteNat
<1>6. /\ p2[next] = e /\ \A n \in v.nodes : n # next => p2[n] = p[n]
      /\ p2 \in [v.nodes -> v.edges \cup {NoEdge}]
      /\ c2[next] = cost /\ \A n \in v.nodes : n # next => c2[n] = c[n]
  BY <1>2, <1>3
<1> HIDE DEF c2, p2, K, q2
<1>7. c2[x] = c[x] /\ x # next
  BY <1>1, <1>2, <1>6
<1>8. Tree(v, c2, q2, p2)
  <2>1. \A n \in v.nodes : p2[n] = NoEdge => n = v.root \/ c2[n] = Infinite
    BY <1>2, <1>3, <1>6
  <2>2. ASSUME NEW n \in v.nodes, p2[n] # NoEdge
        PROVE  /\ v.far[p2[n]] = n /\ v.near[p2[n]] \in K /\ c2[n] < Infinite
               /\ c2[n] = c2[v.near[p2[n]]] + v.weight[p2[n]]
    <3>1. CASE n = next
      BY <3>1, <1>1, <1>5, <1>6, <1>7
    <3>2. CASE n # next
      <4>1. v.near[p[n]] \in K /\ v.near[p[n]] \in v.nodes /\ v.near[p[n]] # next
        BY <3>2, <2>2, <1>1, <1>2, <1>3, <1>6
      <4> QED
        BY <4>1, <3>2, <2>2, <1>3, <1>6
    <3> QED
      BY <3>1, <3>2
  <2>3. c2[v.root] = 0 /\ p2[v.root] = NoEdge
    BY <1>2, <1>3, <1>5, <1>6
  <2> QED
    BY <1>1, <1>6, <2>1, <2>2, <2>3 DEF Tree
<1> DEFINE J(f, n) == Joined(v.side, f[v.near[p[n]]], p[n])
<1>9. \E f : IsBack(v, p2, f)
  <2>1. PICK f : IsBack(v, p, f)
    BY DEF Grown
  <2> DEFINE g == [f EXCEPT ![next] = Joined(v.side, f[x], e)]
  <2>2. DOMAIN f = v.nodes
    BY <2>1 DEF IsBack
  <2>3. \A n \in v.nodes : f[n] = IF n = v.root \/ p[n] = NoEdge THEN <<>>
                                  ELSE Joined(v.side, f[v.near[p[n]]], p[n])
    BY <2>1 DEF IsBack
  <2>4. /\ DOMAIN g = v.nodes /\ g = [n \in v.nodes |-> g[n]]
        /\ g[next] = Joined(v.side, f[x], e)
        /\ \A n \in v.nodes : n # next => g[n] = f[n]
    BY <1>2, <2>2
  <2> HIDE DEF g
  <2>5. \A n \in v.nodes : g[n] = IF n = v.root \/ p2[n] = NoEdge THEN <<>>
                                  ELSE Joined(v.side, g[v.near[p2[n]]], p2[n])
    <3> TAKE n \in v.nodes
    <3>1. CASE n = next
      BY <3>1, <1>2, <1>5, <1>6, <1>7, <2>4
    <3>2. CASE n # next
      <4>1. n = v.root \/ p[n] = NoEdge => g[n] = <<>>
        BY <3>2, <2>3, <2>4
      <4>2. ASSUME n # v.root, p[n] # NoEdge
            PROVE  g[n] = Joined(v.side, g[v.near[p[n]]], p[n])
        <5>1. v.near[p[n]] \in K /\ v.near[p[n]] \in v.nodes /\ v.near[p[n]] # next
          BY <4>2, <1>1, <1>2, <1>3
        <5> QED
          BY <4>2, <3>2, <5>1, <2>3, <2>4
      <4>3. p2[n] = p[n]
        BY <3>2, <1>6
      <4> QED
        BY <4>1, <4>2, <4>3
    <3> QED
      BY <3>1, <3>2
  <2>6. IsBack(v, p2, g)
    BY <2>4, <2>5 DEF IsBack
  <2> QED
    BY <2>6
<1>10. ASSUME NEW g, IsBack(v, p2, g), NEW n \in v.nodes, c2[n] < Infinite
       PROVE  Branch(v, g[n], n) /\ Total(v.weight, g[n]) = c2[n]
  <2> DEFINE old == IF next = v.root \/ p[next] = NoEdge THEN <<>>
                    ELSE Joined(v.side, g[v.near[p[next]]], p[next])
             f == [g EXCEPT ![next] = old]
  <2>1. /\ DOMAIN g = v.nodes
        /\ \A m \in v.nodes : g[m] = IF m = v.root \/ p2[m] = NoEdge THEN <<>>
                                     ELSE Joined(v.side, g[v.near[p2[m]]], p2[m])
    BY <1>10 DEF IsBack
  <2>2. /\ f = [m \in v.nodes |-> f[m]] /\ f[next] = old
        /\ \A m \in v.nodes : m # next => f[m] = g[m]
    BY <1>2, <2>1
  <2> HIDE DEF f
  <2>3. \A m \in v.nodes : p[m] # NoEdge => f[v.near[p[m]]] = g[v.near[p[m]]]
    <3> TAKE m \in v.nodes
    <3>1. p[m] # NoEdge => v.near[p[m]] \in v.nodes /\ v.near[p[m]] # next
      BY <1>1, <1>2, <1>3
    <3> QED
      BY <3>1, <2>2
  <2>4. \A m \in v.nodes : f[m] = IF m = v.root \/ p[m] = NoEdge THEN <<>>
                                  ELSE Joined(v.side, f[v.near[p[m]]], p[m])
    <3> TAKE m \in v.nodes
    <3>1. CASE m = next
      BY <3>1, <2>2, <2>3
    <3>2. CASE m # next
      <4>1. f[m] = g[m] /\ p2[m] = p[m]
        BY <3>2, <2>2, <1>6
      <4> QED
        BY <4>1, <2>1, <2>3
    <3> QED
      BY <3>1, <3>2
  <2>5. IsBack(v, p, f)
    BY <2>2, <2>4 DEF IsBack
  <2>6. \A m \in v.nodes : c[m] < Infinite =>
            Branch(v, f[m], m) /\ Total(v.weight, f[m]) = c[m]
    BY <2>5 DEF Grown
  <2>7. CASE n # next
    BY <2>7, <2>2, <2>6, <1>6, <1>10
  <2>8. CASE n = next
    <3>1. c[x] < Infinite
      BY <1>1 DEF Closed, K
    <3>2. Branch(v, g[x], x) /\ Total(v.weight, g[x]) = c[x]
      BY <3>1, <1>2, <1>7, <2>2, <2>6
    <3>3. g[n] = Joined(v.side, g[x], e)
      BY <2>8, <2>1, <1>2, <1>5, <1>6
    <3>4. /\ Branch(v, Joined(v.side, g[x], e), v.far[e])
          /\ Total(v.weight, Joined(v.side, g[x], e)) = Total(v.weight, g[x]) + v.weight[e]
      BY <3>2, JoinedBranch
    <3> QED
      BY <2>8, <3>2, <3>3, <3>4, <1>6
  <2> QED
    BY <2>7, <2>8
<1>11. Grown(v, c2, p2)
  BY <1>9, <1>10 DEF Grown
<1> QED
  BY <1>8, <1>11 DEF c2, p2, q2

-----------------------------------------------------------------------------
(* What the expanded nodes say of every path *)

\* The edges out of expanded nodes have been followed, but for those to do.
Spread(v, c, q, todo) ==
    \A e \in v.edges : v.near[e] \in Closed(v, c, q) /\ e \notin todo =>
        c[v.far[e]] <= c[v.near[e]] + v.weight[e]

\* An edge is done when it has improved the cost of its far end,
LEMMA SpreadRelax ==
  ASSUME NEW v, ViewOK(v), NEW c, NEW q, Steady(v, c, q), NEW todo, Spread(v, c, q, todo),
         NEW x, Latest(v, c, q, x),
         NEW e \in v.edges, v.near[e] = x, c[x] + v.weight[e] < c[v.far[e]]
  PROVE  LET next == v.far[e]
             cost == c[x] + v.weight[e]
             c2 == [c EXCEPT ![next] = cost]
             q2 == q \cup {<<cost + v.h[next], next>>}
         IN  Spread(v, c2, q2, todo \ {e})
<1> DEFINE next == v.far[e]
           cost == c[x] + v.weight[e]
           c2 == [c EXCEPT ![next] = cost]
           q2 == q \cup {<<cost + v.h[next], next>>}
           K == Closed(v, c, q)
<1>1. next \notin K /\ Closed(v, c2, q2) = K /\ x \in K
  <2>1. x \in K
    BY DEF Latest
  <2>2. next \notin K /\ Closed(v, c2, q2) = K
    BY SteadyRelax
  <2> QED
    BY <2>1, <2>2
<1>2. /\ next \in v.nodes /\ K \subseteq v.nodes
      /\ c \in [v.nodes -> 0..Infinite] /\ v.weight \in [v.edges -> Nat]
      /\ v.near \in [v.edges -> v.nodes] /\ v.far \in [v.edges -> v.nodes]
  <2>1. v.weight \in [v.edges -> Nat] /\ v.near \in [v.edges -> v.nodes] /\ v.far \in [v.edges -> v.nodes]
    BY DEF ViewOK
  <2>2. c \in [v.nodes -> 0..Infinite]
    BY DEF Steady
  <2>3. K \subseteq v.nodes
    BY DEF Closed
  <2> QED
    BY <2>1, <2>2, <2>3
<1>3. c[next] \in 0..Infinite /\ c[x] \in 0..Infinite /\ v.weight[e] \in Nat /\ cost < c[next]
  BY <1>1, <1>2
<1>4. c2[next] = cost /\ \A n \in v.nodes : n # next => c2[n] = c[n]
  BY <1>2
<1>5. \A f \in v.edges : v.near[f] \in K /\ f \notin todo =>
          c[v.far[f]] <= c[v.near[f]] + v.weight[f]
  BY DEF Spread
<1> HIDE DEF c2, K, q2
<1>6. ASSUME NEW f \in v.edges, v.near[f] \in K, f \notin todo \ {e}
      PROVE  c2[v.far[f]] <= c2[v.near[f]] + v.weight[f]
  <2>1. c2[v.near[f]] = c[v.near[f]]
    BY <1>1, <1>2, <1>4, <1>6
  <2>2. /\ c[v.near[f]] \in Nat /\ c[v.far[f]] \in Nat /\ v.weight[f] \in Nat
        /\ v.near[f] \in v.nodes /\ v.far[f] \in v.nodes
    BY <1>2, InfiniteNat
  <2>3. CASE f = e
    BY <2>3, <2>1, <2>2, <1>4
  <2>4. CASE f # e
    <3>1. c[v.far[f]] <= c[v.near[f]] + v.weight[f]
      BY <2>4, <1>5, <1>6
    <3>2. c2[v.far[f]] <= c[v.far[f]] /\ c2[v.far[f]] \in Nat
      <4>1. CASE v.far[f] = next
        BY <4>1, <1>3, <1>4, InfiniteNat
      <4>2. CASE v.far[f] # next
        BY <4>2, <1>4, <2>2
      <4> QED
        BY <4>1, <4>2
    <3> DEFINE a == c2[v.far[f]]
               b == c[v.far[f]]
               d == c[v.near[f]]
               w == v.weight[f]
    <3>3. a <= b /\ b <= d + w /\ a \in Nat /\ b \in Nat /\ d \in Nat /\ w \in Nat
      BY <2>2, <3>1, <3>2
    <3> HIDE DEF a, b, d, w
    <3>4. a <= d + w
      BY <3>3
    <3> QED
      BY <2>1, <3>4 DEF a, d, w
  <2> QED
    BY <2>3, <2>4
<1> QED
  BY <1>1, <1>6 DEF Spread, c2, q2

\* or when it does not.
LEMMA SpreadSame ==
  ASSUME NEW v, NEW c, NEW q, NEW todo, Spread(v, c, q, todo),
         NEW e \in v.edges, ~(c[v.near[e]] + v.weight[e] < c[v.far[e]]),
         ViewOK(v), Steady(v, c, q)
  PROVE  Spread(v, c, q, todo \ {e})
<1>1. c[v.far[e]] <= c[v.near[e]] + v.weight[e]
  <2>1. v.near[e] \in v.nodes /\ v.far[e] \in v.nodes /\ v.weight[e] \in Nat
    BY DEF ViewOK
  <2>2. c[v.near[e]] \in Nat /\ c[v.far[e]] \in Nat
    BY <2>1, InfiniteNat DEF Steady
  <2> QED
    BY <2>1, <2>2
<1> QED
  BY <1>1 DEF Spread

\* A walk from the root: its nodes, its edges and what each node costs on it.
Walk(v, n, ns, es, F) ==
    /\ n \in Nat
    /\ ns \in [0..n -> v.nodes] /\ es \in [1..n -> v.edges] /\ F \in [0..n -> Nat]
    /\ ns[0] = v.root /\ F[0] = 0
    /\ \A k \in 1..n : /\ v.near[es[k]] = ns[k - 1] /\ v.far[es[k]] = ns[k]
                       /\ F[k] = F[k - 1] + v.weight[es[k]]

\* Some entry waits that is no dearer than the walk up to a node of it.
Waits(v, q, cost, node) == \E entry \in q : entry[1] <= cost + v.h[node]

\* A node of a walk costs no more than the walk there, unless such an entry waits.
LEMMA Walked ==
  ASSUME NEW v, ViewOK(v), NEW c, NEW q, Steady(v, c, q), Spread(v, c, q, {}),
         c[v.root] = 0, NEW n, NEW ns, NEW es, NEW F, Walk(v, n, ns, es, F), F[n] < Infinite
  PROVE  /\ \A k \in 0..n : c[ns[k]] <= F[k] \/ Waits(v, q, F[k], ns[k])
         /\ \A k \in 1..n : ~Waits(v, q, F[k - 1], ns[k - 1]) => c[ns[k]] <= F[k]
<1>1. /\ n \in Nat
      /\ ns \in [0..n -> v.nodes] /\ es \in [1..n -> v.edges] /\ F \in [0..n -> Nat]
      /\ ns[0] = v.root /\ F[0] = 0
      /\ \A k \in 1..n : /\ v.near[es[k]] = ns[k - 1] /\ v.far[es[k]] = ns[k]
                         /\ F[k] = F[k - 1] + v.weight[es[k]]
  BY DEF Walk
<1>2. /\ c \in [v.nodes -> 0..Infinite] /\ v.h \in [v.nodes -> Nat] /\ v.weight \in [v.edges -> Nat]
      /\ q \subseteq Nat \X v.nodes
      /\ \A e \in v.edges : v.h[v.near[e]] <= v.weight[e] + v.h[v.far[e]]
  BY DEF Steady, ViewOK
<1>3. \A k \in 1..n : /\ k \in 0..n /\ k - 1 \in 0..n /\ k - 1 \in Nat
                      /\ ns[k] \in v.nodes /\ ns[k - 1] \in v.nodes /\ es[k] \in v.edges
                      /\ F[k] \in Nat /\ F[k - 1] \in Nat /\ v.weight[es[k]] \in Nat
                      /\ v.h[ns[k]] \in Nat /\ v.h[ns[k - 1]] \in Nat
                      /\ c[ns[k]] \in Nat /\ c[ns[k - 1]] \in Nat
  <2> TAKE k \in 1..n
  <2>1. k \in 0..n /\ k - 1 \in 0..n /\ k - 1 \in Nat
    BY <1>1
  <2>2. ns[k] \in v.nodes /\ ns[k - 1] \in v.nodes /\ es[k] \in v.edges
    BY <1>1, <2>1
  <2>3. F[k] \in Nat /\ F[k - 1] \in Nat
    BY <1>1, <2>1
  <2>4. v.weight[es[k]] \in Nat /\ v.h[ns[k]] \in Nat /\ v.h[ns[k - 1]] \in Nat
    BY <1>2, <2>2
  <2>5. c[ns[k]] \in Nat /\ c[ns[k - 1]] \in Nat
    BY <1>2, <2>2, InfiniteNat
  <2> QED
    BY <2>1, <2>2, <2>3, <2>4, <2>5
<1>4. \A k \in 0..n : F[k] < Infinite
  <2> DEFINE S == {d \in Nat : d <= n => F[n - d] < Infinite}
  <2>1. 0 \in S
    BY <1>1
  <2>2. ASSUME NEW d \in Nat, d \in S PROVE d + 1 \in S
    <3> SUFFICES ASSUME d + 1 <= n PROVE F[n - (d + 1)] < Infinite
      OBVIOUS
    <3>1. n - d \in 1..n /\ (n - d) - 1 = n - (d + 1) /\ d <= n
      BY <1>1
    <3>2. F[n - d] = F[(n - d) - 1] + v.weight[es[n - d]] /\ F[n - d] < Infinite
      BY <1>1, <2>2, <3>1
    <3>3. F[(n - d) - 1] \in Nat /\ v.weight[es[n - d]] \in Nat
      BY <1>3, <3>1
    <3>4. F[(n - d) - 1] < Infinite
      BY <3>2, <3>3, InfiniteNat
    <3> QED
      BY <3>1, <3>4
  <2>3. Nat \subseteq S
    <3> HIDE DEF S
    <3> QED
      BY <2>1, <2>2, NaturalsReached
  <2> TAKE k \in 0..n
  <2>4. n - k \in Nat /\ n - k <= n /\ n - (n - k) = k
    BY <1>1
  <2>5. n - k \in S
    BY <2>3, <2>4
  <2> QED
    BY <2>4, <2>5
<1> DEFINE Cheap(k) == c[ns[k]] <= F[k]
           Held(k) == Waits(v, q, F[k], ns[k])
<1>5. ASSUME NEW k \in 1..n, Cheap(k - 1), ~Held(k - 1) PROVE Cheap(k)
  <2> DEFINE m == ns[k - 1]
  <2>1. m \in v.nodes /\ c[m] \in Nat /\ F[k - 1] \in Nat /\ v.h[m] \in Nat
    BY <1>3
  <2>2. c[m] <= F[k - 1] /\ F[k - 1] < Infinite
    BY <1>3, <1>4, <1>5
  <2>3. c[m] < Infinite
    BY <2>1, <2>2, InfiniteNat
  <2>4. m \in Closed(v, c, q)
    <3> SUFFICES ASSUME <<c[m] + v.h[m], m>> \in q PROVE FALSE
      BY <2>1, <2>3 DEF Closed
    <3>1. <<c[m] + v.h[m], m>>[1] <= F[k - 1] + v.h[m]
      BY <2>1, <2>2
    <3> QED
      BY <3>1, <1>5 DEF Waits
  <2>5. v.near[es[k]] = m /\ v.far[es[k]] = ns[k] /\ es[k] \in v.edges
          /\ F[k] = F[k - 1] + v.weight[es[k]]
    BY <1>1, <1>3
  <2>6. c[ns[k]] <= c[m] + v.weight[es[k]]
    BY <2>4, <2>5 DEF Spread
  <2> DEFINE a == c[ns[k]]
             b == c[m]
             w == v.weight[es[k]]
             f == F[k - 1]
  <2>7. a \in Nat /\ b \in Nat /\ w \in Nat /\ f \in Nat /\ a <= b + w /\ b <= f
    BY <1>3, <2>1, <2>2, <2>6
  <2>8. F[k] = f + w
    BY <2>5
  <2> HIDE DEF a, b, w, f
  <2>9. a <= f + w
    BY <2>7
  <2> QED
    BY <2>8, <2>9 DEF a
<1>6. ASSUME NEW k \in 1..n, Held(k - 1) PROVE Held(k)
  <2>1. PICK entry \in q : entry[1] <= F[k - 1] + v.h[ns[k - 1]]
    BY <1>6 DEF Waits
  <2>2. v.h[ns[k - 1]] <= v.weight[es[k]] + v.h[ns[k]] /\ F[k] = F[k - 1] + v.weight[es[k]]
    BY <1>1, <1>2, <1>3
  <2> DEFINE a == entry[1]
             f == F[k - 1]
             w == v.weight[es[k]]
             h1 == v.h[ns[k - 1]]
             h2 == v.h[ns[k]]
  <2>3. a \in Nat /\ f \in Nat /\ w \in Nat /\ h1 \in Nat /\ h2 \in Nat
          /\ a <= f + h1 /\ h1 <= w + h2
    BY <1>2, <1>3, <2>1, <2>2
  <2>4. F[k] = f + w
    BY <2>2
  <2> HIDE DEF a, f, w, h1, h2
  <2>5. a <= (f + w) + h2
    BY <2>3
  <2>6. entry[1] <= F[k] + v.h[ns[k]]
    BY <2>4, <2>5 DEF a, h2
  <2> QED
    BY <2>6 DEF Waits
<1> DEFINE S == {k \in Nat : k <= n => Cheap(k) \/ Held(k)}
<1>7. 0 \in S
  <2>1. c[ns[0]] = 0 /\ F[0] = 0
    BY <1>1
  <2>2. Cheap(0)
    BY <2>1
  <2> HIDE DEF Cheap, Held
  <2> QED
    BY <2>2
<1>8. ASSUME NEW k \in Nat, k \in S PROVE k + 1 \in S
  <2> HIDE DEF Cheap, Held
  <2> SUFFICES ASSUME k + 1 <= n PROVE Cheap(k + 1) \/ Held(k + 1)
    OBVIOUS
  <2>1. k + 1 \in 1..n /\ (k + 1) - 1 = k /\ k <= n
    BY <1>1
  <2>2. Cheap(k) \/ Held(k)
    BY <1>8, <2>1
  <2>3. Cheap(k) /\ ~Held(k) => Cheap(k + 1)
    BY <1>5, <2>1
  <2>4. Held(k) => Held(k + 1)
    BY <1>6, <2>1
  <2> QED
    BY <2>2, <2>3, <2>4
<1>9. Nat \subseteq S
  <2> HIDE DEF S
  <2> QED
    BY <1>7, <1>8, NaturalsReached
<1>10. \A k \in 0..n : Cheap(k) \/ Held(k)
  <2> HIDE DEF Cheap, Held
  <2>1. \A k \in 0..n : k \in Nat /\ k <= n
    BY <1>1
  <2> QED
    BY <1>9, <2>1
<1>11. \A k \in 1..n : ~Held(k - 1) => Cheap(k)
  <2> HIDE DEF Cheap, Held
  <2> TAKE k \in 1..n
  <2>1. k - 1 \in 0..n
    BY <1>1
  <2>2. Cheap(k - 1) \/ Held(k - 1)
    BY <1>10, <2>1
  <2> QED
    BY <1>5, <2>2
<1> QED
  BY <1>10, <1>11

\* A walk gets no cheaper.
LEMMA WalkAscends ==
  ASSUME NEW v, ViewOK(v), NEW n, NEW ns, NEW es, NEW F, Walk(v, n, ns, es, F)
  PROVE  \A k \in 0..n : F[k] \in Nat /\ F[k] <= F[n]
<1>1. /\ n \in Nat /\ F \in [0..n -> Nat]
      /\ \A k \in 1..n : F[k] = F[k - 1] + v.weight[es[k]] /\ v.weight[es[k]] \in Nat
  <2>1. n \in Nat /\ F \in [0..n -> Nat] /\ es \in [1..n -> v.edges]
    BY DEF Walk
  <2>2. \A k \in 1..n : v.weight[es[k]] \in Nat
    BY <2>1 DEF ViewOK
  <2>3. \A k \in 1..n : F[k] = F[k - 1] + v.weight[es[k]]
    BY DEF Walk
  <2> QED
    BY <2>1, <2>2, <2>3
<1> DEFINE S == {d \in Nat : d <= n => F[n - d] <= F[n]}
<1>2. 0 \in S
  BY <1>1
<1>3. ASSUME NEW d \in Nat, d \in S PROVE d + 1 \in S
  <2> SUFFICES ASSUME d + 1 <= n PROVE F[n - (d + 1)] <= F[n]
    OBVIOUS
  <2>1. n - d \in 1..n /\ (n - d) - 1 = n - (d + 1) /\ d <= n /\ n - (d + 1) \in 0..n /\ n \in 0..n
    BY <1>1
  <2>2. F[n - d] = F[(n - d) - 1] + v.weight[es[n - d]] /\ F[n - d] <= F[n]
    BY <1>1, <1>3, <2>1
  <2>3. F[n - (d + 1)] \in Nat /\ v.weight[es[n - d]] \in Nat /\ F[n] \in Nat
    BY <1>1, <2>1
  <2> DEFINE a == F[n - (d + 1)]
             b == F[n - d]
             w == v.weight[es[n - d]]
             z == F[n]
  <2>4. b = a + w /\ b <= z /\ a \in Nat /\ w \in Nat /\ z \in Nat
    BY <2>1, <2>2, <2>3
  <2> HIDE DEF a, b, w, z
  <2>5. a <= z
    BY <2>4
  <2> QED
    BY <2>5 DEF a, z
<1>4. Nat \subseteq S
  <2> HIDE DEF S
  <2> QED
    BY <1>2, <1>3, NaturalsReached
<1> TAKE k \in 0..n
<1>5. n - k \in Nat /\ n - k <= n /\ n - (n - k) = k /\ F[k] \in Nat
  BY <1>1
<1>6. n - k \in S
  BY <1>4, <1>5
<1> QED
  BY <1>5, <1>6

\* A path of edges is a walk.
LEMMA PathWalks ==
  ASSUME NEW v, ViewOK(v), NEW path, NEW t, Leads(v.edges, v.near, v.far, path, v.root, t)
  PROVE  \E n, ns, es, F : Walk(v, n, ns, es, F) /\ ns[n] = t /\ F[n] = Total(v.weight, path)
<1> DEFINE n == Len(path)
           ns == [k \in 0..n |-> IF k = 0 THEN v.root ELSE v.far[path[k]]]
           es == [k \in 1..n |-> path[k]]
<1>1. /\ path \in Seq(v.edges)
      /\ path = <<>> => v.root = t
      /\ path # <<>> => v.near[path[1]] = v.root /\ v.far[path[n]] = t
      /\ \A i \in 1..(n - 1) : v.far[path[i]] = v.near[path[i + 1]]
  BY DEF Leads
<1>2. /\ v.near \in [v.edges -> v.nodes] /\ v.far \in [v.edges -> v.nodes]
      /\ v.weight \in [v.edges -> Nat] /\ v.root \in v.nodes
  BY DEF ViewOK
<1>3. n \in Nat /\ \A k \in 1..n : path[k] \in v.edges
  BY <1>1, LenProperties
<1>4. n = 0 <=> path = <<>>
  BY <1>1, EmptySeq
<1>5. PICK F : Sums(v.weight, path, F) /\ Total(v.weight, path) = F[n]
  <2>1. path \in Seq(v.edges) /\ v.weight \in [v.edges -> Nat]
    BY <1>1, <1>2
  <2> QED
    BY <2>1, TotalIs
<1>6. /\ F \in [0..n -> Nat] /\ F[0] = 0
      /\ \A k \in 1..n : F[k] = F[k - 1] + v.weight[path[k]]
  BY <1>5 DEF Sums
<1> HIDE DEF n
<1>7. es \in [1..n -> v.edges] /\ \A k \in 1..n : es[k] = path[k]
  BY <1>3
<1>8. /\ ns \in [0..n -> v.nodes] /\ ns[0] = v.root
      /\ \A k \in 1..n : ns[k] = v.far[path[k]]
  BY <1>2, <1>3
<1> HIDE DEF ns, es
<1>9. \A k \in 1..n : v.near[es[k]] = ns[k - 1]
  <2> TAKE k \in 1..n
  <2>1. CASE k = 1
    <3>1. path # <<>> /\ k - 1 = 0
      BY <2>1, <1>3, <1>4
    <3> QED
      BY <2>1, <3>1, <1>1, <1>7, <1>8
  <2>2. CASE k # 1
    <3>1. k - 1 \in 1..(n - 1) /\ k - 1 \in 1..n /\ (k - 1) + 1 = k
      BY <2>2, <1>3
    <3> QED
      BY <3>1, <1>1, <1>7, <1>8
  <2> QED
    BY <2>1, <2>2
<1>10. ns[n] = t
  <2>1. CASE n = 0
    BY <2>1, <1>1, <1>4, <1>8
  <2>2. CASE n # 0
    <3>1. n \in 1..n
      BY <2>2, <1>3
    <3> QED
      BY <3>1, <2>2, <1>1, <1>4, <1>8
  <2> QED
    BY <2>1, <2>2
<1>11. \A k \in 1..n : v.far[es[k]] = ns[k] /\ F[k] = F[k - 1] + v.weight[es[k]]
  BY <1>6, <1>7, <1>8
<1>12. Walk(v, n, ns, es, F)
  BY <1>3, <1>6, <1>7, <1>8, <1>9, <1>11 DEF Walk
<1> QED
  BY <1>5, <1>10, <1>12

\* The two views of a search from both ends.
Mirrored(v, u) ==
    /\ u.nodes = v.nodes /\ u.edges = v.edges /\ u.weight = v.weight
    /\ u.near = v.far /\ u.far = v.near

\* A walk seen from its end.
LEMMA WalkBack ==
  ASSUME NEW v, ViewOK(v), NEW u, Mirrored(v, u),
         NEW n, NEW ns, NEW es, NEW F, Walk(v, n, ns, es, F), ns[n] = u.root
  PROVE  Walk(u, n, [k \in 0..n |-> ns[n - k]], [k \in 1..n |-> es[(n + 1) - k]],
              [k \in 0..n |-> F[n] - F[n - k]])
<1> DEFINE ms == [k \in 0..n |-> ns[n - k]]
           fs == [k \in 1..n |-> es[(n + 1) - k]]
           G == [k \in 0..n |-> F[n] - F[n - k]]
<1>1. /\ n \in Nat
      /\ ns \in [0..n -> v.nodes] /\ es \in [1..n -> v.edges] /\ F \in [0..n -> Nat]
      /\ \A k \in 1..n : /\ v.near[es[k]] = ns[k - 1] /\ v.far[es[k]] = ns[k]
                         /\ F[k] = F[k - 1] + v.weight[es[k]]
  BY DEF Walk
<1>2. \A k \in 0..n : n - k \in 0..n /\ F[n - k] \in Nat /\ F[n - k] <= F[n] /\ F[n] \in Nat
  <2>1. \A k \in 0..n : n - k \in 0..n
    BY <1>1
  <2>2. n \in 0..n
    BY <1>1
  <2> QED
    BY <2>1, <2>2, WalkAscends
<1>3. ms \in [0..n -> u.nodes] /\ \A k \in 0..n : ms[k] = ns[n - k]
  BY <1>1, <1>2 DEF Mirrored
<1>4. \A k \in 1..n : (n + 1) - k \in 1..n
  BY <1>1
<1>5. fs \in [1..n -> u.edges] /\ \A k \in 1..n : fs[k] = es[(n + 1) - k]
  BY <1>1, <1>4 DEF Mirrored
<1>6. G \in [0..n -> Nat] /\ \A k \in 0..n : G[k] = F[n] - F[n - k]
  <2>1. \A k \in 0..n : F[n] - F[n - k] \in Nat
    BY <1>2
  <2> QED
    BY <2>1
<1> HIDE DEF ms, fs, G
<1>7. ms[0] = u.root /\ G[0] = 0
  <2>1. 0 \in 0..n /\ n - 0 = n
    BY <1>1
  <2> QED
    BY <2>1, <1>2, <1>3, <1>6
<1>8. ASSUME NEW k \in 1..n
      PROVE  /\ u.near[fs[k]] = ms[k - 1] /\ u.far[fs[k]] = ms[k]
             /\ G[k] = G[k - 1] + u.weight[fs[k]]
  <2> DEFINE j == (n + 1) - k
  <2>1. /\ j \in 1..n /\ j - 1 = n - k /\ j = n - (k - 1) /\ k \in 0..n /\ k - 1 \in 0..n
        /\ j \in 0..n /\ j - 1 \in 0..n
    BY <1>1
  <2>2. fs[k] = es[j] /\ ms[k] = ns[j - 1] /\ ms[k - 1] = ns[j]
    BY <1>3, <1>5, <2>1
  <2>3. G[k] = F[n] - F[j - 1] /\ G[k - 1] = F[n] - F[j]
    BY <1>6, <2>1
  <2> HIDE DEF j
  <2>4. v.near[es[j]] = ns[j - 1] /\ v.far[es[j]] = ns[j] /\ F[j] = F[j - 1] + v.weight[es[j]]
    BY <1>1, <2>1
  <2>5. F[j] \in Nat /\ F[j - 1] \in Nat /\ F[n] \in Nat /\ v.weight[es[j]] \in Nat
    <3>1. F[j] \in Nat /\ F[j - 1] \in Nat /\ es[j] \in v.edges
      BY <1>1, <2>1
    <3>2. v.weight[es[j]] \in Nat
      BY <3>1 DEF ViewOK
    <3>3. F[n] \in Nat
      BY <1>2, <2>1
    <3> QED
      BY <3>1, <3>2, <3>3
  <2>6. F[n] - F[j - 1] = (F[n] - F[j]) + v.weight[es[j]]
    BY <2>4, <2>5
  <2> QED
    BY <2>2, <2>3, <2>4, <2>6 DEF Mirrored
<1>9. Walk(u, n, ms, fs, G)
  BY <1>1, <1>3, <1>5, <1>6, <1>7, <1>8 DEF Walk
<1> QED
  BY <1>9 DEF ms, fs, G

-----------------------------------------------------------------------------
(* Nothing is cheaper *)

\* If no entry waits that is less than the target, no path to it is cheaper.
LEMMA CheapestFromOneSide ==
  ASSUME NEW v, ViewOK(v), NEW c, NEW q, Steady(v, c, q), Spread(v, c, q, {}), c[v.root] = 0,
         NEW t \in v.nodes, \A entry \in q : c[t] + v.h[t] <= entry[1],
         NEW path, Leads(v.edges, v.near, v.far, path, v.root, t),
         Total(v.weight, path) < Infinite
  PROVE  c[t] <= Total(v.weight, path)
<1> DEFINE W == Total(v.weight, path)
<1>1. PICK n, ns, es, F : Walk(v, n, ns, es, F) /\ ns[n] = t /\ F[n] = W
  BY PathWalks
<1>2. n \in 0..n /\ F[n] \in Nat
  <2>1. n \in Nat /\ F \in [0..n -> Nat]
    BY <1>1 DEF Walk
  <2> QED
    BY <2>1
<1>3. c[t] <= F[n] \/ Waits(v, q, F[n], t)
  BY <1>1, <1>2, Walked
<1>4. c[t] \in Nat /\ v.h[t] \in Nat /\ \A entry \in q : entry[1] \in Nat
  BY InfiniteNat DEF Steady, ViewOK
<1>5. ASSUME NEW entry \in q, entry[1] <= F[n] + v.h[t] PROVE c[t] <= F[n]
  <2>1. c[t] + v.h[t] <= entry[1] /\ entry[1] \in Nat
    BY <1>4
  <2> QED
    BY <2>1, <1>2, <1>4, <1>5
<1> QED
  BY <1>1, <1>3, <1>5 DEF Waits

\* A search from both ends may stop when no two entries together are less than
\* the best meeting: the last node of the walk that is settled from the source
\* is followed by one that is settled from the target.
LEMMA CheapestFromBothSides ==
  ASSUME NEW v, ViewOK(v), NEW c, NEW q, Steady(v, c, q), Spread(v, c, q, {}), c[v.root] = 0,
         NEW u, ViewOK(u), NEW d, NEW r, Steady(u, d, r), Spread(u, d, r, {}), d[u.root] = 0,
         Mirrored(v, u),
         \A n \in v.nodes : v.h[n] = 0 /\ u.h[n] = 0,
         NEW best \in Nat, \A n \in v.nodes : best <= c[n] + d[n],
         \A a \in q, b \in r : best <= a[1] + b[1],
         NEW path, Leads(v.edges, v.near, v.far, path, v.root, u.root),
         Total(v.weight, path) < Infinite
  PROVE  best <= Total(v.weight, path)
<1> DEFINE W == Total(v.weight, path)
<1>1. PICK n, ns, es, F : Walk(v, n, ns, es, F) /\ ns[n] = u.root /\ F[n] = W
  BY PathWalks
<1> SUFFICES ASSUME F[n] < best PROVE FALSE
  <2>1. F[n] \in Nat
    <3>1. n \in Nat /\ F \in [0..n -> Nat]
      BY <1>1 DEF Walk
    <3> QED
      BY <3>1
  <2> QED
    BY <1>1, <2>1
<1> DEFINE ms == [k \in 0..n |-> ns[n - k]]
           fs == [k \in 1..n |-> es[(n + 1) - k]]
           G == [k \in 0..n |-> F[n] - F[n - k]]
<1>2. /\ n \in Nat /\ ns \in [0..n -> v.nodes] /\ F \in [0..n -> Nat]
      /\ ns[0] = v.root /\ F[0] = 0 /\ F[n] < Infinite
  BY <1>1 DEF Walk
<1>3. \A k \in 0..n : F[k] \in Nat /\ F[k] <= F[n]
  BY <1>1, WalkAscends
<1>4. Walk(u, n, ms, fs, G)
  BY <1>1, WalkBack
<1>5. /\ \A k \in 0..n : c[ns[k]] <= F[k] \/ Waits(v, q, F[k], ns[k])
      /\ \A k \in 1..n : ~Waits(v, q, F[k - 1], ns[k - 1]) => c[ns[k]] <= F[k]
  BY <1>1, <1>2, Walked
<1>6. G[n] < Infinite
  <2>1. n \in 0..n /\ 0 \in 0..n /\ n - n = 0
    BY <1>2
  <2>2. G[n] = F[n] - F[0]
    BY <2>1
  <2>3. F[n] \in Nat
    BY <1>2, <2>1
  <2> HIDE DEF G
  <2> QED
    BY <1>2, <2>2, <2>3
<1>7. \A k \in 0..n : d[ms[k]] <= G[k] \/ Waits(u, r, G[k], ms[k])
  <2> HIDE DEF ms, fs, G
  <2> QED
    BY <1>4, <1>6, Walked
<1>8. \A k \in 0..n : d[ns[k]] <= F[n] - F[k] \/ Waits(u, r, F[n] - F[k], ns[k])
  <2> TAKE k \in 0..n
  <2>1. n - k \in 0..n /\ n - (n - k) = k
    BY <1>2
  <2>2. ms[n - k] = ns[k] /\ G[n - k] = F[n] - F[k]
    BY <2>1
  <2> HIDE DEF ms, G
  <2> QED
    BY <1>7, <2>1, <2>2
<1> HIDE DEF ms, fs, G
<1>9. \A k \in 0..n : ~(c[ns[k]] <= F[k] /\ d[ns[k]] <= F[n] - F[k])
  <2> TAKE k \in 0..n
  <2>1. ns[k] \in v.nodes
    BY <1>2
  <2>2. c[ns[k]] \in Nat /\ d[ns[k]] \in Nat
    BY <2>1, InfiniteNat DEF Steady, Mirrored
  <2>3. best <= c[ns[k]] + d[ns[k]]
    BY <2>1
  <2>4. n \in 0..n
    BY <1>2
  <2>5. F[k] \in Nat /\ F[n] \in Nat
    BY <1>3, <2>4
  <2> QED
    BY <2>2, <2>3, <2>5
<1>10. \A k \in 0..n : ~(Waits(v, q, F[k], ns[k]) /\ Waits(u, r, F[n] - F[k], ns[k]))
  <2> SUFFICES ASSUME NEW k \in 0..n, Waits(v, q, F[k], ns[k]), Waits(u, r, F[n] - F[k], ns[k])
               PROVE  FALSE
    OBVIOUS
  <2>1. ns[k] \in v.nodes /\ n \in 0..n
    BY <1>2
  <2>2. PICK a \in q : a[1] <= F[k] + v.h[ns[k]]
    BY DEF Waits
  <2>3. PICK b \in r : b[1] <= (F[n] - F[k]) + u.h[ns[k]]
    BY DEF Waits
  <2>4. v.h[ns[k]] = 0 /\ u.h[ns[k]] = 0
    BY <2>1
  <2>5. a[1] \in Nat /\ b[1] \in Nat
    BY DEF Steady
  <2>6. F[k] \in Nat /\ F[n] \in Nat
    BY <1>3, <2>1
  <2>7. best <= a[1] + b[1]
    OBVIOUS
  <2> QED
    BY <2>2, <2>3, <2>4, <2>5, <2>6, <2>7
<1> DEFINE Out(k) == Waits(v, q, F[k], ns[k])
           In(k) == Waits(u, r, F[n] - F[k], ns[k])
           CheapOut(k) == c[ns[k]] <= F[k]
           CheapIn(k) == d[ns[k]] <= F[n] - F[k]
<1>11. /\ \A k \in 0..n : CheapOut(k) \/ Out(k)
       /\ \A k \in 1..n : ~Out(k - 1) => CheapOut(k)
       /\ \A k \in 0..n : CheapIn(k) \/ In(k)
       /\ \A k \in 0..n : ~(CheapOut(k) /\ CheapIn(k)) /\ ~(Out(k) /\ In(k))
  BY <1>5, <1>8, <1>9, <1>10
<1>12. CheapIn(n)
  <2>1. n \in 0..n
    BY <1>2
  <2>2. F[n] \in Nat
    BY <1>3, <2>1
  <2> QED
    BY <1>1, <2>2
<1>13. CheapOut(0)
  BY <1>2
<1> HIDE DEF Out, In, CheapOut, CheapIn
<1> DEFINE T == {k \in 0..n : Out(k)}
<1>14. T \subseteq Nat /\ n \in T
  <2>1. n \in 0..n
    BY <1>2
  <2>2. Out(n)
    BY <2>1, <1>11, <1>12
  <2> QED
    BY <2>1, <2>2
<1>15. PICK m \in T : \A y \in T : m <= y
  <2> HIDE DEF T
  <2>1. T # {}
    BY <1>14
  <2> QED
    BY <1>14, <2>1, LeastNatural
<1>16. m \in 0..n /\ Out(m)
  OBVIOUS
<1>17. CheapOut(m)
  <2>1. CASE m = 0
    BY <2>1, <1>13
  <2>2. CASE m # 0
    <3>1. m \in 1..n /\ m - 1 \in 0..n /\ ~(m <= m - 1)
      BY <2>2, <1>2, <1>16
    <3>2. m - 1 \notin T
      BY <3>1, <1>15
    <3>3. ~Out(m - 1)
      BY <3>1, <3>2
    <3> QED
      BY <3>1, <3>3, <1>11
  <2> QED
    BY <2>1, <2>2
<1> HIDE DEF T
<1> QED
  BY <1>11, <1>16, <1>17

-----------------------------------------------------------------------------
(* What a search sees of a network *)

Paces(g) == {SlowestPace} \cup
            {g.duration[e] \div g.distance[e] : e \in {f \in g.edges : g.duration[f] > 0}}
Sources(g) == [e \in g.edges |-> EdgeSource(g, e)]
PaceFor(g, metric) == IF metric = "distance" THEN 1 ELSE Min(Paces(g))
Estimates(g, algorithm, metric, target) ==
    [n \in g.nodes |->
        IF algorithm = "AStar"
        THEN Apart(g.position[n], g.position[target]) * PaceFor(g, metric)
        ELSE 0]

View(g, algorithm, metric, source, target, side) ==
    [nodes  |-> g.nodes,
     edges  |-> g.edges,
     side   |-> side,
     near   |-> IF side = "out" THEN Sources(g) ELSE g.target,
     far    |-> IF side = "out" THEN g.target ELSE Sources(g),
     weight |-> CostsOf(g, metric),
     h      |-> Estimates(g, algorithm, metric, target),
     root   |-> IF side = "out" THEN source ELSE target]

\* The distance of the grid is one.
LEMMA Metric ==
  ASSUME NEW p \in Int \X Int, NEW q \in Int \X Int
  PROVE  /\ Apart(p, q) \in Nat /\ Apart(p, q) = Apart(q, p)
         /\ \A r \in Int \X Int : Apart(p, r) <= Apart(p, q) + Apart(q, r)
<1>1. \A n \in Int : Abs(n) \in Nat /\ Abs(n) = Abs(-n)
  BY DEF Abs
<1>2. \A m, n \in Int : Abs(m + n) <= Abs(m) + Abs(n)
  BY DEF Abs
<1>3. p[1] \in Int /\ p[2] \in Int /\ q[1] \in Int /\ q[2] \in Int
  OBVIOUS
<1>4. Apart(p, q) \in Nat
  BY <1>1, <1>3 DEF Apart
<1>5. Apart(p, q) = Apart(q, p)
  <2>1. q[1] - p[1] = -(p[1] - q[1]) /\ q[2] - p[2] = -(p[2] - q[2])
    BY <1>3
  <2>2. p[1] - q[1] \in Int /\ p[2] - q[2] \in Int
    BY <1>3
  <2>3. Abs(q[1] - p[1]) = Abs(p[1] - q[1]) /\ Abs(q[2] - p[2]) = Abs(p[2] - q[2])
    BY <1>1, <2>1, <2>2
  <2> QED
    BY <2>3 DEF Apart
<1>6. ASSUME NEW r \in Int \X Int PROVE Apart(p, r) <= Apart(p, q) + Apart(q, r)
  <2>1. r[1] \in Int /\ r[2] \in Int
    OBVIOUS
  <2> DEFINE a1 == p[1] - q[1]
             a2 == p[2] - q[2]
             b1 == q[1] - r[1]
             b2 == q[2] - r[2]
  <2>2. /\ a1 \in Int /\ a2 \in Int /\ b1 \in Int /\ b2 \in Int
        /\ p[1] - r[1] = a1 + b1 /\ p[2] - r[2] = a2 + b2
    BY <1>3, <2>1
  <2>3. /\ Apart(p, q) = Abs(a1) + Abs(a2) /\ Apart(q, r) = Abs(b1) + Abs(b2)
        /\ Apart(p, r) = Abs(a1 + b1) + Abs(a2 + b2)
    BY <2>2 DEF Apart
  <2> HIDE DEF a1, a2, b1, b2
  <2>4. Abs(a1 + b1) <= Abs(a1) + Abs(b1) /\ Abs(a2 + b2) <= Abs(a2) + Abs(b2)
    BY <1>2, <2>2
  <2>5. /\ Abs(a1) \in Nat /\ Abs(a2) \in Nat /\ Abs(b1) \in Nat /\ Abs(b2) \in Nat
        /\ a1 + b1 \in Int /\ a2 + b2 \in Int
    BY <1>1, <2>2
  <2>6. Abs(a1 + b1) \in Nat /\ Abs(a2 + b2) \in Nat
    BY <1>1, <2>5
  <2> QED
    BY <2>3, <2>4, <2>5, <2>6
<1> QED
  BY <1>4, <1>5, <1>6

\* Products that the provers need to be told of.
LEMMA TimesMore == ASSUME NEW a \in Nat, NEW b \in Nat, NEW c \in Nat, a <= b
                   PROVE  a * c <= b * c /\ a * c \in Nat
OBVIOUS

\* A product of a sum.
LEMMA TimesSum == ASSUME NEW a \in Nat, NEW b \in Nat, NEW c \in Nat
                  PROVE  (a + b) * c = a * c + b * c
OBVIOUS

\* A quotient is no more than what it is of.
LEMMA DivLess == ASSUME NEW a \in Nat, NEW b \in Nat \ {0}
                 PROVE  a \div b \in Nat /\ (a \div b) * b <= a
OBVIOUS

\* The fastest pace is one no edge falls below.
LEMMA PaceBounds ==
  ASSUME NEW g, Validate(g), Measured(g)
  PROVE  /\ Min(Paces(g)) \in Nat
         /\ \A e \in g.edges : g.distance[e] * Min(Paces(g)) <= g.duration[e]
<1>1. /\ g.distance \in [g.edges -> Nat] /\ g.duration \in [g.edges -> Nat]
      /\ \A e \in g.edges : g.distance[e] > 0 <=> g.duration[e] > 0
  BY Validated DEF Measured
<1>2. \A e \in g.edges : g.duration[e] > 0 => g.distance[e] \in Nat \ {0} /\ g.duration[e] \in Nat
  BY <1>1
<1>3. \A e \in g.edges : g.duration[e] > 0 => g.duration[e] \div g.distance[e] \in Nat
  BY <1>2, DivLess
<1>4. Paces(g) \subseteq Nat /\ Paces(g) # {}
  BY <1>3 DEF Paces, SlowestPace
<1>5. \E x \in Paces(g) : \A y \in Paces(g) : x <= y
  BY <1>4, LeastNatural
<1> DEFINE P == Min(Paces(g))
<1>6. P \in Paces(g) /\ \A y \in Paces(g) : P <= y
  <2>1. P = CHOOSE x \in Paces(g) : \A y \in Paces(g) : x <= y
    BY DEF Min
  <2> HIDE DEF P
  <2> QED
    BY <1>5, <2>1
<1> HIDE DEF P
<1>7. P \in Nat
  BY <1>4, <1>6
<1>8. ASSUME NEW e \in g.edges PROVE g.distance[e] * P <= g.duration[e]
  <2>1. g.distance[e] \in Nat /\ g.duration[e] \in Nat
    BY <1>1
  <2>2. CASE g.duration[e] > 0
    <3>1. g.distance[e] \in Nat \ {0}
      BY <2>2, <1>2
    <3>2. g.duration[e] \div g.distance[e] \in Paces(g)
      BY <2>2 DEF Paces
    <3> DEFINE a == g.duration[e]
               b == g.distance[e]
               d == a \div b
    <3>3. a \in Nat /\ b \in Nat \ {0} /\ P <= d
      BY <1>6, <2>1, <3>1, <3>2
    <3>4. d \in Nat /\ d * b <= a
      <4> HIDE DEF a, b
      <4> QED
        BY <3>3, DivLess
    <3> HIDE DEF a, b, d
    <3>5. P * b <= d * b /\ P * b \in Nat
      BY <1>7, <3>3, <3>4, TimesMore
    <3>6. d * b \in Nat
      BY <3>3, <3>4
    <3>7. P * b <= a /\ P * b = b * P
      BY <1>7, <3>3, <3>4, <3>5, <3>6
    <3> QED
      BY <3>7 DEF a, b
  <2>3. CASE ~(g.duration[e] > 0)
    <3>1. g.distance[e] = 0 /\ g.duration[e] = 0
      BY <2>1, <2>3, <1>1
    <3> QED
      BY <3>1, <1>7
  <2> QED
    BY <2>2, <2>3
<1> QED
  BY <1>7, <1>8 DEF P

\* Estimates never exceed what an edge costs and the estimate beyond it, in
\* either direction: they are consistent.
LEMMA ViewSound ==
  ASSUME NEW g, Validate(g), Measured(g), NEW algorithm \in Algorithms, NEW metric \in Metrics,
         NEW source \in g.nodes, NEW target \in g.nodes, NEW side \in Sides
  PROVE  LET v == View(g, algorithm, metric, source, target, side)
         IN  ViewOK(v) /\ (algorithm # "AStar" => \A n \in v.nodes : v.h[n] = 0)
<1> DEFINE v == View(g, algorithm, metric, source, target, side)
           P == PaceFor(g, metric)
           w == CostsOf(g, metric)
           h == Estimates(g, algorithm, metric, target)
           D(m, n) == Apart(g.position[m], g.position[n])
<1>1. /\ IsFiniteSet(g.nodes) /\ g.edges \subseteq Nat
      /\ g.target \in [g.edges -> g.nodes] /\ g.position \in [g.nodes -> Int \X Int]
      /\ g.distance \in [g.edges -> Nat] /\ g.duration \in [g.edges -> Nat]
  BY Validated
<1>2. Sources(g) \in [g.edges -> g.nodes] /\ \A e \in g.edges : Sources(g)[e] = EdgeSource(g, e)
  BY SourceIs DEF Sources
<1>3. w \in [g.edges -> Nat]
  BY <1>1 DEF CostsOf
<1>4. P \in Nat /\ \A e \in g.edges : g.distance[e] * P <= w[e]
  <2>1. CASE metric = "distance"
    <3>1. P = 1 /\ w = g.distance
      BY <2>1 DEF PaceFor, CostsOf
    <3>2. \A e \in g.edges : g.distance[e] \in Nat
      BY <1>1
    <3> HIDE DEF P, w
    <3>3. \A e \in g.edges : g.distance[e] * 1 <= g.distance[e]
      BY <3>2
    <3> QED
      BY <3>1, <3>3
  <2>2. CASE metric # "distance"
    <3>1. P = Min(Paces(g)) /\ w = g.duration
      BY <2>2 DEF PaceFor, CostsOf
    <3> HIDE DEF P, w
    <3> QED
      BY <3>1, PaceBounds
  <2> QED
    BY <2>1, <2>2
<1>5. \A m, n \in g.nodes : D(m, n) \in Nat /\ D(m, n) = D(n, m)
  BY <1>1, Metric
<1>6. \A l, m, n \in g.nodes : D(l, n) <= D(l, m) + D(m, n)
  BY <1>1, Metric
<1>7. \A e \in g.edges : D(Sources(g)[e], g.target[e]) <= g.distance[e]
  BY <1>2 DEF Measured
<1>8. \A n \in g.nodes : h[n] = IF algorithm = "AStar" THEN D(n, target) * P ELSE 0
  BY DEF Estimates
<1>9. h = [n \in g.nodes |-> h[n]]
  BY DEF Estimates
<1> HIDE DEF P, w, h, D
<1>10. \A n \in g.nodes : D(n, target) * P \in Nat
  BY <1>4, <1>5, TimesMore
<1>11. h \in [g.nodes -> Nat]
  <2>1. \A n \in g.nodes : h[n] \in Nat
    BY <1>8, <1>10
  <2> QED
    BY <2>1, <1>9
<1>12. ASSUME NEW e \in g.edges, NEW m \in g.nodes, NEW n \in g.nodes, D(m, n) <= g.distance[e]
       PROVE  h[m] <= w[e] + h[n]
  <2>1. CASE algorithm = "AStar"
    <3> DEFINE a == D(m, target)
               b == D(m, n)
               d == D(n, target)
               l == g.distance[e]
    <3>1. a \in Nat /\ b \in Nat /\ d \in Nat /\ l \in Nat /\ a <= b + d /\ b <= l
      BY <1>1, <1>5, <1>6, <1>12
    <3>2. l * P <= w[e] /\ w[e] \in Nat
      BY <1>3, <1>4
    <3>3. h[m] = a * P /\ h[n] = d * P
      BY <2>1, <1>8
    <3> HIDE DEF a, b, d, l
    <3>4. a <= l + d /\ l + d \in Nat
      BY <3>1
    <3>5. a * P <= (l + d) * P /\ a * P \in Nat
      BY <3>1, <3>4, <1>4, TimesMore
    <3>6. (l + d) * P = l * P + d * P
      BY <3>1, <1>4, TimesSum
    <3>7. l * P \in Nat /\ d * P \in Nat
      BY <3>1, <1>4
    <3> DEFINE x == a * P
               y == l * P
               z == d * P
               k == w[e]
    <3>8. x \in Nat /\ y \in Nat /\ z \in Nat /\ k \in Nat /\ x <= y + z /\ y <= k
      BY <3>2, <3>5, <3>6, <3>7
    <3> HIDE DEF x, y, z, k
    <3>9. x <= k + z
      BY <3>8
    <3> QED
      BY <3>3, <3>9 DEF x, z, k
  <2>2. CASE algorithm # "AStar"
    <3>1. h[m] = 0 /\ h[n] = 0 /\ w[e] \in Nat
      BY <2>2, <1>3, <1>8
    <3> QED
      BY <3>1
  <2> QED
    BY <2>1, <2>2
<1>13. /\ v.nodes = g.nodes /\ v.edges = g.edges /\ v.weight = w /\ v.h = h
       /\ v.near = (IF side = "out" THEN Sources(g) ELSE g.target)
       /\ v.far = (IF side = "out" THEN g.target ELSE Sources(g))
       /\ v.root = (IF side = "out" THEN source ELSE target)
  BY DEF View, w, h
<1> HIDE DEF v
<1>14. ASSUME NEW e \in g.edges PROVE h[v.near[e]] <= w[e] + h[v.far[e]]
  <2> DEFINE s == Sources(g)[e]
             t == g.target[e]
  <2>1. s \in g.nodes /\ t \in g.nodes
    BY <1>1, <1>2
  <2>2. D(s, t) <= g.distance[e] /\ D(t, s) <= g.distance[e]
    <3>1. D(s, t) <= g.distance[e]
      BY <1>7
    <3>2. D(t, s) = D(s, t)
      BY <2>1, <1>5
    <3> QED
      BY <3>1, <3>2
  <2>3. h[s] <= w[e] + h[t] /\ h[t] <= w[e] + h[s]
    <3> HIDE DEF s, t
    <3> QED
      BY <2>1, <2>2, <1>12
  <2> QED
    BY <2>3, <1>13
<1>15. v.near \in [g.edges -> g.nodes] /\ v.far \in [g.edges -> g.nodes] /\ v.root \in g.nodes
  BY <1>1, <1>2, <1>13
<1>16. ViewOK(v)
  BY <1>1, <1>3, <1>11, <1>13, <1>14, <1>15 DEF ViewOK
<1>17. algorithm # "AStar" => \A n \in g.nodes : h[n] = 0
  BY <1>8
<1> QED
  BY <1>13, <1>16, <1>17 DEF v

-----------------------------------------------------------------------------
(* The search of the specification *)

SearchStates(g) ==
    [source   : g.nodes,
     target   : g.nodes,
     cost     : [Sides -> [g.nodes -> 0..Infinite]],
     via      : [Sides -> [g.nodes -> g.edges \cup {NoEdge}]],
     queue    : [Sides -> SUBSET (Nat \X g.nodes)],
     best     : 0..Infinite,
     meeting  : g.nodes \cup {NoNode},
     expanded : Nat]

ViewOf(g, algorithm, metric, s, side) == View(g, algorithm, metric, s.source, s.target, side)

\* What holds of one side of a search, but for the edges to do.
SideOK(v, s, side, todo) ==
    /\ Steady(v, s.cost[side], s.queue[side])
    /\ Tree(v, s.cost[side], s.queue[side], s.via[side])
    /\ Grown(v, s.cost[side], s.via[side])
    /\ Spread(v, s.cost[side], s.queue[side], todo)

ClosedOn(v, s, side) == Closed(v, s.cost[side], s.queue[side])

\* The best meeting is at the node where the two sides cost least.
Met(s, nodes) ==
    /\ \A n \in nodes : s.best <= s.cost["out"][n] + s.cost["in"][n]
    /\ s.best < Infinite =>
          s.meeting \in nodes /\ s.best = s.cost["out"][s.meeting] + s.cost["in"][s.meeting]
    /\ s.best >= Infinite => s.meeting = NoNode

SearchOK(g, algorithm, metric, s) ==
    /\ s \in SearchStates(g)
    /\ \A side \in Sides : SideOK(ViewOf(g, algorithm, metric, s, side), s, side, {})
    /\ s.expanded = Cardinality(ClosedOn(ViewOf(g, algorithm, metric, s, "out"), s, "out"))
                      + Cardinality(ClosedOn(ViewOf(g, algorithm, metric, s, "in"), s, "in"))
    /\ algorithm = "Bidirectional" => Met(s, g.nodes)
    /\ algorithm # "Bidirectional" =>
          ClosedOn(ViewOf(g, algorithm, metric, s, "in"), s, "in") = {}

\* The network a request searches.
InContext ==
    /\ Validate(graph) /\ Measured(graph)
    /\ request.algorithm \in Algorithms /\ request.metric \in Metrics

MyView(s, side) == ViewOf(graph, request.algorithm, request.metric, s, side)

\* What the search under way sees is a view.
LEMMA MyViewOK ==
  ASSUME InContext, NEW s \in SearchStates(graph), NEW side \in Sides
  PROVE  LET v == MyView(s, side)
         IN  /\ ViewOK(v) /\ v.nodes = graph.nodes /\ v.edges = graph.edges /\ v.side = side
             /\ request.algorithm # "AStar" => \A n \in graph.nodes : v.h[n] = 0
<1>1. s.source \in graph.nodes /\ s.target \in graph.nodes
  BY DEF SearchStates
<1>2. ViewOK(MyView(s, side)) /\
      (request.algorithm # "AStar" => \A n \in MyView(s, side).nodes : MyView(s, side).h[n] = 0)
  BY <1>1, ViewSound DEF MyView, ViewOf, InContext
<1>3. MyView(s, side).nodes = graph.nodes /\ MyView(s, side).edges = graph.edges
        /\ MyView(s, side).side = side
  BY DEF MyView, ViewOf, View
<1> QED
  BY <1>2, <1>3

\* The operators of the specification are those of the view.
LEMMA SeenThrough ==
  ASSUME InContext, NEW s \in SearchStates(graph), NEW side \in Sides
  PROVE  LET v == MyView(s, side)
         IN  /\ \A e \in graph.edges : Other(side, e) = v.far[e]
             /\ \A e \in graph.edges : Weight(request.metric, e) = v.weight[e]
             /\ \A n \in graph.nodes : Estimate(n, s.target) = v.h[n]
             /\ v.root = IF side = "out" THEN s.source ELSE s.target
<1> DEFINE v == MyView(s, side)
<1>1. v.far = (IF side = "out" THEN graph.target ELSE Sources(graph))
  BY DEF MyView, ViewOf, View
<1>2. v.weight = CostsOf(graph, request.metric)
  BY DEF MyView, ViewOf, View
<1>3. v.h = Estimates(graph, request.algorithm, request.metric, s.target)
  BY DEF MyView, ViewOf, View
<1>4. v.root = IF side = "out" THEN s.source ELSE s.target
  BY DEF MyView, ViewOf, View
<1> HIDE DEF v
<1>5. \A e \in graph.edges : Other(side, e) = v.far[e]
  BY <1>1 DEF Other, Sources
<1>6. \A e \in graph.edges : Weight(request.metric, e) = v.weight[e]
  BY <1>2 DEF Weight, Costs, CostsOf
<1>7. FastestPace = Min(Paces(graph))
  BY DEF FastestPace, Paces
<1>8. \A n \in graph.nodes : Estimate(n, s.target) = v.h[n]
  BY <1>3, <1>7 DEF Estimate, Heuristic, Estimates, PaceFor
<1> QED
  BY <1>4, <1>5, <1>6, <1>8 DEF v

\* Estimates are numbers.
LEMMA EstimateNat ==
  ASSUME InContext, NEW n \in graph.nodes, NEW t \in graph.nodes
  PROVE  Estimate(n, t) \in Nat
<1>1. FastestPace = Min(Paces(graph))
  BY DEF FastestPace, Paces
<1>2. FastestPace \in Nat
  BY <1>1, PaceBounds DEF InContext
<1>3. Apart(graph.position[n], graph.position[t]) \in Nat
  <2>1. graph.position \in [graph.nodes -> Int \X Int]
    BY Validated DEF InContext
  <2>2. graph.position[n] \in Int \X Int /\ graph.position[t] \in Int \X Int
    BY <2>1
  <2> QED
    BY <2>2, Metric
<1>4. Heuristic(n, t) \in Nat
  <2> DEFINE a == Apart(graph.position[n], graph.position[t])
             p == IF request.metric = "distance" THEN 1 ELSE FastestPace
  <2>1. a \in Nat /\ p \in Nat
    BY <1>2, <1>3
  <2>2. Heuristic(n, t) = a * p
    BY DEF Heuristic
  <2> HIDE DEF a, p
  <2>3. a * p \in Nat
    BY <2>1
  <2> QED
    BY <2>2, <2>3
<1> QED
  BY <1>4 DEF Estimate

\* Weights are numbers.
LEMMA WeightNat ==
  ASSUME InContext, NEW e \in graph.edges
  PROVE  Weight(request.metric, e) \in Nat
<1>1. graph.distance \in [graph.edges -> Nat] /\ graph.duration \in [graph.edges -> Nat]
  BY Validated DEF InContext
<1> QED
  BY <1>1 DEF Weight, Costs, CostsOf

\* The other end of an edge is a node.
LEMMA OtherNode ==
  ASSUME InContext, NEW e \in graph.edges, NEW side \in Sides
  PROVE  Other(side, e) \in graph.nodes
<1>1. graph.target \in [graph.edges -> graph.nodes] /\ EdgeSource(graph, e) \in graph.nodes
  BY Validated, SourceIs DEF InContext
<1> QED
  BY <1>1 DEF Other

\* The fields of a record of which parts of three are replaced.
LEMMA ThreeFields ==
  ASSUME NEW S, NEW C, NEW V, NEW Q, NEW B, NEW M, NEW N,
         NEW s \in [source : S, target : S, cost : C, via : V, queue : Q,
                    best : B, meeting : M, expanded : N],
         NEW side, NEW n, NEW c, NEW e, NEW entry
  PROVE  LET t == [s EXCEPT !.cost[side][n] = c, !.via[side][n] = e,
                            !.queue[side] = @ \cup {entry}]
             cost == [s.cost EXCEPT ![side] = [s.cost[side] EXCEPT ![n] = c]]
             via == [s.via EXCEPT ![side] = [s.via[side] EXCEPT ![n] = e]]
             queue == [s.queue EXCEPT ![side] = s.queue[side] \cup {entry}]
         IN  /\ t.cost = cost /\ t.via = via /\ t.queue = queue
             /\ t.source = s.source /\ t.target = s.target /\ t.best = s.best
             /\ t.meeting = s.meeting /\ t.expanded = s.expanded
             /\ cost \in C /\ via \in V /\ queue \in Q =>
                   t \in [source : S, target : S, cost : C, via : V, queue : Q,
                          best : B, meeting : M, expanded : N]
OBVIOUS

\* What relaxing an edge makes of each field.
LEMMA RelaxFields ==
  ASSUME InContext, search \in SearchStates(graph), NEW side \in Sides,
         NEW x \in graph.nodes, NEW s \in SearchStates(graph), NEW e \in graph.edges
  PROVE  LET r == Relax(side, x, s, e)
             next == Other(side, e)
             cost == search.cost[side][x] + Weight(request.metric, e)
         IN  /\ r \in SearchStates(graph)
             /\ r.source = s.source /\ r.target = s.target /\ r.best = s.best
             /\ r.meeting = s.meeting /\ r.expanded = s.expanded
             /\ \A o \in Sides \ {side} : /\ r.cost[o] = s.cost[o] /\ r.via[o] = s.via[o]
                                          /\ r.queue[o] = s.queue[o]
             /\ cost < s.cost[side][next] =>
                   /\ r.cost[side] = [s.cost[side] EXCEPT ![next] = cost]
                   /\ r.via[side] = [s.via[side] EXCEPT ![next] = e]
                   /\ r.queue[side] = s.queue[side] \cup {<<cost + Estimate(next, s.target), next>>}
             /\ ~(cost < s.cost[side][next]) => r = s
<1> DEFINE next == Other(side, e)
           cost == search.cost[side][x] + Weight(request.metric, e)
           r == Relax(side, x, s, e)
<1>1. next \in graph.nodes
  BY OtherNode
<1>2. cost \in Nat
  <2>1. search.cost[side][x] \in Nat
    BY InfiniteNat DEF SearchStates
  <2> QED
    BY <2>1, WeightNat
<1>3. CASE ~(cost < s.cost[side][next])
  <2>1. r = s
    BY <1>3 DEF Relax, Reaching, Improves
  <2> QED
    BY <1>3, <2>1
<1>4. CASE cost < s.cost[side][next]
  <2> DEFINE entry == <<cost + Estimate(next, s.target), next>>
             t == [s EXCEPT !.cost[side][next] = cost, !.via[side][next] = e,
                            !.queue[side] = @ \cup {entry}]
  <2>1. r = t
    BY <1>4 DEF Relax, Reaching, Improves
  <2>2. s.target \in graph.nodes
    BY DEF SearchStates
  <2>3. entry \in Nat \X graph.nodes
    <3>1. Estimate(next, s.target) \in Nat
      BY <1>1, <2>2, EstimateNat
    <3> QED
      BY <1>1, <1>2, <3>1
  <2>4. cost \in 0..Infinite
    <3>1. s.cost[side][next] \in 0..Infinite
      BY <1>1 DEF SearchStates
    <3> QED
      BY <1>2, <1>4, <3>1, InfiniteNat
  <2> HIDE DEF next, cost, entry
  <2>5. /\ s.cost \in [Sides -> [graph.nodes -> 0..Infinite]]
        /\ s.via \in [Sides -> [graph.nodes -> graph.edges \cup {NoEdge}]]
        /\ s.queue \in [Sides -> SUBSET (Nat \X graph.nodes)]
    BY DEF SearchStates
  <2>6. s \in [source : graph.nodes, target : graph.nodes,
               cost : [Sides -> [graph.nodes -> 0..Infinite]],
               via : [Sides -> [graph.nodes -> graph.edges \cup {NoEdge}]],
               queue : [Sides -> SUBSET (Nat \X graph.nodes)],
               best : 0..Infinite, meeting : graph.nodes \cup {NoNode}, expanded : Nat]
    BY DEF SearchStates
  <2>7. /\ t.source = s.source /\ t.target = s.target /\ t.best = s.best
        /\ t.meeting = s.meeting /\ t.expanded = s.expanded
        /\ t.cost = [s.cost EXCEPT ![side] = [s.cost[side] EXCEPT ![next] = cost]]
        /\ t.via = [s.via EXCEPT ![side] = [s.via[side] EXCEPT ![next] = e]]
        /\ t.queue = [s.queue EXCEPT ![side] = s.queue[side] \cup {entry}]
    BY <2>6, ThreeFields
  <2>8. /\ t.cost \in [Sides -> [graph.nodes -> 0..Infinite]]
        /\ t.via \in [Sides -> [graph.nodes -> graph.edges \cup {NoEdge}]]
        /\ t.queue \in [Sides -> SUBSET (Nat \X graph.nodes)]
    <3>1. [s.cost[side] EXCEPT ![next] = cost] \in [graph.nodes -> 0..Infinite]
      BY <2>4, <2>5
    <3>2. [s.via[side] EXCEPT ![next] = e] \in [graph.nodes -> graph.edges \cup {NoEdge}]
      BY <2>5
    <3>3. s.queue[side] \cup {entry} \in SUBSET (Nat \X graph.nodes)
      BY <2>3, <2>5
    <3> QED
      BY <2>5, <2>7, <3>1, <3>2, <3>3
  <2>9. t \in SearchStates(graph)
    <3>1. /\ [s.cost EXCEPT ![side] = [s.cost[side] EXCEPT ![next] = cost]]
               \in [Sides -> [graph.nodes -> 0..Infinite]]
          /\ [s.via EXCEPT ![side] = [s.via[side] EXCEPT ![next] = e]]
               \in [Sides -> [graph.nodes -> graph.edges \cup {NoEdge}]]
          /\ [s.queue EXCEPT ![side] = s.queue[side] \cup {entry}]
               \in [Sides -> SUBSET (Nat \X graph.nodes)]
      BY <2>7, <2>8
    <3> QED
      BY <2>6, <3>1, ThreeFields DEF SearchStates, t
  <2>10. /\ t.cost[side] = [s.cost[side] EXCEPT ![next] = cost]
         /\ t.via[side] = [s.via[side] EXCEPT ![next] = e]
         /\ t.queue[side] = s.queue[side] \cup {entry}
         /\ \A o \in Sides \ {side} : /\ t.cost[o] = s.cost[o] /\ t.via[o] = s.via[o]
                                      /\ t.queue[o] = s.queue[o]
    BY <2>5, <2>7
  <2> HIDE DEF r
  <2> QED
    BY <1>4, <2>1, <2>7, <2>9, <2>10 DEF next, cost, entry, r
<1> QED
  BY <1>3, <1>4

\* What holds while the edges of a node are relaxed, but for those to do.
Relaxing(s, side, x, todo, closed) ==
    /\ s \in SearchStates(graph)
    /\ s.source = search.source /\ s.target = search.target
    /\ s.expanded = search.expanded + 1
    /\ \A o \in Sides \ {side} : /\ s.cost[o] = search.cost[o] /\ s.via[o] = search.via[o]
                                 /\ s.queue[o] = search.queue[o]
    /\ s.cost[side][x] = search.cost[side][x]
    /\ SideOK(MyView(search, side), s, side, todo)
    /\ Latest(MyView(search, side), s.cost[side], s.queue[side], x)
    /\ ClosedOn(MyView(search, side), s, side) = closed

BothMet(s) == request.algorithm = "Bidirectional" => Met(s, graph.nodes)

\* Relaxing an edge keeps what holds of its side.
LEMMA RelaxSide ==
  ASSUME InContext, search \in SearchStates(graph), NEW side \in Sides,
         NEW x \in graph.nodes, NEW s, NEW todo, NEW closed, Relaxing(s, side, x, todo, closed),
         NEW e \in graph.edges, MyView(search, side).near[e] = x
  PROVE  Relaxing(Relax(side, x, s, e), side, x, todo \ {e}, closed)
<1> DEFINE v == MyView(search, side)
           next == Other(side, e)
           cost == search.cost[side][x] + Weight(request.metric, e)
           r == Relax(side, x, s, e)
           c == s.cost[side]
           q == s.queue[side]
           p == s.via[side]
<1>1. /\ ViewOK(v) /\ v.nodes = graph.nodes /\ v.edges = graph.edges
  BY MyViewOK
<1>2. next = v.far[e] /\ Weight(request.metric, e) = v.weight[e]
  BY SeenThrough
<1>3. next \in graph.nodes
  BY OtherNode
<1>4. Estimate(next, search.target) = v.h[next]
  BY <1>3, SeenThrough
<1>5. s \in SearchStates(graph) /\ s.source = search.source /\ s.target = search.target
  BY DEF Relaxing
<1>6. s.cost[side][x] = search.cost[side][x]
  BY DEF Relaxing
<1>7. /\ Steady(v, c, q) /\ Tree(v, c, q, p) /\ Grown(v, c, p) /\ Spread(v, c, q, todo)
  BY DEF Relaxing, SideOK
<1>8. Latest(v, c, q, x) /\ Closed(v, c, q) = closed
  BY DEF Relaxing, ClosedOn
<1>9. /\ r \in SearchStates(graph)
      /\ r.source = s.source /\ r.target = s.target
      /\ r.expanded = s.expanded
      /\ \A o \in Sides \ {side} : /\ r.cost[o] = s.cost[o] /\ r.via[o] = s.via[o]
                                   /\ r.queue[o] = s.queue[o]
      /\ cost < c[next] =>
            /\ r.cost[side] = [c EXCEPT ![next] = cost]
            /\ r.via[side] = [p EXCEPT ![next] = e]
            /\ r.queue[side] = q \cup {<<cost + Estimate(next, s.target), next>>}
      /\ ~(cost < c[next]) => r = s
  BY <1>5, RelaxFields
<1>10. cost = c[x] + v.weight[e]
  BY <1>2, <1>6
<1> HIDE DEF v, next, cost, r, c, q, p
<1>11. CASE cost < c[next]
  <2>1. /\ r.cost[side] = [c EXCEPT ![next] = cost]
        /\ r.via[side] = [p EXCEPT ![next] = e]
        /\ r.queue[side] = q \cup {<<cost + v.h[next], next>>}
    BY <1>4, <1>5, <1>9, <1>11
  <2>2. c[x] + v.weight[e] < c[v.far[e]] /\ e \in v.edges /\ v.near[e] = x
    BY <1>1, <1>2, <1>10, <1>11 DEF v
  <2> DEFINE c2 == [c EXCEPT ![next] = cost]
             q2 == q \cup {<<cost + v.h[next], next>>}
             p2 == [p EXCEPT ![next] = e]
  <2>3. /\ Steady(v, c2, q2) /\ Closed(v, c2, q2) = closed
        /\ Latest(v, c2, q2, x) /\ c2[x] = c[x]
    BY <1>1, <1>2, <1>7, <1>8, <1>10, <2>2, SteadyRelax
  <2>4. Tree(v, c2, q2, p2) /\ Grown(v, c2, p2)
    BY <1>1, <1>2, <1>7, <1>8, <1>10, <2>2, TreeRelax
  <2>5. Spread(v, c2, q2, todo \ {e})
    BY <1>1, <1>2, <1>7, <1>8, <1>10, <2>2, SpreadRelax
  <2>6. SideOK(v, r, side, todo \ {e})
    BY <2>1, <2>3, <2>4, <2>5 DEF SideOK
  <2>7. /\ Latest(v, r.cost[side], r.queue[side], x)
        /\ ClosedOn(v, r, side) = closed /\ r.cost[side][x] = c[x]
    BY <2>1, <2>3 DEF ClosedOn
  <2> QED
    BY <1>9, <2>6, <2>7, <1>6 DEF Relaxing, r, v, c
<1>12. CASE ~(cost < c[next])
  <2>1. r = s
    BY <1>9, <1>12
  <2>2. ~(c[v.near[e]] + v.weight[e] < c[v.far[e]]) /\ e \in v.edges
    BY <1>1, <1>2, <1>10, <1>12 DEF v
  <2>3. Spread(v, c, q, todo \ {e})
    BY <1>1, <1>7, <2>2, SpreadSame
  <2>4. SideOK(v, s, side, todo \ {e})
    BY <1>7, <2>3 DEF SideOK, c, q, p
  <2> QED
    BY <2>1, <2>4 DEF Relaxing, r, v
<1> QED
  BY <1>11, <1>12

\* A node and its costs from both sides, before and after relaxing an edge.
LEMMA MetRelax ==
  ASSUME InContext, search \in SearchStates(graph), NEW side \in Sides,
         NEW x \in graph.nodes, NEW s \in SearchStates(graph), NEW e \in graph.edges,
         \A o \in Sides \ {side} : s.cost[o] = search.cost[o],
         Met(s, graph.nodes)
  PROVE  LET r == RelaxBoth(side, x, s, e)
             t == Relax(side, x, s, e)
         IN  /\ r \in SearchStates(graph)
             /\ Met(r, graph.nodes)
             /\ r.source = t.source /\ r.target = t.target /\ r.expanded = t.expanded
             /\ r.cost = t.cost /\ r.via = t.via /\ r.queue = t.queue
<1> DEFINE next == Other(side, e)
           opp == Opposite(side)
           cost == search.cost[side][x] + Weight(request.metric, e)
           sum == cost + search.cost[opp][next]
           t == Relax(side, x, s, e)
           r == RelaxBoth(side, x, s, e)
<1>1. r = IF sum < t.best THEN [t EXCEPT !.best = sum, !.meeting = next] ELSE t
  BY DEF RelaxBoth, Reaching, Meet
<1>2. next \in graph.nodes
  BY OtherNode
<1>3. opp \in Sides /\ opp # side /\ {side, opp} = {"out", "in"}
  BY DEF Sides, Opposite
<1>4. cost \in Nat
  <2>1. search.cost[side][x] \in Nat
    BY InfiniteNat DEF SearchStates
  <2> QED
    BY <2>1, WeightNat
<1>5. /\ t \in SearchStates(graph) /\ t.best = s.best /\ t.meeting = s.meeting
      /\ t.cost[opp] = s.cost[opp]
      /\ cost < s.cost[side][next] => t.cost[side] = [s.cost[side] EXCEPT ![next] = cost]
      /\ ~(cost < s.cost[side][next]) => t = s
  <2>1. /\ t \in SearchStates(graph) /\ t.best = s.best /\ t.meeting = s.meeting
        /\ \A o \in Sides \ {side} : /\ t.cost[o] = s.cost[o] /\ t.via[o] = s.via[o]
                                     /\ t.queue[o] = s.queue[o]
        /\ cost < s.cost[side][next] =>
              /\ t.cost[side] = [s.cost[side] EXCEPT ![next] = cost]
              /\ t.via[side] = [s.via[side] EXCEPT ![next] = e]
              /\ t.queue[side] = s.queue[side] \cup {<<cost + Estimate(next, s.target), next>>}
        /\ ~(cost < s.cost[side][next]) => t = s
    BY RelaxFields
  <2> HIDE DEF t, cost, next, opp
  <2>2. t.cost[opp] = s.cost[opp]
    BY <1>3, <2>1
  <2> QED
    BY <2>1, <2>2
<1>6. search.cost[opp][next] = s.cost[opp][next]
  BY <1>3
<1> DEFINE a(n) == s.cost[side][n]
           b(n) == s.cost[opp][n]
           d(n) == t.cost[side][n]
<1>7. \A n \in graph.nodes : a(n) \in Nat /\ b(n) \in Nat /\ d(n) \in Nat
  BY <1>3, <1>5, InfiniteNat DEF SearchStates
<1>8. /\ \A n \in graph.nodes : s.best <= a(n) + b(n)
      /\ s.best < Infinite => s.meeting \in graph.nodes /\ s.best = a(s.meeting) + b(s.meeting)
      /\ s.best >= Infinite => s.meeting = NoNode
  <2> DEFINE y(n) == s.cost["out"][n]
             z(n) == s.cost["in"][n]
  <2>1. \A n \in graph.nodes : y(n) \in Nat /\ z(n) \in Nat
    BY InfiniteNat DEF SearchStates, Sides
  <2>2. /\ \A n \in graph.nodes : s.best <= y(n) + z(n)
        /\ s.best < Infinite => s.meeting \in graph.nodes /\ s.best = y(s.meeting) + z(s.meeting)
        /\ s.best >= Infinite => s.meeting = NoNode
    BY DEF Met
  <2>3. (side = "out" /\ opp = "in") \/ (side = "in" /\ opp = "out")
    BY <1>3 DEF Sides, Opposite
  <2>4. CASE side = "out" /\ opp = "in"
    BY <2>2, <2>4
  <2>5. CASE side = "in" /\ opp = "out"
    <3>1. \A n : a(n) = z(n) /\ b(n) = y(n)
      BY <2>5
    <3> HIDE DEF a, b, y, z
    <3>2. \A n \in graph.nodes : a(n) + b(n) = y(n) + z(n)
      BY <3>1, <2>1
    <3> QED
      BY <2>2, <3>2
  <2> QED
    BY <2>3, <2>4, <2>5
<1>9. \A n \in graph.nodes \ {next} : d(n) = a(n)
  BY <1>5 DEF SearchStates
<1>10. IF cost < a(next) THEN d(next) = cost ELSE d(next) = a(next)
  <2>1. s.cost[side] \in [graph.nodes -> 0..Infinite]
    BY DEF SearchStates
  <2> QED
    BY <1>2, <1>5, <2>1
<1>11. sum = cost + b(next)
  BY <1>6
<1>12. s.best \in 0..Infinite
  BY DEF SearchStates
<1>13. sum \in Nat
  BY <1>2, <1>4, <1>7, <1>11
<1>14. t \in [source : graph.nodes, target : graph.nodes,
               cost : [Sides -> [graph.nodes -> 0..Infinite]],
               via : [Sides -> [graph.nodes -> graph.edges \cup {NoEdge}]],
               queue : [Sides -> SUBSET (Nat \X graph.nodes)],
               best : 0..Infinite, meeting : graph.nodes \cup {NoNode}, expanded : Nat]
  BY <1>5 DEF SearchStates
<1> DEFINE best == IF sum < s.best THEN sum ELSE s.best
           meeting == IF sum < s.best THEN next ELSE s.meeting
<1>15. /\ r.source = t.source /\ r.target = t.target /\ r.expanded = t.expanded
       /\ r.cost = t.cost /\ r.via = t.via /\ r.queue = t.queue
       /\ r.best = best /\ r.meeting = meeting
  <2> HIDE DEF t, r, sum, next
  <2>1. CASE sum < s.best
    BY <1>1, <1>5, <1>14, <2>1
  <2>2. CASE ~(sum < s.best)
    BY <1>1, <1>5, <2>2
  <2> QED
    BY <2>1, <2>2
<1>16. r \in SearchStates(graph)
  <2>1. CASE sum < s.best
    <3>1. sum \in 0..Infinite
      BY <1>12, <1>13, <2>1, InfiniteNat
    <3> HIDE DEF t, r, sum, next
    <3>2. r = [t EXCEPT !.best = sum, !.meeting = next]
      BY <1>1, <1>5, <2>1
    <3> QED
      BY <1>2, <1>14, <3>1, <3>2 DEF SearchStates
  <2>2. CASE ~(sum < s.best)
    BY <1>1, <1>5, <2>2
  <2> QED
    BY <2>1, <2>2
<1> HIDE DEF t, r, sum, next, cost, a, b, d
<1>17. \A n \in graph.nodes : best <= d(n) + b(n)
  <2> TAKE n \in graph.nodes
  <2>1. CASE n = next
    BY <1>2, <1>4, <1>7, <1>8, <1>10, <1>11, <1>12, <2>1
  <2>2. CASE n # next
    <3>1. d(n) = a(n) /\ s.best <= a(n) + b(n) /\ a(n) \in Nat /\ b(n) \in Nat
      BY <1>7, <1>8, <1>9, <2>2
    <3> QED
      BY <1>12, <1>13, <3>1
  <2> QED
    BY <2>1, <2>2
<1>18. best < Infinite => meeting \in graph.nodes /\ best = d(meeting) + b(meeting)
  <2> HAVE best < Infinite
  <2>1. CASE sum < s.best
    <3>1. b(next) <= cost + b(next) /\ s.best <= a(next) + b(next)
      BY <1>2, <1>4, <1>7, <1>8
    <3>2. cost < a(next)
      BY <1>2, <1>4, <1>7, <1>11, <1>12, <2>1, <3>1
    <3> QED
      BY <1>2, <1>10, <1>11, <2>1, <3>2
  <2>2. CASE ~(sum < s.best)
    <3>1. best = s.best /\ meeting = s.meeting
      BY <2>2
    <3>2. s.meeting \in graph.nodes /\ s.best = a(s.meeting) + b(s.meeting)
      BY <1>8, <3>1
    <3>3. CASE s.meeting # next
      BY <1>9, <3>1, <3>2, <3>3
    <3>4. CASE s.meeting = next
      <4>1. ~(cost < a(next))
        BY <1>2, <1>4, <1>7, <1>11, <1>12, <2>2, <3>2, <3>4
      <4> QED
        BY <1>10, <3>1, <3>2, <3>4, <4>1
    <3> QED
      BY <3>3, <3>4
  <2> QED
    BY <2>1, <2>2
<1>19. best >= Infinite => meeting = NoNode
  BY <1>8, <1>12, <1>13, InfiniteNat
<1>20. Met(r, graph.nodes)
  <2>1. \A n \in graph.nodes : r.cost[side][n] = d(n) /\ r.cost[opp][n] = b(n)
    BY <1>5, <1>15 DEF d, b
  <2> HIDE DEF best, meeting
  <2>2. \A n \in graph.nodes : d(n) + b(n) = r.cost["out"][n] + r.cost["in"][n]
    <3>1. (side = "out" /\ opp = "in") \/ (side = "in" /\ opp = "out")
      BY <1>3 DEF Sides, Opposite
    <3>2. \A n \in graph.nodes : d(n) + b(n) = b(n) + d(n)
      BY <1>7
    <3> QED
      BY <2>1, <3>1, <3>2
  <2> QED
    BY <1>15, <1>17, <1>18, <1>19, <2>2 DEF Met
<1> QED
  BY <1>15, <1>16, <1>20 DEF r, t

\* What relaxing makes of any search is a search.
LEMMA RelaxTyped ==
  ASSUME InContext, search \in SearchStates(graph), NEW side \in Sides,
         NEW x \in graph.nodes, NEW s \in SearchStates(graph), NEW e \in graph.edges
  PROVE  RelaxEdge(side, x, s, e) \in SearchStates(graph)
<1> DEFINE next == Other(side, e)
           sum == search.cost[side][x] + Weight(request.metric, e)
                    + search.cost[Opposite(side)][next]
           t == Relax(side, x, s, e)
           r == RelaxBoth(side, x, s, e)
<1>1. t \in SearchStates(graph)
  BY RelaxFields
<1>2. r = IF sum < t.best THEN [t EXCEPT !.best = sum, !.meeting = next] ELSE t
  BY DEF RelaxBoth, Reaching, Meet
<1>3. next \in graph.nodes
  BY OtherNode
<1>4. sum \in Nat
  <2>1. search.cost[side][x] \in Nat /\ search.cost[Opposite(side)][next] \in Nat
    BY <1>3, InfiniteNat DEF SearchStates, Sides, Opposite
  <2> QED
    BY <2>1, WeightNat
<1>5. t \in [source : graph.nodes, target : graph.nodes,
               cost : [Sides -> [graph.nodes -> 0..Infinite]],
               via : [Sides -> [graph.nodes -> graph.edges \cup {NoEdge}]],
               queue : [Sides -> SUBSET (Nat \X graph.nodes)],
               best : 0..Infinite, meeting : graph.nodes \cup {NoNode}, expanded : Nat]
  BY <1>1 DEF SearchStates
<1> HIDE DEF next, sum, t, r
<1>6. r \in SearchStates(graph)
  <2>1. CASE sum < t.best
    <3>1. sum \in 0..Infinite
      BY <1>4, <1>5, <2>1, InfiniteNat
    <3> QED
      BY <1>2, <1>3, <1>5, <2>1, <3>1 DEF SearchStates
  <2>2. CASE ~(sum < t.best)
    BY <1>1, <1>2, <2>2
  <2> QED
    BY <2>1, <2>2
<1> QED
  BY <1>1, <1>6 DEF RelaxEdge, r, t

\* An edge is relaxed.
LEMMA RelaxOne ==
  ASSUME InContext, search \in SearchStates(graph), NEW side \in Sides,
         NEW x \in graph.nodes, NEW s, NEW todo, NEW closed, Relaxing(s, side, x, todo, closed),
         BothMet(s),
         NEW e \in graph.edges, MyView(search, side).near[e] = x
  PROVE  LET r == RelaxEdge(side, x, s, e)
         IN  /\ Relaxing(r, side, x, todo \ {e}, closed)
             /\ BothMet(r)
<1> DEFINE t == Relax(side, x, s, e)
           r == RelaxEdge(side, x, s, e)
<1>1. Relaxing(t, side, x, todo \ {e}, closed)
  BY RelaxSide
<1>2. CASE request.algorithm # "Bidirectional"
  <2>1. r = t
    BY <1>2 DEF RelaxEdge
  <2>2. BothMet(r)
    BY <1>2 DEF BothMet
  <2> QED
    BY <1>1, <2>1, <2>2
<1>3. CASE request.algorithm = "Bidirectional"
  <2>1. r = RelaxBoth(side, x, s, e)
    BY <1>3 DEF RelaxEdge
  <2>2. s \in SearchStates(graph) /\ \A o \in Sides \ {side} : s.cost[o] = search.cost[o]
    BY DEF Relaxing
  <2>3. /\ r \in SearchStates(graph)
        /\ Met(r, graph.nodes)
        /\ r.source = t.source /\ r.target = t.target /\ r.expanded = t.expanded
        /\ r.cost = t.cost /\ r.via = t.via /\ r.queue = t.queue
    BY <1>3, <2>1, <2>2, MetRelax DEF BothMet
  <2> HIDE DEF r, t
  <2>4. SideOK(MyView(search, side), r, side, todo \ {e})
    BY <1>1, <2>3 DEF Relaxing, SideOK
  <2>5. /\ Latest(MyView(search, side), r.cost[side], r.queue[side], x)
        /\ ClosedOn(MyView(search, side), r, side) = closed
    BY <1>1, <2>3 DEF Relaxing, ClosedOn
  <2>6. /\ r.source = search.source /\ r.target = search.target
        /\ r.expanded = search.expanded + 1
        /\ \A o \in Sides \ {side} : /\ r.cost[o] = search.cost[o] /\ r.via[o] = search.via[o]
                                     /\ r.queue[o] = search.queue[o]
        /\ r.cost[side][x] = search.cost[side][x]
    BY <1>1, <2>3 DEF Relaxing
  <2>7. Relaxing(r, side, x, todo \ {e}, closed)
    BY <2>3, <2>4, <2>5, <2>6 DEF Relaxing
  <2>8. BothMet(r)
    BY <2>3 DEF BothMet
  <2> QED
    BY <2>7, <2>8 DEF r
<1> QED
  BY <1>2, <1>3

\* The loop over the edges of a node.
LEMMA RelaxedIs ==
  ASSUME InContext, search \in SearchStates(graph), NEW side \in Sides,
         NEW x \in graph.nodes, NEW s \in SearchStates(graph),
         Edges(side, x) \in Seq(graph.edges)
  PROVE  \E f : /\ f[0] = s
                /\ \A k \in 1..Len(Edges(side, x)) :
                      f[k] = RelaxEdge(side, x, f[k - 1], Edges(side, x)[k])
                /\ Relaxed(side, x, s) = f[Len(Edges(side, x))]
<1> DEFINE es == Edges(side, x)
           n == Len(es)
           T == SearchStates(graph)
           round == [k \in 1..n |-> [r \in T |-> RelaxEdge(side, x, r, es[k])]]
           Rec(g) == g = [k \in 0..n |-> IF k = 0 THEN s ELSE RelaxEdge(side, x, g[k - 1], es[k])]
<1>1. n \in Nat /\ \A k \in 1..n : es[k] \in graph.edges
  <2> HIDE DEF es
  <2>1. es \in Seq(graph.edges)
    BY DEF es
  <2> QED
    BY <2>1
<1>2. \A k \in 1..n : [r \in T |-> RelaxEdge(side, x, r, es[k])] \in [T -> T]
  BY <1>1, RelaxTyped
<1>3. IsLoop(T, s, n, round)
  BY <1>1, <1>2 DEF IsLoop
<1>4. PICK f \in [0..n -> T] : f[0] = s /\ \A k \in 1..n : f[k] = round[k][f[k - 1]]
  <2> HIDE DEF T, n, round
  <2> QED
    BY <1>3, LoopRuns
<1>5. Rec(f)
  <2>1. \A k \in 1..n : k - 1 \in 0..n
    BY <1>1
  <2>2. \A k \in 1..n : f[k] = RelaxEdge(side, x, f[k - 1], es[k])
    <3> TAKE k \in 1..n
    <3>1. f[k - 1] \in T
      <4> HIDE DEF T, n
      <4> QED
        BY <1>4, <2>1
    <3>2. f[k] = round[k][f[k - 1]]
      BY <1>4
    <3> HIDE DEF T, n, es
    <3> QED
      BY <3>1, <3>2
  <2> HIDE DEF T, es, n
  <2>3. \A k \in 0..n : f[k] = IF k = 0 THEN s ELSE RelaxEdge(side, x, f[k - 1], es[k])
    BY <1>1, <1>4, <2>2
  <2> QED
    BY <1>4, <2>3
<1> DEFINE g == CHOOSE h : Rec(h)
<1>6. Rec(g)
  <2> HIDE DEF Rec
  <2> QED
    BY <1>5
<1>7. g[0] = s /\ \A k \in 1..n : g[k] = RelaxEdge(side, x, g[k - 1], es[k])
  <2> HIDE DEF g, n, es
  <2> QED
    BY <1>1, <1>6
<1>8. Relaxed(side, x, s) = g[n]
  BY DEF Relaxed
<1> HIDE DEF g
<1> QED
  BY <1>7, <1>8

\* Every edge of the node is relaxed.
LEMMA RelaxAll ==
  ASSUME InContext, search \in SearchStates(graph), NEW side \in Sides,
         NEW x \in graph.nodes, NEW s, NEW closed,
         Edges(side, x) \in Seq(graph.edges),
         Range(Edges(side, x)) = {e \in graph.edges : MyView(search, side).near[e] = x},
         Relaxing(s, side, x, {e \in graph.edges : MyView(search, side).near[e] = x}, closed),
         BothMet(s)
  PROVE  LET r == Relaxed(side, x, s)
         IN  /\ Relaxing(r, side, x, {}, closed)
             /\ BothMet(r)
<1> DEFINE es == Edges(side, x)
           n == Len(es)
           near == {e \in graph.edges : MyView(search, side).near[e] = x}
           Todo(k) == {e \in near : \A i \in 1..k : es[i] # e}
<1>1. s \in SearchStates(graph)
  BY DEF Relaxing
<1>2. PICK f : /\ f[0] = s
               /\ \A k \in 1..n : f[k] = RelaxEdge(side, x, f[k - 1], es[k])
               /\ Relaxed(side, x, s) = f[n]
  BY <1>1, RelaxedIs
<1>3. n \in Nat /\ \A k \in 1..n : es[k] \in near
  <2> HIDE DEF es, near
  <2>1. es \in Seq(graph.edges) /\ Range(es) = near
    BY DEF es, near
  <2> QED
    BY <2>1 DEF Range
<1>4. \A e \in near : e \in graph.edges /\ MyView(search, side).near[e] = x
  OBVIOUS
<1> DEFINE KeptUpTo(k) == /\ Relaxing(f[k], side, x, Todo(k), closed)
                          /\ BothMet(f[k])
           S == {k \in Nat : k <= n => KeptUpTo(k)}
<1>5. 0 \in S
  <2>1. Todo(0) = near
    <3> HIDE DEF near, es
    <3> QED
      OBVIOUS
  <2>2. KeptUpTo(0)
    BY <1>2, <2>1
  <2> QED
    BY <2>2
<1>6. \A k \in Nat : k \in S => k + 1 \in S
  <2> TAKE k \in Nat
  <2> HAVE k \in S
  <2>1. CASE k + 1 <= n
    <3>1. k + 1 \in 1..n /\ k <= n
      BY <1>3, <2>1
    <3>2. KeptUpTo(k)
      BY <3>1
    <3>3. f[k + 1] = RelaxEdge(side, x, f[k], es[k + 1])
      <4>1. f[k + 1] = RelaxEdge(side, x, f[(k + 1) - 1], es[k + 1])
        BY <1>2, <3>1
      <4>2. (k + 1) - 1 = k
        OBVIOUS
      <4> QED
        BY <4>1, <4>2
    <3>4. es[k + 1] \in near
      BY <1>3, <3>1
    <3>5. es[k + 1] \in graph.edges /\ MyView(search, side).near[es[k + 1]] = x
      BY <1>4, <3>4
    <3>6. /\ Relaxing(f[k + 1], side, x, Todo(k) \ {es[k + 1]}, closed)
          /\ BothMet(f[k + 1])
      <4>1. Relaxing(f[k], side, x, Todo(k), closed) /\ BothMet(f[k])
        BY <3>2
      <4> DEFINE before == f[k]
                 edge == es[k + 1]
                 todo == Todo(k)
      <4>2. /\ Relaxing(before, side, x, todo, closed) /\ BothMet(before)
            /\ edge \in graph.edges /\ MyView(search, side).near[edge] = x
        BY <3>5, <4>1
      <4> HIDE DEF before, edge, todo
      <4>3. /\ Relaxing(RelaxEdge(side, x, before, edge), side, x, todo \ {edge}, closed)
            /\ BothMet(RelaxEdge(side, x, before, edge))
        BY <4>2, RelaxOne
      <4> QED
        BY <3>3, <4>3 DEF before, edge, todo
    <3>7. Todo(k) \ {es[k + 1]} = Todo(k + 1)
      <4> HIDE DEF near, es
      <4>1. \A i : i \in 1..(k + 1) <=> i \in 1..k \/ i = k + 1
        OBVIOUS
      <4> QED
        BY <4>1
    <3>8. KeptUpTo(k + 1)
      BY <3>6, <3>7
    <3> HIDE DEF KeptUpTo, n
    <3> QED
      BY <3>8
  <2>2. CASE ~(k + 1 <= n)
    <3> HIDE DEF KeptUpTo, n
    <3> QED
      BY <2>2
  <2> QED
    BY <2>1, <2>2
<1>7. KeptUpTo(n)
  <2> HIDE DEF S
  <2>1. Nat \subseteq S
    BY <1>5, <1>6, NaturalsReached
  <2> HIDE DEF KeptUpTo, n
  <2> QED
    BY <1>3, <2>1 DEF S
<1>8. Todo(n) = {}
  <2> HIDE DEF es, near
  <2>1. es \in Seq(graph.edges) /\ Range(es) = near
    BY DEF es, near
  <2>2. \A e \in near : \E i \in 1..n : es[i] = e
    BY <2>1 DEF Range
  <2> QED
    BY <2>2
<1> QED
  BY <1>2, <1>7, <1>8

-----------------------------------------------------------------------------
(* The steps of a search *)

SearchSound == SearchOK(graph, request.algorithm, request.metric, search)

\* The networks are the ones that were built of the maps.
OnNetwork == networks = Networks /\ request.network \in DOMAIN Maps

\* The network of a request is one that was built of a map.
LEMMA NetworkIs ==
  ASSUME OnNetwork
  PROVE  /\ Validate(graph) /\ Measured(graph) /\ graph = Csr(Maps[request.network])
         /\ \A node \in graph.nodes : /\ Edges("out", node) = Outgoing(graph, node)
                                      /\ Edges("in", node) = Incoming(graph, node)
<1> DEFINE csr == Csr(Maps[request.network])
<1>1. networks[request.network] = Built(request.network, csr)
  BY DEF OnNetwork, Networks
<1> HIDE DEF csr
<1>2. graph = csr
  BY <1>1 DEF graph, Built
<1>3. \A node \in csr.nodes : /\ Edges("out", node) = Outgoing(csr, node)
                              /\ Edges("in", node) = Incoming(csr, node)
  BY <1>1 DEF Edges, Built
<1>4. Validate(csr) /\ Measured(csr)
  BY GraphAssumption DEF OnNetwork, csr
<1> QED
  BY <1>2, <1>3, <1>4 DEF csr

\* The edges of a node are those that begin there, seen from its side.
LEMMA EdgesAre ==
  ASSUME OnNetwork, InContext, search \in SearchStates(graph),
         NEW side \in Sides, NEW x \in graph.nodes
  PROVE  /\ Edges(side, x) \in Seq(graph.edges)
         /\ Range(Edges(side, x)) = {e \in graph.edges : MyView(search, side).near[e] = x}
<1>1. MyView(search, side).near = (IF side = "out" THEN Sources(graph) ELSE graph.target)
  BY DEF MyView, ViewOf, View
<1>2. CASE side = "out"
  <2>1. Edges(side, x) = Outgoing(graph, x)
    BY <1>2, NetworkIs
  <2>2. {e \in graph.edges : MyView(search, side).near[e] = x}
          = {e \in graph.edges : EdgeSource(graph, e) = x}
    <3>1. \A e \in graph.edges : MyView(search, side).near[e] = EdgeSource(graph, e)
      BY <1>1, <1>2 DEF Sources
    <3> QED
      BY <3>1
  <2> QED
    BY <2>1, <2>2, OutgoingAre DEF InContext
<1>3. CASE side = "in"
  <2>1. Edges(side, x) = Incoming(graph, x)
    BY <1>3, NetworkIs
  <2>2. {e \in graph.edges : MyView(search, side).near[e] = x}
          = {e \in graph.edges : graph.target[e] = x}
    BY <1>1, <1>3
  <2> QED
    BY <2>1, <2>2, IncomingAre DEF InContext
<1> QED
  BY <1>2, <1>3 DEF Sides

\* Taking the top entry from a queue.
LEMMA PopIs ==
  ASSUME InContext, SearchSound, ~Exhausted
  PROVE  LET q == search.queue[Frontier]
         IN  /\ Frontier \in Sides
             /\ request.algorithm # "Bidirectional" => Frontier = "out"
             /\ Top(q) \in q /\ (\A entry \in q : Top(q)[1] <= entry[1])
             /\ Node = Top(q)[2] /\ Node \in graph.nodes
             /\ Popped \in SearchStates(graph)
             /\ Popped.source = search.source /\ Popped.target = search.target
             /\ Popped.cost = search.cost /\ Popped.via = search.via
             /\ Popped.best = search.best /\ Popped.meeting = search.meeting
             /\ Popped.expanded = search.expanded
             /\ Popped.queue[Frontier] = q \ {Top(q)}
             /\ \A o \in Sides \ {Frontier} : Popped.queue[o] = search.queue[o]
<1> DEFINE side == Frontier
           q == search.queue[side]
<1>1. side \in Sides /\ (request.algorithm # "Bidirectional" => side = "out")
  BY DEF Frontier, Sides
<1>2. q # {}
  <2>1. CASE request.algorithm = "Bidirectional"
    <3>1. search.queue["out"] # {} /\ search.queue["in"] # {}
      BY <2>1 DEF Exhausted
    <3> HIDE DEF side
    <3> QED
      BY <1>1, <3>1 DEF Sides
  <2>2. CASE request.algorithm # "Bidirectional"
    <3>1. search.queue["out"] # {} /\ side = "out"
      BY <1>1, <2>2 DEF Exhausted
    <3> QED
      BY <3>1
  <2> QED
    BY <2>1, <2>2
<1>3. search \in SearchStates(graph)
  BY DEF SearchSound, SearchOK
<1>4. q \subseteq Nat \X graph.nodes
  <2> HIDE DEF side
  <2> QED
    BY <1>1, <1>3 DEF SearchStates
<1>5. graph.nodes \subseteq Nat
  BY Validated DEF InContext
<1>6. Top(q) \in q /\ (\A entry \in q : Top(q)[1] <= entry[1])
  <2> HIDE DEF q
  <2> QED
    BY <1>2, <1>4, <1>5, TopIs
<1>7. Node = Top(q)[2] /\ Node \in graph.nodes
  BY <1>4, <1>6 DEF Node
<1>8. Popped = [search EXCEPT !.queue[side] = q \ {Top(q)}]
  BY DEF Popped
<1>9. search \in [source : graph.nodes, target : graph.nodes,
               cost : [Sides -> [graph.nodes -> 0..Infinite]],
               via : [Sides -> [graph.nodes -> graph.edges \cup {NoEdge}]],
               queue : [Sides -> SUBSET (Nat \X graph.nodes)],
               best : 0..Infinite, meeting : graph.nodes \cup {NoNode}, expanded : Nat]
  BY <1>3 DEF SearchStates
<1> DEFINE rest == q \ {Top(q)}
<1>10. rest \in SUBSET (Nat \X graph.nodes)
  BY <1>4
<1> HIDE DEF side, q, rest
<1>11. Popped = [search EXCEPT !.queue[side] = rest]
  BY <1>8 DEF rest
<1>12. /\ Popped \in SearchStates(graph)
       /\ Popped.source = search.source /\ Popped.target = search.target
       /\ Popped.cost = search.cost /\ Popped.via = search.via
       /\ Popped.best = search.best /\ Popped.meeting = search.meeting
       /\ Popped.expanded = search.expanded
       /\ Popped.queue = [search.queue EXCEPT ![side] = rest]
  BY <1>1, <1>9, <1>10, <1>11 DEF SearchStates
<1>13. /\ Popped.queue[side] = rest
       /\ \A o \in Sides \ {side} : Popped.queue[o] = search.queue[o]
  BY <1>1, <1>9, <1>12
<1> QED
  BY <1>1, <1>6, <1>7, <1>12, <1>13 DEF side, q, rest

\* A stale entry is taken off: nothing else changes.
LEMMA StaleKeeps ==
  ASSUME InContext, SearchSound, ~Exhausted, Stale
  PROVE  SearchOK(graph, request.algorithm, request.metric, Popped)
<1> DEFINE side == Frontier
           v == MyView(search, side)
           c == search.cost[side]
           q == search.queue[side]
           p == search.via[side]
           entry == Top(q)
<1>1. /\ side \in Sides /\ entry \in q /\ Node = entry[2] /\ Node \in graph.nodes
      /\ Popped \in SearchStates(graph)
      /\ Popped.source = search.source /\ Popped.target = search.target
      /\ Popped.cost = search.cost /\ Popped.via = search.via
      /\ Popped.best = search.best /\ Popped.meeting = search.meeting
      /\ Popped.expanded = search.expanded
      /\ Popped.queue[side] = q \ {entry}
      /\ \A o \in Sides \ {side} : Popped.queue[o] = search.queue[o]
  BY PopIs
<1>2. search \in SearchStates(graph)
  BY DEF SearchSound, SearchOK
<1>3. ViewOK(v) /\ Estimate(Node, search.target) = v.h[Node]
  BY <1>1, <1>2, MyViewOK, SeenThrough
<1>4. Steady(v, c, q) /\ Tree(v, c, q, p) /\ Grown(v, c, p) /\ Spread(v, c, q, {})
  BY <1>1 DEF SearchSound, SearchOK, SideOK, MyView
<1>5. c[entry[2]] + v.h[entry[2]] # entry[1]
  <2>1. entry[1] > c[Node] + v.h[Node]
    BY <1>3 DEF Stale
  <2>2. entry[1] \in Nat /\ c[Node] \in Nat /\ v.h[Node] \in Nat
    <3>1. entry \in Nat \X v.nodes /\ c \in [v.nodes -> 0..Infinite] /\ v.h \in [v.nodes -> Nat]
      BY <1>1, <1>3, <1>4 DEF Steady, ViewOK
    <3> HIDE DEF entry, c, v
    <3> QED
      BY <1>1, <3>1, InfiniteNat
  <2> HIDE DEF entry, c, v
  <2> QED
    BY <1>1, <2>1, <2>2
<1> DEFINE q2 == q \ {entry}
<1>6. Steady(v, c, q2) /\ Closed(v, c, q2) = Closed(v, c, q)
  <2> HIDE DEF entry, c, v, q
  <2> QED
    BY <1>1, <1>3, <1>4, <1>5, SteadyStale
<1>7. Tree(v, c, q2, p)
  <2> HIDE DEF c, v, q, q2, p
  <2> QED
    BY <1>4, <1>6, TreeKept
<1>8. Spread(v, c, q2, {})
  <2> HIDE DEF c, v, q, q2
  <2> QED
    BY <1>4, <1>6 DEF Spread
<1>9. \A o \in Sides : MyView(Popped, o) = MyView(search, o)
  BY <1>1 DEF MyView, ViewOf
<1>10. ASSUME NEW o \in Sides
       PROVE  /\ SideOK(MyView(search, o), Popped, o, {})
              /\ ClosedOn(MyView(search, o), Popped, o) = ClosedOn(MyView(search, o), search, o)
  <2>1. CASE o = side
    <3>1. SideOK(v, Popped, side, {})
      BY <1>1, <1>4, <1>6, <1>7, <1>8 DEF SideOK
    <3>2. ClosedOn(v, Popped, side) = ClosedOn(v, search, side)
      BY <1>1, <1>6 DEF ClosedOn
    <3> QED
      BY <2>1, <3>1, <3>2
  <2>2. CASE o # side
    <3>1. Popped.queue[o] = search.queue[o]
      BY <1>1, <2>2
    <3>2. SideOK(MyView(search, o), search, o, {})
      BY DEF SearchSound, SearchOK, MyView
    <3> QED
      BY <1>1, <3>1, <3>2 DEF SideOK, ClosedOn
  <2> QED
    BY <2>1, <2>2
<1>11. "out" \in Sides /\ "in" \in Sides
  BY DEF Sides
<1>12. /\ search.expanded = Cardinality(ClosedOn(MyView(search, "out"), search, "out"))
                              + Cardinality(ClosedOn(MyView(search, "in"), search, "in"))
       /\ request.algorithm # "Bidirectional" => ClosedOn(MyView(search, "in"), search, "in") = {}
  BY DEF SearchSound, SearchOK, MyView
<1>13. request.algorithm = "Bidirectional" => Met(Popped, graph.nodes)
  BY <1>1 DEF SearchSound, SearchOK, Met
<1> HIDE DEF v, c, q, p, entry, side
<1>14. \A o \in Sides : SideOK(MyView(Popped, o), Popped, o, {})
  BY <1>9, <1>10
<1>15. /\ Popped.expanded = Cardinality(ClosedOn(MyView(Popped, "out"), Popped, "out"))
                              + Cardinality(ClosedOn(MyView(Popped, "in"), Popped, "in"))
       /\ request.algorithm # "Bidirectional" => ClosedOn(MyView(Popped, "in"), Popped, "in") = {}
  BY <1>1, <1>9, <1>10, <1>11, <1>12
<1> QED
  BY <1>1, <1>13, <1>14, <1>15 DEF SearchOK, MyView

\* What is taken off to be expanded is new to the closed nodes.
LEMMA ExpandBegins ==
  ASSUME InContext, SearchSound, ~Exhausted, ~Stale
  PROVE  LET side == Frontier
             v == MyView(search, side)
             counted == [Popped EXCEPT !.expanded = @ + 1]
             before == ClosedOn(v, search, side)
         IN  /\ Node \notin before
             /\ Relaxing(counted, side, Node, {e \in graph.edges : v.near[e] = Node},
                         before \cup {Node})
             /\ counted.best = search.best /\ counted.meeting = search.meeting
             /\ counted.cost = search.cost
<1> DEFINE side == Frontier
           v == MyView(search, side)
           c == search.cost[side]
           q == search.queue[side]
           p == search.via[side]
           entry == Top(q)
           q2 == q \ {entry}
           counted == [Popped EXCEPT !.expanded = @ + 1]
           near == {e \in graph.edges : v.near[e] = Node}
<1>1. /\ side \in Sides /\ entry \in q /\ (\A other \in q : entry[1] <= other[1])
      /\ Node = entry[2] /\ Node \in graph.nodes
      /\ Popped \in SearchStates(graph)
      /\ Popped.source = search.source /\ Popped.target = search.target
      /\ Popped.cost = search.cost /\ Popped.via = search.via
      /\ Popped.best = search.best /\ Popped.meeting = search.meeting
      /\ Popped.expanded = search.expanded
      /\ Popped.queue[side] = q2
      /\ \A o \in Sides \ {side} : Popped.queue[o] = search.queue[o]
  BY PopIs
<1>2. search \in SearchStates(graph)
  BY DEF SearchSound, SearchOK
<1>3. ViewOK(v) /\ v.edges = graph.edges /\ Estimate(Node, search.target) = v.h[Node]
  BY <1>1, <1>2, MyViewOK, SeenThrough
<1>4. Steady(v, c, q) /\ Tree(v, c, q, p) /\ Grown(v, c, p) /\ Spread(v, c, q, {})
  BY <1>1 DEF SearchSound, SearchOK, SideOK, MyView
<1>5. ~(entry[1] > c[entry[2]] + v.h[entry[2]])
  BY <1>1, <1>3 DEF Stale
<1>6. /\ Steady(v, c, q2) /\ Closed(v, c, q2) = Closed(v, c, q) \cup {Node}
      /\ Node \notin Closed(v, c, q) /\ Latest(v, c, q2, Node)
  <2> HIDE DEF entry, c, v, q
  <2> QED
    BY <1>1, <1>3, <1>4, <1>5, SteadyPop
<1>7. Tree(v, c, q2, p)
  <2> HIDE DEF c, v, q, q2, p
  <2> QED
    BY <1>4, <1>6, TreeKept
<1>8. Spread(v, c, q2, near)
  <2> HIDE DEF c, v, q, q2
  <2> QED
    BY <1>3, <1>4, <1>6 DEF Spread
<1>9. counted \in SearchStates(graph) /\ counted.expanded = search.expanded + 1
      /\ counted.source = search.source /\ counted.target = search.target
      /\ counted.cost = search.cost /\ counted.via = search.via
      /\ counted.queue = Popped.queue
      /\ counted.best = search.best /\ counted.meeting = search.meeting
  <2>1. Popped \in [source : graph.nodes, target : graph.nodes,
               cost : [Sides -> [graph.nodes -> 0..Infinite]],
               via : [Sides -> [graph.nodes -> graph.edges \cup {NoEdge}]],
               queue : [Sides -> SUBSET (Nat \X graph.nodes)],
               best : 0..Infinite, meeting : graph.nodes \cup {NoNode}, expanded : Nat]
    BY <1>1 DEF SearchStates
  <2> DEFINE next == search.expanded + 1
  <2>2. next \in Nat
    BY <1>2 DEF SearchStates
  <2>3. counted = [Popped EXCEPT !.expanded = next]
    BY <1>1
  <2> HIDE DEF counted, next
  <2>4. counted \in SearchStates(graph) /\ counted.expanded = next
        /\ counted.source = Popped.source /\ counted.target = Popped.target
        /\ counted.cost = Popped.cost /\ counted.via = Popped.via
        /\ counted.queue = Popped.queue
        /\ counted.best = Popped.best /\ counted.meeting = Popped.meeting
    BY <2>1, <2>2, <2>3 DEF SearchStates
  <2> QED
    BY <1>1, <2>4 DEF next
<1> HIDE DEF c, v, q, q2, p, counted, entry, side, near
<1>10. SideOK(v, counted, side, near)
  BY <1>1, <1>4, <1>6, <1>7, <1>8, <1>9 DEF SideOK, c, p
<1>11. /\ Latest(v, counted.cost[side], counted.queue[side], Node)
       /\ ClosedOn(v, counted, side) = ClosedOn(v, search, side) \cup {Node}
       /\ Node \notin ClosedOn(v, search, side)
  BY <1>1, <1>6, <1>9 DEF ClosedOn, c, q
<1>12. \A o \in Sides \ {side} : /\ counted.cost[o] = search.cost[o]
                                 /\ counted.via[o] = search.via[o]
                                 /\ counted.queue[o] = search.queue[o]
  BY <1>1, <1>9
<1>13. Relaxing(counted, side, Node, near, ClosedOn(v, search, side) \cup {Node})
  BY <1>9, <1>10, <1>11, <1>12 DEF Relaxing, v
<1> QED
  BY <1>9, <1>11, <1>13 DEF near, side, counted, v

\* A node is expanded: its edges are relaxed, and it is closed for good.
LEMMA ExpandKeeps ==
  ASSUME OnNetwork, InContext, SearchSound, Expand
  PROVE  /\ SearchOK(graph, request.algorithm, request.metric, search')
         /\ search'.source = search.source /\ search'.target = search.target
         /\ search'.expanded = search.expanded + 1
<1> DEFINE side == Frontier
           v == MyView(search, side)
           counted == [Popped EXCEPT !.expanded = @ + 1]
           near == {e \in graph.edges : v.near[e] = Node}
           before == ClosedOn(v, search, side)
           sum == search.cost["out"][Node] + search.cost["in"][Node]
           r == Relaxed(side, Node, counted)
<1>1. ~Exhausted /\ ~Stale
  BY DEF Expand
<1>2. /\ side \in Sides /\ Node \in graph.nodes
      /\ request.algorithm # "Bidirectional" => side = "out"
  BY <1>1, PopIs
<1>3. search \in SearchStates(graph)
  BY DEF SearchSound, SearchOK
<1>4. /\ Node \notin before
      /\ Relaxing(counted, side, Node, near, before \cup {Node})
      /\ counted.best = search.best /\ counted.meeting = search.meeting
      /\ counted.cost = search.cost
  BY <1>1, ExpandBegins
<1>5. BothMet(counted)
  <2> HIDE DEF counted
  <2> QED
    BY <1>4 DEF BothMet, Met, SearchSound, SearchOK
<1>6. search' = r
  <2>1. CASE request.algorithm # "Bidirectional"
    BY <2>1 DEF Expand
  <2>2. CASE request.algorithm = "Bidirectional"
    <3>1. search' = Relaxed(side, Node, Meet(counted, Node, sum))
      BY <2>2 DEF Expand
    <3>2. search.best <= sum
      BY <1>2, <2>2 DEF SearchSound, SearchOK, Met
    <3>3. search.best \in Int /\ sum \in Int
      <4>1. search.best \in 0..Infinite
        BY <1>3 DEF SearchStates
      <4>2. search.cost["out"][Node] \in 0..Infinite /\ search.cost["in"][Node] \in 0..Infinite
        BY <1>2, <1>3 DEF SearchStates, Sides
      <4> QED
        BY <4>1, <4>2, InfiniteNat
    <3> HIDE DEF counted, sum
    <3>4. Meet(counted, Node, sum) = counted
      BY <1>4, <3>2, <3>3 DEF Meet
    <3> QED
      BY <3>1, <3>4
  <2> QED
    BY <2>1, <2>2
<1>7. Edges(side, Node) \in Seq(graph.edges) /\ Range(Edges(side, Node)) = near
  BY <1>2, <1>3, EdgesAre
<1>8. Relaxing(r, side, Node, {}, before \cup {Node}) /\ BothMet(r)
  <2> HIDE DEF side, counted, before
  <2> QED
    BY <1>2, <1>3, <1>4, <1>5, <1>7, RelaxAll
<1> HIDE DEF counted, r
<1>9. /\ r \in SearchStates(graph)
      /\ r.source = search.source /\ r.target = search.target
      /\ r.expanded = search.expanded + 1
      /\ \A o \in Sides \ {side} : /\ r.cost[o] = search.cost[o] /\ r.via[o] = search.via[o]
                                   /\ r.queue[o] = search.queue[o]
      /\ SideOK(v, r, side, {})
      /\ ClosedOn(v, r, side) = before \cup {Node}
  BY <1>8 DEF Relaxing
<1>10. \A o \in Sides : MyView(r, o) = MyView(search, o)
  BY <1>9 DEF MyView, ViewOf
<1>11. ASSUME NEW o \in Sides, o # side
       PROVE  /\ SideOK(MyView(search, o), r, o, {})
              /\ ClosedOn(MyView(search, o), r, o) = ClosedOn(MyView(search, o), search, o)
  <2>1. SideOK(MyView(search, o), search, o, {})
    BY DEF SearchSound, SearchOK, MyView
  <2>2. r.cost[o] = search.cost[o] /\ r.via[o] = search.via[o] /\ r.queue[o] = search.queue[o]
    BY <1>9, <1>11
  <2> QED
    BY <2>1, <2>2 DEF SideOK, ClosedOn
<1>12. \A o \in Sides : SideOK(MyView(r, o), r, o, {})
  <2> TAKE o \in Sides
  <2>1. SideOK(MyView(search, o), r, o, {})
    <3>1. CASE o = side
      BY <1>9, <3>1
    <3>2. CASE o # side
      BY <1>11, <3>2
    <3> QED
      BY <3>1, <3>2
  <2> QED
    BY <1>10, <2>1
<1> DEFINE A(o) == ClosedOn(MyView(search, o), search, o)
           B(o) == ClosedOn(MyView(r, o), r, o)
<1>13. /\ B(side) = A(side) \cup {Node} /\ Node \notin A(side)
       /\ \A o \in Sides \ {side} : B(o) = A(o)
  <2>1. B(side) = A(side) \cup {Node}
    BY <1>2, <1>9, <1>10
  <2>2. \A o \in Sides \ {side} : B(o) = A(o)
    <3> TAKE o \in Sides \ {side}
    <3>1. ClosedOn(MyView(search, o), r, o) = A(o)
      BY <1>11
    <3>2. MyView(r, o) = MyView(search, o)
      BY <1>10
    <3> QED
      BY <3>1, <3>2
  <2> QED
    BY <1>4, <2>1, <2>2
<1>14. \A o \in Sides : IsFiniteSet(A(o)) /\ Cardinality(A(o)) \in Nat
  <2> TAKE o \in Sides
  <2>1. IsFiniteSet(graph.nodes)
    BY Validated DEF InContext
  <2>2. A(o) \subseteq graph.nodes
    BY <1>3, MyViewOK DEF ClosedOn, Closed
  <2> HIDE DEF A
  <2>3. IsFiniteSet(A(o))
    BY <2>1, <2>2, FS_Subset
  <2> QED
    BY <2>3, FS_CardinalityType
<1>15. /\ search.expanded = Cardinality(A("out")) + Cardinality(A("in"))
       /\ request.algorithm # "Bidirectional" => A("in") = {}
  BY DEF SearchSound, SearchOK, MyView
<1> HIDE DEF A, B, side
<1>16. Cardinality(B(side)) = Cardinality(A(side)) + 1
  <2>1. IsFiniteSet(A(side)) /\ Node \notin A(side)
    BY <1>2, <1>13, <1>14
  <2> QED
    BY <1>13, <2>1, FS_AddElement
<1>17. r.expanded = Cardinality(B("out")) + Cardinality(B("in"))
  <2> DEFINE a == Cardinality(A("out"))
             b == Cardinality(A("in"))
             k == search.expanded
  <2>1. a \in Nat /\ b \in Nat /\ k = a + b
    BY <1>14, <1>15 DEF Sides
  <2> HIDE DEF a, b, k
  <2>2. CASE side = "out"
    <3>1. Cardinality(B("out")) = a + 1 /\ Cardinality(B("in")) = b
      BY <1>13, <1>16, <2>2 DEF Sides, a, b
    <3>2. r.expanded = k + 1
      BY <1>9 DEF k
    <3> QED
      BY <2>1, <3>1, <3>2
  <2>3. CASE side = "in"
    <3>1. Cardinality(B("in")) = b + 1 /\ Cardinality(B("out")) = a
      BY <1>13, <1>16, <2>3 DEF Sides, a, b
    <3>2. r.expanded = k + 1
      BY <1>9 DEF k
    <3> QED
      BY <2>1, <3>1, <3>2
  <2> QED
    BY <1>2, <2>2, <2>3 DEF Sides
<1>18. request.algorithm # "Bidirectional" => B("in") = {}
  <2> HAVE request.algorithm # "Bidirectional"
  <2>1. "in" \in Sides \ {side}
    BY <1>2 DEF Sides
  <2> QED
    BY <1>13, <1>15, <2>1
<1>19. request.algorithm = "Bidirectional" => Met(r, graph.nodes)
  BY <1>8 DEF BothMet
<1>20. SearchOK(graph, request.algorithm, request.metric, r)
  BY <1>9, <1>12, <1>17, <1>18, <1>19 DEF SearchOK, MyView, B
<1> QED
  BY <1>6, <1>9, <1>20

\* A search as it starts.
LEMMA StartedOK ==
  ASSUME InContext, NEW source \in graph.nodes, NEW target \in graph.nodes, source # target
  PROVE  SearchOK(graph, request.algorithm, request.metric, Started(source, target))
<1> DEFINE s == Started(source, target)
           first == [side \in Sides |-> [node \in graph.nodes |->
                        IF node = (IF side = "out" THEN source ELSE target) THEN 0 ELSE Infinite]]
           via == [side \in Sides |-> [node \in graph.nodes |-> NoEdge]]
           queue == [side \in Sides |-> IF side = "out" THEN {<<Estimate(source, target), source>>}
                                                       ELSE {<<0, target>>}]
<1>1. s = [source |-> source, target |-> target, cost |-> first, via |-> via, queue |-> queue,
           best |-> Infinite, meeting |-> NoNode, expanded |-> 0]
  BY DEF Started
<1>2. Estimate(source, target) \in Nat
  BY EstimateNat
<1>3. first \in [Sides -> [graph.nodes -> 0..Infinite]]
  BY InfiniteNat
<1>4. via \in [Sides -> [graph.nodes -> graph.edges \cup {NoEdge}]]
  OBVIOUS
<1>5. queue \in [Sides -> SUBSET (Nat \X graph.nodes)]
  BY <1>2
<1> HIDE DEF s, first, via, queue
<1>6. s \in SearchStates(graph)
  BY <1>1, <1>3, <1>4, <1>5, InfiniteNat DEF SearchStates
<1>7. s.source = source /\ s.target = target /\ s.cost = first /\ s.via = via
        /\ s.queue = queue /\ s.best = Infinite /\ s.meeting = NoNode /\ s.expanded = 0
  BY <1>1
<1>8. ASSUME NEW side \in Sides
      PROVE  SideOK(MyView(s, side), s, side, {}) /\ ClosedOn(MyView(s, side), s, side) = {}
  <2> DEFINE v == MyView(s, side)
             c == [node \in v.nodes |-> IF node = v.root THEN 0 ELSE Infinite]
             q == {<<v.h[v.root], v.root>>}
             p == [node \in v.nodes |-> NoEdge]
  <2>1. ViewOK(v) /\ v.nodes = graph.nodes
    BY <1>6, MyViewOK
  <2>2. v.root = IF side = "out" THEN source ELSE target
    BY <1>6, <1>7, SeenThrough
  <2>3. \A n \in graph.nodes : Estimate(n, target) = v.h[n]
    BY <1>6, <1>7, SeenThrough
  <2>4. Estimate(target, target) = 0
    <3>1. graph.position[target] \in Int \X Int
      BY Validated DEF InContext
    <3>2. Apart(graph.position[target], graph.position[target]) = 0
      BY <3>1 DEF Apart, Abs
    <3>3. FastestPace \in Nat
      <4>1. FastestPace = Min(Paces(graph))
        BY DEF FastestPace, Paces
      <4> QED
        BY <4>1, PaceBounds DEF InContext
    <3>4. Heuristic(target, target) = 0
      BY <3>2, <3>3 DEF Heuristic
    <3> QED
      BY <3>4 DEF Estimate
  <2> HIDE DEF v
  <2>5. s.cost[side] = c
    BY <1>7, <2>1, <2>2 DEF first
  <2>6. s.via[side] = p
    BY <1>7, <2>1 DEF via
  <2>7. s.queue[side] = q
    <3>1. CASE side = "out"
      BY <1>7, <2>2, <2>3, <3>1 DEF queue
    <3>2. CASE side # "out"
      <4>1. v.h[target] = 0
        BY <2>3, <2>4
      <4> QED
        BY <1>7, <2>2, <3>2, <4>1 DEF queue
    <3> QED
      BY <3>1, <3>2
  <2>8. Steady(v, c, q) /\ Closed(v, c, q) = {}
    BY <2>1, SteadyFirst
  <2>9. Tree(v, c, q, p) /\ Grown(v, c, p)
    BY <2>1, TreeFirst
  <2> HIDE DEF c, q, p
  <2>10. Spread(v, c, q, {})
    BY <2>8 DEF Spread
  <2> QED
    BY <2>5, <2>6, <2>7, <2>8, <2>9, <2>10 DEF SideOK, ClosedOn, v
<1>9. Met(s, graph.nodes)
  <2>1. \A n \in graph.nodes : Infinite <= s.cost["out"][n] + s.cost["in"][n]
    <3> TAKE n \in graph.nodes
    <3>1. /\ s.cost["out"][n] = IF n = source THEN 0 ELSE Infinite
          /\ s.cost["in"][n] = IF n = target THEN 0 ELSE Infinite
      BY <1>7 DEF first, Sides
    <3> QED
      BY <3>1, InfiniteNat
  <2> QED
    BY <1>7, <2>1, InfiniteNat DEF Met
<1>10. "out" \in Sides /\ "in" \in Sides
  BY DEF Sides
<1>11. Cardinality(ClosedOn(MyView(s, "out"), s, "out")) = 0
         /\ Cardinality(ClosedOn(MyView(s, "in"), s, "in")) = 0
  BY <1>8, <1>10, FS_EmptySet
<1>12. ClosedOn(MyView(s, "in"), s, "in") = {}
  BY <1>8, <1>10
<1>13. \A side \in Sides : SideOK(MyView(s, side), s, side, {})
  BY <1>8
<1> QED
  BY <1>6, <1>7, <1>9, <1>11, <1>12, <1>13 DEF SearchOK, MyView, s

-----------------------------------------------------------------------------
(* The invariant of the specification *)

Pair == CHOOSE p \in request.left : TRUE

StoreSound ==
    /\ networks = Networks
    /\ current \in DOMAIN Maps /\ previous \in DOMAIN Maps \cup {NoMap}

\* A request is a record of its fields.
HasFields ==
    request = [at |-> request.at, network |-> request.network, from |-> request.from,
               to |-> request.to, algorithm |-> request.algorithm, metric |-> request.metric,
               limit |-> request.limit, pairs |-> request.pairs, left |-> request.left,
               best |-> request.best, limited |-> request.limited]

\* So is what is known of a trace.
HasTrace ==
    matching = [trace |-> matching.trace, candidates |-> matching.candidates,
                time |-> matching.time, layer |-> matching.layer, next |-> matching.next,
                skipped |-> matching.skipped, status |-> matching.status,
                roads |-> matching.roads]

RequestSound ==
    /\ request.network \in DOMAIN Maps
    /\ request.algorithm \in Algorithms /\ request.metric \in Metrics /\ request.limit \in Nat
    /\ request.from \in Int \X Int /\ request.to \in Int \X Int
    /\ request.left \subseteq request.pairs
    /\ request.pairs \subseteq [start : NearCandidates(graph, request.from, Radius),
                                end : NearCandidates(graph, request.to, Radius)]

\* The candidates of a trace on a network.
Trailed(network, trace, candidates) ==
    /\ \E name \in DOMAIN Maps : network = Built(name, Csr(Maps[name]))
    /\ trace \in Traces /\ DOMAIN candidates = DOMAIN trace
    /\ \A t \in DOMAIN trace :
          candidates[t] \subseteq NearCandidates(network.graph, trace[t], Radius)

\* A trace is of one observation or more.
LEMMA TraceIs ==
  ASSUME NEW trace \in Traces
  PROVE  /\ Len(trace) \in Nat /\ Len(trace) >= 1 /\ DOMAIN trace = 1..Len(trace)
         /\ \A t \in 1..Len(trace) : trace[t] \in Int \X Int
<1>1. trace \in Seq(Int \X Int) /\ trace # <<>>
  BY SearchAssumption
<1>2. Len(trace) # 0
  BY <1>1, EmptySeq
<1> QED
  BY <1>1, <1>2, LenProperties

\* The trace at hand has candidates of its network, and the pairs are those of one
\* observation and the next.
TraceSound ==
    LET trace == matching.trace
        t == matching.time
    IN  /\ Trailed(networks[request.network], trace, matching.candidates)
        /\ t \in 1..Len(trace)
        /\ DOMAIN matching.next = matching.candidates[t]
        /\ request.to = trace[t] /\ request.from = (IF t = 1 THEN trace[1] ELSE trace[t - 1])

\* The search is the one of the pair at hand, and it is sound.
PairSound ==
    /\ request.at \in {"route", "match"} /\ request.left # {}
    /\ ~IsAlong(Pair)
    /\ search.source = graph.target[Pair.start.edge]
    /\ search.target = EdgeSource(graph, Pair.end.edge)
    /\ search.source # search.target
    /\ SearchSound

RoutingInv ==
    /\ StoreSound
    /\ HasFields
    /\ HasTrace
    /\ request.at \in {"route", "answered", "match"} => RequestSound
    /\ request.at = "match" => TraceSound
    /\ search # NoSearch => PairSound

\* The edges of candidates are edges.
LEMMA NearEdges ==
  ASSUME NEW g, NEW point, NEW c \in NearCandidates(g, point, Radius)
  PROVE  /\ c.edge \in g.edges /\ c.segment \in 1..(Len(g.line[c.edge]) - 1)
<1> DEFINE Projected(e, k) ==
               LET a == Position[g.line[e][k]]
                   b == Position[g.line[e][k + 1]]
               IN  <<Clamp(point[1], a[1], b[1]), Clamp(point[2], a[2], b[2])>>
           Snapped(e, k) == Indexed(Apart(point, Projected(e, k)))
           Along(e, k) == Indexed(LengthTo(g.line[e], k)
                                    + Apart(Position[g.line[e][k]], Projected(e, k)))
           Candidate(e, k) == [edge |-> e, segment |-> k, snap |-> Snapped(e, k),
                               along |-> Along(e, k)]
           Each(e) == {Candidate(e, k) : k \in 1..(Len(g.line[e]) - 1)}
<1>1. NearCandidates(g, point, Radius)
        = {candidate \in UNION {Each(e) : e \in g.edges} : candidate.snap <= Radius}
  BY DEF NearCandidates
<1> HIDE DEF Snapped, Along, Projected
<1>2. PICK e \in g.edges : c \in Each(e)
  BY <1>1
<1>3. PICK k \in 1..(Len(g.line[e]) - 1) : c = Candidate(e, k)
  BY <1>2
<1> QED
  BY <1>3

\* A request that is sound can be searched for.
LEMMA StartsSearchable ==
  ASSUME StoreSound, RequestSound
  PROVE  OnNetwork /\ InContext
<1>1. OnNetwork
  BY DEF OnNetwork, StoreSound, RequestSound
<1> QED
  BY <1>1, NetworkIs DEF InContext, RequestSound

\* The nodes a pair is searched between are nodes.
LEMMA PairEdges ==
  ASSUME StoreSound, RequestSound, NEW p \in request.pairs
  PROVE  /\ p.start.edge \in graph.edges /\ p.end.edge \in graph.edges
         /\ graph.target[p.start.edge] \in graph.nodes
         /\ EdgeSource(graph, p.end.edge) \in graph.nodes
<1>1. p.start.edge \in graph.edges /\ p.end.edge \in graph.edges
  BY NearEdges DEF RequestSound
<1>2. Validate(graph)
  BY StartsSearchable DEF InContext
<1> QED
  BY <1>1, <1>2, Validated, SourceIs

\* The invariant holds when the service starts.
LEMMA RoutingInvInit == RoutingInit => RoutingInv
BY DEF RoutingInit, RoutingInv, StoreSound, HasFields, HasTrace, NoRequest, NoMatching

\* A request begins with candidates of the current network.
LEMMA BeginKeeps ==
  ASSUME RoutingInv, NEW ask \in Asks, NEW algorithm \in Algorithms, NEW metric \in Metrics,
         NEW limit \in ExpansionLimits,
         BeginRoute(ask[1], ask[2], algorithm, metric, limit)
  PROVE  RoutingInv'
<1> DEFINE from == ask[1]
           to == ask[2]
<1>1. PICK starts \in networks[current].near[from], ends \in networks[current].near[to] :
          LET pairs == [start : starts, end : ends]
          IN  request' = [NoRequest EXCEPT
                            !.at = "route", !.network = current,
                            !.from = from, !.to = to, !.limit = limit,
                            !.algorithm = algorithm, !.metric = metric,
                            !.best.status = IF pairs = {} THEN "InvalidNode" ELSE @,
                            !.pairs = pairs, !.left = pairs]
  BY DEF BeginRoute
<1> DEFINE pairs == [start : starts, end : ends]
<1>2. request' = [NoRequest EXCEPT
                            !.at = "route", !.network = current,
                            !.from = from, !.to = to, !.limit = limit,
                            !.algorithm = algorithm, !.metric = metric,
                            !.best.status = IF pairs = {} THEN "InvalidNode" ELSE @,
                            !.pairs = pairs, !.left = pairs]
  BY <1>1
<1>3. UNCHANGED <<networks, current, previous, search, matching>> /\ request.at = "idle"
  BY DEF BeginRoute, store
<1>4. StoreSound /\ HasTrace
  BY DEF RoutingInv
<1>5. search = NoSearch
  BY <1>3 DEF RoutingInv, PairSound
<1> HIDE DEF pairs, from, to
<1>6. /\ request'.at = "route" /\ request'.network = current /\ request'.from = from
      /\ request'.to = to /\ request'.limit = limit /\ request'.algorithm = algorithm
      /\ request'.metric = metric /\ request'.pairs = pairs /\ request'.left = pairs
  BY <1>2 DEF NoRequest
<1>7. networks[current] = Built(current, Csr(Maps[current])) /\ current \in DOMAIN Maps
  BY <1>4 DEF StoreSound, Networks
<1> DEFINE g == Csr(Maps[current])
<1>8. graph' = g
  <2>1. networks' = networks
    BY <1>3
  <2>2. networks[current].graph = g
    BY <1>7 DEF Built
  <2> QED
    BY <1>6, <2>1, <2>2 DEF graph
<1>9. limit \in Nat /\ ask \in (Int \X Int) \X (Int \X Int)
  BY SearchAssumption
<1>10. {from, to} \subseteq UNION {ToSet(line) : line \in Asks \cup Traces}
  <2>1. DOMAIN ask = 1..2
    BY <1>9
  <2>2. from \in ToSet(ask) /\ to \in ToSet(ask)
    BY <2>1 DEF ToSet, from, to
  <2> QED
    BY <2>2
<1>11. /\ starts \subseteq NearCandidates(g, from, Radius)
       /\ ends \subseteq NearCandidates(g, to, Radius)
  <2>1. /\ starts \in Nearest(g, from, Radius, MaxCandidates)
        /\ ends \in Nearest(g, to, Radius, MaxCandidates)
    <3>1. starts \in networks[current].near[from] /\ ends \in networks[current].near[to]
      BY <1>1 DEF from, to
    <3> QED
      BY <1>7, <1>10, <3>1 DEF Built
  <2> QED
    BY <2>1 DEF Nearest, kSubset
<1>12. pairs \subseteq [start : NearCandidates(g, from, Radius), end : NearCandidates(g, to, Radius)]
  BY <1>11 DEF pairs
<1> HIDE DEF g
<1>13. StoreSound'
  BY <1>3, <1>4 DEF StoreSound
<1>14. RequestSound'
  <2>1. from \in Int \X Int /\ to \in Int \X Int
    BY <1>9 DEF from, to
  <2> QED
    BY <1>6, <1>7, <1>8, <1>9, <1>12, <2>1 DEF RequestSound
<1>15. search' = NoSearch
  BY <1>3, <1>5
<1>16. HasFields' /\ HasTrace'
  BY <1>2, <1>3, <1>4 DEF HasFields, HasTrace, NoRequest
<1> QED
  BY <1>6, <1>13, <1>14, <1>15, <1>16 DEF RoutingInv

\* What is recorded of a candidate at the end of a pair that was tried.
EntryFor(pair, route) ==
    LET before == matching.layer[pair.start]
        cost == before.cost + Abs(route.distance - Apart(request.from, request.to))
                  + Emission(pair.end)
    IN  IF route.status = "Ok" /\ cost < matching.next[pair.end].cost
        THEN [cost |-> cost, roads |-> Append(before.roads, pair.end)]
        ELSE matching.next[pair.end]

LEMMA ScoredIs ==
  ASSUME HasTrace, NEW pair, NEW route, NEW limited
  PROVE  Scored(pair, route, limited)
           = [trace |-> matching.trace, candidates |-> matching.candidates,
              time |-> matching.time, layer |-> matching.layer,
              next |-> [matching.next EXCEPT ![pair.end] = EntryFor(pair, route)],
              skipped |-> IF limited THEN matching.skipped \cup {<<matching.time, pair>>}
                                     ELSE matching.skipped,
              status |-> matching.status, roads |-> matching.roads]
<1> DEFINE entry == EntryFor(pair, route)
           skippedNow == IF limited THEN matching.skipped \cup {<<matching.time, pair>>}
                                    ELSE matching.skipped
<1>1. Scored(pair, route, limited)
        = [matching EXCEPT !.skipped = skippedNow, !.next[pair.end] = entry]
  BY DEF Scored, EntryFor
<1> HIDE DEF entry, skippedNow
<1>2. [matching EXCEPT !.skipped = skippedNow, !.next[pair.end] = entry]
        = [trace |-> matching.trace, candidates |-> matching.candidates,
           time |-> matching.time, layer |-> matching.layer,
           next |-> [matching.next EXCEPT ![pair.end] = entry],
           skipped |-> skippedNow, status |-> matching.status, roads |-> matching.roads]
  <2> DEFINE half == [trace |-> matching.trace, candidates |-> matching.candidates,
                      time |-> matching.time, layer |-> matching.layer, next |-> matching.next,
                      skipped |-> skippedNow, status |-> matching.status,
                      roads |-> matching.roads]
             nextNow == [matching.next EXCEPT ![pair.end] = entry]
  <2>1. [matching EXCEPT !.skipped = skippedNow] = half
    BY DEF HasTrace
  <2>2. [half EXCEPT !.next = nextNow]
          = [trace |-> matching.trace, candidates |-> matching.candidates,
             time |-> matching.time, layer |-> matching.layer, next |-> nextNow,
             skipped |-> skippedNow, status |-> matching.status, roads |-> matching.roads]
    <3> HIDE DEF nextNow
    <3> QED
      OBVIOUS
  <2>3. [matching EXCEPT !.skipped = skippedNow, !.next[pair.end] = entry]
          = [half EXCEPT !.next = nextNow]
    <3> HIDE DEF half
    <3> QED
      BY <2>1
  <2> QED
    BY <2>2, <2>3
<1> QED
  BY <1>1, <1>2 DEF entry, skippedNow

\* What a pair that is done leaves of the request.
LEMMA TriedIs ==
  ASSUME HasFields, NEW pair, NEW route, NEW limited, Tried(pair, route, limited)
  PROVE  /\ UNCHANGED <<networks, current, previous>> /\ search' = NoSearch
         /\ request' = [request EXCEPT
                          !.left = request.left \ {pair},
                          !.limited = request.limited \/ limited,
                          !.best = IF Keeps(route) THEN route ELSE request.best]
         /\ matching' = IF request.at = "match" THEN Scored(pair, route, limited) ELSE matching
BY DEF Tried, store, HasFields

\* So it is field by field.
LEMMA TriedFields ==
  ASSUME HasFields, NEW pair, NEW route, NEW limited, Tried(pair, route, limited)
  PROVE  /\ request'.at = request.at /\ request'.network = request.network
         /\ request'.from = request.from /\ request'.to = request.to
         /\ request'.algorithm = request.algorithm /\ request'.metric = request.metric
         /\ request'.limit = request.limit /\ request'.pairs = request.pairs
         /\ request'.left = request.left \ {pair}
         /\ request'.limited = (request.limited \/ limited)
         /\ request'.best = IF Keeps(route) THEN route ELSE request.best
         /\ HasFields'
<1> DEFINE limitedNow == request.limited \/ limited
           bestNow == IF Keeps(route) THEN route ELSE request.best
           leftNow == request.left \ {pair}
<1>1. request' = [request EXCEPT !.left = leftNow, !.limited = limitedNow, !.best = bestNow]
  BY TriedIs, ZenonT(60)
<1> HIDE DEF limitedNow, bestNow, leftNow
<1>2. /\ request'.at = request.at /\ request'.network = request.network
      /\ request'.from = request.from /\ request'.to = request.to
      /\ request'.algorithm = request.algorithm /\ request'.metric = request.metric
      /\ request'.limit = request.limit /\ request'.pairs = request.pairs
  BY <1>1 DEF HasFields
<1>3. request'.left = leftNow /\ request'.limited = limitedNow /\ request'.best = bestNow
  BY <1>1 DEF HasFields
<1>4. HasFields'
  BY <1>1 DEF HasFields
<1> QED
  BY <1>2, <1>3, <1>4 DEF limitedNow, bestNow, leftNow

\* A pair that is done leaves the request sound.
LEMMA TriedKeeps ==
  ASSUME RoutingInv, request.at \in {"route", "match"},
         NEW pair, NEW route, NEW limited, Tried(pair, route, limited)
  PROVE  RoutingInv'
<1>1. StoreSound /\ HasFields /\ HasTrace /\ RequestSound
  BY DEF RoutingInv
<1>2. /\ UNCHANGED <<networks, current, previous>> /\ search' = NoSearch
      /\ matching' = IF request.at = "match" THEN Scored(pair, route, limited) ELSE matching
  BY <1>1, TriedIs
<1>4. /\ request'.at = request.at /\ request'.network = request.network
      /\ request'.from = request.from /\ request'.to = request.to
      /\ request'.algorithm = request.algorithm /\ request'.metric = request.metric
      /\ request'.limit = request.limit /\ request'.pairs = request.pairs
      /\ request'.left = request.left \ {pair}
  BY <1>1, TriedFields
<1>5. HasFields'
  BY <1>1, TriedFields
<1>6. StoreSound'
  BY <1>1, <1>2 DEF StoreSound
<1>7. graph' = graph
  BY <1>2, <1>4 DEF graph
<1>8. RequestSound'
  BY <1>1, <1>4, <1>7 DEF RequestSound
<1>9. HasTrace' /\ (request.at = "match" => TraceSound')
  <2>1. CASE request.at = "match"
    <3>1. TraceSound
      BY <2>1 DEF RoutingInv
    <3> DEFINE m == Scored(pair, route, limited)
    <3>2. matching' = m
      BY <1>2, <2>1
    <3>3. /\ m = [trace |-> m.trace, candidates |-> m.candidates, time |-> m.time,
                  layer |-> m.layer, next |-> m.next, skipped |-> m.skipped,
                  status |-> m.status, roads |-> m.roads]
          /\ m.trace = matching.trace /\ m.candidates = matching.candidates
          /\ m.time = matching.time /\ DOMAIN m.next = DOMAIN matching.next
      BY <1>1, ScoredIs
    <3> HIDE DEF m
    <3>4. HasTrace'
      BY <3>2, <3>3 DEF HasTrace
    <3>5. networks'[request'.network] = networks[request.network]
      BY <1>2, <1>4
    <3>6. TraceSound'
      BY <1>4, <3>1, <3>2, <3>3, <3>5 DEF TraceSound
    <3> QED
      BY <3>4, <3>6
  <2>2. CASE request.at # "match"
    BY <1>1, <1>2, <2>2 DEF HasTrace
  <2> QED
    BY <2>1, <2>2
<1> QED
  BY <1>2, <1>4, <1>5, <1>6, <1>8, <1>9 DEF RoutingInv

\* A step that leaves the request and the trace alone.
LEMMA TraceStays ==
  ASSUME RoutingInv, networks' = networks, request' = request, matching' = matching
  PROVE  HasTrace' /\ (request.at = "match" => TraceSound')
<1>1. HasTrace' = HasTrace
  BY DEF HasTrace
<1>2. request.at = "match" => TraceSound'
  BY DEF RoutingInv, TraceSound
<1> QED
  BY <1>1, <1>2 DEF RoutingInv

\* A search that begins is that of the pair at hand.
LEMMA StartKeeps ==
  ASSUME RoutingInv, request.at \in {"route", "match"}, request.left # {},
         ~IsAlong(Pair),
         graph.target[Pair.start.edge] # EdgeSource(graph, Pair.end.edge),
         search' = Started(graph.target[Pair.start.edge], EdgeSource(graph, Pair.end.edge)),
         UNCHANGED <<store, request, matching>>
  PROVE  RoutingInv'
<1> DEFINE source == graph.target[Pair.start.edge]
           target == EdgeSource(graph, Pair.end.edge)
<1>1. StoreSound /\ HasFields /\ RequestSound
  BY DEF RoutingInv
<1>2. Pair \in request.pairs
  BY <1>1 DEF RequestSound, Pair
<1>3. source \in graph.nodes /\ target \in graph.nodes
  BY <1>1, <1>2, PairEdges
<1>4. InContext
  BY <1>1, StartsSearchable
<1> HIDE DEF source, target
<1>5. SearchOK(graph, request.algorithm, request.metric, Started(source, target))
  BY <1>3, <1>4, StartedOK DEF source, target
<1>6. search' = Started(source, target)
  BY DEF source, target
<1>7. search'.source = source /\ search'.target = target
  BY <1>6 DEF Started
<1>8. /\ networks' = networks /\ request' = request /\ current' = current /\ previous' = previous
      /\ matching' = matching
  BY DEF store
<1>9. graph' = graph /\ Pair' = Pair
  BY <1>8 DEF graph, Pair
<1>10. StoreSound' /\ HasFields' /\ HasTrace' /\ (request.at = "match" => TraceSound')
  BY <1>8, TraceStays DEF RoutingInv, StoreSound, HasFields
<1>11. RequestSound'
  BY <1>1, <1>8, <1>9 DEF RequestSound
<1>12. SearchSound'
  BY <1>5, <1>6, <1>8, <1>9 DEF SearchSound
<1>13. ~IsAlong(Pair)'
  BY <1>9 DEF IsAlong
<1>14. PairSound'
  <2>1. source # target
    BY DEF source, target
  <2>2. source = graph'.target[Pair'.start.edge] /\ target = EdgeSource(graph', Pair'.end.edge)
    BY <1>9 DEF source, target
  <2>3. request'.at \in {"route", "match"} /\ request'.left # {}
    BY <1>8
  <2> QED
    BY <1>7, <1>12, <1>13, <2>1, <2>2, <2>3 DEF PairSound
<1> QED
  BY <1>10, <1>11, <1>14, <1>8 DEF RoutingInv

\* A step of a search leaves the rest alone.
LEMMA SearchKeeps ==
  ASSUME RoutingInv, Searching, UNCHANGED <<store, request, matching>>,
         search'.source = search.source, search'.target = search.target,
         SearchOK(graph, request.algorithm, request.metric, search')
  PROVE  RoutingInv'
<1>1. StoreSound /\ HasFields /\ RequestSound /\ PairSound
  BY DEF RoutingInv, Searching
<1>2. /\ networks' = networks /\ request' = request /\ current' = current /\ previous' = previous
      /\ matching' = matching
  BY DEF store
<1>3. graph' = graph /\ Pair' = Pair
  BY <1>2 DEF graph, Pair
<1>4. StoreSound' /\ HasFields' /\ HasTrace' /\ (request.at = "match" => TraceSound')
  BY <1>2, TraceStays DEF RoutingInv, StoreSound, HasFields
<1>5. RequestSound'
  BY <1>1, <1>2, <1>3 DEF RequestSound
<1>6. SearchSound'
  BY <1>2, <1>3 DEF SearchSound
<1>7. ~IsAlong(Pair)'
  BY <1>1, <1>3 DEF PairSound, IsAlong
<1>8. PairSound'
  <2>1. /\ search'.source = graph'.target[Pair'.start.edge]
        /\ search'.target = EdgeSource(graph', Pair'.end.edge)
        /\ search'.source # search'.target
        /\ request'.at \in {"route", "match"} /\ request'.left # {}
    BY <1>1, <1>2, <1>3 DEF PairSound
  <2> QED
    BY <1>6, <1>7, <2>1 DEF PairSound
<1> QED
  BY <1>2, <1>4, <1>5, <1>8 DEF RoutingInv

\* A trace that is begun has candidates of the current network.
LEMMA BeginMatchKeeps ==
  ASSUME RoutingInv, NEW trace \in Traces, NEW limit \in ExpansionLimits,
         BeginMatch(trace, limit)
  PROVE  RoutingInv'
<1>1. StoreSound
  BY DEF RoutingInv
<1>2. UNCHANGED <<networks, current, previous, search>> /\ request.at = "idle"
  BY DEF BeginMatch, store
<1>3. search' = NoSearch
  BY <1>2 DEF RoutingInv, PairSound
<1>4. PICK candidates, status, at :
         /\ \A t \in DOMAIN trace : candidates[t] \in networks[current].near[trace[t]]
         /\ DOMAIN candidates = DOMAIN trace
         /\ at \in {"match", "matched"}
         /\ request' = [NoRequest EXCEPT
                          !.at = at, !.network = current, !.algorithm = "AStar", !.limit = limit,
                          !.from = trace[1], !.to = trace[1]]
         /\ matching' = [NoMatching EXCEPT
                           !.trace = trace, !.candidates = candidates,
                           !.next = FirstLayer(candidates[1]), !.status = status]
  <2>1. PICK candidates \in [DOMAIN trace ->
                                UNION {networks[current].near[point] : point \in ToSet(trace)}] :
           LET status == IF Len(trace) > MaxObservations THEN "TooManyObservations"
                         ELSE IF \E t \in DOMAIN trace : candidates[t] = {} THEN "NoCandidates"
                         ELSE NoMatching.status
           IN  /\ \A t \in DOMAIN trace : candidates[t] \in networks[current].near[trace[t]]
               /\ request' = [NoRequest EXCEPT
                                !.at = IF status = NoMatching.status THEN "match" ELSE "matched",
                                !.network = current, !.algorithm = "AStar", !.limit = limit,
                                !.from = trace[1], !.to = trace[1]]
               /\ matching' = [NoMatching EXCEPT
                                 !.trace = trace, !.candidates = candidates,
                                 !.next = FirstLayer(candidates[1]), !.status = status]
    BY DEF BeginMatch
  <2> DEFINE status == IF Len(trace) > MaxObservations THEN "TooManyObservations"
                       ELSE IF \E t \in DOMAIN trace : candidates[t] = {} THEN "NoCandidates"
                       ELSE NoMatching.status
             at == IF status = NoMatching.status THEN "match" ELSE "matched"
  <2>2. at \in {"match", "matched"}
    OBVIOUS
  <2>3. DOMAIN candidates = DOMAIN trace
    BY <2>1
  <2>4. /\ \A t \in DOMAIN trace : candidates[t] \in networks[current].near[trace[t]]
        /\ request' = [NoRequest EXCEPT
                         !.at = at, !.network = current, !.algorithm = "AStar", !.limit = limit,
                         !.from = trace[1], !.to = trace[1]]
        /\ matching' = [NoMatching EXCEPT
                          !.trace = trace, !.candidates = candidates,
                          !.next = FirstLayer(candidates[1]), !.status = status]
    BY <2>1
  <2> HIDE DEF status, at
  <2> QED
    BY <2>2, <2>3, <2>4
<1> DEFINE first == FirstLayer(candidates[1])
           g == Csr(Maps[current])
           one == trace[1]
<1> HIDE DEF one
<1>5. DOMAIN first = candidates[1]
  BY DEF FirstLayer
<1> HIDE DEF first
<1>6. /\ request'.at = at /\ request'.network = current /\ request'.algorithm = "AStar"
      /\ request'.limit = limit /\ request'.from = one /\ request'.to = one
      /\ request'.metric = "distance" /\ request'.left = {} /\ request'.pairs = {}
      /\ HasFields'
  BY <1>4 DEF NoRequest, HasFields, one
<1>7. /\ matching'.trace = trace /\ matching'.candidates = candidates
      /\ matching'.time = 1 /\ matching'.next = first /\ HasTrace'
  BY <1>4 DEF NoMatching, HasTrace, first
<1>8. /\ DOMAIN trace = 1..Len(trace) /\ 1 \in 1..Len(trace)
      /\ \A t \in 1..Len(trace) : trace[t] \in Int \X Int
  BY TraceIs
<1>9. current \in DOMAIN Maps /\ networks[current] = Built(current, g)
  BY <1>1 DEF StoreSound, Networks
<1> HIDE DEF g
<1>10. networks[current].graph = g
  BY <1>9 DEF Built
<1>11. ASSUME NEW t \in DOMAIN trace
       PROVE  candidates[t] \subseteq NearCandidates(g, trace[t], Radius)
  <2>1. trace[t] \in ToSet(trace)
    BY <1>8 DEF ToSet
  <2>2. trace[t] \in UNION {ToSet(line) : line \in Asks \cup Traces}
    BY <2>1
  <2>3. candidates[t] \in Nearest(g, trace[t], Radius, MaxCandidates)
    BY <1>4, <1>9, <2>2 DEF Built
  <2> QED
    BY <2>3 DEF Nearest, kSubset
<1>12. StoreSound'
  BY <1>1, <1>2 DEF StoreSound
<1>13. Trailed(networks[current], trace, candidates)
  BY <1>4, <1>9, <1>10, <1>11 DEF Trailed, g
<1>14. TraceSound'
  <2>1. networks'[request'.network] = networks[current]
    BY <1>2, <1>6
  <2> QED
    BY <1>5, <1>6, <1>7, <1>8, <1>13, <2>1 DEF TraceSound, one
<1>15. RequestSound'
  <2>1. limit \in Nat
    BY SearchAssumption
  <2>2. one \in Int \X Int
    BY <1>8 DEF one
  <2> QED
    BY <1>6, <1>9, <2>1, <2>2 DEF RequestSound, Algorithms, Metrics
<1> QED
  BY <1>3, <1>6, <1>7, <1>12, <1>14, <1>15 DEF RoutingInv

\* The pairs of the next observation have candidates of both.
LEMMA ObservationKeeps ==
  ASSUME RoutingInv, NextObservation
  PROVE  RoutingInv'
<1> DEFINE trace == matching.trace
           candidates == matching.candidates
           t == matching.time + 1
           reached == {c \in DOMAIN matching.next : matching.next[c].cost < Infinite}
           pairs == [start : reached, end : candidates[t]]
           here == trace[t - 1]
           there == trace[t]
           blank == [c \in candidates[t] |-> Unreached]
<1>1. StoreSound /\ HasFields /\ HasTrace /\ RequestSound /\ TraceSound
  BY DEF RoutingInv, NextObservation
<1>2. /\ UNCHANGED <<networks, current, previous>> /\ search' = NoSearch
      /\ request.at = "match"
      /\ matching.time < Len(trace)
      /\ request' = [request EXCEPT !.from = here, !.to = there, !.pairs = pairs, !.left = pairs]
      /\ matching' = [matching EXCEPT !.time = t, !.layer = matching.next, !.next = blank]
  BY DEF NextObservation, store
<1>3. /\ Trailed(networks[request.network], trace, candidates) /\ trace \in Traces
      /\ matching.time \in 1..Len(trace) /\ DOMAIN matching.next = candidates[matching.time]
  BY <1>1 DEF TraceSound, Trailed
<1>4. /\ t \in 2..Len(trace) /\ t - 1 = matching.time /\ t # 1
      /\ t \in 1..Len(trace) /\ t - 1 \in 1..Len(trace) /\ DOMAIN trace = 1..Len(trace)
      /\ here \in Int \X Int /\ there \in Int \X Int
  BY <1>2, <1>3, TraceIs
<1>5. DOMAIN blank = candidates[t]
  OBVIOUS
<1>6. /\ reached \subseteq NearCandidates(graph, here, Radius)
      /\ candidates[t] \subseteq NearCandidates(graph, there, Radius)
  <2>1. reached \subseteq candidates[t - 1]
    BY <1>3, <1>4
  <2>2. /\ candidates[t - 1] \subseteq NearCandidates(networks[request.network].graph, here, Radius)
        /\ candidates[t] \subseteq NearCandidates(networks[request.network].graph, there, Radius)
    <3> HIDE DEF t
    <3> QED
      BY <1>3, <1>4 DEF Trailed
  <2> QED
    BY <2>1, <2>2 DEF graph
<1> HIDE DEF t, reached, here, there, blank, trace, candidates
<1>7. pairs \subseteq [start : NearCandidates(graph, here, Radius),
                       end : NearCandidates(graph, there, Radius)]
  BY <1>6
<1> HIDE DEF pairs
<1>8. /\ request'.at = "match" /\ request'.network = request.network
      /\ request'.from = here /\ request'.to = there
      /\ request'.algorithm = request.algorithm /\ request'.metric = request.metric
      /\ request'.limit = request.limit /\ request'.pairs = pairs /\ request'.left = pairs
      /\ HasFields'
  BY <1>1, <1>2 DEF HasFields
<1>9. /\ matching'.trace = trace /\ matching'.candidates = candidates
      /\ matching'.time = t /\ matching'.next = blank /\ HasTrace'
  BY <1>1, <1>2 DEF HasTrace, trace, candidates
<1>10. graph' = graph /\ networks'[request'.network] = networks[request.network]
  BY <1>2, <1>8 DEF graph
<1>11. RequestSound'
  BY <1>1, <1>4, <1>7, <1>8, <1>10 DEF RequestSound
<1>12. TraceSound'
  BY <1>3, <1>4, <1>5, <1>8, <1>9, <1>10 DEF TraceSound, here, there
<1>13. StoreSound'
  BY <1>1, <1>2 DEF StoreSound
<1> QED
  BY <1>2, <1>8, <1>9, <1>11, <1>12, <1>13 DEF RoutingInv

\* A trace that is matched, or not.
LEMMA EndMatchKeeps ==
  ASSUME RoutingInv, EndMatch
  PROVE  RoutingInv'
<1>1. StoreSound /\ HasFields /\ HasTrace
  BY DEF RoutingInv
<1>2. /\ UNCHANGED <<networks, current, previous>> /\ search' = NoSearch
      /\ request' = [request EXCEPT !.at = "matched"]
      /\ \E status, roads : matching' = [matching EXCEPT !.status = status, !.roads = roads]
  <2>1. \/ matching' = [matching EXCEPT !.status = "NoTransition"]
        \/ \E roads : matching' = [matching EXCEPT !.status = "Ok", !.roads = roads]
    BY DEF EndMatch
  <2>2. [matching EXCEPT !.status = "NoTransition"]
          = [matching EXCEPT !.status = "NoTransition", !.roads = matching.roads]
    BY <1>1 DEF HasTrace
  <2> QED
    BY <2>1, <2>2 DEF EndMatch, store
<1>3. request'.at = "matched" /\ HasFields'
  BY <1>1, <1>2 DEF HasFields
<1>4. HasTrace'
  BY <1>1, <1>2 DEF HasTrace
<1>5. StoreSound'
  BY <1>1, <1>2 DEF StoreSound
<1> QED
  BY <1>2, <1>3, <1>4, <1>5 DEF RoutingInv

\* Every step keeps the invariant.
LEMMA RoutingInvNext == RoutingInv /\ [RoutingNext]_routingVars => RoutingInv'
<1> SUFFICES ASSUME RoutingInv, [RoutingNext]_routingVars PROVE RoutingInv'
  OBVIOUS
<1>1. StoreSound /\ HasFields
  BY DEF RoutingInv
<1>2. ASSUME networks' = networks, request' = request, search' = search, matching' = matching,
             current' \in DOMAIN Maps, previous' \in DOMAIN Maps \cup {NoMap}
      PROVE  RoutingInv'
  <2>1. StoreSound' /\ HasFields' /\ HasTrace' /\ (request.at = "match" => TraceSound')
    BY <1>1, <1>2, TraceStays DEF StoreSound, HasFields
  <2>2. graph' = graph /\ Pair' = Pair
    BY <1>2 DEF graph, Pair
  <2>3. RequestSound => RequestSound'
    BY <1>2, <2>2 DEF RequestSound
  <2>4. SearchSound => SearchSound'
    BY <1>2, <2>2 DEF SearchSound
  <2>5. PairSound => PairSound'
    <3> HAVE PairSound
    <3>1. ~IsAlong(Pair)' /\ SearchSound'
      BY <2>2, <2>4 DEF PairSound, IsAlong
    <3>2. /\ search'.source = graph'.target[Pair'.start.edge]
          /\ search'.target = EdgeSource(graph', Pair'.end.edge)
          /\ search'.source # search'.target
          /\ request'.at \in {"route", "match"} /\ request'.left # {}
      BY <1>2, <2>2 DEF PairSound
    <3> QED
      BY <3>1, <3>2 DEF PairSound
  <2> QED
    BY <1>2, <2>1, <2>3, <2>5 DEF RoutingInv
<1>3. CASE \E name \in DOMAIN Maps : Publish(name)
  <2>1. /\ networks' = networks /\ request' = request /\ search' = search /\ matching' = matching
        /\ current' \in DOMAIN Maps /\ previous' \in DOMAIN Maps \cup {NoMap}
    BY <1>1, <1>3 DEF Publish, StoreSound
  <2> QED
    BY <1>2, <2>1
<1>4. CASE Rollback
  <2>1. /\ networks' = networks /\ request' = request /\ search' = search /\ matching' = matching
        /\ current' \in DOMAIN Maps /\ previous' \in DOMAIN Maps \cup {NoMap}
    BY <1>1, <1>4 DEF Rollback, StoreSound
  <2> QED
    BY <1>2, <2>1
<1>5. CASE \E ask \in Asks, algorithm \in Algorithms, metric \in Metrics, limit \in ExpansionLimits :
              BeginRoute(ask[1], ask[2], algorithm, metric, limit)
  BY <1>5, BeginKeeps
<1>6. CASE \E trace \in Traces, limit \in ExpansionLimits : BeginMatch(trace, limit)
  BY <1>6, BeginMatchKeeps
<1>7. CASE NextPair
  <2>1. request.at \in {"route", "match"} /\ request.left # {}
    BY <1>7 DEF NextPair
  <2>2. CASE \E route : Tried(Pair, route, FALSE)
    BY <2>1, <2>2, TriedKeeps
  <2>3. CASE /\ ~IsAlong(Pair)
             /\ graph.target[Pair.start.edge] # EdgeSource(graph, Pair.end.edge)
             /\ search' = Started(graph.target[Pair.start.edge], EdgeSource(graph, Pair.end.edge))
             /\ UNCHANGED <<store, request, matching>>
    BY <2>1, <2>3, StartKeeps
  <2> QED
    BY <1>7, <2>2, <2>3 DEF NextPair, Pair
<1>8. CASE DiscardStale
  <2>1. Searching /\ ~Exhausted /\ Stale /\ search' = Popped /\ UNCHANGED <<store, request, matching>>
    BY <1>8 DEF DiscardStale
  <2>2. InContext /\ SearchSound
    BY <1>1, <2>1, StartsSearchable DEF RoutingInv, PairSound, Searching
  <2>3. SearchOK(graph, request.algorithm, request.metric, search')
    BY <2>1, <2>2, StaleKeeps
  <2>4. search'.source = search.source /\ search'.target = search.target
    BY <2>1, <2>2, PopIs
  <2> QED
    BY <2>1, <2>3, <2>4, SearchKeeps
<1>9. CASE Expand
  <2>1. Searching /\ UNCHANGED <<store, request, matching>>
    BY <1>9 DEF Expand
  <2>2. OnNetwork /\ InContext /\ SearchSound
    BY <1>1, <2>1, StartsSearchable DEF RoutingInv, PairSound, Searching
  <2>3. SearchOK(graph, request.algorithm, request.metric, search')
    BY <1>9, <2>2, ExpandKeeps
  <2>4. search'.source = search.source /\ search'.target = search.target
    BY <1>9, <2>2, ExpandKeeps
  <2> QED
    BY <2>1, <2>3, <2>4, SearchKeeps
<1>10. CASE EndSearch
  <2>1. request.at \in {"route", "match"} /\ \E pair, route : Tried(pair, route, FALSE)
    BY <1>10 DEF EndSearch, SearchOver, Searching
  <2> QED
    BY <2>1, TriedKeeps
<1>11. CASE EndAtLimit
  <2>1. request.at \in {"route", "match"} /\ \E pair : Tried(pair, NoRoute, TRUE)
    BY <1>11 DEF EndAtLimit, Searching
  <2> QED
    BY <2>1, TriedKeeps
<1>12. CASE Answer
  <2>1. /\ request.at = "route" /\ request' = [request EXCEPT !.at = "answered"]
        /\ UNCHANGED <<store, search, matching>> /\ request.left = {}
    BY <1>12 DEF Answer
  <2>2. search = NoSearch
    BY <2>1 DEF RoutingInv, PairSound
  <2>3. /\ request'.at = "answered" /\ request'.network = request.network
        /\ request'.from = request.from /\ request'.to = request.to
        /\ request'.algorithm = request.algorithm /\ request'.metric = request.metric
        /\ request'.limit = request.limit /\ request'.pairs = request.pairs
        /\ request'.left = request.left
    BY <1>1, <2>1 DEF HasFields
  <2>4. HasFields' /\ HasTrace'
    BY <1>1, <2>1 DEF HasFields, HasTrace, RoutingInv
  <2>5. networks' = networks /\ StoreSound'
    BY <1>1, <2>1 DEF store, StoreSound
  <2>6. graph' = graph
    BY <2>3, <2>5 DEF graph
  <2>7. RequestSound'
    BY <2>1, <2>3, <2>6 DEF RoutingInv, RequestSound
  <2> QED
    BY <2>1, <2>2, <2>3, <2>4, <2>5, <2>7 DEF RoutingInv
<1>13. CASE Done
  <2>1. /\ request' = NoRequest /\ matching' = NoMatching /\ UNCHANGED <<store, search>>
        /\ request.at \in {"answered", "matched"}
    BY <1>13 DEF Done
  <2>2. search = NoSearch
    BY <2>1 DEF RoutingInv, PairSound
  <2>3. HasFields' /\ HasTrace' /\ request'.at = "idle"
    BY <2>1 DEF HasFields, HasTrace, NoRequest, NoMatching
  <2>4. StoreSound'
    BY <1>1, <2>1 DEF store, StoreSound
  <2> QED
    BY <2>1, <2>2, <2>3, <2>4 DEF RoutingInv
<1>14. CASE UNCHANGED routingVars
  <2>1. /\ networks' = networks /\ request' = request /\ search' = search /\ matching' = matching
        /\ current' \in DOMAIN Maps /\ previous' \in DOMAIN Maps \cup {NoMap}
    BY <1>1, <1>14 DEF routingVars, StoreSound
  <2> QED
    BY <1>2, <2>1
<1>15. CASE NextObservation
  BY <1>15, ObservationKeeps
<1>16. CASE EndMatch
  BY <1>16, EndMatchKeeps
<1> QED
  BY <1>3, <1>4, <1>5, <1>6, <1>7, <1>8, <1>9, <1>10, <1>11, <1>12, <1>13, <1>14, <1>15, <1>16
     DEF RoutingNext, RequestStep, SearchStep

\* The inductive invariant of the specification: the store holds networks that
\* were built, a request has candidates of its network, and a search under way
\* is the one of the pair at hand, with costs, queues and predecessors as the
\* searches of Router need them (router.cpp:98-310).
THEOREM RoutingSound == RoutingSpec => []RoutingInv
<1> QED
  BY RoutingInvInit, RoutingInvNext, PTL DEF RoutingSpec

\* No search expands a node twice from one side: with consistent estimates the
\* entries come off a queue in ascending order, so that a node that was expanded
\* is never improved again (the loops of Router, router.cpp).
THEOREM ExpandedOnce == RoutingSpec => []ExpandsOnce
<1>1. RoutingInv => ExpandsOnce
  <2> SUFFICES ASSUME RoutingInv, Searching
               PROVE  search.expanded <= Cardinality(graph.nodes)
                        * (IF request.algorithm = "Bidirectional" THEN 2 ELSE 1)
    BY DEF ExpandsOnce
  <2>1. InContext /\ SearchSound
    BY StartsSearchable DEF RoutingInv, PairSound, Searching
  <2>2. search \in SearchStates(graph)
    BY <2>1 DEF SearchSound, SearchOK
  <2> DEFINE A(o) == ClosedOn(MyView(search, o), search, o)
             k == Cardinality(graph.nodes)
  <2>3. k \in Nat /\ IsFiniteSet(graph.nodes)
    BY <2>1, Validated DEF InContext
  <2>4. \A o \in Sides : Cardinality(A(o)) \in Nat /\ Cardinality(A(o)) <= k
    <3> TAKE o \in Sides
    <3>1. A(o) \subseteq graph.nodes
      BY <2>1, <2>2, MyViewOK DEF ClosedOn, Closed
    <3> HIDE DEF A
    <3>2. IsFiniteSet(A(o)) /\ Cardinality(A(o)) <= Cardinality(graph.nodes)
      BY <2>3, <3>1, FS_Subset
    <3> QED
      BY <3>2, FS_CardinalityType
  <2>5. /\ search.expanded = Cardinality(A("out")) + Cardinality(A("in"))
        /\ request.algorithm # "Bidirectional" => A("in") = {}
    BY <2>1 DEF SearchSound, SearchOK, MyView
  <2> DEFINE a == Cardinality(A("out"))
             b == Cardinality(A("in"))
             n == search.expanded
  <2>6. /\ a \in Nat /\ b \in Nat /\ a <= k /\ b <= k /\ n = a + b
        /\ request.algorithm # "Bidirectional" => b = 0
    BY <2>4, <2>5, FS_EmptySet DEF Sides
  <2> HIDE DEF a, b, k, n
  <2>7. CASE request.algorithm = "Bidirectional"
    <3>1. n <= k * 2
      BY <2>3, <2>6
    <3> QED
      BY <2>7, <3>1 DEF n, k
  <2>8. CASE request.algorithm # "Bidirectional"
    <3>1. n <= k * 1
      BY <2>3, <2>6, <2>8
    <3> QED
      BY <2>8, <3>1 DEF n, k
  <2> QED
    BY <2>7, <2>8
<1> QED
  BY <1>1, RoutingSound, PTL

-----------------------------------------------------------------------------
(* Types *)

\* The types a request keeps, and how far its search may have come.
RequestTyped ==
    /\ request.at \in {"idle", "route", "answered", "match", "matched"}
    /\ request.left \subseteq request.pairs
    /\ request.best.status \in {"Ok", "Unreachable", "InvalidNode"}
WithinLimit == search # NoSearch => search.expanded <= request.limit

RoutingTypeInv == RoutingInv /\ RequestTyped /\ WithinLimit

\* A pair that is done keeps them.
LEMMA TriedTyped ==
  ASSUME RoutingTypeInv, NEW pair, NEW route, NEW limited, Tried(pair, route, limited)
  PROVE  RequestTyped' /\ WithinLimit'
<1>1. HasFields /\ RequestTyped
  BY DEF RoutingTypeInv, RoutingInv
<1>2. search' = NoSearch
  BY <1>1, TriedIs
<1>3. /\ request'.at = request.at /\ request'.pairs = request.pairs
      /\ request'.left = request.left \ {pair}
      /\ request'.best = IF Keeps(route) THEN route ELSE request.best
  BY <1>1, TriedFields
<1>4. request'.left \subseteq request'.pairs
  BY <1>1, <1>3 DEF RequestTyped
<1>5. request'.best.status \in {"Ok", "Unreachable", "InvalidNode"}
  BY <1>1, <1>3 DEF RequestTyped, Keeps
<1> QED
  BY <1>1, <1>2, <1>3, <1>4, <1>5 DEF RequestTyped, WithinLimit

\* Every step keeps the types.
LEMMA RoutingTypeNext == RoutingTypeInv /\ [RoutingNext]_routingVars => RoutingTypeInv'
<1> SUFFICES ASSUME RoutingTypeInv, [RoutingNext]_routingVars PROVE RoutingTypeInv'
  OBVIOUS
<1>1. RoutingInv /\ StoreSound /\ HasFields /\ RequestTyped /\ WithinLimit
  BY DEF RoutingTypeInv, RoutingInv
<1>2. RoutingInv'
  BY <1>1, RoutingInvNext
<1>3. ASSUME RequestTyped', WithinLimit' PROVE RoutingTypeInv'
  BY <1>2, <1>3 DEF RoutingTypeInv
<1>4. ASSUME request' = request, search # NoSearch => search'.expanded <= request.limit,
             search = NoSearch => search' = NoSearch
      PROVE  RoutingTypeInv'
  <2>1. RequestTyped' /\ WithinLimit'
    BY <1>1, <1>4 DEF RequestTyped, WithinLimit
  <2> QED
    BY <1>3, <2>1
<1>5. CASE (\E name \in DOMAIN Maps : Publish(name)) \/ Rollback \/ UNCHANGED routingVars
  <2>1. request' = request /\ search' = search
    BY <1>5 DEF Publish, Rollback, routingVars
  <2> QED
    BY <1>1, <1>4, <2>1 DEF WithinLimit
<1>6. CASE \E ask \in Asks, algorithm \in Algorithms, metric \in Metrics, limit \in ExpansionLimits :
              BeginRoute(ask[1], ask[2], algorithm, metric, limit)
  <2>1. PICK ask \in Asks, algorithm \in Algorithms, metric \in Metrics, limit \in ExpansionLimits :
              BeginRoute(ask[1], ask[2], algorithm, metric, limit)
    BY <1>6
  <2>2. PICK starts \in networks[current].near[ask[1]], ends \in networks[current].near[ask[2]] :
          LET pairs == [start : starts, end : ends]
          IN  request' = [NoRequest EXCEPT
                            !.at = "route", !.network = current,
                            !.from = ask[1], !.to = ask[2], !.limit = limit,
                            !.algorithm = algorithm, !.metric = metric,
                            !.best.status = IF pairs = {} THEN "InvalidNode" ELSE @,
                            !.pairs = pairs, !.left = pairs]
    BY <2>1 DEF BeginRoute
  <2>3. /\ request'.at = "route" /\ request'.left = request'.pairs
        /\ request'.best.status \in {"Unreachable", "InvalidNode"}
    BY <2>2, ZenonT(30) DEF NoRequest, NoRoute
  <2>4. search' = NoSearch
    BY <1>1, <2>1 DEF BeginRoute, RoutingInv, PairSound
  <2> QED
    BY <1>3, <2>3, <2>4 DEF RequestTyped, WithinLimit
<1>7. CASE \E trace \in Traces, limit \in ExpansionLimits : BeginMatch(trace, limit)
  <2>1. PICK trace \in Traces, limit \in ExpansionLimits : BeginMatch(trace, limit)
    BY <1>7
  <2>2. \E at \in {"match", "matched"} :
           request' = [NoRequest EXCEPT
                         !.at = at, !.network = current, !.algorithm = "AStar", !.limit = limit,
                         !.from = trace[1], !.to = trace[1]]
    BY <2>1 DEF BeginMatch
  <2>3. /\ request'.at \in {"match", "matched"} /\ request'.left = {} /\ request'.pairs = {}
        /\ request'.best.status = "Unreachable"
    BY <2>2 DEF NoRequest, NoRoute
  <2>4. search' = NoSearch
    BY <1>1, <2>1 DEF BeginMatch, RoutingInv, PairSound
  <2> QED
    BY <1>3, <2>3, <2>4 DEF RequestTyped, WithinLimit
<1>8. CASE NextPair
  <2>1. request.at \in {"route", "match"} /\ request.left # {} /\ search = NoSearch
    BY <1>8 DEF NextPair
  <2>2. CASE \E route : Tried(Pair, route, FALSE)
    BY <1>3, <2>1, <2>2, TriedTyped
  <2>3. CASE /\ search' = Started(graph.target[Pair.start.edge], EdgeSource(graph, Pair.end.edge))
             /\ UNCHANGED <<store, request, matching>>
    <3>1. search'.expanded = 0
      BY <2>3 DEF Started
    <3>2. request' = request /\ request.limit \in Nat
      BY <1>1, <2>1, <2>3 DEF RoutingInv, RequestSound
    <3>3. RequestTyped' /\ WithinLimit'
      BY <1>1, <3>1, <3>2 DEF RequestTyped, WithinLimit
    <3> QED
      BY <1>3, <3>3
  <2> QED
    BY <1>8, <2>2, <2>3 DEF NextPair, Pair
<1>9. CASE DiscardStale
  <2>1. Searching /\ search' = Popped /\ UNCHANGED <<store, request, matching>>
    BY <1>9 DEF DiscardStale
  <2>2. search'.expanded = search.expanded
    <3>1. search \in SearchStates(graph)
      BY <1>1, <2>1 DEF RoutingInv, PairSound, Searching, SearchSound, SearchOK
    <3> QED
      BY <2>1, <3>1 DEF Popped, SearchStates
  <2> QED
    BY <1>1, <1>4, <2>1, <2>2 DEF Searching, WithinLimit
<1>10. CASE Expand
  <2>1. Searching /\ MayExpand /\ UNCHANGED <<store, request, matching>>
    BY <1>10 DEF Expand
  <2>2. OnNetwork /\ InContext /\ SearchSound
    BY <1>1, <2>1, StartsSearchable DEF RoutingInv, PairSound, Searching
  <2>3. search'.expanded = search.expanded + 1
    BY <1>10, <2>2, ExpandKeeps
  <2>4. search.expanded \in Nat /\ request.limit \in Nat
    BY <1>1, <2>1, <2>2 DEF RoutingInv, RequestSound, SearchSound, SearchOK, SearchStates, Searching
  <2>5. search'.expanded <= request.limit
    BY <2>1, <2>3, <2>4 DEF MayExpand
  <2> QED
    BY <1>4, <2>1, <2>5 DEF Searching
<1>11. CASE EndSearch \/ EndAtLimit
  <2>1. \E pair, route, limited : Tried(pair, route, limited)
    BY <1>11 DEF EndSearch, EndAtLimit, SearchOver, Searching
  <2> QED
    BY <1>3, <2>1, TriedTyped
<1>12. CASE Answer
  <2>1. /\ request.at = "route" /\ request' = [request EXCEPT !.at = "answered"]
        /\ UNCHANGED <<store, search>> /\ request.left = {}
    BY <1>12 DEF Answer
  <2>2. search' = NoSearch
    BY <1>1, <2>1 DEF RoutingInv, PairSound
  <2>3. /\ request'.at = "answered" /\ request'.pairs = request.pairs
        /\ request'.left = request.left /\ request'.best = request.best
    BY <1>1, <2>1 DEF HasFields
  <2> QED
    BY <1>1, <1>3, <2>2, <2>3 DEF RequestTyped, WithinLimit
<1>13. CASE Done
  <2>1. request' = NoRequest /\ search' = search /\ request.at \in {"answered", "matched"}
    BY <1>13 DEF Done
  <2>2. search' = NoSearch
    BY <1>1, <2>1 DEF RoutingInv, PairSound
  <2> QED
    BY <1>3, <2>1, <2>2 DEF RequestTyped, WithinLimit, NoRequest, NoRoute
<1>14. CASE NextObservation
  <2> DEFINE t == matching.time + 1
             pairs == [start : {c \in DOMAIN matching.next : matching.next[c].cost < Infinite},
                       end : matching.candidates[t]]
             here == matching.trace[t - 1]
             there == matching.trace[t]
  <2>1. /\ request.at = "match" /\ search = NoSearch /\ search' = search
        /\ request' = [request EXCEPT !.from = here, !.to = there, !.pairs = pairs, !.left = pairs]
    BY <1>14 DEF NextObservation
  <2> HIDE DEF t, pairs, here, there
  <2>2. /\ request'.at = "match" /\ request'.pairs = pairs /\ request'.left = pairs
        /\ request'.best = request.best
    BY <1>1, <2>1 DEF HasFields
  <2> QED
    BY <1>1, <1>3, <2>1, <2>2 DEF RequestTyped, WithinLimit
<1>15. CASE EndMatch
  <2>1. /\ request' = [request EXCEPT !.at = "matched"] /\ search = NoSearch /\ search' = search
    BY <1>15 DEF EndMatch
  <2>2. /\ request'.at = "matched" /\ request'.pairs = request.pairs
        /\ request'.left = request.left /\ request'.best = request.best
    BY <1>1, <2>1 DEF HasFields
  <2> QED
    BY <1>1, <1>3, <2>1, <2>2 DEF RequestTyped, WithinLimit
<1> QED
  BY <1>5, <1>6, <1>7, <1>8, <1>9, <1>10, <1>11, <1>12, <1>13, <1>14, <1>15
     DEF RoutingNext, RequestStep, SearchStep

\* What the store, a request and a search hold is of its type, and no search
\* expands more nodes than its request allows (RoutingEngine::Route and the
\* loops of Router, router.cpp).
THEOREM RoutingTyped == RoutingSpec => []RoutingTypeOK
<1>1. RoutingInit => RoutingTypeInv
  BY RoutingInvInit DEF RoutingInit, RoutingTypeInv, RequestTyped, WithinLimit, NoRequest, NoRoute
<1>2. RoutingTypeInv => RoutingTypeOK
  <2> SUFFICES ASSUME RoutingTypeInv PROVE RoutingTypeOK
    OBVIOUS
  <2>1. RoutingInv /\ StoreSound /\ RequestTyped /\ WithinLimit
    BY DEF RoutingTypeInv, RoutingInv
  <2>2. DOMAIN networks = DOMAIN Maps
    BY <2>1 DEF StoreSound, Networks
  <2>3. ASSUME search # NoSearch
        PROVE  /\ search.expanded \in 0..request.limit
               /\ \A side \in Sides : /\ DOMAIN search.cost[side] = graph.nodes
                                      /\ search.queue[side] \subseteq Nat \X graph.nodes
    <3>1. search \in SearchStates(graph) /\ request.limit \in Nat
      BY <2>1, <2>3 DEF RoutingInv, PairSound, SearchSound, SearchOK, RequestSound
    <3>2. search.expanded \in 0..request.limit
      BY <2>1, <2>3, <3>1 DEF WithinLimit, SearchStates
    <3> QED
      BY <3>1, <3>2 DEF SearchStates
  <2> QED
    BY <2>1, <2>2, <2>3 DEF RoutingTypeOK, StoreSound, RequestTyped
<1> QED
  BY <1>1, <1>2, RoutingTypeNext, PTL DEF RoutingSpec

-----------------------------------------------------------------------------
(* What a search has found when it is over *)

\* A path of edges that may be driven from node to node.
LeadsFrom(path, from, to) ==
    Leads(graph.edges, Sources(graph), graph.target, path, from, to)

Lengths == Costs(request.metric)

\* What the search under way sees of its network.
LEMMA MyViewIs ==
  ASSUME InContext, search \in SearchStates(graph), NEW side \in Sides
  PROVE  LET v == MyView(search, side)
         IN  /\ v.nodes = graph.nodes /\ v.edges = graph.edges /\ v.side = side
             /\ v.weight = Lengths
             /\ v.near = (IF side = "out" THEN Sources(graph) ELSE graph.target)
             /\ v.far = (IF side = "out" THEN graph.target ELSE Sources(graph))
             /\ v.root = (IF side = "out" THEN search.source ELSE search.target)
BY DEF MyView, ViewOf, View, Lengths, Costs, CostsOf

\* The path back from a node that was reached leads there and costs what is noted.
LEMMA BehindIs ==
  ASSUME InContext, SearchSound, NEW node \in graph.nodes, search.cost["out"][node] < Infinite
  PROVE  /\ LeadsFrom(Behind(node), search.source, node)
         /\ Total(Lengths, Behind(node)) = search.cost["out"][node]
<1> DEFINE v == MyView(search, "out")
           c == search.cost["out"]
           p == search.via["out"]
           Rec(f) == f = [n \in graph.nodes |->
                             IF n = search.source \/ p[n] = NoEdge THEN <<>>
                             ELSE Append(f[EdgeSource(graph, p[n])], p[n])]
           f == CHOOSE g : Rec(g)
<1>1. search \in SearchStates(graph) /\ "out" \in Sides
  BY DEF SearchSound, SearchOK, Sides
<1>2. ViewOK(v)
  BY <1>1, MyViewOK
<1>3. /\ v.nodes = graph.nodes /\ v.edges = graph.edges /\ v.side = "out"
      /\ v.weight = Lengths /\ v.near = Sources(graph) /\ v.far = graph.target
      /\ v.root = search.source
  BY <1>1, MyViewIs
<1>4. Grown(v, c, p) /\ p \in [graph.nodes -> graph.edges \cup {NoEdge}]
  <2>1. Grown(v, c, p)
    BY <1>1 DEF SearchSound, SearchOK, SideOK, MyView
  <2>2. p \in [graph.nodes -> graph.edges \cup {NoEdge}]
    BY <1>1 DEF SearchStates
  <2> QED
    BY <2>1, <2>2
<1> HIDE DEF v, c, p
<1>5. \A g : Rec(g) <=> IsBack(v, p, g)
  <2> TAKE g
  <2>1. \A n \in graph.nodes : p[n] # NoEdge =>
            Append(g[EdgeSource(graph, p[n])], p[n]) = Joined(v.side, g[v.near[p[n]]], p[n])
    <3> TAKE n \in graph.nodes
    <3> HAVE p[n] # NoEdge
    <3>1. p[n] \in graph.edges
      BY <1>4
    <3>2. v.near[p[n]] = EdgeSource(graph, p[n])
      BY <1>3, <3>1 DEF Sources
    <3> QED
      BY <1>3, <3>2 DEF Joined
  <2> DEFINE A(n) == IF n = search.source \/ p[n] = NoEdge THEN <<>>
                     ELSE Append(g[EdgeSource(graph, p[n])], p[n])
             B(n) == IF n = v.root \/ p[n] = NoEdge THEN <<>>
                     ELSE Joined(v.side, g[v.near[p[n]]], p[n])
  <2>2. \A n \in graph.nodes : A(n) = B(n)
    BY <1>3, <2>1
  <2> HIDE DEF A, B
  <2>3. [n \in graph.nodes |-> A(n)] = [n \in graph.nodes |-> B(n)]
    BY <2>2
  <2>4. Rec(g) <=> g = [n \in graph.nodes |-> A(n)]
    BY DEF A
  <2>5. IsBack(v, p, g) <=> g = [n \in graph.nodes |-> B(n)]
    BY <1>3 DEF IsBack, B
  <2> HIDE DEF Rec
  <2> QED
    BY <2>3, <2>4, <2>5
<1>6. Rec(f)
  <2>1. \E g : Rec(g)
    <3> HIDE DEF Rec, f
    <3> QED
      BY <1>4, <1>5 DEF Grown
  <2> HIDE DEF Rec
  <2> QED
    BY <2>1
<1>7. Behind(node) = f[node]
  BY DEF Behind, p
<1> HIDE DEF f, Rec
<1>8. Branch(v, f[node], node) /\ Total(v.weight, f[node]) = c[node]
  <2>1. IsBack(v, p, f) /\ c[node] < Infinite /\ node \in v.nodes
    BY <1>3, <1>5, <1>6 DEF c
  <2> QED
    BY <1>4, <2>1 DEF Grown
<1> QED
  BY <1>3, <1>7, <1>8 DEF Branch, LeadsFrom, c

\* And so does the path ahead.
LEMMA AheadIs ==
  ASSUME InContext, SearchSound, NEW node \in graph.nodes, search.cost["in"][node] < Infinite
  PROVE  /\ LeadsFrom(Ahead(node), node, search.target)
         /\ Total(Lengths, Ahead(node)) = search.cost["in"][node]
<1> DEFINE v == MyView(search, "in")
           c == search.cost["in"]
           p == search.via["in"]
           Rec(f) == f = [n \in graph.nodes |->
                             IF n = search.target \/ p[n] = NoEdge THEN <<>>
                             ELSE <<p[n]>> \o f[graph.target[p[n]]]]
           f == CHOOSE g : Rec(g)
<1>1. search \in SearchStates(graph) /\ "in" \in Sides
  BY DEF SearchSound, SearchOK, Sides
<1>2. ViewOK(v)
  BY <1>1, MyViewOK
<1>3. /\ v.nodes = graph.nodes /\ v.edges = graph.edges /\ v.side = "in"
      /\ v.weight = Lengths /\ v.near = graph.target /\ v.far = Sources(graph)
      /\ v.root = search.target
  BY <1>1, MyViewIs
<1>4. Grown(v, c, p)
  BY <1>1 DEF SearchSound, SearchOK, SideOK, MyView
<1> HIDE DEF v, c, p
<1>5. \A g : Rec(g) <=> IsBack(v, p, g)
  BY <1>3 DEF IsBack, Joined
<1>6. Rec(f)
  <2>1. \E g : Rec(g)
    <3> HIDE DEF Rec, f
    <3> QED
      BY <1>4, <1>5 DEF Grown
  <2> HIDE DEF Rec
  <2> QED
    BY <2>1
<1>7. Ahead(node) = f[node]
  BY DEF Ahead, p
<1> HIDE DEF f, Rec
<1>8. Branch(v, f[node], node) /\ Total(v.weight, f[node]) = c[node]
  <2>1. IsBack(v, p, f) /\ c[node] < Infinite /\ node \in v.nodes
    BY <1>3, <1>5, <1>6 DEF c
  <2> QED
    BY <1>4, <2>1 DEF Grown
<1> QED
  BY <1>3, <1>7, <1>8 DEF Branch, LeadsFrom, c

\* No path that may be driven costs less than this.
NoneBelow(cost) ==
    \A path : LeadsFrom(path, search.source, search.target) /\ Total(Lengths, path) < Infinite =>
        cost <= Total(Lengths, path)

\* A search that is over has found a cheapest path, or there is none.
Exact ==
    /\ Found => /\ LeadsFrom(Path, search.source, search.target)
                /\ Total(Lengths, Path) < Infinite
                /\ NoneBelow(Total(Lengths, Path))
    /\ ~Found => NoneBelow(Infinite)

\* From one side: the entries left cannot improve the target.
LEMMA OneSideExact ==
  ASSUME InContext, SearchSound, SearchOver, request.algorithm # "Bidirectional",
         search.source # search.target
  PROVE  Exact
<1> DEFINE v == MyView(search, "out")
           c == search.cost["out"]
           q == search.queue["out"]
           p == search.via["out"]
           t == search.target
<1>1. search \in SearchStates(graph) /\ "out" \in Sides
  BY DEF SearchSound, SearchOK, Sides
<1>2. ViewOK(v)
  BY <1>1, MyViewOK
<1>3. /\ v.nodes = graph.nodes /\ v.edges = graph.edges /\ v.weight = Lengths
      /\ v.near = Sources(graph) /\ v.far = graph.target /\ v.root = search.source
  BY <1>1, MyViewIs
<1>4. Steady(v, c, q) /\ Tree(v, c, q, p) /\ Spread(v, c, q, {})
  BY <1>1 DEF SearchSound, SearchOK, SideOK, MyView
<1>5. t \in graph.nodes
  BY <1>1 DEF SearchStates
<1>6. \A entry \in q : c[t] + v.h[t] <= entry[1]
  <2>1. CASE Exhausted
    <3>1. q = {}
      BY <2>1 DEF Exhausted
    <3> QED
      BY <3>1
  <2>2. CASE ~Exhausted
    <3>1. Node = t
      BY <2>2 DEF SearchOver, Reached
    <3>2. /\ Frontier = "out" /\ Node = Top(search.queue[Frontier])[2]
          /\ Top(search.queue[Frontier]) \in search.queue[Frontier]
          /\ \A entry \in search.queue[Frontier] : Top(search.queue[Frontier])[1] <= entry[1]
      BY <2>2, PopIs
    <3> DEFINE first == Top(q)
    <3>3. first \in q /\ first[2] = t /\ \A entry \in q : first[1] <= entry[1]
      BY <3>1, <3>2
    <3> HIDE DEF first, q, c, t, v
    <3>4. c[t] + v.h[t] <= first[1]
      BY <1>4, <3>3 DEF Steady
    <3>5. \A entry \in q : entry[1] \in Nat
      BY <1>4 DEF Steady
    <3>6. c[t] \in Nat /\ v.h[t] \in Nat
      <4>1. c \in [v.nodes -> 0..Infinite] /\ v.h \in [v.nodes -> Nat]
        BY <1>2, <1>4 DEF Steady, ViewOK
      <4> QED
        BY <1>3, <1>5, <4>1, InfiniteNat
    <3> QED
      BY <3>3, <3>4, <3>5, <3>6
  <2> QED
    BY <2>1, <2>2
<1> HIDE DEF v, c, q, p, t
<1>7. c[v.root] = 0 /\ c \in [graph.nodes -> 0..Infinite]
  <2>1. c[v.root] = 0
    BY <1>4 DEF Tree
  <2>2. c \in [graph.nodes -> 0..Infinite]
    BY <1>3, <1>4 DEF Steady
  <2> QED
    BY <2>1, <2>2
<1>8. ASSUME NEW path, LeadsFrom(path, search.source, search.target),
             Total(Lengths, path) < Infinite
      PROVE  c[t] <= Total(Lengths, path)
  <2>1. Leads(v.edges, v.near, v.far, path, v.root, t)
    BY <1>3, <1>8 DEF LeadsFrom, t
  <2>2. Total(v.weight, path) < Infinite /\ t \in v.nodes
    BY <1>3, <1>5, <1>8
  <2>3. c[t] <= Total(v.weight, path)
    BY <1>2, <1>4, <1>6, <1>7, <2>1, <2>2, CheapestFromOneSide
  <2> QED
    BY <1>3, <2>3
<1>9. NoneBelow(c[t])
  BY <1>8 DEF NoneBelow
<1>10. Found <=> p[t] # NoEdge
  BY DEF Found, p, t
<1>11. t # v.root
  BY <1>3 DEF t
<1>12. p[t] = NoEdge => c[t] = Infinite
  BY <1>3, <1>4, <1>5, <1>11 DEF Tree
<1>13. p[t] # NoEdge => c[t] < Infinite
  BY <1>3, <1>4, <1>5 DEF Tree
<1>14. ASSUME Found
       PROVE  /\ LeadsFrom(Path, search.source, search.target)
              /\ Total(Lengths, Path) < Infinite
              /\ NoneBelow(Total(Lengths, Path))
  <2>1. c[t] < Infinite
    BY <1>10, <1>13, <1>14
  <2>2. Path = Behind(t)
    BY DEF Path, t
  <2>3. LeadsFrom(Behind(t), search.source, t) /\ Total(Lengths, Behind(t)) = c[t]
    BY <1>5, <2>1, BehindIs DEF c
  <2> QED
    BY <1>9, <2>1, <2>2, <2>3 DEF t
<1>15. ASSUME ~Found PROVE NoneBelow(Infinite)
  <2>1. c[t] = Infinite
    BY <1>10, <1>12, <1>15
  <2> QED
    BY <1>9, <2>1
<1> QED
  BY <1>14, <1>15 DEF Exact

\* From both sides: no two entries left can make a better meeting.
LEMMA BothSidesExact ==
  ASSUME InContext, SearchSound, SearchOver, request.algorithm = "Bidirectional"
  PROVE  Exact
<1> DEFINE v == MyView(search, "out")
           u == MyView(search, "in")
           c == search.cost["out"]
           d == search.cost["in"]
           q == search.queue["out"]
           r == search.queue["in"]
           best == search.best
<1>1. search \in SearchStates(graph) /\ "out" \in Sides /\ "in" \in Sides
  BY DEF SearchSound, SearchOK, Sides
<1>2. /\ ViewOK(v) /\ ViewOK(u)
      /\ \A n \in graph.nodes : v.h[n] = 0
      /\ \A n \in graph.nodes : u.h[n] = 0
  <2>1. request.algorithm # "AStar"
    OBVIOUS
  <2> QED
    BY <1>1, <2>1, MyViewOK
<1>3. /\ v.nodes = graph.nodes /\ v.edges = graph.edges /\ v.weight = Lengths
      /\ v.near = Sources(graph) /\ v.far = graph.target /\ v.root = search.source
      /\ u.nodes = graph.nodes /\ u.edges = graph.edges /\ u.weight = Lengths
      /\ u.near = graph.target /\ u.far = Sources(graph) /\ u.root = search.target
  BY <1>1, MyViewIs
<1>4. Mirrored(v, u)
  BY <1>3 DEF Mirrored
<1>5. /\ Steady(v, c, q) /\ Tree(v, c, q, search.via["out"]) /\ Spread(v, c, q, {})
      /\ Steady(u, d, r) /\ Tree(u, d, r, search.via["in"]) /\ Spread(u, d, r, {})
  BY <1>1 DEF SearchSound, SearchOK, SideOK, MyView
<1>6. /\ \A n \in graph.nodes : best <= c[n] + d[n]
      /\ best < Infinite =>
            search.meeting \in graph.nodes /\ best = c[search.meeting] + d[search.meeting]
      /\ best >= Infinite => search.meeting = NoNode
  BY DEF SearchSound, SearchOK, Met
<1>7. best \in 0..Infinite /\ best \in Nat
  BY <1>1, InfiniteNat DEF SearchStates
<1>8. \A a \in q, b \in r : best <= a[1] + b[1]
  <2>1. Exhausted
    BY DEF SearchOver, Reached
  <2>2. CASE q = {} \/ r = {}
    BY <2>2
  <2>3. CASE q # {} /\ r # {}
    <3>1. Settled
      BY <2>1, <2>3 DEF Exhausted
    <3>2. Top(q)[1] + Top(r)[1] >= best
      BY <3>1 DEF Settled
    <3>3. q \subseteq Nat \X graph.nodes /\ r \subseteq Nat \X graph.nodes
      BY <1>3, <1>5 DEF Steady
    <3>4. graph.nodes \subseteq Nat
      BY Validated DEF InContext
    <3> HIDE DEF q, r, best
    <3>5. Top(q) \in q /\ \A entry \in q : Top(q)[1] <= entry[1]
      BY <2>3, <3>3, <3>4, TopIs
    <3>6. Top(r) \in r /\ \A entry \in r : Top(r)[1] <= entry[1]
      BY <2>3, <3>3, <3>4, TopIs
    <3> DEFINE k == Top(q)[1]
               l == Top(r)[1]
    <3>7. k \in Nat /\ l \in Nat /\ best <= k + l
      BY <1>7, <3>2, <3>3, <3>5, <3>6
    <3> TAKE a \in q, b \in r
    <3> DEFINE x == a[1]
               y == b[1]
    <3>8. x \in Nat /\ y \in Nat /\ k <= x /\ l <= y
      BY <3>3, <3>5, <3>6
    <3> HIDE DEF k, l, x, y
    <3>9. best <= x + y
      BY <1>7, <3>7, <3>8
    <3> QED
      BY <3>9 DEF x, y
  <2> QED
    BY <2>2, <2>3
<1> HIDE DEF v, u, c, d, q, r, best
<1>9. c[v.root] = 0 /\ d[u.root] = 0
  BY <1>5 DEF Tree
<1>10. \A n \in v.nodes : v.h[n] = 0 /\ u.h[n] = 0
  BY <1>2, <1>3
<1>11. \A n \in v.nodes : best <= c[n] + d[n]
  BY <1>3, <1>6
<1>12. ASSUME NEW path, LeadsFrom(path, search.source, search.target),
              Total(Lengths, path) < Infinite
       PROVE  best <= Total(Lengths, path)
  <2>1. Leads(v.edges, v.near, v.far, path, v.root, u.root)
    BY <1>3, <1>12 DEF LeadsFrom
  <2>2. Total(v.weight, path) < Infinite
    BY <1>3, <1>12
  <2>3. best <= Total(v.weight, path)
    BY <1>2, <1>4, <1>5, <1>7, <1>8, <1>9, <1>10, <1>11, <2>1, <2>2, CheapestFromBothSides
  <2> QED
    BY <1>3, <2>3
<1>13. NoneBelow(best)
  BY <1>12 DEF NoneBelow
<1>14. Found <=> search.meeting # NoNode
  BY DEF Found
<1>15. NoNode \notin graph.nodes
  BY Validated DEF InContext, NoNode
<1>16. Found <=> best < Infinite
  BY <1>6, <1>7, <1>14, <1>15, InfiniteNat
<1>17. ASSUME Found
       PROVE  /\ LeadsFrom(Path, search.source, search.target)
              /\ Total(Lengths, Path) < Infinite
              /\ NoneBelow(Total(Lengths, Path))
  <2> DEFINE m == search.meeting
             back == Behind(m)
             on == Ahead(m)
  <2>1. best < Infinite /\ m \in graph.nodes /\ best = c[m] + d[m]
    BY <1>6, <1>16, <1>17
  <2>2. Path = back \o on
    BY DEF Path
  <2>3. c[m] \in 0..Infinite /\ d[m] \in 0..Infinite
    <3>1. c \in [graph.nodes -> 0..Infinite] /\ d \in [graph.nodes -> 0..Infinite]
      BY <1>3, <1>5 DEF Steady
    <3> HIDE DEF m
    <3> QED
      BY <2>1, <3>1
  <2>4. c[m] < Infinite /\ d[m] < Infinite
    BY <2>1, <2>3, InfiniteNat
  <2>5. LeadsFrom(back, search.source, m) /\ Total(Lengths, back) = c[m]
    BY <2>1, <2>4, BehindIs DEF c
  <2>6. LeadsFrom(on, m, search.target) /\ Total(Lengths, on) = d[m]
    BY <2>1, <2>4, AheadIs DEF d
  <2> HIDE DEF back, on, m
  <2>7. LeadsFrom(back \o on, search.source, search.target)
    BY <2>5, <2>6, LeadsOn DEF LeadsFrom
  <2>8. Total(Lengths, back \o on) = best
    <3>1. Lengths \in [graph.edges -> Nat]
      BY <1>2, <1>3 DEF ViewOK
    <3>2. back \in Seq(graph.edges) /\ on \in Seq(graph.edges)
      BY <2>5, <2>6 DEF LeadsFrom, Leads
    <3>3. Total(Lengths, back \o on) = Total(Lengths, back) + Total(Lengths, on)
      BY <3>1, <3>2, TotalsAdd
    <3> QED
      BY <2>1, <2>5, <2>6, <3>3
  <2> QED
    BY <1>13, <2>1, <2>2, <2>7, <2>8
<1>18. ASSUME ~Found PROVE NoneBelow(Infinite)
  <2>1. best = Infinite
    BY <1>7, <1>16, <1>18, InfiniteNat
  <2> QED
    BY <1>13, <2>1
<1> QED
  BY <1>17, <1>18 DEF Exact

\* Whatever the algorithm, the metric, the limit and what is published
\* meanwhile, a search that is over has found a cheapest path of the network
\* between its two nodes, or there is no path (Router::Route and
\* RouteBidirectional, router.cpp).
THEOREM SearchesExact == RoutingSpec => [](SearchOver => Exact)
<1>1. RoutingInv => (SearchOver => Exact)
  <2> SUFFICES ASSUME RoutingInv, SearchOver PROVE Exact
    OBVIOUS
  <2>1. InContext /\ SearchSound /\ search.source # search.target
    BY StartsSearchable DEF RoutingInv, PairSound, Searching, SearchOver
  <2> QED
    BY <2>1, OneSideExact, BothSidesExact
<1> QED
  BY <1>1, RoutingSound, PTL

-----------------------------------------------------------------------------
(* Candidates are measured in integers *)

\* The least and the greatest of two integers.
LEMMA OfTwo ==
  ASSUME NEW a \in Int, NEW b \in Int
  PROVE  Min({a, b}) \in Int /\ Max({a, b}) \in Int
<1>1. \E x \in {a, b} : \A y \in {a, b} : x <= y
  <2>1. CASE a <= b
    BY <2>1
  <2>2. CASE b <= a
    BY <2>2
  <2> QED
    BY <2>1, <2>2
<1>2. \E x \in {a, b} : \A y \in {a, b} : x >= y
  <2>1. CASE a <= b
    BY <2>1
  <2>2. CASE b <= a
    BY <2>2
  <2> QED
    BY <2>1, <2>2
<1>3. Min({a, b}) \in {a, b}
  BY <1>1 DEF Min
<1>4. Max({a, b}) \in {a, b}
  BY <1>2 DEF Max
<1> QED
  BY <1>3, <1>4

\* A coordinate moved into a range is one.
LEMMA Clamped ==
  ASSUME NEW n \in Int, NEW a \in Int, NEW b \in Int
  PROVE  Clamp(n, a, b) \in Int
BY OfTwo DEF Clamp

\* The length of a line up to each of its nodes.
LEMMA LengthNat ==
  ASSUME NEW line \in Seq(DOMAIN Position), NEW i \in 1..Len(line)
  PROVE  LengthTo(line, i) \in Nat
<1> DEFINE step(k) == Apart(Position[line[k - 1]], Position[line[k]])
           n == i - 1
           round == [k \in 1..n |-> [x \in Nat |-> x + step(k + 1)]]
           Rec(f) == f = [k \in 1..i |-> IF k = 1 THEN 0 ELSE f[k - 1] + step(k)]
           g == CHOOSE f : Rec(f)
<1>1. n \in Nat /\ i \in Nat \ {0} /\ i <= Len(line) /\ Len(line) \in Nat
  OBVIOUS
<1>2. \A k \in 2..i : step(k) \in Nat
  <2> TAKE k \in 2..i
  <2>1. k \in 1..Len(line) /\ k - 1 \in 1..Len(line)
    BY <1>1
  <2>2. Position[line[k]] \in Int \X Int /\ Position[line[k - 1]] \in Int \X Int
    BY <2>1, GridAssumption, SMTT(30)
  <2> QED
    BY <2>2, Metric
<1> HIDE DEF step
<1>3. \A k \in 1..n : k + 1 \in 2..i
  BY <1>1
<1>4. IsLoop(Nat, 0, n, round)
  <2>1. \A k \in 1..n : [x \in Nat |-> x + step(k + 1)] \in [Nat -> Nat]
    <3> TAKE k \in 1..n
    <3>1. step(k + 1) \in Nat
      BY <1>2, <1>3
    <3> QED
      BY <3>1
  <2> HIDE DEF n
  <2> QED
    BY <1>1, <2>1 DEF IsLoop
<1>5. PICK F \in [0..n -> Nat] : F[0] = 0 /\ \A k \in 1..n : F[k] = round[k][F[k - 1]]
  <2> HIDE DEF n, round
  <2> QED
    BY <1>4, LoopRuns
<1> DEFINE f == [k \in 1..i |-> F[k - 1]]
<1>6. Rec(f)
  <2>1. ASSUME NEW k \in 1..i PROVE f[k] = IF k = 1 THEN 0 ELSE f[k - 1] + step(k)
    <3>1. CASE k = 1
      BY <1>5, <3>1
    <3>2. CASE k # 1
      <4>1. /\ k - 1 \in 1..n
            /\ k - 1 \in 1..i
            /\ k \in 2..i
            /\ (k - 1) + 1 = k
            /\ k - 2 \in 0..n
            /\ (k - 1) - 1 = k - 2
        BY <1>1, <3>2
      <4>2. F[k - 1] = round[k - 1][F[k - 2]]
        BY <1>5, <4>1
      <4>3. F[k - 2] \in Nat
        BY <1>5, <4>1
      <4>4. round[k - 1] = [x \in Nat |-> x + step((k - 1) + 1)]
        BY <4>1
      <4> HIDE DEF round
      <4>5. F[k - 1] = F[k - 2] + step(k)
        BY <4>1, <4>2, <4>3, <4>4
      <4>6. f[k] = F[k - 1] /\ f[k - 1] = F[k - 2]
        BY <4>1
      <4> QED
        BY <3>2, <4>5, <4>6
    <3> QED
      BY <3>1, <3>2
  <2>2. f = [k \in 1..i |-> f[k]]
    OBVIOUS
  <2> HIDE DEF f
  <2> QED
    BY <2>1, <2>2
<1>7. Rec(g)
  <2> HIDE DEF Rec, f
  <2> QED
    BY <1>6
<1>8. LengthTo(line, i) = g[i]
  BY DEF LengthTo, step
<1> HIDE DEF g, f
<1>9. g[1] = 0 /\ \A k \in 2..i : k - 1 \in 1..i /\ g[k] = g[k - 1] + step(k)
  BY <1>1, <1>7
<1> DEFINE S == {k \in Nat : k + 1 <= i => g[k + 1] \in Nat}
<1>10. 0 \in S
  BY <1>9
<1>11. \A k \in Nat : k \in S => k + 1 \in S
  <2> TAKE k \in Nat
  <2> HAVE k \in S
  <2>1. CASE (k + 1) + 1 <= i
    <3>1. k + 2 \in 2..i /\ (k + 1) + 1 = k + 2 /\ (k + 2) - 1 = k + 1 /\ k + 1 <= i
      BY <1>1, <2>1
    <3>2. g[k + 1] \in Nat
      BY <3>1
    <3>3. step(k + 2) \in Nat /\ g[k + 2] = g[k + 1] + step(k + 2)
      BY <1>2, <1>9, <3>1
    <3>4. g[(k + 1) + 1] \in Nat
      BY <3>1, <3>2, <3>3
    <3> QED
      BY <3>4
  <2>2. CASE ~((k + 1) + 1 <= i)
    BY <2>2
  <2> QED
    BY <2>1, <2>2
<1>12. Nat \subseteq S
  <2> HIDE DEF S
  <2> QED
    BY <1>10, <1>11, NaturalsReached
<1>13. n + 1 = i /\ n \in S
  BY <1>1, <1>12
<1>14. g[i] \in Nat
  BY <1>1, <1>13
<1> QED
  BY <1>8, <1>14

\* What the index measures of a length is one.
LEMMA IndexedNat ==
  ASSUME NEW n \in Nat
  PROVE  Indexed(n) \in Nat
<1>1. Stretch[1] \in Nat /\ Stretch[2] \in Nat \ {0}
  BY StretchAssumption
<1>2. n * Stretch[1] \in Nat
  BY <1>1
<1> QED
  BY <1>1, <1>2, DivLess DEF Indexed

\* A candidate is at a distance from its point and from the beginning of its edge.
LEMMA NearTyped ==
  ASSUME NEW g, Validate(g), NEW point \in Int \X Int, NEW c \in NearCandidates(g, point, Radius)
  PROVE  c.snap \in Nat /\ c.along \in Nat
<1> DEFINE Projected(e, k) ==
               LET a == Position[g.line[e][k]]
                   b == Position[g.line[e][k + 1]]
               IN  <<Clamp(point[1], a[1], b[1]), Clamp(point[2], a[2], b[2])>>
           Snapped(e, k) == Indexed(Apart(point, Projected(e, k)))
           Along(e, k) == Indexed(LengthTo(g.line[e], k)
                                    + Apart(Position[g.line[e][k]], Projected(e, k)))
           Candidate(e, k) == [edge |-> e, segment |-> k, snap |-> Snapped(e, k),
                               along |-> Along(e, k)]
           Each(e) == {Candidate(e, k) : k \in 1..(Len(g.line[e]) - 1)}
<1>1. NearCandidates(g, point, Radius)
        = {candidate \in UNION {Each(e) : e \in g.edges} : candidate.snap <= Radius}
  BY DEF NearCandidates
<1> HIDE DEF Snapped, Along, Projected
<1>2. PICK e \in g.edges : c \in Each(e)
  BY <1>1
<1>3. PICK k \in 1..(Len(g.line[e]) - 1) : c = Candidate(e, k)
  BY <1>2
<1> DEFINE line == g.line[e]
<1>4. line \in Seq(DOMAIN Position)
  BY DEF Validate
<1> HIDE DEF line
<1>5. k \in 1..Len(line) /\ k + 1 \in 1..Len(line)
  BY <1>4 DEF line
<1>6. Position[line[k]] \in Int \X Int /\ Position[line[k + 1]] \in Int \X Int
  BY <1>4, <1>5, GridAssumption, SMTT(30)
<1>7. Projected(e, k) \in Int \X Int
  <2> DEFINE a == Position[line[k]]
             b == Position[line[k + 1]]
  <2>1. a[1] \in Int /\ a[2] \in Int /\ b[1] \in Int /\ b[2] \in Int /\ point[1] \in Int /\ point[2] \in Int
    BY <1>6
  <2>2. Projected(e, k) = <<Clamp(point[1], a[1], b[1]), Clamp(point[2], a[2], b[2])>>
    BY DEF Projected, line
  <2> HIDE DEF a, b
  <2>3. Clamp(point[1], a[1], b[1]) \in Int /\ Clamp(point[2], a[2], b[2]) \in Int
    BY <2>1, Clamped
  <2> QED
    BY <2>2, <2>3
<1>8. Apart(point, Projected(e, k)) \in Nat /\ Apart(Position[line[k]], Projected(e, k)) \in Nat
  BY <1>6, <1>7, Metric
<1>9. LengthTo(line, k) \in Nat
  BY <1>4, <1>5, LengthNat
<1>10. Snapped(e, k) \in Nat /\ Along(e, k) \in Nat
  <2>1. LengthTo(line, k) + Apart(Position[line[k]], Projected(e, k)) \in Nat
    BY <1>8, <1>9
  <2> QED
    BY <1>8, <2>1, IndexedNat DEF Snapped, Along, line
<1> QED
  BY <1>3, <1>10

-----------------------------------------------------------------------------
(* The reference: the least costs by ever more edges are those of paths *)

\* The minimum of a set of naturals.
LEMMA MinIs ==
  ASSUME NEW S, S \subseteq Nat, S # {}
  PROVE  Min(S) \in S /\ \A x \in S : Min(S) <= x
<1>1. \E x \in S : \A y \in S : x <= y
  BY LeastNatural
<1> QED
  BY <1>1 DEF Min

\* The lesser of two numbers.
LEMMA TwoLeast ==
  ASSUME NEW a \in Nat, NEW b \in Nat
  PROVE  /\ Min({a, b}) \in Nat /\ Min({a, b}) <= a /\ Min({a, b}) <= b
         /\ Min({a, b}) = a \/ Min({a, b}) = b
<1> DEFINE S == {a, b}
<1>1. S \subseteq Nat /\ S # {}
  OBVIOUS
<1> HIDE DEF S
<1>2. Min(S) \in S /\ \A x \in S : Min(S) <= x
  BY <1>1, MinIs
<1> QED
  BY <1>1, <1>2 DEF S

\* The ways to a node with an edge more.
OneMore(g, costs, x, p) ==
    {x[p]} \cup {x[<<p[1], EdgeSource(g, e)>>] + costs[e] :
                     e \in {f \in g.edges : g.target[f] = p[2]}}

\* The least cost by one edge more is a cost.
LEMMA OneMoreIs ==
  ASSUME NEW g, Validate(g), NEW costs \in [g.edges -> Nat],
         NEW x \in [g.nodes \X g.nodes -> 0..Infinite], NEW p \in g.nodes \X g.nodes
  PROVE  /\ OneMore(g, costs, x, p) \subseteq Nat
         /\ Min(OneMore(g, costs, x, p)) \in 0..Infinite
         /\ Min(OneMore(g, costs, x, p)) \in OneMore(g, costs, x, p)
<1>1. x[p] \in 0..Infinite /\ x[p] \in Nat
  BY InfiniteNat
<1>2. ASSUME NEW e \in {f \in g.edges : g.target[f] = p[2]}
      PROVE  x[<<p[1], EdgeSource(g, e)>>] + costs[e] \in Nat
  <2>1. <<p[1], EdgeSource(g, e)>> \in g.nodes \X g.nodes
    BY SourceIs
  <2>2. x[<<p[1], EdgeSource(g, e)>>] \in 0..Infinite /\ costs[e] \in Nat
    BY <2>1
  <2> QED
    BY <2>2, InfiniteNat
<1>3. OneMore(g, costs, x, p) \subseteq Nat /\ x[p] \in OneMore(g, costs, x, p)
  BY <1>1, <1>2 DEF OneMore
<1> DEFINE S == OneMore(g, costs, x, p)
           m == Min(S)
<1>4. m \in S /\ m <= x[p] /\ m \in Nat
  <2> HIDE DEF S
  <2> QED
    BY <1>3, MinIs DEF S
<1> HIDE DEF m, S
<1>5. m \in 0..Infinite
  BY <1>1, <1>4, InfiniteNat
<1> QED
  BY <1>3, <1>4, <1>5 DEF S, m

\* The least costs by ever more edges follow from each other.
LEMMA ByEdgesAre ==
  ASSUME NEW g, Validate(g), NEW costs \in [g.edges -> Nat]
  PROVE  \E f : /\ \A k \in 0..Cardinality(g.nodes) :
                      f[k] \in [g.nodes \X g.nodes -> 0..Infinite]
                /\ \A p \in g.nodes \X g.nodes :
                      f[0][p] = IF p[1] = p[2] THEN 0 ELSE Infinite
                /\ \A k \in 1..Cardinality(g.nodes), p \in g.nodes \X g.nodes :
                      f[k][p] = Min(OneMore(g, costs, f[k - 1], p))
                /\ ByEdges(g, costs) = f[Cardinality(g.nodes)]
<1> DEFINE n == Cardinality(g.nodes)
           P == g.nodes \X g.nodes
           T == [P -> 0..Infinite]
           first == [p \in P |-> IF p[1] = p[2] THEN 0 ELSE Infinite]
           After(x) == [p \in P |-> Min(OneMore(g, costs, x, p))]
           round == [k \in 1..n |-> [x \in T |-> After(x)]]
           Rec(f) == f = [k \in 0..n |-> [p \in P |->
                             IF k = 0 THEN IF p[1] = p[2] THEN 0 ELSE Infinite
                             ELSE Min({f[k - 1][p]} \cup
                                      {f[k - 1][<<p[1], EdgeSource(g, e)>>] + costs[e] :
                                          e \in {h \in g.edges : g.target[h] = p[2]}})]]
           f == CHOOSE h : Rec(h)
<1>1. n \in Nat
  BY Validated
<1>2. \A x \in T : After(x) \in T
  BY OneMoreIs
<1>3. first \in T
  BY InfiniteNat
<1>4. IsLoop(T, first, n, round)
  <2> HIDE DEF T, After, first, n
  <2> QED
    BY <1>1, <1>2, <1>3 DEF IsLoop
<1>5. PICK h \in [0..n -> T] : h[0] = first /\ \A k \in 1..n : h[k] = round[k][h[k - 1]]
  <2> HIDE DEF T, first, n, round
  <2> QED
    BY <1>4, LoopRuns
<1>6. \A j : Rec(j) <=> j = [k \in 0..n |-> IF k = 0 THEN first ELSE After(j[k - 1])]
  <2> TAKE j
  <2> DEFINE A(k) == [p \in P |->
                             IF k = 0 THEN IF p[1] = p[2] THEN 0 ELSE Infinite
                             ELSE Min({j[k - 1][p]} \cup
                                      {j[k - 1][<<p[1], EdgeSource(g, e)>>] + costs[e] :
                                          e \in {i \in g.edges : g.target[i] = p[2]}})]
             B(k) == IF k = 0 THEN first ELSE After(j[k - 1])
  <2>1. \A k \in 0..n : A(k) = B(k)
    <3> TAKE k \in 0..n
    <3>1. CASE k = 0
      BY <3>1
    <3>2. CASE k # 0
      BY <3>2 DEF OneMore
    <3> QED
      BY <3>1, <3>2
  <2>2. Rec(j) <=> j = [k \in 0..n |-> A(k)]
    OBVIOUS
  <2> HIDE DEF A, B, Rec, n
  <2>3. [k \in 0..n |-> A(k)] = [k \in 0..n |-> B(k)]
    BY <2>1
  <2> QED
    BY <2>2, <2>3 DEF B
<1> HIDE DEF Rec, After, first, T, P
<1>7. Rec(h)
  <2>1. ASSUME NEW k \in 1..n PROVE h[k] = After(h[k - 1])
    <3>1. h[k - 1] \in T
      BY <1>1, <1>5
    <3>2. h[k] = round[k][h[k - 1]]
      BY <1>5
    <3> QED
      BY <3>1, <3>2
  <2> HIDE DEF n
  <2>2. \A k \in 0..n : h[k] = IF k = 0 THEN first ELSE After(h[k - 1])
    BY <1>1, <1>5, <2>1
  <2>3. h = [k \in 0..n |-> h[k]]
    BY <1>5
  <2>4. h = [k \in 0..n |-> IF k = 0 THEN first ELSE After(h[k - 1])]
    BY <2>2, <2>3
  <2> QED
    BY <1>6, <2>4
<1>8. Rec(f)
  BY <1>7
<1>9. ByEdges(g, costs) = f[n]
  BY DEF ByEdges, Rec, P
<1> HIDE DEF f
<1>10. f[0] = first /\ \A k \in 1..n : f[k] = After(f[k - 1])
  <2> HIDE DEF n
  <2>1. f = [k \in 0..n |-> IF k = 0 THEN first ELSE After(f[k - 1])]
    BY <1>6, <1>8
  <2> QED
    BY <1>1, <2>1
<1> DEFINE S == {k \in Nat : k <= n => f[k] \in T}
<1>11. \A k \in 0..n : f[k] \in T
  <2> HIDE DEF n
  <2>1. 0 \in S
    BY <1>1, <1>3, <1>10
  <2>2. \A k \in Nat : k \in S => k + 1 \in S
    <3> TAKE k \in Nat
    <3> HAVE k \in S
    <3>1. CASE k + 1 <= n
      <4>1. k + 1 \in 1..n /\ (k + 1) - 1 = k /\ f[k] \in T
        BY <1>1, <3>1
      <4>2. f[k + 1] \in T
        BY <1>2, <1>10, <4>1
      <4> QED
        BY <4>2
    <3>2. CASE ~(k + 1 <= n)
      BY <3>2
    <3> QED
      BY <3>1, <3>2
  <2>3. Nat \subseteq S
    <3> HIDE DEF S
    <3> QED
      BY <2>1, <2>2, NaturalsReached
  <2> QED
    BY <1>1, <2>3
<1>12. \A k \in 1..n, p \in P : f[k][p] = Min(OneMore(g, costs, f[k - 1], p))
  BY <1>10 DEF After
<1>13. \A p \in P : f[0][p] = IF p[1] = p[2] THEN 0 ELSE Infinite
  BY <1>10 DEF first
<1> QED
  BY <1>9, <1>11, <1>12, <1>13 DEF T, P

\* A cost that is less than infinite is that of a path, and the least one if an
\* edge more improves nothing.
LEMMA ByEdgesExact ==
  ASSUME NEW g, Validate(g), Measured(g), NEW metric \in Metrics,
         NEW s \in g.nodes, NEW t \in g.nodes,
         \A e \in g.edges, node \in g.nodes :
            ByEdges(g, CostsOf(g, metric))[<<node, g.target[e]>>]
              <= ByEdges(g, CostsOf(g, metric))[<<node, EdgeSource(g, e)>>] + CostsOf(g, metric)[e]
  PROVE  LET costs == CostsOf(g, metric)
             least == ByEdges(g, costs)[<<s, t>>]
         IN  /\ least \in 0..Infinite
             /\ \A path : Leads(g.edges, Sources(g), g.target, path, s, t) =>
                    least <= Total(costs, path)
             /\ least < Infinite =>
                    \E path : /\ Leads(g.edges, Sources(g), g.target, path, s, t)
                              /\ Total(costs, path) = least
<1> DEFINE costs == CostsOf(g, metric)
           n == Cardinality(g.nodes)
           by == ByEdges(g, costs)
<1>1. costs \in [g.edges -> Nat] /\ n \in Nat
  BY Validated DEF CostsOf
<1>2. PICK f : /\ \A k \in 0..n : f[k] \in [g.nodes \X g.nodes -> 0..Infinite]
               /\ \A p \in g.nodes \X g.nodes :
                      f[0][p] = IF p[1] = p[2] THEN 0 ELSE Infinite
               /\ \A k \in 1..n, p \in g.nodes \X g.nodes :
                      f[k][p] = Min(OneMore(g, costs, f[k - 1], p))
               /\ by = f[n]
  <2> HIDE DEF costs
  <2> QED
    BY <1>1, ByEdgesAre
<1>3. by \in [g.nodes \X g.nodes -> 0..Infinite]
  <2> HIDE DEF by, n
  <2>1. n \in 0..n
    BY <1>1
  <2> QED
    BY <1>2, <2>1
<1>4. \A p \in g.nodes \X g.nodes : by[p] \in 0..Infinite /\ by[p] \in Nat
  <2> HIDE DEF by
  <2> QED
    BY <1>3, InfiniteNat
<1>5. \A e \in g.edges, node \in g.nodes :
          by[<<node, g.target[e]>>] <= by[<<node, Sources(g)[e]>>] + costs[e]
  BY DEF Sources
<1>6. Sources(g) \in [g.edges -> g.nodes] /\ g.target \in [g.edges -> g.nodes]
  BY Validated, SourceIs DEF Sources
<1>7. by[<<s, s>>] = 0
  <2> DEFINE p == <<s, s>>
             S == {k \in Nat : k <= n => f[k][p] = 0}
  <2>1. p \in g.nodes \X g.nodes /\ p[1] = p[2]
    OBVIOUS
  <2> HIDE DEF p, n
  <2>2. 0 \in S
    BY <1>2, <2>1
  <2>3. \A k \in Nat : k \in S => k + 1 \in S
    <3> TAKE k \in Nat
    <3> HAVE k \in S
    <3>1. CASE k + 1 <= n
      <4>1. k + 1 \in 1..n /\ (k + 1) - 1 = k /\ k \in 0..n /\ f[k][p] = 0
        BY <1>1, <3>1
      <4>2. f[k + 1][p] = Min(OneMore(g, costs, f[k], p))
        BY <1>2, <2>1, <4>1
      <4>3. f[k] \in [g.nodes \X g.nodes -> 0..Infinite]
        BY <1>2, <4>1
      <4> DEFINE m == Min(OneMore(g, costs, f[k], p))
      <4>4. OneMore(g, costs, f[k], p) \subseteq Nat /\ f[k][p] \in OneMore(g, costs, f[k], p)
        <5>1. OneMore(g, costs, f[k], p) \subseteq Nat
          <6> HIDE DEF costs
          <6> QED
            BY <1>1, <2>1, <4>3, OneMoreIs
        <5> QED
          BY <5>1 DEF OneMore
      <4>5. m \in Nat /\ m <= f[k][p]
        <5> DEFINE M == OneMore(g, costs, f[k], p)
        <5>1. Min(M) \in M /\ \A x \in M : Min(M) <= x
          <6> HIDE DEF M
          <6> QED
            BY <4>4, MinIs DEF M
        <5> QED
          BY <4>4, <5>1
      <4> HIDE DEF m
      <4>6. m = 0
        BY <4>1, <4>5
      <4> QED
        BY <4>2, <4>6 DEF m
    <3>2. CASE ~(k + 1 <= n)
      BY <3>2
    <3> QED
      BY <3>1, <3>2
  <2>4. Nat \subseteq S
    <3> HIDE DEF S
    <3> QED
      BY <2>2, <2>3, NaturalsReached
  <2>5. f[n][p] = 0
    BY <1>1, <2>4
  <2> QED
    BY <1>2, <2>5 DEF p
<1>8. ASSUME NEW path, Leads(g.edges, Sources(g), g.target, path, s, t)
      PROVE  by[<<s, t>>] <= Total(costs, path)
  <2> DEFINE v == View(g, "Dijkstra", metric, s, t, "out")
  <2>1. ViewOK(v)
    BY ViewSound DEF Algorithms, Sides
  <2>2. /\ v.nodes = g.nodes /\ v.edges = g.edges /\ v.weight = costs
        /\ v.near = Sources(g) /\ v.far = g.target /\ v.root = s
    BY DEF View
  <2> HIDE DEF v, costs, by
  <2>3. PICK m, ns, es, F : Walk(v, m, ns, es, F) /\ ns[m] = t /\ F[m] = Total(costs, path)
    <3>1. Leads(v.edges, v.near, v.far, path, v.root, t)
      BY <1>8, <2>2
    <3> QED
      BY <2>1, <2>2, <3>1, PathWalks
  <2>4. /\ m \in Nat /\ ns \in [0..m -> g.nodes] /\ es \in [1..m -> g.edges] /\ F \in [0..m -> Nat]
        /\ ns[0] = s /\ F[0] = 0
        /\ \A k \in 1..m : /\ Sources(g)[es[k]] = ns[k - 1] /\ g.target[es[k]] = ns[k]
                           /\ F[k] = F[k - 1] + costs[es[k]]
    BY <2>2, <2>3 DEF Walk
  <2> DEFINE S == {k \in Nat : k <= m => by[<<s, ns[k]>>] <= F[k]}
  <2>5. 0 \in S
    <3>1. by[<<s, ns[0]>>] = 0
      <4>1. ns[0] = s
        BY <2>4
      <4> QED
        BY <1>7, <4>1
    <3>2. F[0] = 0
      BY <2>4
    <3>3. by[<<s, ns[0]>>] <= F[0]
      BY <3>1, <3>2
    <3> QED
      BY <3>3
  <2>6. \A k \in Nat : k \in S => k + 1 \in S
    <3> TAKE k \in Nat
    <3> HAVE k \in S
    <3>1. CASE k + 1 <= m
      <4> DEFINE e == es[k + 1]
                 a == by[<<s, ns[k]>>]
                 b == by[<<s, ns[k + 1]>>]
                 c == costs[e]
                 x == F[k]
                 y == F[k + 1]
      <4>1. k + 1 \in 1..m /\ k \in 0..m /\ k + 1 \in 0..m /\ (k + 1) - 1 = k /\ a <= x
        BY <2>4, <3>1
      <4>2. e \in g.edges /\ Sources(g)[e] = ns[k] /\ g.target[e] = ns[k + 1] /\ y = x + c
        BY <2>4, <4>1
      <4>3. b <= a + c
        BY <1>5, <4>2
      <4>4. ns[k] \in g.nodes /\ ns[k + 1] \in g.nodes
        BY <2>4, <4>1
      <4>5. a \in Nat /\ b \in Nat /\ c \in Nat /\ x \in Nat /\ y \in Nat
        <5>1. a \in Nat /\ b \in Nat
          BY <1>4, <4>4
        <5>2. c \in Nat
          BY <1>1, <4>2
        <5>3. x \in Nat /\ y \in Nat
          BY <2>4, <4>1
        <5> QED
          BY <5>1, <5>2, <5>3
      <4>6. y = x + c /\ a <= x /\ b <= a + c
        BY <4>1, <4>2, <4>3
      <4> HIDE DEF a, b, c, x, y
      <4>7. b <= y
        BY <4>5, <4>6
      <4> QED
        BY <4>7 DEF b, y
    <3>2. CASE ~(k + 1 <= m)
      BY <3>2
    <3> QED
      BY <3>1, <3>2
  <2>7. Nat \subseteq S
    <3> HIDE DEF S
    <3> QED
      BY <2>5, <2>6, NaturalsReached
  <2> QED
    BY <2>3, <2>4, <2>7
<1>9. ASSUME by[<<s, t>>] < Infinite
      PROVE  \E path : /\ Leads(g.edges, Sources(g), g.target, path, s, t)
                       /\ Total(costs, path) = by[<<s, t>>]
  <2> DEFINE Reaches(k, m) == \E path : /\ Leads(g.edges, Sources(g), g.target, path, s, m)
                                     /\ Total(costs, path) = f[k][<<s, m>>]
             S == {k \in Nat : k <= n => \A m \in g.nodes : f[k][<<s, m>>] < Infinite => Reaches(k, m)}
  <2>1. 0 \in S
    <3>1. ASSUME NEW m \in g.nodes, f[0][<<s, m>>] < Infinite PROVE Reaches(0, m)
      <4>1. f[0][<<s, m>>] = IF s = m THEN 0 ELSE Infinite
        BY <1>2
      <4>2. s = m /\ f[0][<<s, m>>] = 0
        BY <3>1, <4>1, InfiniteNat
      <4>3. Leads(g.edges, Sources(g), g.target, <<>>, s, s)
        BY DEF Leads
      <4>4. Total(costs, <<>>) = 0
        <5> HIDE DEF costs
        <5> QED
          BY <1>1, TotalsAdd
      <4> QED
        BY <4>2, <4>3, <4>4
    <3> HIDE DEF Reaches
    <3> QED
      BY <3>1
  <2>2. \A k \in Nat : k \in S => k + 1 \in S
    <3> TAKE k \in Nat
    <3> HAVE k \in S
    <3>1. CASE k + 1 <= n
      <4> HIDE DEF n, costs, Reaches
      <4>1. k + 1 \in 1..n /\ (k + 1) - 1 = k /\ k \in 0..n
        BY <1>1, <3>1
      <4>2. \A m \in g.nodes : f[k][<<s, m>>] < Infinite => Reaches(k, m)
        BY <3>1, <4>1
      <4>3. f[k] \in [g.nodes \X g.nodes -> 0..Infinite]
        BY <1>2, <4>1
      <4>4. ASSUME NEW m \in g.nodes, f[k + 1][<<s, m>>] < Infinite PROVE Reaches(k + 1, m)
        <5> DEFINE p == <<s, m>>
                   M == OneMore(g, costs, f[k], p)
        <5>1. p \in g.nodes \X g.nodes /\ p[1] = s /\ p[2] = m
          OBVIOUS
        <5>2. f[k + 1][p] = Min(M)
          BY <1>2, <4>1, <5>1
        <5>3. Min(M) \in M
          <6> HIDE DEF p
          <6> QED
            BY <1>1, <4>3, <5>1, OneMoreIs
        <5>4. M = {f[k][p]} \cup {f[k][<<s, EdgeSource(g, e)>>] + costs[e] :
                                      e \in {h \in g.edges : g.target[h] = m}}
          BY <5>1 DEF OneMore
        <5> HIDE DEF M
        <5>5. CASE f[k + 1][p] = f[k][p]
          <6>1. Reaches(k, m)
            BY <4>2, <4>4, <5>5
          <6> QED
            BY <5>5, <6>1 DEF Reaches
        <5>6. CASE \E e \in g.edges : /\ g.target[e] = m
                                      /\ f[k + 1][p] = f[k][<<s, EdgeSource(g, e)>>] + costs[e]
          <6>1. PICK e \in g.edges : /\ g.target[e] = m
                                     /\ f[k + 1][p] = f[k][<<s, EdgeSource(g, e)>>] + costs[e]
            BY <5>6
          <6> DEFINE from == EdgeSource(g, e)
                     a == f[k][<<s, from>>]
                     c == costs[e]
          <6>2. from \in g.nodes /\ Sources(g)[e] = from
            BY SourceIs DEF Sources
          <6>3. a \in 0..Infinite /\ c \in Nat
            BY <1>1, <4>3, <6>2
          <6>4. a + c < Infinite
            BY <4>4, <6>1
          <6>5. a < Infinite
            <7> HIDE DEF a, c
            <7> QED
              BY <6>3, <6>4, InfiniteNat
          <6>6. Reaches(k, from)
            BY <4>2, <6>2, <6>5
          <6> HIDE DEF from
          <6>7. PICK path : /\ Leads(g.edges, Sources(g), g.target, path, s, from)
                            /\ Total(costs, path) = a
            BY <6>6 DEF Reaches
          <6>8. Leads(g.edges, Sources(g), g.target, <<e>>, from, m)
            BY <6>1, <6>2, LeadsOne
          <6>9. Leads(g.edges, Sources(g), g.target, path \o <<e>>, s, m)
            BY <6>7, <6>8, LeadsOn
          <6>10. path \in Seq(g.edges) /\ <<e>> \in Seq(g.edges)
            <7>1. path \in Seq(g.edges)
              BY <6>7 DEF Leads
            <7>2. <<e>> \in Seq(g.edges)
              <8> DEFINE E == g.edges
              <8>1. e \in E
                BY <6>1
              <8> HIDE DEF E
              <8>2. <<e>> \in Seq(E)
                BY <8>1
              <8> QED
                BY <8>2 DEF E
            <7> QED
              BY <7>1, <7>2
          <6>11. Total(costs, path \o <<e>>) = Total(costs, path) + Total(costs, <<e>>)
                   /\ Total(costs, <<e>>) = costs[e]
            BY <1>1, <6>10, TotalsAdd
          <6>12. Total(costs, path \o <<e>>) = f[k + 1][p]
            BY <6>1, <6>7, <6>11 DEF from
          <6> QED
            BY <6>9, <6>12 DEF Reaches, p
        <5> QED
          BY <5>2, <5>3, <5>4, <5>5, <5>6
      <4> QED
        BY <4>1, <4>4
    <3>2. CASE ~(k + 1 <= n)
      BY <3>2
    <3> QED
      BY <3>1, <3>2
  <2>3. Nat \subseteq S
    <3> HIDE DEF S
    <3> QED
      BY <2>1, <2>2, NaturalsReached
  <2>4. Reaches(n, t)
    <3> HIDE DEF Reaches, n, by, costs
    <3> QED
      BY <1>1, <1>2, <1>9, <2>3
  <2> QED
    BY <1>2, <2>4
<1> HIDE DEF by, costs
<1>10. by[<<s, t>>] \in 0..Infinite
  BY <1>4
<1> QED
  BY <1>8, <1>9, <1>10 DEF by, costs

-----------------------------------------------------------------------------
(* Answers are cheapest routes *)

\* The arrays of every map have the paths of its ways.
Faithful == \A name \in DOMAIN Maps, metric \in Metrics : Represented(Maps[name], metric)

\* The least cost between two candidates is that of a path between their edges.
LEMMA BetweenIs ==
  ASSUME StoreSound, RequestSound, Faithful, NEW pair \in request.pairs
  PROVE  LET least == Between(networks[request.network], request.metric, pair)
             from == graph.target[pair.start.edge]
             to == EdgeSource(graph, pair.end.edge)
         IN  /\ least \in 0..Infinite
             /\ \A path : LeadsFrom(path, from, to) => least <= Total(Lengths, path)
             /\ least < Infinite =>
                    \E path : LeadsFrom(path, from, to) /\ Total(Lengths, path) = least
<1> DEFINE ways == Maps[request.network]
           metric == request.metric
           g == Csr(ways)
           costs == CostsOf(g, metric)
           by == ByEdges(g, costs)
           a == pair.start.edge
           b == pair.end.edge
           from == graph.target[a]
           to == EdgeSource(graph, b)
<1>1. OnNetwork /\ InContext
  BY StartsSearchable
<1>2. graph = g /\ Validate(g) /\ Measured(g)
  BY <1>1, NetworkIs
<1>3. a \in g.edges /\ b \in g.edges /\ from \in g.nodes /\ to \in g.nodes
  BY <1>2, PairEdges
<1>4. metric \in Metrics /\ request.network \in DOMAIN Maps
  BY DEF RequestSound
<1>5. Represented(ways, metric)
  BY <1>4 DEF Faithful
<1>6. /\ \A e \in g.edges, node \in g.nodes :
              by[<<node, g.target[e]>>] <= by[<<node, EdgeSource(g, e)>>] + costs[e]
      /\ LeastCosts(ways, metric)[<<Last(g.line[a]), Head(g.line[b])>>]
            = by[<<g.target[a], EdgeSource(g, b)>>]
  <2> HIDE DEF ways, metric
  <2> QED
    BY <1>3, <1>5 DEF Represented
<1>7. Between(networks[request.network], metric, pair) = by[<<from, to>>]
  <2>1. networks[request.network] = Built(request.network, g)
    BY <1>1 DEF OnNetwork, Networks
  <2>2. /\ networks[request.network].graph = g
        /\ networks[request.network].least = [m \in Metrics |-> LeastCosts(ways, m)]
    <3> HIDE DEF g
    <3> QED
      BY <2>1 DEF Built
  <2>3. networks[request.network].least[metric] = LeastCosts(ways, metric)
    BY <1>4, <2>2
  <2> HIDE DEF g, ways, metric
  <2>4. Between(networks[request.network], metric, pair)
          = LeastCosts(ways, metric)[<<Last(g.line[a]), Head(g.line[b])>>]
    BY <2>2, <2>3 DEF Between
  <2> QED
    BY <1>2, <1>6, <2>4
<1>8. Lengths = costs
  BY <1>2 DEF Lengths, Costs
<1> HIDE DEF from, to, g, metric
<1>9. /\ by[<<from, to>>] \in 0..Infinite
      /\ \A path : Leads(g.edges, Sources(g), g.target, path, from, to) =>
             by[<<from, to>>] <= Total(costs, path)
      /\ by[<<from, to>>] < Infinite =>
             \E path : /\ Leads(g.edges, Sources(g), g.target, path, from, to)
                       /\ Total(costs, path) = by[<<from, to>>]
  BY <1>2, <1>3, <1>4, <1>6, ByEdgesExact
<1> QED
  BY <1>2, <1>7, <1>8, <1>9 DEF LeadsFrom, from, to, metric

\* A search that is over has the least cost of its pair.
LEMMA ShortestIs ==
  ASSUME RoutingInv, Faithful, SearchOver, Exact
  PROVE  PathShortest(Pair)
<1> DEFINE least == Between(networks[request.network], request.metric, Pair)
           total == Total(Lengths, Path)
<1>1. StoreSound /\ RequestSound /\ PairSound
  BY DEF RoutingInv, SearchOver, Searching
<1>2. Pair \in request.pairs
  BY <1>1 DEF PairSound, RequestSound, Pair
<1>3. /\ search.source = graph.target[Pair.start.edge]
      /\ search.target = EdgeSource(graph, Pair.end.edge)
  BY <1>1 DEF PairSound
<1>4. /\ least \in 0..Infinite
      /\ \A path : LeadsFrom(path, search.source, search.target) => least <= Total(Lengths, path)
      /\ least < Infinite =>
             \E path : LeadsFrom(path, search.source, search.target) /\ Total(Lengths, path) = least
  BY <1>1, <1>2, <1>3, BetweenIs
<1>5. least \in Nat /\ least <= Infinite
  BY <1>4, InfiniteNat
<1> HIDE DEF least
<1>6. ASSUME Found PROVE least < Infinite /\ least = total
  <2>1. LeadsFrom(Path, search.source, search.target) /\ total < Infinite /\ NoneBelow(total)
    BY <1>6 DEF Exact
  <2>2. least <= total
    BY <1>4, <2>1
  <2>3. total \in Nat
    <3>1. InContext
      BY <1>1, StartsSearchable
    <3>2. Lengths \in [graph.edges -> Nat]
      BY <3>1, Validated DEF InContext, Lengths, Costs, CostsOf
    <3>3. Path \in Seq(graph.edges)
      BY <2>1 DEF LeadsFrom, Leads
    <3> QED
      BY <3>2, <3>3, TotalsAdd
  <2> HIDE DEF total
  <2>4. least < Infinite
    BY <1>5, <2>1, <2>2, <2>3, InfiniteNat
  <2>5. PICK path : LeadsFrom(path, search.source, search.target) /\ Total(Lengths, path) = least
    BY <1>4, <2>4
  <2>6. total <= least
    BY <2>1, <2>4, <2>5 DEF NoneBelow
  <2> QED
    BY <1>5, <2>2, <2>3, <2>4, <2>6
<1>7. ASSUME ~Found PROVE ~(least < Infinite)
  <2> SUFFICES ASSUME least < Infinite PROVE FALSE
    OBVIOUS
  <2>1. NoneBelow(Infinite)
    BY <1>7 DEF Exact
  <2>2. PICK path : LeadsFrom(path, search.source, search.target) /\ Total(Lengths, path) = least
    BY <1>4
  <2>3. Infinite <= least
    BY <2>1, <2>2 DEF NoneBelow
  <2> QED
    BY <1>5, <2>3, InfiniteNat
<1> QED
  BY <1>6, <1>7 DEF PathShortest, least, Lengths

-----------------------------------------------------------------------------
(* The best of the pairs that were tried *)

HasWay(pair) == Connected(networks[request.network], request.metric, pair)

\* A route was made for a pair if the pair is connected, at its least cost.
Judged(pair, route) ==
    IF route.status = "Ok"
    THEN /\ HasWay(pair) /\ Charged(route, request.metric) = ChargedLeast(pair)
         /\ request.metric = "distance" =>
                route.distance = LeastOf(networks[request.network], request.metric, pair)
    ELSE ~HasWay(pair)

\* The cheapest route to some of the pairs, if one of them is connected.
BestOf(done, best) ==
    IF best.status = "Ok"
    THEN /\ \E p \in done : HasWay(p) /\ Charged(best, request.metric) = ChargedLeast(p)
         /\ \A p \in done : HasWay(p) => Charged(best, request.metric) <= ChargedLeast(p)
    ELSE \A p \in done : ~HasWay(p)

\* A part of an edge is a number.
LEMMA DivInt ==
  ASSUME NEW a \in Nat, NEW b \in Nat, NEW c \in Nat, c # 0
  PROVE  (a * b) \div c \in Int
<1>1. a * b \in Nat
  OBVIOUS
<1> DEFINE x == a * b
<1> HIDE DEF x
<1>2. x \in Nat
  BY <1>1 DEF x
<1>3. x \div c \in Int
  BY <1>2
<1> QED
  BY <1>3 DEF x

\* The parts of a route are integers.
LEMMA PartsInt ==
  ASSUME NEW edges, NEW values \in [edges -> Nat], NEW lengths \in [edges -> Nat],
         NEW c, c.edge \in edges, c.along \in Nat
  PROVE  UpTo(values, lengths, c) \in Int /\ From(values, lengths, c) \in Int
<1> DEFINE v == values[c.edge]
           l == lengths[c.edge]
           along == Travelled(lengths, c)
<1>1. v \in Nat /\ l \in Nat /\ along \in Nat
  BY TwoLeast DEF Travelled
<1>2. UpTo(values, lengths, c) = IF l = 0 THEN 0 ELSE (v * along) \div l
  BY DEF UpTo
<1>3. From(values, lengths, c) = v - UpTo(values, lengths, c)
  BY DEF From
<1> HIDE DEF v, l, along
<1>4. l # 0 => (v * along) \div l \in Int
  BY <1>1, DivInt
<1>5. UpTo(values, lengths, c) \in Int
  BY <1>2, <1>4
<1> QED
  BY <1>1, <1>3, <1>5

\* What is added up for a pair.
LEMMA PairTyped ==
  ASSUME StoreSound, RequestSound, Faithful, NEW pair \in request.pairs
  PROVE  /\ Snap(pair) \in Nat
         /\ Between(networks[request.network], request.metric, pair) \in Nat
         /\ LeastOf(networks[request.network], request.metric, pair) \in Int
         /\ ChargedLeast(pair) \in Int
         /\ networks[request.network].graph = graph
<1>1. Validate(graph) /\ InContext
  BY StartsSearchable DEF InContext
<1>2. /\ pair.start \in NearCandidates(graph, request.from, Radius)
      /\ pair.end \in NearCandidates(graph, request.to, Radius)
  BY DEF RequestSound
<1>3. request.from \in Int \X Int /\ request.to \in Int \X Int
  BY DEF RequestSound
<1>4. /\ pair.start.snap \in Nat /\ pair.start.along \in Nat
      /\ pair.end.snap \in Nat /\ pair.end.along \in Nat
  BY <1>1, <1>2, <1>3, NearTyped
<1>5. Snap(pair) \in Nat
  BY <1>4 DEF Snap
<1>6. Between(networks[request.network], request.metric, pair) \in Nat
  BY BetweenIs, InfiniteNat
<1>7. networks[request.network].graph = graph
  BY DEF graph
<1> DEFINE values == CostsOf(graph, request.metric)
           edges == graph.edges
           a == UpTo(values, graph.distance, pair.start)
           b == UpTo(values, graph.distance, pair.end)
           c == From(values, graph.distance, pair.start)
           k == Between(networks[request.network], request.metric, pair)
           least == LeastOf(networks[request.network], request.metric, pair)
<1>8. values \in [edges -> Nat] /\ graph.distance \in [edges -> Nat]
  BY <1>1, Validated DEF CostsOf
<1>9. pair.start.edge \in edges /\ pair.end.edge \in edges
  BY PairEdges
<1>10. a \in Int /\ b \in Int /\ c \in Int
  <2> HIDE DEF values, edges
  <2> QED
    BY <1>4, <1>8, <1>9, PartsInt
<1>11. least = IF IsAlong(pair) THEN b - a ELSE c + k + b
  BY <1>7 DEF LeastOf, IsAlong
<1> HIDE DEF a, b, c
<1>12. least \in Int
  <2> HIDE DEF k, least
  <2>1. k \in Nat
    BY <1>6 DEF k
  <2> QED
    BY <1>10, <1>11, <2>1
<1>13. ChargedLeast(pair) = least + Snap(pair) * (IF request.metric = "distance" THEN 1 ELSE 3)
  BY DEF ChargedLeast, WalkingPace
<1>14. ChargedLeast(pair) \in Int
  <2> HIDE DEF least
  <2> QED
    BY <1>5, <1>12, <1>13
<1> QED
  BY <1>5, <1>6, <1>7, <1>12, <1>14 DEF least

\* What a route costs whose distance or duration is the least of its pair.
LEMMA ChargedIs ==
  ASSUME StoreSound, RequestSound, Faithful, NEW pair \in request.pairs,
         NEW route, route.snap = Snap(pair),
         request.metric = "distance" =>
             route.distance = LeastOf(networks[request.network], request.metric, pair),
         request.metric # "distance" =>
             route.duration = LeastOf(networks[request.network], request.metric, pair)
  PROVE  Charged(route, request.metric) = ChargedLeast(pair)
<1> DEFINE least == LeastOf(networks[request.network], request.metric, pair)
           walk == Snap(pair)
<1>1. least \in Int /\ walk \in Nat
  BY PairTyped
<1>2. ChargedLeast(pair) = least + walk * (IF request.metric = "distance" THEN 1 ELSE 3)
  BY DEF ChargedLeast, WalkingPace
<1>3. Charged(route, request.metric) 
        = IF request.metric = "distance" THEN least + walk ELSE least + 3 * walk
  BY DEF Charged, WalkingPace
<1> HIDE DEF least, walk
<1> QED
  BY <1>1, <1>2, <1>3

\* Two candidates of one edge, in the direction of travel.
LEMMA AlongJudged ==
  ASSUME StoreSound, RequestSound, Faithful, NEW pair \in request.pairs, IsAlong(pair)
  PROVE  Judged(pair, RouteAlong(pair))
<1> DEFINE route == RouteAlong(pair)
<1>1. networks[request.network].graph = graph
  BY PairTyped
<1>2. /\ route.status = "Ok" /\ route.snap = Snap(pair)
      /\ route.distance = UpTo(graph.distance, graph.distance, pair.end)
                             - UpTo(graph.distance, graph.distance, pair.start)
      /\ route.duration = UpTo(graph.duration, graph.distance, pair.end)
                             - UpTo(graph.duration, graph.distance, pair.start)
  BY DEF RouteAlong
<1>3. HasWay(pair)
  BY <1>1 DEF HasWay, Connected, IsAlong
<1> HIDE DEF route
<1>4. request.metric = "distance"
        => route.distance = LeastOf(networks[request.network], request.metric, pair)
  BY <1>1, <1>2 DEF LeastOf, CostsOf, IsAlong
<1>5. request.metric # "distance"
        => route.duration = LeastOf(networks[request.network], request.metric, pair)
  BY <1>1, <1>2 DEF LeastOf, CostsOf, IsAlong
<1>6. Charged(route, request.metric) = ChargedLeast(pair)
  BY <1>2, <1>4, <1>5, ChargedIs
<1> QED
  BY <1>2, <1>3, <1>4, <1>6 DEF Judged, route

\* Two candidates with a cheapest path of whole edges between them.
LEMMA OverJudged ==
  ASSUME StoreSound, RequestSound, Faithful, NEW pair \in request.pairs, ~IsAlong(pair),
         NEW path, Total(Lengths, path) = Between(networks[request.network], request.metric, pair),
         Between(networks[request.network], request.metric, pair) < Infinite
  PROVE  Judged(pair, RouteOver(pair, path))
<1> DEFINE route == RouteOver(pair, path)
<1>1. networks[request.network].graph = graph
  BY PairTyped
<1>2. /\ route.status = "Ok" /\ route.snap = Snap(pair)
      /\ route.distance = From(graph.distance, graph.distance, pair.start)
                             + Total(graph.distance, path)
                             + UpTo(graph.distance, graph.distance, pair.end)
      /\ route.duration = From(graph.duration, graph.distance, pair.start)
                             + Total(graph.duration, path)
                             + UpTo(graph.duration, graph.distance, pair.end)
  BY DEF RouteOver
<1>3. HasWay(pair)
  BY DEF HasWay, Connected
<1> HIDE DEF route
<1>4. request.metric = "distance"
        => route.distance = LeastOf(networks[request.network], request.metric, pair)
  BY <1>1, <1>2 DEF LeastOf, CostsOf, Lengths, Costs, IsAlong
<1>5. request.metric # "distance"
        => route.duration = LeastOf(networks[request.network], request.metric, pair)
  BY <1>1, <1>2 DEF LeastOf, CostsOf, Lengths, Costs, IsAlong
<1>6. Charged(route, request.metric) = ChargedLeast(pair)
  BY <1>2, <1>4, <1>5, ChargedIs
<1> QED
  BY <1>2, <1>3, <1>4, <1>6 DEF Judged, route

\* Two candidates where the one's edge ends and the other's begins.
LEMMA AtOneNodeJudged ==
  ASSUME StoreSound, RequestSound, Faithful, NEW pair \in request.pairs, ~IsAlong(pair),
         graph.target[pair.start.edge] = EdgeSource(graph, pair.end.edge)
  PROVE  Judged(pair, RouteOver(pair, <<>>))
<1> DEFINE least == Between(networks[request.network], request.metric, pair)
           from == graph.target[pair.start.edge]
<1>1. InContext
  BY StartsSearchable
<1>2. from \in graph.nodes
  BY PairEdges
<1>3. LeadsFrom(<<>>, from, from)
  BY DEF LeadsFrom, Leads
<1>4. Total(Lengths, <<>>) = 0
  <2>1. Lengths \in [graph.edges -> Nat]
    BY <1>1, Validated DEF InContext, Lengths, Costs, CostsOf
  <2> QED
    BY <2>1, TotalsAdd
<1>5. least <= 0 /\ least \in Nat
  BY <1>3, <1>4, BetweenIs, PairTyped
<1> HIDE DEF least
<1>6. least = 0 /\ least < Infinite
  BY <1>5, InfiniteNat
<1> QED
  BY <1>4, <1>6, OverJudged DEF least

\* A search that is over.
LEMMA SearchJudged ==
  ASSUME RoutingInv, Faithful, SearchOver, Exact
  PROVE  Judged(Pair, IF Found THEN RouteOver(Pair, Path) ELSE NoRoute)
<1>1. StoreSound /\ RequestSound /\ PairSound
  BY DEF RoutingInv, SearchOver, Searching
<1>2. Pair \in request.pairs /\ ~IsAlong(Pair)
  BY <1>1 DEF PairSound, RequestSound, Pair
<1> DEFINE least == Between(networks[request.network], request.metric, Pair)
<1>3. PathShortest(Pair)
  BY ShortestIs
<1>4. CASE Found
  <2>1. least < Infinite /\ Total(Lengths, Path) = least
    BY <1>3, <1>4 DEF PathShortest, Lengths
  <2>2. Judged(Pair, RouteOver(Pair, Path))
    BY <1>1, <1>2, <2>1, OverJudged
  <2> QED
    BY <1>4, <2>2
<1>5. CASE ~Found
  <2>1. ~(least < Infinite)
    BY <1>3, <1>5 DEF PathShortest
  <2>2. ~HasWay(Pair)
    BY <1>2, <2>1 DEF HasWay, Connected, IsAlong, graph
  <2>3. NoRoute.status # "Ok"
    BY DEF NoRoute
  <2>4. Judged(Pair, NoRoute)
    BY <2>2, <2>3 DEF Judged
  <2> QED
    BY <1>5, <2>4
<1> QED
  BY <1>4, <1>5

\* What the end of a pair finds.
FoundFor(pair, route, limited) ==
    /\ request.at \in {"route", "match"} /\ pair \in request.left /\ pair \in request.pairs
    /\ Tried(pair, route, limited) /\ limited \in BOOLEAN /\ (limited => route.status # "Ok")
    /\ Faithful /\ ~limited => Judged(pair, route)
    /\ \/ IsAlong(pair) /\ route = RouteAlong(pair)
       \/ \E path : /\ LeadsFrom(path, graph.target[pair.start.edge], EdgeSource(graph, pair.end.edge))
                    /\ route = RouteOver(pair, path)
       \/ route = NoRoute

\* A step on a pair starts a search or ends the pair.
LEMMA PairEnds ==
  ASSUME RoutingInv, NextPair \/ EndSearch \/ EndAtLimit
  PROVE  \/ request' = request /\ networks' = networks /\ matching' = matching
         \/ \E pair, route, limited : FoundFor(pair, route, limited)
<1>1. /\ request.at \in {"route", "match"} /\ request.left # {} /\ StoreSound /\ RequestSound
      /\ Pair \in request.left /\ Pair \in request.pairs
  <2>1. request.at \in {"route", "match"} /\ request.left # {}
    BY DEF NextPair, EndSearch, SearchOver, EndAtLimit, Searching, RoutingInv, PairSound
  <2>2. StoreSound /\ RequestSound
    BY <2>1 DEF RoutingInv
  <2> QED
    BY <2>1, <2>2 DEF Pair, RequestSound
<1>2. CASE IsAlong(Pair) /\ Tried(Pair, RouteAlong(Pair), FALSE)
  <2>1. Faithful => Judged(Pair, RouteAlong(Pair))
    BY <1>1, <1>2, AlongJudged
  <2>2. FoundFor(Pair, RouteAlong(Pair), FALSE)
    BY <1>1, <1>2, <2>1 DEF FoundFor
  <2> QED
    BY <2>2
<1>3. CASE /\ ~IsAlong(Pair)
           /\ graph.target[Pair.start.edge] = EdgeSource(graph, Pair.end.edge)
           /\ Tried(Pair, RouteOver(Pair, <<>>), FALSE)
  <2>1. Faithful => Judged(Pair, RouteOver(Pair, <<>>))
    BY <1>1, <1>3, AtOneNodeJudged
  <2>2. LeadsFrom(<<>>, graph.target[Pair.start.edge], EdgeSource(graph, Pair.end.edge))
    BY <1>3 DEF LeadsFrom, Leads
  <2>3. FoundFor(Pair, RouteOver(Pair, <<>>), FALSE)
    BY <1>1, <1>3, <2>1, <2>2 DEF FoundFor
  <2> QED
    BY <2>3
<1>4. CASE EndSearch
  <2> DEFINE route == IF Found THEN RouteOver(Pair, Path) ELSE NoRoute
  <2>1. SearchOver /\ Tried(Pair, route, FALSE) /\ PairSound
    BY <1>4 DEF EndSearch, Pair, SearchOver, Searching, RoutingInv
  <2>2. Exact
    <3>1. InContext /\ SearchSound /\ search.source # search.target
      BY <1>1, <2>1, StartsSearchable DEF PairSound
    <3> QED
      BY <2>1, <3>1, OneSideExact, BothSidesExact
  <2>3. Faithful => Judged(Pair, route)
    BY <2>1, <2>2, SearchJudged
  <2>4. \/ LeadsFrom(Path, graph.target[Pair.start.edge], EdgeSource(graph, Pair.end.edge))
           /\ route = RouteOver(Pair, Path)
        \/ route = NoRoute
    BY <2>1, <2>2 DEF Exact, PairSound
  <2> HIDE DEF route
  <2>5. FoundFor(Pair, route, FALSE)
    BY <1>1, <2>1, <2>3, <2>4 DEF FoundFor
  <2> QED
    BY <2>5
<1>5. CASE EndAtLimit
  <2>1. FoundFor(Pair, NoRoute, TRUE)
    BY <1>1, <1>5 DEF FoundFor, EndAtLimit, Pair, NoRoute
  <2> QED
    BY <2>1
<1> QED
  BY <1>2, <1>3, <1>4, <1>5 DEF NextPair, Pair, store

\* One pair more.
LEMMA BestGrows ==
  ASSUME StoreSound, RequestSound, Faithful, NEW done \in SUBSET request.pairs,
         BestOf(done, request.best), NEW pair \in request.pairs, NEW route,
         Judged(pair, route)
  PROVE  BestOf(done \cup {pair},
                IF route.status = "Ok" /\ Better(route) THEN route ELSE request.best)
<1> DEFINE best == request.best
           old == Charged(best, request.metric)
           new == Charged(route, request.metric)
<1>1. \A p \in request.pairs : ChargedLeast(p) \in Int
  BY PairTyped
<1>2. CASE route.status # "Ok"
  <2>1. ~HasWay(pair)
    BY <1>2 DEF Judged
  <2>2. BestOf(done \cup {pair}, best)
    BY <2>1 DEF BestOf
  <2> QED
    BY <1>2, <2>2
<1>3. CASE route.status = "Ok"
  <2>1. HasWay(pair) /\ new = ChargedLeast(pair)
    BY <1>3 DEF Judged
  <2>2. CASE best.status # "Ok"
    <3>1. \A p \in done : ~HasWay(p)
      BY <2>2 DEF BestOf
    <3>2. Better(route)
      BY <2>2 DEF Better
    <3>3. \A p \in done \cup {pair} : HasWay(p) => new <= ChargedLeast(p)
      <4> TAKE p \in done \cup {pair}
      <4> HAVE HasWay(p)
      <4>1. p = pair
        BY <3>1
      <4> HIDE DEF new
      <4> QED
        BY <1>1, <2>1, <4>1
    <3>4. BestOf(done \cup {pair}, route)
      BY <1>3, <2>1, <3>3 DEF BestOf
    <3> QED
      BY <1>3, <3>2, <3>4
  <2>3. CASE best.status = "Ok"
    <3>1. PICK q \in done : HasWay(q) /\ old = ChargedLeast(q)
      BY <2>3 DEF BestOf
    <3>2. \A p \in done : HasWay(p) => old <= ChargedLeast(p)
      BY <2>3 DEF BestOf
    <3>3. Better(route) <=> new < old
      BY <2>3 DEF Better
    <3>4. old \in Int /\ new \in Int
      BY <1>1, <2>1, <3>1
    <3> HIDE DEF old, new
    <3>5. CASE new < old
      <4>1. \A p \in done \cup {pair} : HasWay(p) => new <= ChargedLeast(p)
        <5> TAKE p \in done \cup {pair}
        <5> HAVE HasWay(p)
        <5> DEFINE x == ChargedLeast(p)
        <5>1. x \in Int
          BY <1>1
        <5>2. p = pair \/ old <= x
          BY <3>2
        <5> HIDE DEF x
        <5>3. CASE p = pair
          BY <2>1, <3>4, <5>3 DEF x
        <5>4. CASE old <= x
          <6>1. new <= x
            BY <3>4, <3>5, <5>1, <5>4
          <6> QED
            BY <6>1 DEF x
        <5> QED
          BY <5>2, <5>3, <5>4 DEF x
      <4>2. BestOf(done \cup {pair}, route)
        BY <1>3, <2>1, <4>1 DEF BestOf, new
      <4>3. Better(route)
        BY <3>3, <3>5
      <4> QED
        BY <1>3, <4>2, <4>3
    <3>6. CASE ~(new < old)
      <4>1. old <= ChargedLeast(pair)
        BY <2>1, <3>4, <3>6
      <4>2. \A p \in done \cup {pair} : HasWay(p) => old <= ChargedLeast(p)
        BY <3>2, <4>1
      <4>3. BestOf(done \cup {pair}, best)
        BY <2>3, <3>1, <4>2 DEF BestOf, old
      <4>4. ~Better(route)
        BY <3>3, <3>6
      <4> QED
        BY <4>3, <4>4
    <3> QED
      BY <3>5, <3>6
  <2> QED
    BY <2>2, <2>3
<1> QED
  BY <1>2, <1>3

\* The best of a request that met no limit is the best of the pairs it has
\* tried; when it is answered it has tried them all.
BestSound ==
    /\ request.at \in {"route", "answered"} /\ ~request.limited =>
           BestOf(request.pairs \ request.left, request.best)
    /\ request.at = "answered" => request.left = {}

AnswerInv == RoutingInv /\ Faithful /\ BestSound

\* It depends on the network, the metric, the pairs and the best alone.
LEMMA BestStays ==
  ASSUME networks' = networks, request'.network = request.network,
         request'.metric = request.metric, NEW done, NEW best,
         request'.pairs \ request'.left = done, request'.best = best,
         BestOf(done, best)
  PROVE  BestOf(request.pairs \ request.left, request.best)'
<1>1. ASSUME NEW p PROVE HasWay(p)' <=> HasWay(p)
  BY <1>1 DEF HasWay, Connected, Between
<1>2. ASSUME NEW p PROVE ChargedLeast(p)' = ChargedLeast(p)
  <2>1. LeastOf(networks[request.network], request.metric, p)'
          = LeastOf(networks[request.network], request.metric, p)
    BY DEF LeastOf, Between
  <2> QED
    BY <2>1 DEF ChargedLeast, Snap, WalkingPace
<1>3. Charged(request.best, request.metric)' = Charged(best, request.metric)
  BY DEF Charged, WalkingPace
<1>4. CASE best.status = "Ok"
  <2>1. PICK q \in done : HasWay(q) /\ Charged(best, request.metric) = ChargedLeast(q)
    BY <1>4 DEF BestOf
  <2>2. /\ HasWay(q)' /\ Charged(request.best, request.metric)' = ChargedLeast(q)'
        /\ q \in request'.pairs \ request'.left
    BY <1>1, <1>2, <1>3, <2>1
  <2>3. ASSUME NEW p \in done, HasWay(p)'
        PROVE  Charged(request.best, request.metric)' <= ChargedLeast(p)'
    <3>1. Charged(best, request.metric) <= ChargedLeast(p)
      BY <1>1, <1>4, <2>3 DEF BestOf
    <3> QED
      BY <1>2, <1>3, <3>1
  <2> QED
    BY <1>4, <2>2, <2>3 DEF BestOf
<1>5. CASE best.status # "Ok"
  BY <1>1, <1>5 DEF BestOf
<1> QED
  BY <1>4, <1>5

\* A pair that is done.
LEMMA BestTried ==
  ASSUME AnswerInv, request.at \in {"route", "match"},
         NEW pair \in request.left, NEW route, NEW limited, Tried(pair, route, limited),
         ~limited => Judged(pair, route)
  PROVE  BestSound'
<1>1. StoreSound /\ HasFields /\ RequestSound /\ Faithful /\ BestSound
  BY DEF RoutingInv, AnswerInv
<1> DEFINE limitedNow == request.limited \/ limited
           bestNow == IF Keeps(route) THEN route ELSE request.best
           leftNow == request.left \ {pair}
           done == request.pairs \ request.left
<1>3. networks' = networks
  BY <1>1, TriedIs
<1>4. /\ request'.at = request.at /\ request'.network = request.network
      /\ request'.metric = request.metric /\ request'.pairs = request.pairs
      /\ request'.left = leftNow /\ request'.best = bestNow /\ request'.limited = limitedNow
  BY <1>1, TriedFields
<1> HIDE DEF limitedNow, bestNow, leftNow
<1>5. pair \in request.pairs /\ done \in SUBSET request.pairs
  BY <1>1 DEF RequestSound
<1>6. request'.pairs \ request'.left = done \cup {pair}
  BY <1>4, <1>5 DEF leftNow
<1>7. ASSUME ~request'.limited, request.at = "route" PROVE BestOf(done \cup {pair}, bestNow)
  <2>1. ~request.limited /\ ~limited
    BY <1>4, <1>7 DEF limitedNow
  <2>2. BestOf(done, request.best)
    BY <1>1, <1>7, <2>1 DEF BestSound
  <2>3. Judged(pair, route)
    BY <2>1, ZenonT(30) DEF limitedNow
  <2> HIDE DEF done
  <2> QED
    BY <1>1, <1>5, <1>7, <2>2, <2>3, BestGrows DEF bestNow, Keeps
<1> HIDE DEF done
<1>8. ASSUME ~request'.limited, request.at = "route" PROVE BestOf(request.pairs \ request.left, request.best)'
  <2>1. BestOf(done \cup {pair}, bestNow)
    BY <1>7, <1>8
  <2> QED
    BY <1>3, <1>4, <1>6, <2>1, BestStays
<1> QED
  BY <1>4, <1>8 DEF BestSound

\* Every step keeps the best of what was tried.
LEMMA AnswerInvNext == AnswerInv /\ [RoutingNext]_routingVars => AnswerInv'
<1> SUFFICES ASSUME AnswerInv, [RoutingNext]_routingVars PROVE AnswerInv'
  OBVIOUS
<1>1. RoutingInv /\ StoreSound /\ HasFields /\ Faithful /\ BestSound
  BY DEF AnswerInv, RoutingInv
<1>2. RoutingInv' /\ Faithful'
  <2>1. Faithful'
    BY <1>1 DEF Faithful
  <2> QED
    BY <1>1, <2>1, RoutingInvNext
<1>3. ASSUME networks' = networks, request' = request PROVE BestSound'
  <2>1. CASE request.at \in {"route", "answered"} /\ ~request.limited
    <3>1. BestOf(request.pairs \ request.left, request.best)
      BY <1>1, <2>1 DEF BestSound
    <3>2. BestOf(request.pairs \ request.left, request.best)'
      BY <1>3, <3>1, BestStays
    <3> QED
      BY <1>1, <1>3, <3>2 DEF BestSound
  <2>2. CASE ~(request.at \in {"route", "answered"} /\ ~request.limited)
    BY <1>1, <1>3, <2>2 DEF BestSound
  <2> QED
    BY <2>1, <2>2
<1>4. CASE \/ \E name \in DOMAIN Maps : Publish(name)
           \/ Rollback \/ DiscardStale \/ Expand \/ UNCHANGED routingVars
  <2>1. networks' = networks /\ request' = request
    BY <1>4 DEF Publish, Rollback, DiscardStale, Expand, routingVars, store
  <2> QED
    BY <1>2, <1>3, <2>1 DEF AnswerInv
<1>5. CASE \E ask \in Asks, algorithm \in Algorithms, metric \in Metrics, limit \in ExpansionLimits :
              BeginRoute(ask[1], ask[2], algorithm, metric, limit)
  <2>1. PICK ask \in Asks, algorithm \in Algorithms, metric \in Metrics, limit \in ExpansionLimits :
              BeginRoute(ask[1], ask[2], algorithm, metric, limit)
    BY <1>5
  <2>2. PICK starts \in networks[current].near[ask[1]], ends \in networks[current].near[ask[2]] :
          LET pairs == [start : starts, end : ends]
          IN  request' = [NoRequest EXCEPT
                            !.at = "route", !.network = current,
                            !.from = ask[1], !.to = ask[2], !.limit = limit,
                            !.algorithm = algorithm, !.metric = metric,
                            !.best.status = IF pairs = {} THEN "InvalidNode" ELSE @,
                            !.pairs = pairs, !.left = pairs]
    BY <2>1 DEF BeginRoute
  <2>3. request'.at = "route" /\ request'.left = request'.pairs /\ request'.best.status # "Ok"
    BY <2>2, ZenonT(30) DEF NoRequest, NoRoute
  <2>4. BestOf(request.pairs \ request.left, request.best)'
    BY <2>3 DEF BestOf
  <2> QED
    BY <1>2, <2>3, <2>4 DEF BestSound, AnswerInv
<1>6. CASE \E trace \in Traces, limit \in ExpansionLimits : BeginMatch(trace, limit)
  <2>1. request'.at \in {"match", "matched"}
    BY <1>6 DEF BeginMatch, NoRequest
  <2> QED
    BY <1>2, <2>1 DEF BestSound, AnswerInv
<1>7. CASE NextPair \/ EndSearch \/ EndAtLimit
  <2>1. ASSUME NEW pair, NEW route, NEW limited, FoundFor(pair, route, limited)
        PROVE  AnswerInv'
    BY <1>1, <1>2, <2>1, BestTried DEF AnswerInv, FoundFor
  <2> QED
    BY <1>1, <1>2, <1>3, <1>7, <2>1, PairEnds DEF AnswerInv
<1>10. CASE Answer
  <2>1. /\ request.at = "route" /\ request.left = {} /\ networks' = networks
        /\ request' = [request EXCEPT !.at = "answered"]
    BY <1>10 DEF Answer, store
  <2>2. /\ request'.at = "answered" /\ request'.network = request.network
        /\ request'.metric = request.metric /\ request'.pairs = request.pairs
        /\ request'.left = request.left /\ request'.best = request.best
        /\ request'.limited = request.limited
    BY <1>1, <2>1 DEF HasFields
  <2>3. ASSUME ~request'.limited PROVE BestOf(request.pairs \ request.left, request.best)'
    <3>1. BestOf(request.pairs \ request.left, request.best)
      BY <1>1, <2>1, <2>2, <2>3 DEF BestSound
    <3> QED
      BY <2>1, <2>2, <3>1, BestStays
  <2> QED
    BY <1>2, <2>1, <2>2, <2>3 DEF BestSound, AnswerInv
<1>11. CASE Done
  <2>1. request'.at = "idle"
    BY <1>11 DEF Done, NoRequest
  <2> QED
    BY <1>2, <2>1 DEF BestSound, AnswerInv
<1>12. CASE NextObservation \/ EndMatch
  <2>1. request'.at \in {"match", "matched"}
    BY <1>1, <1>12 DEF NextObservation, EndMatch, HasFields
  <2> QED
    BY <1>2, <2>1 DEF BestSound, AnswerInv
<1> QED
  BY <1>2, <1>3, <1>4, <1>5, <1>6, <1>7, <1>10, <1>11, <1>12
     DEF RoutingNext, RequestStep, SearchStep, AnswerInv

\* If the arrays of every map have the paths of its ways (Faithful), then
\* whatever the algorithm and whatever is published meanwhile, every search
\* finds a cheapest path, and the answer of a request that met no limit is a
\* cheapest route of its candidates, or none of them are connected
\* (RoutingEngine::Route, routing_engine.cpp, over Router, router.cpp).
THEOREM CheapestAnswered == Faithful /\ RoutingSpec => []RouteShortest
<1>1. Faithful /\ RoutingInit => AnswerInv
  BY RoutingInvInit DEF AnswerInv, BestSound, RoutingInit, NoRequest
<1>2. AnswerInv => RouteShortest
  <2> SUFFICES ASSUME AnswerInv PROVE RouteShortest
    OBVIOUS
  <2>1. RoutingInv /\ StoreSound /\ Faithful /\ BestSound
    BY DEF AnswerInv, RoutingInv
  <2>2. ASSUME SearchOver PROVE PathShortest(Pair)
    <3>1. InContext /\ SearchSound /\ search.source # search.target
      BY <2>1, <2>2, StartsSearchable DEF RoutingInv, PairSound, Searching, SearchOver
    <3>2. Exact
      BY <2>2, <3>1, OneSideExact, BothSidesExact
    <3> QED
      BY <2>1, <2>2, <3>2, ShortestIs
  <2> DEFINE connected == {pair \in request.pairs :
                             Connected(networks[request.network], request.metric, pair)}
             costs == {ChargedLeast(pair) : pair \in connected}
             charged == Charged(request.best, request.metric)
  <2>3. ASSUME Answered, ~request.limited
        PROVE  IF connected = {} THEN request.best.status # "Ok"
               ELSE request.best.status = "Ok" /\ charged = Min(costs)
    <3>1. BestOf(request.pairs, request.best)
      <4>1. request.left = {} /\ BestOf(request.pairs \ request.left, request.best)
        BY <2>1, <2>3 DEF Answered, BestSound
      <4>2. request.pairs \ request.left = request.pairs
        BY <4>1
      <4> QED
        BY <4>1, <4>2
    <3>2. \A pair \in request.pairs : ChargedLeast(pair) \in Int
      BY <2>1, <2>3, PairTyped DEF RoutingInv, Answered
    <3>3. \A pair : pair \in connected <=> pair \in request.pairs /\ HasWay(pair)
      BY DEF HasWay
    <3> HIDE DEF connected
    <3>4. CASE connected = {}
      BY <3>1, <3>3, <3>4 DEF BestOf
    <3>5. CASE connected # {}
      <4>1. request.best.status = "Ok"
        BY <3>1, <3>3, <3>5 DEF BestOf
      <4>2. charged \in costs /\ \A x \in costs : charged <= x
        BY <3>1, <3>3, <4>1 DEF BestOf
      <4>3. costs \subseteq Int
        BY <3>2, <3>3
      <4> HIDE DEF costs, charged
      <4>4. Min(costs) \in costs /\ \A x \in costs : Min(costs) <= x
        BY <4>2 DEF Min
      <4> DEFINE least == Min(costs)
      <4>5. charged = Min(costs)
        <5>1. charged \in Int /\ least \in Int /\ charged <= least /\ least <= charged
          BY <4>2, <4>3, <4>4
        <5> HIDE DEF least
        <5>2. charged = least
          BY <5>1
        <5> QED
          BY <5>2 DEF least
      <4> QED
        BY <3>5, <4>1, <4>5
    <3> QED
      BY <3>4, <3>5
  <2> QED
    BY <2>2, <2>3 DEF RouteShortest, Pair
<1> QED
  BY <1>1, <1>2, AnswerInvNext, PTL DEF RoutingSpec

-----------------------------------------------------------------------------
(* Lines that are driven *)

\* Each member follows the one before it by a step of R, or repeats it.
Chained(R, line) ==
    \A i \in 1..(Len(line) - 1) : line[i] = line[i + 1] \/ <<line[i], line[i + 1]>> \in R

\* A line of N by steps of R from a to b.
IsChain(N, R, line, a, b) ==
    /\ line \in Seq(N) /\ Len(line) >= 1
    /\ line[1] = a /\ line[Len(line)] = b
    /\ Chained(R, line)

\* A part of a line.
LEMMA ChainPart ==
  ASSUME NEW N, NEW R, NEW line \in Seq(N), Chained(R, line),
         NEW m \in 1..Len(line), NEW n \in 1..Len(line), m <= n
  PROVE  IsChain(N, R, SubSeq(line, m, n), line[m], line[n])
<1> DEFINE part == SubSeq(line, m, n)
           l == n - m + 1
<1>1. m \in Int /\ n \in Int /\ Len(line) \in Nat /\ l \in Nat /\ l >= 1
  BY LenProperties
<1>2. \A i \in m..n : line[i] \in N
  BY <1>1, LenProperties
<1>3. part \in Seq(N) /\ Len(part) = l /\ \A i \in 1..l : part[i] = line[m + i - 1]
  BY <1>1, <1>2, SubSeqProperties
<1> HIDE DEF part
<1>4. part[1] = line[m] /\ part[l] = line[n]
  <2>1. 1 \in 1..l /\ l \in 1..l /\ m + 1 - 1 = m /\ m + l - 1 = n
    BY <1>1
  <2> QED
    BY <1>3, <2>1
<1>5. ASSUME NEW i \in 1..(l - 1)
      PROVE  part[i] = part[i + 1] \/ <<part[i], part[i + 1]>> \in R
  <2> DEFINE k == m + i - 1
  <2>1. /\ i \in 1..l /\ i + 1 \in 1..l /\ k \in 1..(Len(line) - 1)
        /\ m + (i + 1) - 1 = k + 1
    BY <1>1
  <2>2. part[i] = line[k] /\ part[i + 1] = line[k + 1]
    BY <1>3, <2>1
  <2> HIDE DEF k
  <2>3. line[k] = line[k + 1] \/ <<line[k], line[k + 1]>> \in R
    BY <2>1 DEF Chained
  <2> QED
    BY <2>2, <2>3
<1>6. Chained(R, part)
  BY <1>3, <1>5 DEF Chained
<1> QED
  BY <1>1, <1>3, <1>4, <1>6 DEF IsChain, part

\* One line after another that begins where it ends.
LEMMA ChainJoined ==
  ASSUME NEW N, NEW R, NEW a, NEW b, NEW c,
         NEW p, IsChain(N, R, p, a, b), NEW q, IsChain(N, R, q, b, c)
  PROVE  IsChain(N, R, p \o q, a, c)
<1> DEFINE r == p \o q
           m == Len(p)
           n == Len(q)
<1>1. p \in Seq(N) /\ q \in Seq(N) /\ m \in Nat /\ n \in Nat /\ m >= 1 /\ n >= 1
  BY LenProperties DEF IsChain
<1>2. /\ r \in Seq(N) /\ Len(r) = m + n
      /\ \A i \in 1..(m + n) : r[i] = IF i <= m THEN p[i] ELSE q[i - m]
  BY <1>1, ConcatProperties
<1>3. p[1] = a /\ p[m] = b /\ q[1] = b /\ q[n] = c
  BY DEF IsChain
<1>4. /\ \A i \in 1..(m - 1) : p[i] = p[i + 1] \/ <<p[i], p[i + 1]>> \in R
      /\ \A i \in 1..(n - 1) : q[i] = q[i + 1] \/ <<q[i], q[i + 1]>> \in R
  BY DEF IsChain, Chained
<1> HIDE DEF r, m, n
<1>5. r[1] = a /\ r[m + n] = c
  <2>1. /\ 1 \in 1..(m + n) /\ m + n \in 1..(m + n) /\ 1 <= m /\ ~(m + n <= m)
        /\ (m + n) - m = n
    BY <1>1
  <2> QED
    BY <1>2, <1>3, <2>1
<1>6. ASSUME NEW i \in 1..(m + n - 1)
      PROVE  r[i] = r[i + 1] \/ <<r[i], r[i + 1]>> \in R
  <2>1. i \in 1..(m + n) /\ i + 1 \in 1..(m + n)
    BY <1>1
  <2>2. CASE i < m
    <3>1. i <= m /\ i + 1 <= m /\ i \in 1..(m - 1)
      BY <1>1, <2>2
    <3>2. r[i] = p[i] /\ r[i + 1] = p[i + 1]
      BY <1>2, <2>1, <3>1
    <3> QED
      BY <1>4, <3>1, <3>2
  <2>3. CASE i = m
    <3>1. i <= m /\ ~(i + 1 <= m) /\ (i + 1) - m = 1
      BY <1>1, <2>3
    <3>2. r[i] = p[m] /\ r[i + 1] = q[1]
      BY <1>2, <2>1, <2>3, <3>1
    <3> QED
      BY <1>3, <3>2
  <2>4. CASE i > m
    <3> DEFINE k == i - m
    <3>1. ~(i <= m) /\ ~(i + 1 <= m) /\ (i + 1) - m = k + 1 /\ k \in 1..(n - 1)
      BY <1>1, <2>4
    <3>2. r[i] = q[k] /\ r[i + 1] = q[k + 1]
      BY <1>2, <2>1, <3>1
    <3> HIDE DEF k
    <3> QED
      BY <1>4, <3>1, <3>2
  <2> QED
    BY <1>1, <2>2, <2>3, <2>4
<1>7. Chained(R, r)
  <2>1. ASSUME NEW i \in 1..(Len(r) - 1)
        PROVE  r[i] = r[i + 1] \/ <<r[i], r[i + 1]>> \in R
    <3>1. i \in 1..(m + n - 1)
      BY <1>1, <1>2
    <3> QED
      BY <1>6, <3>1
  <2> QED
    BY <2>1 DEF Chained
<1>8. Len(r) >= 1
  BY <1>1, <1>2
<1> QED
  BY <1>2, <1>5, <1>7, <1>8 DEF IsChain, r

\* FlattenSeq, a line at a time.
LEMMA FlatIs ==
  ASSUME NEW N, NEW lines \in Seq(Seq(N)), Len(lines) >= 1
  PROVE  \E F : /\ F[1] = lines[1] /\ FlattenSeq(lines) = F[Len(lines)]
                /\ \A k \in 2..Len(lines) : F[k] = F[k - 1] \o lines[k]
<1> DEFINE i == Len(lines)
           n == i - 1
           T == Seq(N)
           round == [k \in 1..n |-> [x \in T |-> x \o lines[k + 1]]]
           Rec(f) == f = [k \in 1..i |-> IF k = 1 THEN lines[k] ELSE f[k - 1] \o lines[k]]
           g == CHOOSE f : Rec(f)
<1>1. i \in Nat /\ n \in Nat /\ i = n + 1
  BY LenProperties
<1>2. \A k \in 1..i : lines[k] \in T
  BY LenProperties
<1> HIDE DEF T
<1>3. ASSUME NEW x \in T, NEW y \in T PROVE x \o y \in T
  BY <1>3, ConcatProperties DEF T
<1> HIDE DEF i, n
<1>4. IsLoop(T, lines[1], n, round)
  <2>1. \A k \in 1..n : [x \in T |-> x \o lines[k + 1]] \in [T -> T]
    <3> TAKE k \in 1..n
    <3>1. k + 1 \in 1..i
      BY <1>1
    <3>2. lines[k + 1] \in T
      BY <1>2, <3>1
    <3> QED
      BY <1>3, <3>2
  <2>2. lines[1] \in T
    BY <1>1, <1>2
  <2> QED
    BY <1>1, <2>1, <2>2 DEF IsLoop
<1>5. PICK F \in [0..n -> T] : F[0] = lines[1] /\ \A k \in 1..n : F[k] = round[k][F[k - 1]]
  <2> HIDE DEF round
  <2> QED
    BY <1>4, LoopRuns, SMTT(30)
<1> DEFINE f == [k \in 1..i |-> F[k - 1]]
<1>6. Rec(f)
  <2>1. ASSUME NEW k \in 1..i PROVE f[k] = IF k = 1 THEN lines[k] ELSE f[k - 1] \o lines[k]
    <3>1. CASE k = 1
      BY <1>5, <3>1
    <3>2. CASE k # 1
      <4>1. k - 1 \in 1..n /\ k - 1 \in 1..i /\ (k - 1) + 1 = k /\ k - 2 \in 0..n /\ (k - 1) - 1 = k - 2
        BY <1>1, <3>2
      <4>2. F[k - 1] = round[k - 1][F[k - 2]]
        BY <1>5, <4>1
      <4>3. F[k - 2] \in T
        BY <1>5, <4>1
      <4>4. round[k - 1] = [x \in T |-> x \o lines[(k - 1) + 1]]
        BY <4>1
      <4> HIDE DEF round
      <4>5. F[k - 1] = F[k - 2] \o lines[k]
        BY <4>1, <4>2, <4>3, <4>4
      <4>6. f[k] = F[k - 1] /\ f[k - 1] = F[k - 2]
        BY <4>1
      <4> QED
        BY <3>2, <4>5, <4>6
    <3> QED
      BY <3>1, <3>2
  <2>2. f = [k \in 1..i |-> f[k]]
    OBVIOUS
  <2> HIDE DEF f
  <2> QED
    BY <2>1, <2>2
<1>7. Rec(g)
  <2> HIDE DEF Rec, f
  <2> QED
    BY <1>6
<1>8. FlattenSeq(lines) = g[i]
  <2>1. Len(lines) # 0
    BY LenProperties
  <2> QED
    BY <2>1 DEF FlattenSeq, i
<1> HIDE DEF g, f
<1>9. g[1] = lines[1] /\ \A k \in 2..i : k - 1 \in 1..i /\ g[k] = g[k - 1] \o lines[k]
  <2>1. 1 \in 1..i /\ \A k \in 2..i : k \in 1..i /\ k # 1 /\ k - 1 \in 1..i
    BY <1>1
  <2> QED
    BY <1>7, <2>1
<1> QED
  BY <1>8, <1>9 DEF i

\* Lines one after another, each from where the one before it ends.
LEMMA ChainsJoined ==
  ASSUME NEW N, NEW R, NEW lines \in Seq(Seq(N)), Len(lines) >= 1,
         NEW from, NEW to,
         \A k \in 1..Len(lines) : IsChain(N, R, lines[k], from[k], to[k]),
         \A k \in 1..(Len(lines) - 1) : to[k] = from[k + 1]
  PROVE  IsChain(N, R, FlattenSeq(lines), from[1], to[Len(lines)])
<1> DEFINE n == Len(lines)
<1>1. n \in Nat /\ n >= 1
  BY LenProperties
<1>2. PICK F : /\ F[1] = lines[1] /\ FlattenSeq(lines) = F[n]
               /\ \A k \in 2..n : F[k] = F[k - 1] \o lines[k]
  BY FlatIs
<1> HIDE DEF n
<1> DEFINE S == {k \in Nat : k + 1 <= n => IsChain(N, R, F[k + 1], from[1], to[k + 1])}
<1>3. 0 \in S
  <2>1. IsChain(N, R, lines[1], from[1], to[1])
    BY <1>1 DEF n
  <2> QED
    BY <1>2, <2>1
<1>4. \A k \in Nat : k \in S => k + 1 \in S
  <2> TAKE k \in Nat
  <2> HAVE k \in S
  <2>1. CASE (k + 1) + 1 <= n
    <3> DEFINE j == k + 1
    <3>1. j \in 1..(n - 1) /\ j + 1 \in 2..n /\ j + 1 \in 1..n /\ (j + 1) - 1 = j /\ j <= n
      BY <1>1, <2>1
    <3>2. IsChain(N, R, F[j], from[1], to[j])
      BY <3>1
    <3> HIDE DEF j, S
    <3>3. IsChain(N, R, lines[j + 1], from[j + 1], to[j + 1]) /\ to[j] = from[j + 1]
      BY <3>1 DEF n
    <3>4. F[j + 1] = F[j] \o lines[j + 1]
      BY <1>2, <3>1
    <3>5. IsChain(N, R, F[j] \o lines[j + 1], from[1], to[j + 1])
      BY <3>2, <3>3, ChainJoined
    <3>6. IsChain(N, R, F[(k + 1) + 1], from[1], to[(k + 1) + 1])
      BY <3>4, <3>5 DEF j
    <3> QED
      BY <3>6 DEF S
  <2>2. CASE ~((k + 1) + 1 <= n)
    BY <2>2
  <2> QED
    BY <2>1, <2>2
<1>5. Nat \subseteq S
  <2> HIDE DEF S
  <2> QED
    BY <1>3, <1>4, NaturalsReached
<1>6. n - 1 \in S /\ (n - 1) + 1 = n
  <2> HIDE DEF S
  <2>1. n - 1 \in Nat /\ (n - 1) + 1 = n
    BY <1>1
  <2> QED
    BY <1>5, <2>1
<1>7. IsChain(N, R, F[n], from[1], to[n])
  BY <1>1, <1>6
<1> QED
  BY <1>2, <1>7 DEF n

-----------------------------------------------------------------------------
(* The lines of routes *)

\* The lines of every map are driven along its ways.
DrivenMaps == \A name \in DOMAIN Maps : LinesDriven(Maps[name])

MapNodes == DOMAIN Position

\* The steps of a map, with those from a node to itself.
MayDrive(name) == {<<drive[1], drive[2]>> : drive \in Drives(Maps[name], "distance")}

\* The lines of the edges of a network.
LEMMA EdgeLines ==
  ASSUME StoreSound, RequestSound, DrivenMaps
  PROVE  /\ graph.line \in [graph.edges -> Seq(MapNodes)]
         /\ \A e \in graph.edges : /\ graph.line[e] # <<>>
                                   /\ Chained(MayDrive(request.network), graph.line[e])
         /\ \A e, f \in graph.edges : graph.target[e] = EdgeSource(graph, f) =>
               graph.line[e][Len(graph.line[e])] = Head(graph.line[f])
<1>1. OnNetwork /\ Validate(graph)
  BY StartsSearchable DEF InContext
<1>2. graph = Csr(Maps[request.network])
  BY <1>1, NetworkIs
<1>3. LinesDriven(Maps[request.network])
  BY DEF RequestSound, DrivenMaps
<1>4. graph.line \in [graph.edges -> Seq(MapNodes)]
  BY <1>1 DEF Validate, MapNodes
<1>5. \A e \in graph.edges :
         /\ graph.line[e] # <<>>
         /\ \A i \in 1..(Len(graph.line[e]) - 1) :
               \/ graph.line[e][i] = graph.line[e][i + 1]
               \/ <<graph.line[e][i], graph.line[e][i + 1]>> \in MayDrive(request.network)
         /\ \A f \in graph.edges : graph.target[e] = EdgeSource(graph, f) =>
               Last(graph.line[e]) = Head(graph.line[f])
  BY <1>2, <1>3 DEF LinesDriven, MayDrive
<1> QED
  BY <1>4, <1>5 DEF Chained, Last

\* The two parts of a pair's edges.
LEMMA PairLines ==
  ASSUME StoreSound, RequestSound, DrivenMaps, NEW pair \in request.pairs
  PROVE  LET a == graph.line[pair.start.edge]
             b == graph.line[pair.end.edge]
             R == MayDrive(request.network)
         IN  /\ pair.start.edge \in graph.edges /\ pair.end.edge \in graph.edges
             /\ pair.start.segment \in 1..(Len(a) - 1) /\ pair.end.segment \in 1..(Len(b) - 1)
             /\ a \in Seq(MapNodes) /\ b \in Seq(MapNodes) /\ Chained(R, a) /\ Chained(R, b)
             /\ IsChain(MapNodes, R, SubSeq(a, pair.start.segment + 1, Len(a)),
                        a[pair.start.segment + 1], a[Len(a)])
             /\ IsChain(MapNodes, R, SubSeq(b, 1, pair.end.segment), b[1], b[pair.end.segment])
<1> DEFINE a == graph.line[pair.start.edge]
           b == graph.line[pair.end.edge]
           R == MayDrive(request.network)
           k == pair.start.segment
           l == pair.end.segment
<1>1. /\ pair.start.edge \in graph.edges /\ pair.end.edge \in graph.edges
      /\ k \in 1..(Len(a) - 1) /\ l \in 1..(Len(b) - 1)
  BY NearEdges DEF RequestSound
<1>2. a \in Seq(MapNodes) /\ b \in Seq(MapNodes) /\ Chained(R, a) /\ Chained(R, b)
  BY <1>1, EdgeLines
<1> HIDE DEF a, b, R, k, l
<1>3. /\ k + 1 \in 1..Len(a) /\ Len(a) \in 1..Len(a) /\ k + 1 <= Len(a)
      /\ 1 \in 1..Len(b) /\ l \in 1..Len(b) /\ 1 <= l
  BY <1>1, <1>2, LenProperties
<1>4. IsChain(MapNodes, R, SubSeq(a, k + 1, Len(a)), a[k + 1], a[Len(a)])
  BY <1>2, <1>3, ChainPart
<1>5. IsChain(MapNodes, R, SubSeq(b, 1, l), b[1], b[l])
  BY <1>2, <1>3, ChainPart
<1> QED
  BY <1>1, <1>2, <1>4, <1>5 DEF a, b, R, k, l

\* Along one edge.
LEMMA AlongDriven ==
  ASSUME StoreSound, RequestSound, DrivenMaps, NEW pair \in request.pairs, IsAlong(pair)
  PROVE  Chained(MayDrive(request.network), RouteAlong(pair).line)
<1> DEFINE a == graph.line[pair.start.edge]
           R == MayDrive(request.network)
           k == pair.start.segment
           l == pair.end.segment
<1>1. /\ k \in 1..(Len(a) - 1) /\ l \in 1..(Len(a) - 1)
      /\ a \in Seq(MapNodes) /\ Chained(R, a)
  BY PairLines DEF IsAlong, Onwards
<1>2. RouteAlong(pair).line = SubSeq(a, k + 1, l)
  BY DEF RouteAlong
<1> HIDE DEF a, R, k, l
<1>3. CASE k + 1 <= l
  <2>1. k + 1 \in 1..Len(a) /\ l \in 1..Len(a)
    BY <1>1, <1>3, LenProperties
  <2>2. IsChain(MapNodes, R, SubSeq(a, k + 1, l), a[k + 1], a[l])
    BY <1>1, <1>3, <2>1, ChainPart
  <2> QED
    BY <1>2, <2>2 DEF IsChain, R
<1>4. CASE ~(k + 1 <= l)
  <2>1. SubSeq(a, k + 1, l) = <<>>
    <3>1. k + 1 \in Int /\ l \in Int /\ l < k + 1
      BY <1>1, <1>4, LenProperties
    <3> QED
      BY <3>1, SubSeqEmpty
  <2>2. Chained(R, <<>>)
    BY DEF Chained
  <2> QED
    BY <1>2, <2>1, <2>2 DEF R
<1> QED
  BY <1>3, <1>4

\* Over whole edges between the parts of two.
LEMMA OverDriven ==
  ASSUME StoreSound, RequestSound, DrivenMaps, NEW pair \in request.pairs,
         NEW path, LeadsFrom(path, graph.target[pair.start.edge],
                             EdgeSource(graph, pair.end.edge))
  PROVE  Chained(MayDrive(request.network), RouteOver(pair, path).line)
<1> DEFINE a == graph.line[pair.start.edge]
           b == graph.line[pair.end.edge]
           R == MayDrive(request.network)
           A == SubSeq(a, pair.start.segment + 1, Len(a))
           B == SubSeq(b, 1, pair.end.segment)
           E == graph.edges
           lines == [i \in DOMAIN path |-> graph.line[path[i]]]
           N == MapNodes
           n == Len(path)
           first == a[pair.start.segment + 1]
           last == b[pair.end.segment]
<1>1. RouteOver(pair, path).line = A \o FlattenSeq(lines) \o B
  BY DEF RouteOver
<1>2. /\ pair.start.edge \in E /\ pair.end.edge \in E
      /\ pair.start.segment \in 1..(Len(a) - 1) /\ pair.end.segment \in 1..(Len(b) - 1)
      /\ a \in Seq(N) /\ b \in Seq(N)
      /\ IsChain(N, R, A, first, a[Len(a)]) /\ IsChain(N, R, B, b[1], last)
  BY PairLines
<1>3. /\ graph.line \in [E -> Seq(N)]
      /\ \A e \in E : graph.line[e] # <<>> /\ Chained(R, graph.line[e])
      /\ \A e, f \in E : graph.target[e] = EdgeSource(graph, f) =>
            graph.line[e][Len(graph.line[e])] = Head(graph.line[f])
  BY EdgeLines
<1>4. /\ path \in Seq(E)
      /\ path = <<>> => graph.target[pair.start.edge] = EdgeSource(graph, pair.end.edge)
      /\ path # <<>> => /\ Sources(graph)[path[1]] = graph.target[pair.start.edge]
                        /\ graph.target[path[n]] = EdgeSource(graph, pair.end.edge)
      /\ \A i \in 1..(n - 1) : graph.target[path[i]] = Sources(graph)[path[i + 1]]
  BY DEF LeadsFrom, Leads
<1>5. n \in Nat /\ DOMAIN path = 1..n /\ \A i \in 1..n : path[i] \in E
  BY <1>4, LenProperties
<1>6. path = <<>> => Chained(R, A \o B) /\ FlattenSeq(lines) = <<>>
  <2> SUFFICES ASSUME path = <<>> PROVE Chained(R, A \o B) /\ FlattenSeq(lines) = <<>>
    OBVIOUS
  <2>1. a[Len(a)] = b[1]
    <3>1. a[Len(a)] = Head(b)
      BY <1>2, <1>3, <1>4
    <3> HIDE DEF a, b
    <3> QED
      BY <1>2, <3>1
  <2>2. IsChain(N, R, A \o B, first, last)
    <3> HIDE DEF A, B, R, N, first, last, a, b
    <3> QED
      BY <1>2, <2>1, ChainJoined
  <2>3. lines = <<>>
    BY <1>5
  <2>4. FlattenSeq(<<>>) = <<>>
    BY DEF FlattenSeq
  <2> QED
    BY <2>2, <2>3, <2>4 DEF IsChain
<1>7. CASE path = <<>>
  <2>1. A \o <<>> = A
    <3>1. A \in Seq(N)
      BY <1>2 DEF IsChain
    <3> HIDE DEF A
    <3> QED
      BY <3>1, ConcatEmptySeq
  <2> HIDE DEF A, B, lines, R
  <2> QED
    BY <1>1, <1>6, <1>7, <2>1 DEF R
<1>8. CASE path # <<>>
  <2> DEFINE from == [i \in 1..n |-> graph.line[path[i]][1]]
             to == [i \in 1..n |-> graph.line[path[i]][Len(graph.line[path[i]])]]
  <2>1. n >= 1
    BY <1>4, <1>5, <1>8, EmptySeq
  <2>2. lines \in Seq(Seq(N)) /\ Len(lines) = n
    <3>1. lines = [i \in 1..n |-> graph.line[path[i]]]
      BY <1>5
    <3>2. \A i \in 1..n : graph.line[path[i]] \in Seq(N)
      BY <1>3, <1>5
    <3> HIDE DEF lines, N
    <3> QED
      BY <1>5, <3>1, <3>2
  <2>3. ASSUME NEW i \in 1..n PROVE IsChain(N, R, lines[i], from[i], to[i])
    <3> DEFINE line == graph.line[path[i]]
    <3>1. line \in Seq(N) /\ line # <<>> /\ Chained(R, line)
      BY <1>3, <1>5
    <3>2. lines[i] = line /\ from[i] = line[1] /\ to[i] = line[Len(line)]
      BY <1>5
    <3> HIDE DEF line, lines, from, to
    <3>3. Len(line) >= 1
      BY <3>1, EmptySeq, LenProperties
    <3> QED
      BY <3>1, <3>2, <3>3 DEF IsChain
  <2>4. ASSUME NEW i \in 1..(n - 1) PROVE to[i] = from[i + 1]
    <3> DEFINE e == path[i]
               f == path[i + 1]
    <3>1. i \in 1..n /\ i + 1 \in 1..n
      BY <1>5
    <3>2. e \in E /\ f \in E /\ graph.target[e] = EdgeSource(graph, f)
      BY <1>4, <1>5, <3>1 DEF Sources
    <3>3. to[i] = graph.line[e][Len(graph.line[e])] /\ from[i + 1] = graph.line[f][1]
      BY <3>1
    <3> HIDE DEF e, f, to, from
    <3>4. graph.line[e][Len(graph.line[e])] = Head(graph.line[f])
      BY <1>3, <3>2
    <3>5. Head(graph.line[f]) = graph.line[f][1]
      BY <1>3, <3>2
    <3> QED
      BY <3>3, <3>4, <3>5
  <2> HIDE DEF lines
  <2>5. a[Len(a)] = from[1]
    <3> DEFINE e == pair.start.edge
               f == path[1]
    <3>1. e \in E /\ f \in E /\ graph.target[e] = EdgeSource(graph, f)
      <4>1. 1 \in 1..n
        BY <1>5, <2>1
      <4>2. e \in E /\ f \in E
        BY <1>2, <1>5, <4>1
      <4>3. Sources(graph)[f] = graph.target[e]
        BY <1>4, <1>8
      <4>4. Sources(graph)[f] = EdgeSource(graph, f)
        BY <4>2 DEF Sources
      <4> QED
        BY <4>2, <4>3, <4>4
    <3>2. a = graph.line[e] /\ from[1] = graph.line[f][1]
      BY <1>5, <2>1
    <3> HIDE DEF a, e, f, from
    <3>3. a[Len(a)] = Head(graph.line[f])
      BY <1>3, <3>1, <3>2
    <3>4. Head(graph.line[f]) = graph.line[f][1]
      BY <1>3, <3>1
    <3> QED
      BY <3>2, <3>3, <3>4
  <2>6. to[n] = b[1]
    <3> DEFINE e == path[n]
               f == pair.end.edge
    <3>1. e \in E /\ f \in E /\ graph.target[e] = EdgeSource(graph, f)
      <4>1. n \in 1..n
        BY <1>5, <2>1
      <4>2. e \in E /\ f \in E
        BY <1>2, <1>5, <4>1
      <4>3. graph.target[e] = EdgeSource(graph, f)
        BY <1>4, <1>8
      <4> QED
        BY <4>2, <4>3
    <3>2. b = graph.line[f] /\ to[n] = graph.line[e][Len(graph.line[e])]
      BY <1>5, <2>1
    <3> HIDE DEF b, e, f, to
    <3>3. to[n] = Head(graph.line[f])
      BY <1>3, <3>1, <3>2
    <3>4. Head(graph.line[f]) = graph.line[f][1]
      BY <1>3, <3>1
    <3> QED
      BY <3>2, <3>3, <3>4
  <2>7. IsChain(N, R, FlattenSeq(lines), from[1], to[n])
    <3> HIDE DEF from, to, N, R, n
    <3> QED
      BY <2>1, <2>2, <2>3, <2>4, ChainsJoined
  <2> HIDE DEF A, B, R, N, first, last, a, b, from, to
  <2>8. IsChain(N, R, A \o FlattenSeq(lines), first, to[n])
    BY <1>2, <2>5, <2>7, ChainJoined
  <2>9. IsChain(N, R, A \o FlattenSeq(lines) \o B, first, last)
    BY <1>2, <2>6, <2>8, ChainJoined
  <2> QED
    BY <1>1, <2>9 DEF IsChain, R
<1> QED
  BY <1>7, <1>8

\* The best of a request is driven along the ways of its network.
BestDriven ==
    request.at \in {"route", "answered"} =>
        Chained(MayDrive(request.network), request.best.line)

DrivenInv == RoutingInv /\ DrivenMaps /\ BestDriven

\* A pair that is done leaves a best route that can be driven.
LEMMA DrivenTried ==
  ASSUME RoutingInv, DrivenMaps, BestDriven, request.at \in {"route", "match"},
         NEW pair, NEW route, NEW limited, Tried(pair, route, limited),
         Chained(MayDrive(request.network), route.line)
  PROVE  BestDriven'
<1>1. /\ request'.at = request.at /\ request'.network = request.network
      /\ request'.best = route \/ request'.best = request.best
  BY TriedFields DEF RoutingInv
<1>2. request.at = "route" => Chained(MayDrive(request.network), request'.best.line)
  BY <1>1 DEF BestDriven
<1> QED
  BY <1>1, <1>2 DEF BestDriven, Chained, MayDrive

\* Every step keeps it so.
LEMMA DrivenInvNext == DrivenInv /\ [RoutingNext]_routingVars => DrivenInv'
<1> SUFFICES ASSUME DrivenInv, [RoutingNext]_routingVars PROVE DrivenInv'
  OBVIOUS
<1>1. RoutingInv /\ StoreSound /\ HasFields /\ DrivenMaps /\ BestDriven
  BY DEF DrivenInv, RoutingInv
<1>2. RoutingInv' /\ DrivenMaps'
  <2>1. DrivenMaps'
    BY <1>1 DEF DrivenMaps
  <2> QED
    BY <1>1, <2>1, RoutingInvNext
<1>3. ASSUME request' = request PROVE BestDriven'
  BY <1>1, <1>3 DEF BestDriven, Chained, MayDrive
<1>4. CASE \/ \E name \in DOMAIN Maps : Publish(name)
           \/ Rollback \/ DiscardStale \/ Expand \/ UNCHANGED routingVars
  <2>1. request' = request
    BY <1>4 DEF Publish, Rollback, DiscardStale, Expand, routingVars, store
  <2> QED
    BY <1>2, <1>3, <2>1 DEF DrivenInv
<1>5. ASSUME NEW R PROVE Chained(R, <<>>)
  BY DEF Chained
<1>6. CASE \E ask \in Asks, algorithm \in Algorithms, metric \in Metrics, limit \in ExpansionLimits :
              BeginRoute(ask[1], ask[2], algorithm, metric, limit)
  <2>1. request'.best.line = <<>>
    BY <1>6 DEF BeginRoute, NoRequest, NoRoute
  <2>2. BestDriven'
    BY <1>5, <2>1 DEF BestDriven, Chained
  <2> QED
    BY <1>2, <2>2 DEF DrivenInv
<1>7. CASE \E trace \in Traces, limit \in ExpansionLimits : BeginMatch(trace, limit)
  <2>1. request'.at \in {"match", "matched"}
    BY <1>7 DEF BeginMatch, NoRequest
  <2> QED
    BY <1>2, <2>1 DEF BestDriven, DrivenInv
<1>8. CASE NextPair \/ EndSearch \/ EndAtLimit
  <2>1. ASSUME NEW pair, NEW route, NEW limited, FoundFor(pair, route, limited)
        PROVE  BestDriven'
    <3>1. /\ request.at \in {"route", "match"} /\ pair \in request.pairs /\ RequestSound
          /\ Tried(pair, route, limited)
      BY <1>1, <2>1 DEF FoundFor, RoutingInv
    <3>2. NoRoute.line = <<>>
      BY DEF NoRoute
    <3>3. Chained(MayDrive(request.network), route.line)
      BY <1>1, <1>5, <2>1, <3>1, <3>2, AlongDriven, OverDriven DEF FoundFor
    <3> QED
      BY <1>1, <3>1, <3>3, DrivenTried
  <2> QED
    BY <1>1, <1>2, <1>3, <1>8, <2>1, PairEnds DEF DrivenInv
<1>11. CASE Answer
  <2>1. request.at = "route" /\ request' = [request EXCEPT !.at = "answered"]
    BY <1>11 DEF Answer
  <2>2. request'.network = request.network /\ request'.best = request.best
    BY <1>1, <2>1 DEF HasFields
  <2> QED
    BY <1>1, <1>2, <2>1, <2>2 DEF BestDriven, Chained, MayDrive, DrivenInv
<1>12. CASE Done
  <2>1. request'.at = "idle"
    BY <1>12 DEF Done, NoRequest
  <2> QED
    BY <1>2, <2>1 DEF BestDriven, DrivenInv
<1>13. CASE NextObservation \/ EndMatch
  <2>1. request'.at \in {"match", "matched"}
    BY <1>1, <1>13 DEF NextObservation, EndMatch, HasFields
  <2> QED
    BY <1>2, <2>1 DEF BestDriven, DrivenInv
<1> QED
  BY <1>4, <1>6, <1>7, <1>8, <1>11, <1>12, <1>13
     DEF RoutingNext, RequestStep, SearchStep

\* If the lines of the edges of every map are driven along its ways
\* (DrivenMaps), then so is the line of every answer, from the one candidate to
\* the other: the parts of the two edges, and the edges of the path in their
\* order (RoutingEngine::Route, routing_engine.cpp).
THEOREM AnswerDriven == DrivenMaps /\ RoutingSpec => []RouteDrivable
<1>1. DrivenMaps /\ RoutingInit => DrivenInv
  BY RoutingInvInit DEF DrivenInv, BestDriven, RoutingInit, NoRequest
<1>2. DrivenInv => RouteDrivable
  BY DEF DrivenInv, BestDriven, Chained, MayDrive, RouteDrivable, Answered
<1> QED
  BY <1>1, <1>2, DrivenInvNext, PTL DEF RoutingSpec

-----------------------------------------------------------------------------
(* What matching adds up *)

\* The measures of two candidates of one network.
LEMMA MatchTyped ==
  ASSUME Faithful, NEW name \in DOMAIN Maps, NEW metric \in Metrics,
         NEW network, network = Built(name, Csr(Maps[name])),
         NEW p \in Int \X Int, NEW q \in Int \X Int,
         NEW pair, pair.start \in NearCandidates(network.graph, p, Radius),
         pair.end \in NearCandidates(network.graph, q, Radius)
  PROVE  LeastOf(network, metric, pair) \in Int
<1> DEFINE ways == Maps[name]
           g == Csr(ways)
           costs == CostsOf(g, metric)
           by == ByEdges(g, costs)
           a == pair.start.edge
           b == pair.end.edge
           from == g.target[a]
           to == EdgeSource(g, b)
           k == Between(network, metric, pair)
<1>1. /\ network.graph = g
      /\ network.least[metric] = LeastCosts(ways, metric)
  <2>1. network = Built(name, g)
    OBVIOUS
  <2> HIDE DEF g
  <2>2. network.graph = g /\ network.least = [m \in Metrics |-> LeastCosts(ways, m)]
    BY <2>1 DEF Built
  <2> QED
    BY <2>2
<1>2. Validate(g) /\ Measured(g)
  BY GraphAssumption
<1>3. pair.start \in NearCandidates(g, p, Radius) /\ pair.end \in NearCandidates(g, q, Radius)
  BY <1>1
<1>4. a \in g.edges /\ b \in g.edges
  BY <1>3, NearEdges
<1>5. from \in g.nodes /\ to \in g.nodes
  BY <1>2, <1>4, Validated, SourceIs
<1>6. pair.start.along \in Nat /\ pair.end.along \in Nat
  <2> HIDE DEF g
  <2> QED
    BY <1>2, <1>3, NearTyped
<1>7. Represented(ways, metric)
  BY DEF Faithful
<1>8. /\ \A e \in g.edges, node \in g.nodes :
              by[<<node, g.target[e]>>] <= by[<<node, EdgeSource(g, e)>>] + costs[e]
      /\ LeastCosts(ways, metric)[<<Last(g.line[a]), Head(g.line[b])>>]
            = by[<<g.target[a], EdgeSource(g, b)>>]
  <2> HIDE DEF ways
  <2> QED
    BY <1>4, <1>7 DEF Represented
<1>9. k = by[<<from, to>>]
  <2> HIDE DEF g, ways
  <2>1. k = LeastCosts(ways, metric)[<<Last(g.line[a]), Head(g.line[b])>>]
    BY <1>1 DEF Between
  <2> QED
    BY <1>8, <2>1
<1> HIDE DEF from, to, g
<1>10. by[<<from, to>>] \in 0..Infinite
  BY <1>2, <1>5, <1>8, ByEdgesExact
<1>11. k \in Nat
  BY <1>9, <1>10, InfiniteNat
<1> DEFINE E == g.edges
           x == UpTo(costs, g.distance, pair.start)
           y == UpTo(costs, g.distance, pair.end)
           z == From(costs, g.distance, pair.start)
           least == LeastOf(network, metric, pair)
<1>12. costs \in [E -> Nat] /\ g.distance \in [E -> Nat]
  BY <1>2, Validated DEF CostsOf
<1>13. x \in Int /\ y \in Int /\ z \in Int
  <2> HIDE DEF costs, E
  <2> QED
    BY <1>4, <1>6, <1>12, PartsInt DEF E
<1>14. least = IF Onwards(g, pair) THEN y - x ELSE z + k + y
  BY <1>1 DEF LeastOf
<1> HIDE DEF x, y, z, k, least
<1>15. least \in Int
  BY <1>11, <1>13, <1>14
<1> QED
  BY <1>15 DEF least

\* A transition and an emission are natural numbers.
LEMMA TransitionNat ==
  ASSUME Faithful, NEW network, NEW trace, NEW candidates,
         Trailed(network, trace, candidates), NEW t \in 2..Len(trace),
         NEW before \in candidates[t - 1], NEW after \in candidates[t]
  PROVE  Transition(network, trace, t, before, after) \in Nat
<1> DEFINE pair == [start |-> before, end |-> after]
           p == trace[t - 1]
           q == trace[t]
<1>0. PICK name \in DOMAIN Maps : network = Built(name, Csr(Maps[name]))
  BY DEF Trailed
<1>1. trace \in Traces
  BY DEF Trailed
<1>2. t \in 1..Len(trace) /\ t - 1 \in 1..Len(trace) /\ DOMAIN trace = 1..Len(trace)
  BY <1>1, TraceIs
<1>3. p \in Int \X Int /\ q \in Int \X Int
  BY <1>1, <1>2, TraceIs
<1>4. /\ before \in NearCandidates(network.graph, p, Radius)
      /\ after \in NearCandidates(network.graph, q, Radius)
  BY <1>2 DEF Trailed
<1>5. pair.start = before /\ pair.end = after
  OBVIOUS
<1>6. "distance" \in Metrics
  BY DEF Metrics
<1> DEFINE least == LeastOf(network, "distance", pair)
           apart == Apart(p, q)
<1> HIDE DEF pair, p, q
<1>7. least \in Int
  BY <1>0, <1>3, <1>4, <1>5, <1>6, MatchTyped
<1>8. apart \in Nat
  BY <1>3, Metric
<1>9. Transition(network, trace, t, before, after)
        = IF ~Connected(network, "distance", pair) THEN Infinite ELSE Abs(least - apart)
  BY DEF Transition, pair, p, q
<1> HIDE DEF least, apart
<1>10. Abs(least - apart) \in Nat
  BY <1>7, <1>8 DEF Abs
<1> QED
  BY <1>9, <1>10, InfiniteNat

\* What a candidate costs is a number.
LEMMA EmissionNat ==
  ASSUME NEW network, NEW trace, NEW candidates,
         Trailed(network, trace, candidates), NEW t \in 1..Len(trace), NEW c \in candidates[t]
  PROVE  Emission(c) \in Nat
<1>0. PICK name \in DOMAIN Maps : network = Built(name, Csr(Maps[name]))
  BY DEF Trailed
<1> DEFINE g == Csr(Maps[name])
           p == trace[t]
<1>1. trace \in Traces
  BY DEF Trailed
<1>2. network.graph = g
  BY <1>0 DEF Built
<1>3. Validate(g)
  BY <1>0, GraphAssumption
<1>4. p \in Int \X Int /\ t \in DOMAIN trace
  BY <1>1, TraceIs
<1>5. c \in NearCandidates(g, p, Radius)
  BY <1>2, <1>4 DEF Trailed
<1> HIDE DEF g, p
<1>6. c.snap \in Nat
  BY <1>3, <1>4, <1>5, NearTyped
<1> QED
  BY <1>6 DEF Emission

-----------------------------------------------------------------------------
(* The layers *)

\* The costs of the roads r up to the m-th one are those of F.
RunsUpTo(network, trace, r, m, F) ==
    \A t \in 1..m :
        F[t] = Emission(r[t])
                 + (IF t = 1 THEN 0 ELSE F[t - 1] + Transition(network, trace, t, r[t - 1], r[t]))

\* Members of the candidates, up to the m-th observation.
Picks(candidates, r, m) == \A t \in 1..m : r[t] \in candidates[t]

\* What the roads cost is what they cost up to the last one.
LEMMA UnlikelihoodIs ==
  ASSUME NEW network, NEW trace \in Traces, NEW r
  PROVE  \E F : /\ RunsUpTo(network, trace, r, Len(trace), F)
                /\ Unlikelihood(network, trace, r) = F[Len(trace)]
<1> DEFINE n == Len(trace)
           Follows(t, x) == Emission(r[t])
                 + (IF t = 1 THEN 0 ELSE x + Transition(network, trace, t, r[t - 1], r[t]))
           Rec(m, f) == f = [t \in 1..m |-> Follows(t, f[t - 1])]
           g == CHOOSE f : Rec(n, f)
           S == {m \in Nat : \E f : Rec(m, f)}
<1>1. n \in Nat /\ n >= 1 /\ DOMAIN trace = 1..n
  BY TraceIs
<1>2. Unlikelihood(network, trace, r) = g[n]
  BY <1>1 DEF Unlikelihood
<1>3. \A x, y : Follows(1, x) = Follows(1, y)
  OBVIOUS
<1>4. ASSUME Rec(n, g) PROVE RunsUpTo(network, trace, r, n, g)
  <2>1. ASSUME NEW t \in 1..n PROVE g[t] = Follows(t, g[t - 1])
    <3> HIDE DEF g, Follows
    <3> QED
      BY <1>4
  <2> HIDE DEF g
  <2> QED
    BY <2>1 DEF RunsUpTo
<1> HIDE DEF n, Follows
<1>5. 0 \in S
  <2> DEFINE f == [t \in 1..0 |-> 0]
  <2>1. f = [t \in 1..0 |-> Follows(t, f[t - 1])]
    OBVIOUS
  <2> HIDE DEF f
  <2> QED
    BY <2>1
<1>6. \A m \in Nat : m \in S => m + 1 \in S
  <2> TAKE m \in Nat
  <2> HAVE m \in S
  <2>1. PICK f : Rec(m, f)
    OBVIOUS
  <2> DEFINE h == [t \in 1..(m + 1) |-> Follows(t, f[t - 1])]
  <2>2. ASSUME NEW t \in 1..(m + 1) PROVE Follows(t, h[t - 1]) = Follows(t, f[t - 1])
    <3>1. CASE t = 1
      <4> HIDE DEF h
      <4> QED
        BY <1>3, <3>1
    <3>2. CASE t # 1
      <4>1. t - 1 \in 1..m /\ t - 1 \in 1..(m + 1)
        BY <3>2
      <4>2. f[t - 1] = Follows(t - 1, f[(t - 1) - 1])
        BY <2>1, <4>1
      <4>3. h[t - 1] = Follows(t - 1, f[(t - 1) - 1])
        BY <4>1
      <4> QED
        BY <4>2, <4>3
    <3> QED
      BY <3>1, <3>2
  <2>3. h = [t \in 1..(m + 1) |-> Follows(t, h[t - 1])]
    <3>1. h = [t \in 1..(m + 1) |-> Follows(t, f[t - 1])]
      OBVIOUS
    <3> HIDE DEF h
    <3> QED
      BY <2>2, <3>1
  <2>4. Rec(m + 1, h)
    <3> HIDE DEF h
    <3> QED
      BY <2>3
  <2> HIDE DEF h, Rec
  <2> QED
    BY <2>4
<1>7. Nat \subseteq S
  <2> HIDE DEF S
  <2> QED
    BY <1>5, <1>6, NaturalsReached
<1>8. Rec(n, g)
  <2>1. \E f : Rec(n, f)
    BY <1>1, <1>7
  <2> HIDE DEF Rec
  <2> QED
    BY <2>1
<1> QED
  BY <1>2, <1>4, <1>8 DEF n

\* Costs up to a road are natural numbers, and the same however they are had.
LEMMA RunsAgree ==
  ASSUME Faithful, NEW network, NEW trace, NEW candidates,
         Trailed(network, trace, candidates), NEW r, NEW m \in 1..Len(trace),
         Picks(candidates, r, m),
         NEW F, RunsUpTo(network, trace, r, m, F), NEW G, RunsUpTo(network, trace, r, m, G)
  PROVE  \A t \in 1..m : F[t] \in Nat /\ F[t] = G[t]
<1> DEFINE S == {k \in Nat : k + 1 <= m => F[k + 1] \in Nat /\ F[k + 1] = G[k + 1]}
           E(t) == Emission(r[t])
           T(t) == Transition(network, trace, t, r[t - 1], r[t])
<1>1. m \in Nat /\ m <= Len(trace) /\ Len(trace) \in Nat
  BY TraceIs DEF Trailed
<1>2. \A t \in 1..m : r[t] \in candidates[t]
  BY DEF Picks
<1>3. \A t \in 1..m : E(t) \in Nat
  <2> TAKE t \in 1..m
  <2>1. t \in 1..Len(trace)
    BY <1>1
  <2> QED
    BY <1>2, <2>1, EmissionNat
<1>4. \A t \in 2..m : T(t) \in Nat
  <2> TAKE t \in 2..m
  <2>1. t \in 2..Len(trace) /\ t \in 1..m /\ t - 1 \in 1..m
    BY <1>1
  <2> QED
    BY <1>2, <2>1, TransitionNat
<1>5. \A t \in 1..m : /\ F[t] = E(t) + (IF t = 1 THEN 0 ELSE F[t - 1] + T(t))
                      /\ G[t] = E(t) + (IF t = 1 THEN 0 ELSE G[t - 1] + T(t))
  BY DEF RunsUpTo
<1> HIDE DEF E, T
<1>6. 0 \in S
  <2>1. 1 \in 1..m
    BY <1>1
  <2> QED
    BY <1>3, <1>5, <2>1
<1>7. \A k \in Nat : k \in S => k + 1 \in S
  <2> TAKE k \in Nat
  <2> HAVE k \in S
  <2>1. CASE (k + 1) + 1 <= m
    <3> DEFINE x == F[k + 1]
               t == k + 2
    <3>1. /\ t \in 2..m /\ t \in 1..m /\ t # 1 /\ t - 1 = k + 1 /\ (k + 1) + 1 = t
          /\ k + 1 <= m
      BY <1>1, <2>1
    <3>2. x \in Nat /\ x = G[k + 1]
      BY <3>1
    <3>3. F[t] = E(t) + (x + T(t)) /\ G[t] = E(t) + (x + T(t))
      BY <1>5, <3>1, <3>2
    <3>4. E(t) \in Nat /\ T(t) \in Nat
      BY <1>3, <1>4, <3>1
    <3> HIDE DEF t, x
    <3>5. F[t] \in Nat /\ F[t] = G[t]
      BY <3>2, <3>3, <3>4
    <3> QED
      BY <3>1, <3>5
  <2>2. CASE ~((k + 1) + 1 <= m)
    BY <2>2
  <2> QED
    BY <2>1, <2>2
<1>8. Nat \subseteq S
  <2> HIDE DEF S
  <2> QED
    BY <1>6, <1>7, NaturalsReached
<1>9. ASSUME NEW t \in 1..m PROVE F[t] \in Nat /\ F[t] = G[t]
  <2>1. t - 1 \in Nat /\ (t - 1) + 1 = t /\ t <= m
    BY <1>1
  <2>2. t - 1 \in S
    BY <1>8, <2>1
  <2> QED
    BY <2>1, <2>2
<1> QED
  BY <1>9

-----------------------------------------------------------------------------
(* Each layer has the likeliest roads up to its candidates *)

\* The roads r to a candidate c cost what F says.
RoadsTo(network, trace, candidates, t, c, r, F) ==
    /\ Picks(candidates, r, t) /\ r[t] = c
    /\ RunsUpTo(network, trace, r, t, F)

\* They need no transition that was passed over, and the last is not still to try.
Usable(skipped, left, t, c, r) ==
    ~Skips(skipped, r, t) /\ [start |-> r[t - 1], end |-> c] \notin left

\* What the layer says of a candidate is that it is reached at this cost, unless
\* it is infinite, and at no lower one.
Likeliest(network, trace, candidates, skipped, left, t, c, entry) ==
    /\ entry.cost \in Nat
    /\ entry.cost < Infinite =>
           /\ entry.roads \in Seq(UNION Range(candidates)) /\ Len(entry.roads) = t
           /\ Usable(skipped, left, t, c, entry.roads)
           /\ \E F : /\ RoadsTo(network, trace, candidates, t, c, entry.roads, F)
                     /\ F[t] = entry.cost
    /\ \A r, F : /\ RoadsTo(network, trace, candidates, t, c, r, F)
                 /\ Usable(skipped, left, t, c, r)
                 => entry.cost <= F[t] \/ Infinite <= F[t]

LayerSound(network, trace, candidates, skipped, left, t, layer) ==
    /\ DOMAIN layer = candidates[t]
    /\ \A c \in candidates[t] :
          Likeliest(network, trace, candidates, skipped, left, t, c, layer[c])

\* The first layer is sound.
LEMMA FirstSound ==
  ASSUME Faithful, NEW network, NEW trace, NEW candidates,
         Trailed(network, trace, candidates)
  PROVE  LayerSound(network, trace, candidates, {}, {}, 1, FirstLayer(candidates[1]))
<1>1. /\ trace \in Traces /\ Len(trace) \in Nat /\ 1 \in 1..Len(trace)
      /\ DOMAIN candidates = 1..Len(trace)
  BY TraceIs DEF Trailed
<1>2. ASSUME NEW c \in candidates[1]
      PROVE  Likeliest(network, trace, candidates, {}, {}, 1, c,
                       [cost |-> Emission(c), roads |-> <<c>>])
  <2> DEFINE e == Emission(c)
             r == <<c>>
             F == [t \in 1..1 |-> e]
             entry == [cost |-> e, roads |-> r]
  <2>1. e \in Nat
    BY <1>1, <1>2, EmissionNat
  <2>2. r[1] = c /\ Len(r) = 1 /\ entry.cost = e /\ entry.roads = r
    OBVIOUS
  <2>3. r \in Seq(UNION Range(candidates))
    <3> DEFINE U == UNION Range(candidates)
    <3>1. c \in U
      BY <1>1, <1>2 DEF Range
    <3> HIDE DEF U
    <3>2. <<c>> \in Seq(U)
      BY <3>1
    <3> QED
      BY <3>2 DEF U
  <2>4. RoadsTo(network, trace, candidates, 1, c, r, F)
    <3>1. Picks(candidates, r, 1)
      BY <1>2, <2>2 DEF Picks
    <3>2. F[1] = Emission(r[1])
      OBVIOUS
    <3> HIDE DEF F, e, r
    <3>3. Emission(r[1]) + 0 = Emission(r[1])
      BY <2>1, <2>2 DEF e
    <3>4. RunsUpTo(network, trace, r, 1, F)
      BY <3>2, <3>3 DEF RunsUpTo
    <3> QED
      BY <2>2, <3>1, <3>4 DEF RoadsTo
  <2>5. F[1] = e
    OBVIOUS
  <2>6. ASSUME NEW q, NEW G, RoadsTo(network, trace, candidates, 1, c, q, G) PROVE e <= G[1]
    <3>1. q[1] = c /\ G[1] = Emission(q[1]) + 0
      BY <2>6 DEF RoadsTo, RunsUpTo
    <3> HIDE DEF e
    <3>2. G[1] = e + 0
      BY <3>1 DEF e
    <3> QED
      BY <2>1, <3>2
  <2>7. Usable({}, {}, 1, c, r)
    BY DEF Usable, Skips
  <2> HIDE DEF e, r, F, entry
  <2>8. Likeliest(network, trace, candidates, {}, {}, 1, c, entry)
    BY <2>1, <2>2, <2>3, <2>4, <2>5, <2>6, <2>7 DEF Likeliest
  <2> QED
    BY <2>8 DEF entry, e, r
<1> QED
  BY <1>2 DEF LayerSound, FirstLayer

\* Whether the transitions of roads were passed over, by one observation more.
LEMMA SkipsGrow ==
  ASSUME NEW skipped, NEW r, NEW t \in Nat, t >= 2
  PROVE  Skips(skipped, r, t)
           <=> \/ Skips(skipped, r, t - 1)
               \/ <<t, [start |-> r[t - 1], end |-> r[t]]>> \in skipped
<1> DEFINE S(s) == <<s, [start |-> r[s - 1], end |-> r[s]]>> \in skipped
<1>1. Skips(skipped, r, t) <=> \E s \in 2..t : S(s)
  BY DEF Skips
<1>2. Skips(skipped, r, t - 1) <=> \E s \in 2..(t - 1) : S(s)
  BY DEF Skips
<1>3. 2..t = 2..(t - 1) \cup {t}
  OBVIOUS
<1> HIDE DEF S
<1>4. (\E s \in 2..t : S(s)) <=> (\E s \in 2..(t - 1) : S(s)) \/ S(t)
  BY <1>3
<1> QED
  BY <1>1, <1>2, <1>4 DEF S

\* Or of shorter ones.
LEMMA SkipsShorter ==
  ASSUME NEW skipped, NEW r, NEW n \in Nat, NEW m \in Nat, m <= n, Skips(skipped, r, m)
  PROVE  Skips(skipped, r, n)
<1>1. 2..m \subseteq 2..n
  OBVIOUS
<1> QED
  BY <1>1 DEF Skips

\* Or of the same ones.
LEMMA SkipsSame ==
  ASSUME NEW skipped, NEW r, NEW q, NEW n \in Nat, \A s \in 1..n : q[s] = r[s]
  PROVE  Skips(skipped, q, n) <=> Skips(skipped, r, n)
<1>1. \A s \in 2..n : s \in 1..n /\ s - 1 \in 1..n
  OBVIOUS
<1>2. \A s \in 2..n : q[s] = r[s] /\ q[s - 1] = r[s - 1]
  BY <1>1
<1> QED
  BY <1>2 DEF Skips

\* A transition of a later observation is none of theirs.
LEMMA SkipsLater ==
  ASSUME NEW skipped, NEW r, NEW n \in Nat, NEW t \in Nat, n < t, NEW pair
  PROVE  Skips(skipped \cup {<<t, pair>>}, r, n) <=> Skips(skipped, r, n)
<1>1. \A s \in 2..n : s # t
  OBVIOUS
<1>2. \A s \in 2..n : \A p : <<s, p>> # <<t, pair>>
  BY <1>1
<1> QED
  BY <1>2 DEF Skips

\* They do when it is the last of theirs.
LEMMA SkipsMore ==
  ASSUME NEW skipped, NEW r, NEW t \in Nat, t >= 2, NEW pair
  PROVE  Skips(skipped \cup {<<t, pair>>}, r, t)
           <=> Skips(skipped, r, t) \/ [start |-> r[t - 1], end |-> r[t]] = pair
<1> DEFINE last == [start |-> r[t - 1], end |-> r[t]]
           now == skipped \cup {<<t, pair>>}
<1>1. Skips(now, r, t - 1) <=> Skips(skipped, r, t - 1)
  <2>1. t - 1 \in Nat /\ t - 1 < t
    OBVIOUS
  <2> QED
    BY <2>1, SkipsLater
<1>2. /\ Skips(now, r, t) <=> Skips(now, r, t - 1) \/ <<t, last>> \in now
      /\ Skips(skipped, r, t) <=> Skips(skipped, r, t - 1) \/ <<t, last>> \in skipped
  BY SkipsGrow
<1> HIDE DEF last
<1>3. <<t, last>> \in now <=> <<t, last>> \in skipped \/ last = pair
  OBVIOUS
<1> QED
  BY <1>1, <1>2, <1>3 DEF last

\* So a layer stays sound when a transition after it is passed over.
LEMMA LayerStays ==
  ASSUME NEW network, NEW trace, NEW candidates, NEW skipped, NEW n \in Nat, NEW layer,
         LayerSound(network, trace, candidates, skipped, {}, n, layer),
         NEW t \in Nat, n < t, NEW pair
  PROVE  LayerSound(network, trace, candidates, skipped \cup {<<t, pair>>}, {}, n, layer)
<1>1. \A c, r : Usable(skipped \cup {<<t, pair>>}, {}, n, c, r) <=> Usable(skipped, {}, n, c, r)
  BY SkipsLater DEF Usable
<1> QED
  BY <1>1 DEF LayerSound, Likeliest

\* What roads cost grows with every observation.
LEMMA CostsGrow ==
  ASSUME Faithful, NEW network, NEW trace, NEW candidates,
         Trailed(network, trace, candidates), NEW r, NEW n \in 1..Len(trace),
         Picks(candidates, r, n), NEW F, RunsUpTo(network, trace, r, n, F), NEW m \in 1..n
  PROVE  F[m] \in Nat /\ F[n] \in Nat /\ F[m] <= F[n]
<1> DEFINE S == {k \in Nat : m + k <= n => F[m] <= F[m + k]}
<1>1. n \in Nat /\ n <= Len(trace) /\ Len(trace) \in Nat /\ m \in Nat /\ m >= 1 /\ m <= n
  BY TraceIs DEF Trailed
<1>2. \A t \in 1..n : F[t] \in Nat
  BY RunsAgree
<1>3. ASSUME NEW t \in 2..n PROVE F[t - 1] <= F[t]
  <2> DEFINE T == Transition(network, trace, t, r[t - 1], r[t])
             E == Emission(r[t])
             x == F[t - 1]
  <2>1. t \in 1..n /\ t - 1 \in 1..n /\ t # 1 /\ t \in 1..Len(trace) /\ t \in 2..Len(trace)
    BY <1>1
  <2>2. r[t] \in candidates[t] /\ r[t - 1] \in candidates[t - 1]
    BY <2>1 DEF Picks
  <2>3. T \in Nat /\ E \in Nat /\ x \in Nat
    BY <1>2, <2>1, <2>2, TransitionNat, EmissionNat
  <2>4. F[t] = E + (x + T)
    BY <2>1 DEF RunsUpTo
  <2> HIDE DEF T, E, x
  <2>5. x <= F[t]
    BY <2>3, <2>4
  <2> QED
    BY <2>5 DEF x
<1>4. 0 \in S
  <2>1. m + 0 = m /\ F[m] \in Nat
    BY <1>1, <1>2
  <2> QED
    BY <2>1
<1>5. \A k \in Nat : k \in S => k + 1 \in S
  <2> TAKE k \in Nat
  <2> HAVE k \in S
  <2>1. CASE m + (k + 1) <= n
    <3> DEFINE t == m + (k + 1)
    <3>1. t \in 2..n /\ t - 1 = m + k /\ m + k <= n /\ t \in 1..n /\ m + k \in 1..n /\ m \in 1..n
      BY <1>1, <2>1
    <3>2. F[m] <= F[m + k] /\ F[m + k] <= F[t]
      BY <1>3, <3>1
    <3>3. F[m] \in Nat /\ F[m + k] \in Nat /\ F[t] \in Nat
      BY <1>2, <3>1
    <3> HIDE DEF t
    <3>4. F[m] <= F[t]
      BY <3>2, <3>3
    <3> QED
      BY <3>4 DEF t
  <2>2. CASE ~(m + (k + 1) <= n)
    BY <2>2
  <2> QED
    BY <2>1, <2>2
<1>6. Nat \subseteq S
  <2> HIDE DEF S
  <2> QED
    BY <1>4, <1>5, NaturalsReached
<1>7. n - m \in S /\ m + (n - m) = n
  <2> HIDE DEF S
  <2>1. n - m \in Nat /\ m + (n - m) = n
    BY <1>1
  <2> QED
    BY <1>6, <2>1
<1>8. F[m] <= F[n]
  BY <1>1, <1>7
<1> QED
  BY <1>1, <1>2, <1>8

\* Roads that come to c from `before`, pass over nothing, and cost x.
Continued(network, trace, candidates, skipped, t, before, c, r, x) ==
    /\ r \in Seq(UNION Range(candidates)) /\ Len(r) = t
    /\ r[t - 1] = before /\ ~Skips(skipped, r, t)
    /\ \E F : RoadsTo(network, trace, candidates, t, c, r, F) /\ F[t] = x

\* Roads that are sound up to an observation are sound with one more.
LEMMA RoadsLonger ==
  ASSUME Faithful, NEW network, NEW trace, NEW candidates,
         Trailed(network, trace, candidates), NEW t \in 2..Len(trace),
         NEW skipped, NEW before \in candidates[t - 1], NEW entry,
         Likeliest(network, trace, candidates, skipped, {}, t - 1, before, entry),
         entry.cost < Infinite, NEW c \in candidates[t],
         <<t, [start |-> before, end |-> c]>> \notin skipped,
         NEW longer, longer = Append(entry.roads, c),
         NEW x, x = entry.cost + Transition(network, trace, t, before, c) + Emission(c)
  PROVE  Continued(network, trace, candidates, skipped, t, before, c, longer, x)
<1> DEFINE U == UNION Range(candidates)
           r == entry.roads
           k == entry.cost
           T == Transition(network, trace, t, before, c)
           e == Emission(c)
<1>0. longer = Append(r, c) /\ x = k + T + e
  OBVIOUS
<1>1. /\ trace \in Traces /\ Len(trace) \in Nat /\ t \in 1..Len(trace)
      /\ t - 1 \in 1..Len(trace) /\ t - 1 \in Nat /\ t \in Nat /\ t >= 2
      /\ DOMAIN candidates = 1..Len(trace)
  BY TraceIs DEF Trailed
<1>2. k \in Nat /\ T \in Nat /\ e \in Nat
  BY <1>1, TransitionNat, EmissionNat DEF Likeliest
<1>3. /\ r \in Seq(U) /\ Len(r) = t - 1 /\ ~Skips(skipped, r, t - 1)
      /\ \E F : RoadsTo(network, trace, candidates, t - 1, before, r, F) /\ F[t - 1] = k
  BY DEF Likeliest, Usable
<1>4. PICK F : RoadsTo(network, trace, candidates, t - 1, before, r, F) /\ F[t - 1] = k
  BY <1>3
<1>5. c \in U
  BY <1>1 DEF Range
<1> HIDE DEF r, U, T, e, k
<1>6. /\ longer \in Seq(U) /\ Len(longer) = t /\ longer[t] = c
      /\ \A s \in 1..(t - 1) : longer[s] = r[s]
  <2>1. longer \in Seq(U) /\ Len(longer) = Len(r) + 1
    BY <1>0, <1>3, <1>5
  <2>2. \A s \in 1..Len(longer) : longer[s] = IF s <= Len(r) THEN r[s] ELSE c
    BY <1>0, <1>3, <1>5
  <2>3. Len(longer) = t
    BY <1>1, <1>3, <2>1
  <2>4. t \in 1..t /\ ~(t <= t - 1) /\ \A s \in 1..(t - 1) : s \in 1..t /\ s <= t - 1
    BY <1>1
  <2> QED
    BY <1>3, <2>1, <2>2, <2>3, <2>4
<1>7. /\ Picks(candidates, r, t - 1) /\ r[t - 1] = before
      /\ RunsUpTo(network, trace, r, t - 1, F)
  BY <1>4 DEF RoadsTo
<1>8. longer[t - 1] = before
  <2>1. t - 1 \in 1..(t - 1)
    BY <1>1
  <2> QED
    BY <1>6, <1>7, <2>1
<1>9. ~Skips(skipped, longer, t)
  <2>1. ~Skips(skipped, longer, t - 1)
    BY <1>1, <1>3, <1>6, SkipsSame
  <2> QED
    BY <1>1, <1>6, <1>8, <2>1, SkipsGrow
<1> DEFINE G == [s \in 1..t |-> IF s = t THEN x ELSE F[s]]
<1>10. G[t] = x /\ \A s \in 1..(t - 1) : G[s] = F[s]
  <2>1. t \in 1..t /\ \A s \in 1..(t - 1) : s \in 1..t /\ s # t
    BY <1>1
  <2> QED
    BY <2>1
<1> HIDE DEF G
<1>11. Picks(candidates, longer, t)
  <2> SUFFICES ASSUME NEW s \in 1..t PROVE longer[s] \in candidates[s]
    BY DEF Picks
  <2>1. CASE s = t
    BY <1>6, <2>1
  <2>2. CASE s # t
    <3>1. s \in 1..(t - 1)
      BY <1>1, <2>2
    <3> QED
      BY <1>6, <1>7, <3>1 DEF Picks
  <2> QED
    BY <2>1, <2>2
<1>12. RunsUpTo(network, trace, longer, t, G)
  <2> SUFFICES ASSUME NEW s \in 1..t
               PROVE  G[s] = Emission(longer[s])
                         + (IF s = 1 THEN 0
                            ELSE G[s - 1] + Transition(network, trace, s, longer[s - 1], longer[s]))
    BY DEF RunsUpTo
  <2>1. CASE s = t
    <3>1. s # 1 /\ s - 1 \in 1..(t - 1)
      BY <1>1, <2>1
    <3>2. G[s - 1] = k /\ longer[s - 1] = before /\ longer[s] = c
      BY <1>4, <1>6, <1>8, <1>10, <2>1, <3>1
    <3>3. G[s] = (k + T) + e
      BY <1>0, <1>10, <2>1
    <3>4. (k + T) + e = e + (k + T)
      BY <1>2
    <3>5. Transition(network, trace, s, before, c) = T
      BY <2>1 DEF T
    <3> QED
      BY <3>1, <3>2, <3>3, <3>4, <3>5 DEF e
  <2>2. CASE s # t
    <3>1. s \in 1..(t - 1) /\ (s # 1 => s - 1 \in 1..(t - 1))
      BY <1>1, <2>2
    <3>2. G[s] = F[s] /\ longer[s] = r[s]
          /\ (s # 1 => G[s - 1] = F[s - 1] /\ longer[s - 1] = r[s - 1])
      BY <1>6, <1>10, <3>1
    <3>3. F[s] = Emission(r[s])
             + (IF s = 1 THEN 0 ELSE F[s - 1] + Transition(network, trace, s, r[s - 1], r[s]))
      BY <1>7, <3>1 DEF RunsUpTo
    <3> QED
      BY <3>2, <3>3
  <2> QED
    BY <2>1, <2>2
<1>13. RoadsTo(network, trace, candidates, t, c, longer, G)
  BY <1>6, <1>11, <1>12 DEF RoadsTo
<1> QED
  BY <1>6, <1>8, <1>9, <1>10, <1>13 DEF U, Continued

\* Roads to a candidate that end with a transition cost no less than the layer says
\* of where it begins, with the transition.
LEMMA RoadsCost ==
  ASSUME Faithful, NEW network, NEW trace, NEW candidates,
         Trailed(network, trace, candidates), NEW t \in 2..Len(trace),
         NEW skipped, NEW layer, LayerSound(network, trace, candidates, skipped, {}, t - 1, layer),
         NEW c, NEW r, NEW F, RoadsTo(network, trace, candidates, t, c, r, F),
         ~Skips(skipped, r, t)
  PROVE  LET before == r[t - 1]
             k == layer[before].cost
             T == Transition(network, trace, t, before, c)
         IN  /\ before \in candidates[t - 1] /\ c \in candidates[t]
             /\ k \in Nat /\ T \in Nat /\ Emission(c) \in Nat /\ F[t] \in Nat
             /\ T <= F[t]
             /\ k + T + Emission(c) <= F[t] \/ Infinite <= F[t]
             /\ k >= Infinite => Infinite <= F[t]
<1> DEFINE before == r[t - 1]
           k == layer[before].cost
           T == Transition(network, trace, t, before, c)
           e == Emission(c)
           u == F[t - 1]
           v == F[t]
<1>1. /\ trace \in Traces /\ Len(trace) \in Nat /\ t \in 1..Len(trace) /\ t >= 2
      /\ t - 1 \in 1..Len(trace) /\ t - 1 \in Nat /\ t \in Nat
      /\ t - 1 \in 1..t /\ t \in 1..t /\ t # 1 /\ \A s \in 1..(t - 1) : s \in 1..t
  BY TraceIs DEF Trailed
<1>2. Picks(candidates, r, t) /\ r[t] = c /\ RunsUpTo(network, trace, r, t, F)
  BY DEF RoadsTo
<1>3. before \in candidates[t - 1] /\ c \in candidates[t]
  BY <1>1, <1>2 DEF Picks
<1>4. v = e + (u + T)
  BY <1>1, <1>2 DEF RunsUpTo
<1>5. T \in Nat /\ e \in Nat
  BY <1>1, <1>3, TransitionNat, EmissionNat
<1>6. u \in Nat
  BY <1>1, <1>2, RunsAgree
<1>7. Likeliest(network, trace, candidates, skipped, {}, t - 1, before, layer[before])
  BY <1>3 DEF LayerSound
<1>8. k \in Nat
  BY <1>7 DEF Likeliest
<1>9. RoadsTo(network, trace, candidates, t - 1, before, r, F)
  BY <1>1, <1>2 DEF RoadsTo, Picks, RunsUpTo
<1>10. Usable(skipped, {}, t - 1, before, r)
  BY <1>1, SkipsGrow DEF Usable
<1>11. k <= u \/ Infinite <= u
  BY <1>7, <1>9, <1>10 DEF Likeliest
<1> HIDE DEF before, k, T, e, u, v
<1>12. v \in Nat /\ T <= v /\ (k + T + e <= v \/ Infinite <= v) /\ (k >= Infinite => Infinite <= v)
  BY <1>4, <1>5, <1>6, <1>8, <1>11, InfiniteNat
<1> QED
  BY <1>3, <1>5, <1>8, <1>12 DEF before, k, T, e, v

\* A transition that can be driven is tried: what is recorded is the better of it
\* and of what was.
LEMMA DrivenScored ==
  ASSUME Faithful, NEW network, NEW trace, NEW candidates,
         Trailed(network, trace, candidates), NEW t \in 2..Len(trace),
         NEW skipped, NEW layer, LayerSound(network, trace, candidates, skipped, {}, t - 1, layer),
         NEW left, NEW next, LayerSound(network, trace, candidates, skipped, left, t, next),
         NEW before \in candidates[t - 1], layer[before].cost < Infinite,
         NEW c \in candidates[t], [start |-> before, end |-> c] \in left,
         <<t, [start |-> before, end |-> c]>> \notin skipped,
         NEW longer, longer = Append(layer[before].roads, c),
         NEW cost, cost = layer[before].cost + Transition(network, trace, t, before, c) + Emission(c),
         NEW entry, entry = IF cost < next[c].cost THEN [cost |-> cost, roads |-> longer]
                                                   ELSE next[c]
  PROVE  Likeliest(network, trace, candidates, skipped, left \ {[start |-> before, end |-> c]},
                   t, c, entry)
<1> DEFINE pair == [start |-> before, end |-> c]
           rest == left \ {pair}
           old == next[c].cost
           now == entry.cost
           U == UNION Range(candidates)
<1>1. Likeliest(network, trace, candidates, skipped, {}, t - 1, before, layer[before])
  BY DEF LayerSound
<1>2. Likeliest(network, trace, candidates, skipped, left, t, c, next[c])
  BY DEF LayerSound
<1>3. /\ longer \in Seq(U) /\ Len(longer) = t
      /\ longer[t - 1] = before /\ ~Skips(skipped, longer, t)
      /\ \E F : /\ RoadsTo(network, trace, candidates, t, c, longer, F)
                /\ F[t] = cost
  <2>1. Continued(network, trace, candidates, skipped, t, before, c, longer, cost)
    BY <1>1, RoadsLonger
  <2> QED
    BY <2>1 DEF Continued, U
<1>4. cost \in Nat
  BY <1>3, RoadsCost
<1>5. old \in Nat
  BY <1>2 DEF Likeliest
<1>6. entry = IF cost < old THEN [cost |-> cost, roads |-> longer] ELSE next[c]
  OBVIOUS
<1> HIDE DEF old, U
<1>7. now \in Nat /\ now <= cost /\ now <= old /\ (~(cost < old) => entry = next[c])
      /\ (cost < old => now = cost /\ entry.roads = longer)
  <2>1. CASE cost < old
    <3>1. entry = [cost |-> cost, roads |-> longer]
      BY <1>6, <2>1
    <3>2. now = cost /\ entry.roads = longer
      BY <3>1
    <3> HIDE DEF now
    <3> QED
      BY <1>4, <1>5, <2>1, <3>2
  <2>2. CASE ~(cost < old)
    <3>1. entry = next[c]
      BY <1>6, <2>2
    <3>2. now = old
      BY <3>1 DEF old
    <3> HIDE DEF now
    <3> QED
      BY <1>4, <1>5, <2>2, <3>1, <3>2
  <2> QED
    BY <2>1, <2>2
<1>8. ASSUME now < Infinite
      PROVE  /\ entry.roads \in Seq(U) /\ Len(entry.roads) = t
             /\ Usable(skipped, rest, t, c, entry.roads)
             /\ \E F : /\ RoadsTo(network, trace, candidates, t, c, entry.roads, F)
                       /\ F[t] = now
  <2>1. CASE cost < old
    <3>1. Usable(skipped, rest, t, c, longer)
      BY <1>3 DEF Usable
    <3> QED
      BY <1>3, <1>7, <2>1, <3>1
  <2>2. CASE ~(cost < old)
    <3>1. entry = next[c]
      BY <1>7, <2>2
    <3>2. /\ entry.roads \in Seq(U) /\ Len(entry.roads) = t
          /\ Usable(skipped, left, t, c, entry.roads)
          /\ \E F : RoadsTo(network, trace, candidates, t, c, entry.roads, F) /\ F[t] = now
      BY <1>2, <1>8, <3>1 DEF Likeliest, U
    <3>3. Usable(skipped, rest, t, c, entry.roads)
      BY <3>2 DEF Usable
    <3> QED
      BY <3>2, <3>3
  <2> QED
    BY <2>1, <2>2
<1>9. ASSUME NEW r, NEW F, RoadsTo(network, trace, candidates, t, c, r, F),
             Usable(skipped, rest, t, c, r)
      PROVE  now <= F[t] \/ Infinite <= F[t]
  <2> DEFINE v == F[t]
  <2>1. v \in Nat /\ (r[t - 1] = before => cost <= v \/ Infinite <= v)
    BY <1>9, RoadsCost DEF Usable
  <2>2. CASE r[t - 1] = before
    <3> HIDE DEF now, v
    <3>1. now <= v \/ Infinite <= v
      BY <1>4, <1>7, <2>1, <2>2, InfiniteNat
    <3> QED
      BY <3>1 DEF now, v
  <2>3. CASE r[t - 1] # before
    <3>1. [start |-> r[t - 1], end |-> c] # pair
      BY <2>3
    <3>2. Usable(skipped, left, t, c, r)
      BY <1>9, <3>1 DEF Usable
    <3>3. old <= v \/ Infinite <= v
      BY <1>2, <1>9, <3>2 DEF Likeliest, old
    <3> HIDE DEF now, v
    <3>4. now <= v \/ Infinite <= v
      BY <1>5, <1>7, <2>1, <3>3, InfiniteNat
    <3> QED
      BY <3>4 DEF now, v
  <2> QED
    BY <2>2, <2>3
<1> HIDE DEF pair, rest
<1>10. Likeliest(network, trace, candidates, skipped, rest, t, c, entry)
  BY <1>7, <1>8, <1>9 DEF Likeliest, U
<1> QED
  BY <1>10 DEF rest, pair

\* A transition that cannot be driven, or was passed over, leaves what was recorded.
LEMMA NotDrivenScored ==
  ASSUME Faithful, NEW network, NEW trace, NEW candidates,
         Trailed(network, trace, candidates), NEW t \in 2..Len(trace),
         NEW skipped, NEW layer, LayerSound(network, trace, candidates, skipped, {}, t - 1, layer),
         NEW left, NEW next, LayerSound(network, trace, candidates, skipped, left, t, next),
         NEW before, NEW c \in candidates[t], [start |-> before, end |-> c] \in left,
         NEW now, \/ now = skipped /\ Transition(network, trace, t, before, c) >= Infinite
                  \/ now = skipped \cup {<<t, [start |-> before, end |-> c]>>}
  PROVE  Likeliest(network, trace, candidates, now, left \ {[start |-> before, end |-> c]},
                   t, c, next[c])
<1> DEFINE pair == [start |-> before, end |-> c]
           rest == left \ {pair}
           T == Transition(network, trace, t, before, c)
<1>1. Likeliest(network, trace, candidates, skipped, left, t, c, next[c])
  BY DEF LayerSound
<1>2. t \in Nat /\ t >= 2 /\ t \in 1..t
  BY TraceIs DEF Trailed
<1>3. ASSUME NEW r, r[t] = c
      PROVE  Skips(now, r, t) <=> \/ Skips(skipped, r, t)
                                  \/ now # skipped /\ r[t - 1] = before
  <2>1. CASE now = skipped
    BY <2>1
  <2>2. CASE now # skipped
    <3>1. now = skipped \cup {<<t, pair>>}
      BY <2>2
    <3>2. [start |-> r[t - 1], end |-> r[t]] = pair <=> r[t - 1] = before
      BY <1>3
    <3> HIDE DEF pair
    <3> QED
      BY <1>2, <2>2, <3>1, <3>2, SkipsMore
  <2> QED
    BY <2>1, <2>2
<1>4. next[c].cost \in Nat
  BY <1>1 DEF Likeliest
<1>5. ASSUME next[c].cost < Infinite
      PROVE  /\ next[c].roads \in Seq(UNION Range(candidates)) /\ Len(next[c].roads) = t
             /\ Usable(now, rest, t, c, next[c].roads)
             /\ \E F : /\ RoadsTo(network, trace, candidates, t, c, next[c].roads, F)
                       /\ F[t] = next[c].cost
  <2> DEFINE r == next[c].roads
  <2>1. /\ r \in Seq(UNION Range(candidates)) /\ Len(r) = t
        /\ Usable(skipped, left, t, c, r)
        /\ \E F : RoadsTo(network, trace, candidates, t, c, r, F) /\ F[t] = next[c].cost
    BY <1>1, <1>5 DEF Likeliest
  <2>2. r[t] = c
    BY <2>1 DEF RoadsTo
  <2> HIDE DEF r
  <2>3. r[t - 1] # before
    BY <2>1 DEF Usable
  <2>4. ~Skips(now, r, t)
    BY <1>3, <2>1, <2>2, <2>3 DEF Usable
  <2>5. Usable(now, rest, t, c, r)
    BY <2>1, <2>4 DEF Usable
  <2> QED
    BY <2>1, <2>5 DEF r
<1>6. ASSUME NEW r, NEW F, RoadsTo(network, trace, candidates, t, c, r, F),
             Usable(now, rest, t, c, r)
      PROVE  next[c].cost <= F[t] \/ Infinite <= F[t]
  <2>1. ~Skips(skipped, r, t) /\ r[t] = c /\ (r[t - 1] = before => now = skipped)
    BY <1>3, <1>6 DEF Usable, RoadsTo
  <2>2. CASE r[t - 1] = before
    <3> DEFINE v == F[t]
    <3>1. T >= Infinite
      <4>1. now = skipped
        BY <2>1, <2>2
      <4>2. now # skipped \cup {<<t, pair>>}
        <5>1. Skips(skipped \cup {<<t, pair>>}, r, t)
          BY <1>2, <2>1, <2>2, SkipsMore
        <5> HIDE DEF pair
        <5> QED
          BY <2>1, <4>1, <5>1
      <4> QED
        BY <4>2
    <3>2. T \in Nat /\ v \in Nat /\ T <= v
      BY <1>6, <2>1, <2>2, RoadsCost
    <3> HIDE DEF T, v
    <3>3. Infinite <= v
      BY <3>1, <3>2, InfiniteNat
    <3> QED
      BY <3>3 DEF v
  <2>3. CASE r[t - 1] # before
    <3>1. [start |-> r[t - 1], end |-> c] # pair
      BY <2>3
    <3>2. Usable(skipped, left, t, c, r)
      BY <1>6, <2>1, <3>1 DEF Usable
    <3> QED
      BY <1>1, <1>6, <3>2 DEF Likeliest
  <2> QED
    BY <2>2, <2>3
<1> HIDE DEF pair, rest
<1>7. Likeliest(network, trace, candidates, now, rest, t, c, next[c])
  BY <1>4, <1>5, <1>6 DEF Likeliest
<1> QED
  BY <1>7 DEF rest, pair

\* Nor does it matter to the other candidates.
LEMMA OthersScored ==
  ASSUME NEW network, NEW trace, NEW candidates, NEW t \in Nat, t >= 2,
         NEW skipped, NEW left, NEW d, NEW entry,
         Likeliest(network, trace, candidates, skipped, left, t, d, entry),
         NEW pair, pair.end # d, NEW now, now = skipped \/ now = skipped \cup {<<t, pair>>}
  PROVE  Likeliest(network, trace, candidates, now, left \ {pair}, t, d, entry)
<1>1. ASSUME NEW r, r[t] = d
      PROVE  Usable(now, left \ {pair}, t, d, r) <=> Usable(skipped, left, t, d, r)
  <2> DEFINE last == [start |-> r[t - 1], end |-> d]
  <2>1. last # pair
    BY last.end = d
  <2>2. last \in left \ {pair} <=> last \in left
    BY <2>1
  <2>3. Skips(now, r, t) <=> Skips(skipped, r, t)
    <3>1. CASE now = skipped
      BY <3>1
    <3>2. CASE now = skipped \cup {<<t, pair>>}
      BY <1>1, <2>1, <3>2, SkipsMore
    <3> QED
      BY <3>1, <3>2
  <2> HIDE DEF last
  <2> QED
    BY <2>2, <2>3 DEF Usable, last
<1>2. \A r, F : RoadsTo(network, trace, candidates, t, d, r, F) => r[t] = d
  BY DEF RoadsTo
<1> QED
  BY <1>1, <1>2 DEF Likeliest

\* Before the first transition of an observation nothing is reached.
LEMMA BlankSound ==
  ASSUME Faithful, NEW network, NEW trace, NEW candidates,
         Trailed(network, trace, candidates), NEW t \in 2..Len(trace),
         NEW skipped, NEW layer, LayerSound(network, trace, candidates, skipped, {}, t - 1, layer)
  PROVE  LET reached == {c \in DOMAIN layer : layer[c].cost < Infinite}
         IN  LayerSound(network, trace, candidates, skipped,
                        [start : reached, end : candidates[t]], t,
                        [c \in candidates[t] |-> Unreached])
<1> DEFINE reached == {c \in DOMAIN layer : layer[c].cost < Infinite}
           left == [start : reached, end : candidates[t]]
<1>1. DOMAIN layer = candidates[t - 1]
  BY DEF LayerSound
<1>2. ASSUME NEW c \in candidates[t]
      PROVE  Likeliest(network, trace, candidates, skipped, left, t, c, Unreached)
  <2>1. Unreached.cost \in Nat /\ ~(Unreached.cost < Infinite)
    <3>1. Unreached.cost = Infinite
      BY DEF Unreached
    <3> QED
      BY <3>1, InfiniteNat
  <2>2. ASSUME NEW r, NEW F, RoadsTo(network, trace, candidates, t, c, r, F),
               Usable(skipped, left, t, c, r)
        PROVE  Infinite <= F[t]
    <3> DEFINE b == r[t - 1]
               k == layer[b].cost
    <3>1. /\ b \in candidates[t - 1] /\ k \in Nat /\ (k >= Infinite => Infinite <= F[t])
      BY <2>2, RoadsCost DEF Usable
    <3>2. b \notin reached
      BY <2>2 DEF Usable
    <3>3. ~(k < Infinite)
      BY <1>1, <3>1, <3>2
    <3> HIDE DEF k
    <3>4. k >= Infinite
      BY <3>1, <3>3, InfiniteNat
    <3> QED
      BY <3>1, <3>4
  <2> HIDE DEF left
  <2> QED
    BY <2>1, <2>2 DEF Likeliest
<1> HIDE DEF left
<1>3. LayerSound(network, trace, candidates, skipped, left, t, [c \in candidates[t] |-> Unreached])
  BY <1>2 DEF LayerSound
<1> QED
  BY <1>3 DEF left

-----------------------------------------------------------------------------
(* A matched trace *)

\* The choices of a candidate for each observation.
Selections(trace, candidates) ==
    {roads \in [DOMAIN trace -> UNION Range(candidates)] :
        \A t \in DOMAIN roads : roads[t] \in candidates[t]}

\* What is said of a choice of roads, as of a path to the last of them.
LEMMA ChoiceIs ==
  ASSUME Faithful, NEW network, NEW trace, NEW candidates,
         Trailed(network, trace, candidates), NEW r, Picks(candidates, r, Len(trace))
  PROVE  /\ Unlikelihood(network, trace, r) \in Nat
         /\ \A F : RunsUpTo(network, trace, r, Len(trace), F) =>
                F[Len(trace)] = Unlikelihood(network, trace, r)
         /\ \E F : RoadsTo(network, trace, candidates, Len(trace), r[Len(trace)], r, F)
                  /\ F[Len(trace)] = Unlikelihood(network, trace, r)
<1> DEFINE n == Len(trace)
<1>1. trace \in Traces /\ n \in 1..Len(trace) /\ n \in 1..n
  BY TraceIs DEF Trailed
<1>2. PICK G : RunsUpTo(network, trace, r, n, G) /\ Unlikelihood(network, trace, r) = G[n]
  BY <1>1, UnlikelihoodIs
<1>3. ASSUME NEW F, RunsUpTo(network, trace, r, n, F) PROVE F[n] \in Nat /\ F[n] = G[n]
  BY <1>1, <1>2, <1>3, RunsAgree
<1>4. G[n] \in Nat
  BY <1>2, <1>3
<1>5. RoadsTo(network, trace, candidates, n, r[n], r, G)
  BY <1>2 DEF RoadsTo
<1> QED
  BY <1>2, <1>3, <1>4, <1>5

\* Those that can be driven and pass over nothing.
Likely(network, trace, candidates, skipped) ==
    {roads \in Selections(trace, candidates) :
        Unlikelihood(network, trace, roads) < Infinite /\ ~Skips(skipped, roads, Len(trace))}

\* What the matching of a trace says when it is over.
MatchedTrue(network, trace, candidates, skipped, status, roads) ==
    LET likely == Likely(network, trace, candidates, skipped)
    IN  IF likely = {} THEN status \in {"NoCandidates", "NoTransition"}
        ELSE /\ status = "Ok" /\ roads \in likely
             /\ \A other \in likely :
                   Unlikelihood(network, trace, roads) <= Unlikelihood(network, trace, other)

\* No cost of a layer is less than that of a choice that is likely.
LEMMA LikelyCost ==
  ASSUME Faithful, NEW network, NEW trace, NEW candidates,
         Trailed(network, trace, candidates), NEW skipped, NEW t \in 1..Len(trace), NEW layer,
         LayerSound(network, trace, candidates, skipped, {}, t, layer),
         NEW r \in Likely(network, trace, candidates, skipped)
  PROVE  /\ r[t] \in candidates[t] /\ layer[r[t]].cost \in Nat
         /\ Unlikelihood(network, trace, r) \in Nat
         /\ layer[r[t]].cost <= Unlikelihood(network, trace, r)
         /\ Unlikelihood(network, trace, r) < Infinite
<1> DEFINE n == Len(trace)
           c == r[t]
           k == layer[c].cost
           u == Unlikelihood(network, trace, r)
<1>1. /\ n \in Nat /\ DOMAIN trace = 1..n /\ t \in Nat /\ t <= n
      /\ n \in 1..n /\ t \in 1..n /\ \A s \in 1..t : s \in 1..n
  BY TraceIs DEF Trailed
<1>2. Picks(candidates, r, n) /\ u < Infinite /\ ~Skips(skipped, r, n)
  BY <1>1 DEF Likely, Selections, Picks
<1>3. u \in Nat /\ \E F : RoadsTo(network, trace, candidates, n, r[n], r, F) /\ F[n] = u
  BY <1>2, ChoiceIs
<1>4. PICK F : RoadsTo(network, trace, candidates, n, r[n], r, F) /\ F[n] = u
  BY <1>3
<1>5. RunsUpTo(network, trace, r, n, F)
  BY <1>4 DEF RoadsTo
<1>6. RoadsTo(network, trace, candidates, t, c, r, F)
  BY <1>1, <1>2, <1>5 DEF RoadsTo, Picks, RunsUpTo
<1>7. c \in candidates[t]
  BY <1>1, <1>2 DEF Picks
<1> DEFINE v == F[t]
<1>8. v \in Nat /\ v <= u
  <2> HIDE DEF n, u
  <2>1. F[t] \in Nat /\ F[n] \in Nat /\ F[t] <= F[n]
    BY <1>1, <1>2, <1>5, CostsGrow DEF n
  <2> QED
    BY <1>4, <2>1
<1>9. Usable(skipped, {}, t, c, r)
  BY <1>1, <1>2, SkipsShorter DEF Usable
<1>10. Likeliest(network, trace, candidates, skipped, {}, t, c, layer[c])
  BY <1>7 DEF LayerSound
<1>11. k \in Nat /\ (k <= v \/ Infinite <= v)
  BY <1>6, <1>9, <1>10 DEF Likeliest
<1> HIDE DEF k, u, v, c
<1>12. k <= u
  BY <1>2, <1>3, <1>8, <1>11, InfiniteNat
<1> QED
  BY <1>2, <1>3, <1>7, <1>11, <1>12 DEF k, u, c

\* Nothing is likely if a layer is broken.
LEMMA BrokenIs ==
  ASSUME Faithful, NEW network, NEW trace, NEW candidates,
         Trailed(network, trace, candidates), NEW skipped, NEW t \in 1..Len(trace), NEW layer,
         LayerSound(network, trace, candidates, skipped, {}, t, layer), Broken(layer), NEW roads
  PROVE  MatchedTrue(network, trace, candidates, skipped, "NoTransition", roads)
<1>1. ASSUME NEW r \in Likely(network, trace, candidates, skipped) PROVE FALSE
  <2> DEFINE k == layer[r[t]].cost
             u == Unlikelihood(network, trace, r)
  <2>1. r[t] \in candidates[t] /\ k \in Nat /\ u \in Nat /\ k <= u /\ u < Infinite
    BY LikelyCost
  <2>2. k >= Infinite
    BY <2>1 DEF LayerSound, Broken
  <2> HIDE DEF k, u
  <2> QED
    BY <2>1, <2>2, InfiniteNat
<1> QED
  BY <1>1 DEF MatchedTrue

\* The roads of the best candidate of the last layer are a likeliest choice.
LEMMA BestMatched ==
  ASSUME Faithful, NEW network, NEW trace, NEW candidates,
         Trailed(network, trace, candidates), NEW skipped, NEW layer,
         LayerSound(network, trace, candidates, skipped, {}, Len(trace), layer),
         ~Broken(layer), NEW best \in DOMAIN layer,
         \A c \in DOMAIN layer : layer[best].cost <= layer[c].cost
  PROVE  MatchedTrue(network, trace, candidates, skipped, "Ok", layer[best].roads)
<1> DEFINE n == Len(trace)
           k == layer[best].cost
           r == layer[best].roads
           U(q) == Unlikelihood(network, trace, q)
<1>1. /\ trace \in Traces /\ n \in Nat /\ n \in 1..n
      /\ DOMAIN trace = 1..n /\ DOMAIN candidates = 1..n
  BY TraceIs DEF Trailed
<1>2. /\ DOMAIN layer = candidates[n]
      /\ \A c \in candidates[n] :
            Likeliest(network, trace, candidates, skipped, {}, n, c, layer[c])
  BY DEF LayerSound
<1>3. \A c \in candidates[n] : layer[c].cost \in Nat
  BY <1>2 DEF Likeliest
<1>4. k < Infinite
  <2>1. PICK c \in candidates[n] : ~(layer[c].cost >= Infinite)
    BY <1>2 DEF Broken
  <2> DEFINE j == layer[c].cost
  <2>2. j \in Nat /\ k \in Nat /\ k <= j /\ ~(j >= Infinite)
    BY <1>2, <1>3, <2>1
  <2> HIDE DEF j, k
  <2> QED
    BY <2>2, InfiniteNat
<1>5. /\ r \in Seq(UNION Range(candidates)) /\ Len(r) = n
      /\ Usable(skipped, {}, n, best, r)
      /\ \E F : RoadsTo(network, trace, candidates, n, best, r, F) /\ F[n] = k
  BY <1>2, <1>4 DEF Likeliest
<1> HIDE DEF r, k
<1>6. PICK F : RoadsTo(network, trace, candidates, n, best, r, F) /\ F[n] = k
  BY <1>5
<1>7. Picks(candidates, r, n) /\ RunsUpTo(network, trace, r, n, F)
  BY <1>6 DEF RoadsTo
<1>8. U(r) = k
  BY <1>6, <1>7, ChoiceIs
<1>9. r \in Selections(trace, candidates)
  <2>1. r \in [DOMAIN trace -> UNION Range(candidates)] /\ DOMAIN r = 1..n
    BY <1>1, <1>5, LenProperties
  <2>2. \A t \in 1..n : r[t] \in candidates[t]
    BY <1>7 DEF Picks
  <2> QED
    BY <2>1, <2>2 DEF Selections
<1>10. r \in Likely(network, trace, candidates, skipped)
  BY <1>4, <1>5, <1>8, <1>9 DEF Likely, Usable
<1>11. ASSUME NEW q \in Likely(network, trace, candidates, skipped) PROVE U(r) <= U(q)
  <2> DEFINE j == layer[q[n]].cost
             u == U(q)
  <2>1. q[n] \in candidates[n] /\ j \in Nat /\ u \in Nat /\ j <= u
    BY <1>1, LikelyCost
  <2>2. k <= j /\ k \in Nat
    BY <1>2, <1>3, <2>1 DEF k
  <2> HIDE DEF j, u
  <2>3. k <= u
    BY <2>1, <2>2
  <2> QED
    BY <1>8, <2>3 DEF u
<1> QED
  BY <1>10, <1>11 DEF MatchedTrue, r

\* While a trace is matched: the layers are sound, but for the transitions to try.
Going(network, trace, candidates, skipped, left, t, layer, next) ==
    /\ LayerSound(network, trace, candidates, skipped, left, t, next)
    /\ t # 1 => LayerSound(network, trace, candidates, skipped, {}, t - 1, layer)
    /\ t = 1 => left = {}
    /\ left \subseteq [start : {c \in DOMAIN layer : layer[c].cost < Infinite},
                       end : candidates[t]]
    /\ \A s, p : <<s, p>> \in skipped => s \in Nat /\ s <= t /\ (s = t => p \notin left)

\* A transition that was tried.
LEMMA GoesOn ==
  ASSUME NEW network, NEW trace, NEW candidates, NEW skipped, NEW left, NEW t \in Nat,
         NEW layer, NEW next, Going(network, trace, candidates, skipped, left, t, layer, next),
         t >= 2, NEW pair \in left, NEW now, NEW entry,
         now = skipped \/ now = skipped \cup {<<t, pair>>},
         Likeliest(network, trace, candidates, now, left \ {pair}, t, pair.end, entry)
  PROVE  Going(network, trace, candidates, now, left \ {pair}, t, layer,
               [next EXCEPT ![pair.end] = entry])
<1> DEFINE rest == left \ {pair}
           new == [next EXCEPT ![pair.end] = entry]
<1>1. /\ LayerSound(network, trace, candidates, skipped, left, t, next)
      /\ LayerSound(network, trace, candidates, skipped, {}, t - 1, layer)
      /\ left \subseteq [start : {c \in DOMAIN layer : layer[c].cost < Infinite},
                         end : candidates[t]]
      /\ \A s, p : <<s, p>> \in skipped => s \in Nat /\ s <= t /\ (s = t => p \notin left)
  BY DEF Going
<1>2. pair.end \in candidates[t]
  BY <1>1
<1>3. LayerSound(network, trace, candidates, now, rest, t, new)
  <2>1. DOMAIN next = candidates[t]
    BY <1>1 DEF LayerSound
  <2>2. ASSUME NEW d \in candidates[t]
        PROVE  Likeliest(network, trace, candidates, now, rest, t, d, new[d])
    <3>1. CASE d = pair.end
      <4>1. new[d] = entry
        BY <2>1, <2>2, <3>1
      <4> HIDE DEF new, rest
      <4> QED
        BY <3>1, <4>1 DEF rest
    <3>2. CASE d # pair.end
      <4>1. new[d] = next[d]
        BY <2>1, <2>2, <3>2
      <4>2. Likeliest(network, trace, candidates, skipped, left, t, d, next[d])
        BY <1>1, <2>2 DEF LayerSound
      <4> HIDE DEF new
      <4> QED
        BY <3>2, <4>1, <4>2, OthersScored
    <3> QED
      BY <3>1, <3>2
  <2>3. DOMAIN new = candidates[t]
    BY <2>1
  <2> HIDE DEF new, rest
  <2> QED
    BY <2>2, <2>3 DEF LayerSound
<1>4. LayerSound(network, trace, candidates, now, {}, t - 1, layer)
  <2> DEFINE m == t - 1
  <2>1. m \in Nat /\ m < t
    OBVIOUS
  <2>2. LayerSound(network, trace, candidates, skipped, {}, m, layer)
    BY <1>1
  <2> HIDE DEF m
  <2>3. LayerSound(network, trace, candidates, skipped \cup {<<t, pair>>}, {}, m, layer)
    BY <2>1, <2>2, LayerStays
  <2> QED
    BY <2>2, <2>3 DEF m
<1>5. ASSUME NEW s, NEW p, <<s, p>> \in now
      PROVE  s \in Nat /\ s <= t /\ (s = t => p \notin rest)
  <2>1. CASE <<s, p>> \in skipped
    BY <1>1, <2>1
  <2>2. CASE <<s, p>> = <<t, pair>>
    <3>1. s = t /\ p = pair
      BY <2>2
    <3> QED
      BY <3>1
  <2> QED
    BY <1>5, <2>1, <2>2
<1>6. rest \subseteq [start : {c \in DOMAIN layer : layer[c].cost < Infinite},
                      end : candidates[t]]
  BY <1>1
<1>7. t # 1
  OBVIOUS
<1> HIDE DEF rest, new
<1>8. Going(network, trace, candidates, now, rest, t, layer, new)
  BY <1>3, <1>4, <1>5, <1>6, <1>7 DEF Going
<1> QED
  BY <1>8 DEF rest, new

\* The next observation.
LEMMA ObservationBegins ==
  ASSUME Faithful, NEW network, NEW trace, NEW candidates,
         Trailed(network, trace, candidates), NEW t \in 1..Len(trace), t < Len(trace),
         NEW skipped, NEW layer, NEW next,
         Going(network, trace, candidates, skipped, {}, t, layer, next)
  PROVE  Going(network, trace, candidates, skipped,
               [start : {c \in DOMAIN next : next[c].cost < Infinite}, end : candidates[t + 1]],
               t + 1, next, [c \in candidates[t + 1] |-> Unreached])
<1> DEFINE reached == {c \in DOMAIN next : next[c].cost < Infinite}
           left == [start : reached, end : candidates[t + 1]]
           blank == [c \in candidates[t + 1] |-> Unreached]
           now == t + 1
<1>1. now \in 2..Len(trace) /\ now - 1 = t /\ now # 1 /\ t \in Nat
  BY TraceIs DEF Trailed
<1>2. /\ LayerSound(network, trace, candidates, skipped, {}, t, next)
      /\ \A s, p : <<s, p>> \in skipped => s \in Nat /\ s <= t
  BY DEF Going
<1>3. LayerSound(network, trace, candidates, skipped, left, now, blank)
  <2> HIDE DEF now
  <2>1. LayerSound(network, trace, candidates, skipped, {}, now - 1, next)
    BY <1>1, <1>2
  <2>2. LayerSound(network, trace, candidates, skipped,
                   [start : reached, end : candidates[now]], now,
                   [c \in candidates[now] |-> Unreached])
    BY <1>1, <2>1, BlankSound
  <2> QED
    BY <2>2 DEF now
<1>4. \A s, p : <<s, p>> \in skipped => s \in Nat /\ s <= now /\ s # now
  <2> TAKE s, p
  <2> HAVE <<s, p>> \in skipped
  <2>1. s \in Nat /\ s <= t
    BY <1>2
  <2> QED
    BY <1>1, <2>1
<1> HIDE DEF left, blank
<1>5. left \subseteq [start : reached, end : candidates[now]]
  BY DEF left
<1>6. LayerSound(network, trace, candidates, skipped, {}, now - 1, next)
  BY <1>1, <1>2
<1> HIDE DEF now
<1>7. Going(network, trace, candidates, skipped, left, now, next, blank)
  BY <1>1, <1>3, <1>4, <1>5, <1>6 DEF Going
<1> QED
  BY <1>7 DEF left, blank, now

\* The matching of a trace, under way and when it is over.
MatchSound ==
    /\ request.at = "match" =>
           /\ request.metric = "distance"
           /\ Going(networks[request.network], matching.trace, matching.candidates,
                    matching.skipped, request.left, matching.time, matching.layer, matching.next)
    /\ request.at = "matched" /\ Len(matching.trace) <= MaxObservations =>
           MatchedTrue(networks[request.network], matching.trace, matching.candidates,
                       matching.skipped, matching.status, matching.roads)

MatchInv == RoutingInv /\ Faithful /\ MatchSound

\* What is recorded at the end of a pair that was tried is sound.
LEMMA EntrySound ==
  ASSUME MatchInv, request.at = "match", NEW pair \in request.left, NEW route, NEW now,
         \/ route.status # "Ok" /\ now = matching.skipped \cup {<<matching.time, pair>>}
         \/ Judged(pair, route) /\ now = matching.skipped
  PROVE  /\ matching.time >= 2
         /\ Likeliest(networks[request.network], matching.trace, matching.candidates, now,
                      request.left \ {pair}, matching.time, pair.end, EntryFor(pair, route))
<1> DEFINE network == networks[request.network]
           trace == matching.trace
           candidates == matching.candidates
           skipped == matching.skipped
           t == matching.time
           layer == matching.layer
           next == matching.next
           left == request.left
           a == pair.start
           c == pair.end
           T == Transition(network, trace, t, a, c)
           entry == EntryFor(pair, route)
<1>1. TraceSound /\ Faithful /\ request.metric = "distance"
      /\ Going(network, trace, candidates, skipped, left, t, layer, next)
  BY DEF MatchInv, MatchSound, RoutingInv
<1>2. Trailed(network, trace, candidates) /\ t \in 1..Len(trace)
  BY <1>1 DEF TraceSound
<1>3. t # 1
  BY <1>1 DEF Going
<1>4. request.from = trace[t - 1] /\ request.to = trace[t]
  BY <1>1, <1>3 DEF TraceSound
<1>5. /\ LayerSound(network, trace, candidates, skipped, left, t, next)
      /\ LayerSound(network, trace, candidates, skipped, {}, t - 1, layer)
      /\ left \subseteq [start : {x \in DOMAIN layer : layer[x].cost < Infinite},
                         end : candidates[t]]
      /\ <<t, pair>> \notin skipped
  BY <1>1, <1>3 DEF Going
<1>6. /\ pair = [start |-> a, end |-> c] /\ c \in candidates[t]
      /\ a \in DOMAIN layer /\ layer[a].cost < Infinite
  BY <1>5
<1>7. a \in candidates[t - 1]
  BY <1>5, <1>6 DEF LayerSound
<1>8. t \in 2..Len(trace) /\ t >= 2
  BY <1>2, <1>3, TraceIs DEF Trailed
<1>9. T = IF ~Connected(network, "distance", pair) THEN Infinite
          ELSE Abs(LeastOf(network, "distance", pair) - Apart(trace[t - 1], trace[t]))
  BY <1>6 DEF Transition
<1>10. entry = IF route.status = "Ok"
                  /\ layer[a].cost + Abs(route.distance - Apart(trace[t - 1], trace[t])) + Emission(c)
                       < next[c].cost
               THEN [cost |-> layer[a].cost + Abs(route.distance - Apart(trace[t - 1], trace[t]))
                                + Emission(c),
                     roads |-> Append(layer[a].roads, c)]
               ELSE next[c]
  BY <1>4 DEF EntryFor
<1> DEFINE rest == left \ {[start |-> a, end |-> c]}
<1>11. rest = left \ {pair}
  BY <1>6
<1>12. CASE route.status # "Ok"
  <2>1. \/ now = skipped \cup {<<t, [start |-> a, end |-> c]>>}
        \/ now = skipped /\ T >= Infinite
    <3>1. Judged(pair, route) => T >= Infinite
      BY <1>1, <1>9, <1>12, InfiniteNat DEF Judged, HasWay
    <3> QED
      BY <1>6, <3>1
  <2>2. entry = next[c]
    BY <1>10, <1>12
  <2> HIDE DEF network, trace, candidates, skipped, t, layer, next, left, a, c, entry
  <2>3. [start |-> a, end |-> c] \in left
    BY <1>6 DEF left
  <2>4. Likeliest(network, trace, candidates, now, rest, t, c, next[c])
    BY <1>1, <1>2, <1>5, <1>6, <1>8, <2>1, <2>3, NotDrivenScored
  <2> HIDE DEF rest
  <2>5. Likeliest(network, trace, candidates, now, left \ {pair}, t, c, entry)
    BY <1>11, <2>2, <2>4
  <2> QED
    BY <1>8, <2>5 DEF network, trace, candidates, t, left, c, entry
<1>13. CASE Judged(pair, route) /\ now = matching.skipped /\ route.status = "Ok"
  <2>1. Connected(network, "distance", pair) /\ route.distance = LeastOf(network, "distance", pair)
    BY <1>1, <1>13 DEF Judged, HasWay
  <2>2. T = Abs(route.distance - Apart(trace[t - 1], trace[t]))
    BY <1>9, <2>1
  <2>3. now = skipped
    BY <1>13
  <2> DEFINE cost == layer[a].cost + T + Emission(c)
             longer == Append(layer[a].roads, c)
  <2> HIDE DEF T
  <2>4. entry = IF cost < next[c].cost THEN [cost |-> cost, roads |-> longer] ELSE next[c]
    BY <1>10, <1>13, <2>2
  <2>5. cost = layer[a].cost + Transition(network, trace, t, a, c) + Emission(c)
    BY DEF T
  <2>6. longer = Append(layer[a].roads, c)
    OBVIOUS
  <2> HIDE DEF network, trace, candidates, skipped, t, layer, next, left, a, c, entry, cost, longer
  <2>7. [start |-> a, end |-> c] \in left
    BY <1>6 DEF left
  <2>8. <<t, [start |-> a, end |-> c]>> \notin skipped
    BY <1>5, <1>6
  <2>9. Likeliest(network, trace, candidates, skipped, rest, t, c, entry)
    BY <1>1, <1>2, <1>5, <1>6, <1>7, <1>8, <2>4, <2>5, <2>6, <2>7, <2>8, DrivenScored
  <2> HIDE DEF rest
  <2>10. Likeliest(network, trace, candidates, now, left \ {pair}, t, c, entry)
    BY <1>11, <2>3, <2>9
  <2> QED
    BY <1>8, <2>10 DEF network, trace, candidates, t, left, c, entry
<1> QED
  BY <1>12, <1>13

\* A pair that is done.
LEMMA MatchTried ==
  ASSUME MatchInv, request.at = "match", NEW pair \in request.left, NEW route,
         NEW limited \in BOOLEAN, limited => route.status # "Ok",
         ~limited => Judged(pair, route), Tried(pair, route, limited)
  PROVE  MatchSound'
<1>1. HasFields /\ HasTrace /\ TraceSound /\ MatchSound
  BY DEF MatchInv, RoutingInv
<1> DEFINE network == networks[request.network]
           now == IF limited THEN matching.skipped \cup {<<matching.time, pair>>}
                             ELSE matching.skipped
           entry == EntryFor(pair, route)
           rest == request.left \ {pair}
           new == [matching.next EXCEPT ![pair.end] = entry]
           m == Scored(pair, route, limited)
<1>2. UNCHANGED <<networks>> /\ matching' = m
  BY <1>1, TriedIs
<1>3. /\ request'.at = "match" /\ request'.network = request.network
      /\ request'.metric = request.metric /\ request'.left = rest
  BY <1>1, TriedFields
<1>4. /\ m.trace = matching.trace /\ m.candidates = matching.candidates
      /\ m.time = matching.time /\ m.layer = matching.layer
      /\ m.skipped = now /\ m.next = new
  <2>1. m = [trace |-> matching.trace, candidates |-> matching.candidates,
             time |-> matching.time, layer |-> matching.layer, next |-> new,
             skipped |-> now, status |-> matching.status, roads |-> matching.roads]
    BY <1>1, ScoredIs
  <2> HIDE DEF m, now, new
  <2> QED
    BY <2>1
<1>5. /\ matching.time >= 2
      /\ Likeliest(network, matching.trace, matching.candidates, now, rest, matching.time,
                   pair.end, entry)
  <2>1. \/ route.status # "Ok" /\ now = matching.skipped \cup {<<matching.time, pair>>}
        \/ Judged(pair, route) /\ now = matching.skipped
    OBVIOUS
  <2> HIDE DEF now
  <2> QED
    BY <2>1, EntrySound
<1>6. /\ Going(network, matching.trace, matching.candidates, matching.skipped, request.left,
               matching.time, matching.layer, matching.next)
      /\ request.metric = "distance" /\ matching.time \in Nat
  BY <1>1, TraceIs DEF MatchSound, TraceSound
<1>7. now = matching.skipped \/ now = matching.skipped \cup {<<matching.time, pair>>}
  OBVIOUS
<1> HIDE DEF now, entry, m
<1>8. Going(network, matching.trace, matching.candidates, now, rest, matching.time,
            matching.layer, new)
  BY <1>5, <1>6, <1>7, GoesOn
<1> HIDE DEF new, rest
<1>9. networks'[request'.network] = network
  BY <1>2, <1>3
<1> HIDE DEF network
<1>10. /\ matching'.trace = matching.trace /\ matching'.candidates = matching.candidates
       /\ matching'.time = matching.time /\ matching'.layer = matching.layer
       /\ matching'.skipped = now /\ matching'.next = new
  BY <1>2, <1>4
<1> QED
  BY <1>3, <1>6, <1>8, <1>9, <1>10 DEF MatchSound

\* A trace is begun.
LEMMA MatchBegins ==
  ASSUME MatchInv, NEW trace \in Traces, NEW limit \in ExpansionLimits, BeginMatch(trace, limit)
  PROVE  MatchSound'
<1>1. RoutingInv' /\ StoreSound /\ Faithful
  BY BeginMatchKeeps DEF MatchInv, RoutingInv
<1>2. PICK candidates \in [DOMAIN trace ->
                              UNION {networks[current].near[point] : point \in ToSet(trace)}] :
         LET status == IF Len(trace) > MaxObservations THEN "TooManyObservations"
                       ELSE IF \E t \in DOMAIN trace : candidates[t] = {} THEN "NoCandidates"
                       ELSE NoMatching.status
         IN  /\ \A t \in DOMAIN trace : candidates[t] \in networks[current].near[trace[t]]
             /\ request' = [NoRequest EXCEPT
                              !.at = IF status = NoMatching.status THEN "match" ELSE "matched",
                              !.network = current, !.algorithm = "AStar", !.limit = limit,
                              !.from = trace[1], !.to = trace[1]]
             /\ matching' = [NoMatching EXCEPT
                               !.trace = trace, !.candidates = candidates,
                               !.next = FirstLayer(candidates[1]), !.status = status]
  BY DEF BeginMatch
<1> DEFINE status == IF Len(trace) > MaxObservations THEN "TooManyObservations"
                     ELSE IF \E t \in DOMAIN trace : candidates[t] = {} THEN "NoCandidates"
                     ELSE NoMatching.status
           at == IF status = NoMatching.status THEN "match" ELSE "matched"
<1>0. NoMatching.status = "EmptyTrace"
  BY DEF NoMatching
<1>14. at \in {"match", "matched"}
  OBVIOUS
<1>15. at = "matched" /\ ~(Len(trace) > MaxObservations) =>
           status = "NoCandidates" /\ \E t \in DOMAIN trace : candidates[t] = {}
  BY <1>0
<1>16. /\ request' = [NoRequest EXCEPT
                        !.at = at, !.network = current, !.algorithm = "AStar", !.limit = limit,
                        !.from = trace[1], !.to = trace[1]]
       /\ matching' = [NoMatching EXCEPT
                         !.trace = trace, !.candidates = candidates,
                         !.next = FirstLayer(candidates[1]), !.status = status]
  BY <1>2
<1>17. DOMAIN candidates = DOMAIN trace
  BY <1>2
<1> HIDE DEF status, at
<1> DEFINE first == FirstLayer(candidates[1])
           one == trace[1]
           network == networks[current]
<1> HIDE DEF one
<1>3. networks' = networks
  BY DEF BeginMatch, store
<1>4. /\ request'.at = at /\ request'.network = current /\ request'.metric = "distance"
      /\ request'.left = {}
  BY <1>16 DEF NoRequest, one
<1> HIDE DEF first
<1>5. /\ matching'.trace = trace /\ matching'.candidates = candidates /\ matching'.time = 1
      /\ matching'.layer = <<>> /\ matching'.next = first /\ matching'.skipped = {}
      /\ matching'.status = status /\ matching'.roads = <<>>
  BY <1>16 DEF NoMatching, first
<1>6. networks'[request'.network] = network
  BY <1>3, <1>4
<1> DEFINE g == Csr(Maps[current])
<1>7. current \in DOMAIN Maps /\ network = Built(current, g)
  BY <1>1 DEF StoreSound, Networks
<1>8. /\ DOMAIN trace = 1..Len(trace) /\ 1 \in 1..Len(trace) /\ Len(trace) \in Nat
  BY TraceIs
<1> HIDE DEF g
<1>9. network.graph = g
  BY <1>7 DEF Built
<1> HIDE DEF network
<1>10. ASSUME NEW t \in DOMAIN trace
       PROVE  candidates[t] \subseteq NearCandidates(g, trace[t], Radius)
  <2>1. trace[t] \in ToSet(trace)
    BY <1>8 DEF ToSet
  <2>2. trace[t] \in UNION {ToSet(line) : line \in Asks \cup Traces}
    BY <2>1
  <2>3. candidates[t] \in networks[current].near[trace[t]]
    BY <1>2
  <2>4. network.near[trace[t]] = Nearest(g, trace[t], Radius, MaxCandidates)
    BY <1>7, <2>2 DEF Built
  <2> QED
    BY <2>3, <2>4 DEF Nearest, kSubset, network
<1>11. Trailed(network, trace, candidates)
  BY <1>7, <1>9, <1>10, <1>17 DEF Trailed, g
<1>12. CASE at = "match"
  <2>1. LayerSound(network, trace, candidates, {}, {}, 1, first)
    BY <1>1, <1>11, FirstSound DEF first
  <2>2. Going(network, trace, candidates, {}, {}, 1, <<>>, first)
    BY <2>1 DEF Going
  <2> QED
    BY <1>4, <1>5, <1>6, <1>12, <2>2 DEF MatchSound
<1>13. CASE at = "matched"
  <2>1. ASSUME Len(trace) <= MaxObservations
        PROVE  MatchedTrue(network, trace, candidates, {}, status, <<>>)
    <3>1. ~(Len(trace) > MaxObservations)
      BY <1>8, <2>1, SearchAssumption
    <3>2. status = "NoCandidates" /\ \E t \in DOMAIN trace : candidates[t] = {}
      BY <1>13, <1>15, <3>1
    <3>3. Likely(network, trace, candidates, {}) = {}
      BY <3>2 DEF Likely, Selections
    <3> QED
      BY <3>2, <3>3 DEF MatchedTrue
  <2> QED
    BY <1>4, <1>5, <1>6, <1>13, <2>1 DEF MatchSound
<1> QED
  BY <1>12, <1>13, <1>14

\* The next observation.
LEMMA MatchObserves ==
  ASSUME MatchInv, NextObservation
  PROVE  MatchSound'
<1>1. HasFields /\ HasTrace /\ TraceSound /\ MatchSound /\ Faithful
  BY DEF MatchInv, RoutingInv, NextObservation
<1> DEFINE network == networks[request.network]
           trace == matching.trace
           candidates == matching.candidates
           t == matching.time
           next == matching.next
           now == t + 1
           pairs == [start : {c \in DOMAIN next : next[c].cost < Infinite}, end : candidates[now]]
           here == trace[now - 1]
           there == trace[now]
           blank == [c \in candidates[now] |-> Unreached]
<1>2. /\ networks' = networks /\ request.at = "match" /\ request.left = {}
      /\ t < Len(trace)
      /\ request' = [request EXCEPT !.from = here, !.to = there, !.pairs = pairs, !.left = pairs]
      /\ matching' = [matching EXCEPT !.time = now, !.layer = next, !.next = blank]
  BY DEF NextObservation, store
<1>3. Trailed(network, trace, candidates) /\ t \in 1..Len(trace)
  BY <1>1 DEF TraceSound
<1>4. /\ request.metric = "distance"
      /\ Going(network, trace, candidates, matching.skipped, {}, t, matching.layer, next)
  BY <1>1, <1>2 DEF MatchSound
<1>5. Going(network, trace, candidates, matching.skipped, pairs, now, next, blank)
  <2> HIDE DEF network, trace, candidates, t, next
  <2> QED
    BY <1>1, <1>2, <1>3, <1>4, ObservationBegins
<1> HIDE DEF here, there, pairs, blank, now
<1>6. /\ request'.at = "match" /\ request'.network = request.network
      /\ request'.metric = request.metric /\ request'.left = pairs
  BY <1>1, <1>2 DEF HasFields
<1>7. /\ matching'.trace = trace /\ matching'.candidates = candidates /\ matching'.time = now
      /\ matching'.layer = next /\ matching'.next = blank
      /\ matching'.skipped = matching.skipped
  BY <1>1, <1>2 DEF HasTrace
<1>8. networks'[request'.network] = network
  BY <1>2, <1>6
<1> HIDE DEF network, trace, candidates, t, next
<1> QED
  BY <1>4, <1>5, <1>6, <1>7, <1>8 DEF MatchSound

\* The end of a trace.
LEMMA MatchEnds ==
  ASSUME MatchInv, EndMatch
  PROVE  MatchSound'
<1>1. HasFields /\ HasTrace /\ TraceSound /\ MatchSound /\ Faithful
  BY DEF MatchInv, RoutingInv, EndMatch
<1> DEFINE network == networks[request.network]
           trace == matching.trace
           candidates == matching.candidates
           skipped == matching.skipped
           t == matching.time
           next == matching.next
<1>2. /\ networks' = networks /\ request.at = "match" /\ request.left = {}
      /\ request' = [request EXCEPT !.at = "matched"]
  BY DEF EndMatch, store
<1>3. Trailed(network, trace, candidates) /\ t \in 1..Len(trace)
  BY <1>1 DEF TraceSound
<1>4. LayerSound(network, trace, candidates, skipped, {}, t, next)
  BY <1>1, <1>2 DEF MatchSound, Going
<1>5. request'.at = "matched" /\ request'.network = request.network
  BY <1>1, <1>2 DEF HasFields
<1>6. networks'[request'.network] = network
  BY <1>2, <1>5
<1>7. ASSUME NEW status, NEW roads, matching' = [matching EXCEPT !.status = status, !.roads = roads],
             MatchedTrue(network, trace, candidates, skipped, status, roads)
      PROVE  MatchSound'
  <2>1. /\ matching'.trace = trace /\ matching'.candidates = candidates
        /\ matching'.skipped = skipped /\ matching'.status = status /\ matching'.roads = roads
    BY <1>1, <1>7 DEF HasTrace
  <2> HIDE DEF network, trace, candidates, skipped
  <2> QED
    BY <1>5, <1>6, <1>7, <2>1 DEF MatchSound
<1>8. CASE Broken(next) /\ matching' = [matching EXCEPT !.status = "NoTransition"]
  <2>1. matching' = [matching EXCEPT !.status = "NoTransition", !.roads = matching.roads]
    BY <1>1, <1>8 DEF HasTrace
  <2>2. MatchedTrue(network, trace, candidates, skipped, "NoTransition", matching.roads)
    <3> HIDE DEF network, trace, candidates, skipped, t, next
    <3> QED
      BY <1>1, <1>3, <1>4, <1>8, BrokenIs
  <2> QED
    BY <1>7, <2>1, <2>2
<1>9. CASE /\ ~Broken(next) /\ t = Len(trace)
           /\ \E best \in DOMAIN next :
                 /\ \A c \in DOMAIN next : next[best].cost <= next[c].cost
                 /\ matching' = [matching EXCEPT !.status = "Ok", !.roads = next[best].roads]
  <2>1. PICK best \in DOMAIN next :
                 /\ \A c \in DOMAIN next : next[best].cost <= next[c].cost
                 /\ matching' = [matching EXCEPT !.status = "Ok", !.roads = next[best].roads]
    BY <1>9
  <2>2. MatchedTrue(network, trace, candidates, skipped, "Ok", next[best].roads)
    <3> HIDE DEF network, trace, candidates, skipped, t, next
    <3> QED
      BY <1>1, <1>3, <1>4, <1>9, <2>1, BestMatched
  <2> QED
    BY <1>7, <2>1, <2>2
<1> QED
  BY <1>8, <1>9 DEF EndMatch

\* Every step keeps the matching sound.
LEMMA MatchInvNext == MatchInv /\ [RoutingNext]_routingVars => MatchInv'
<1> SUFFICES ASSUME MatchInv, [RoutingNext]_routingVars PROVE MatchInv'
  OBVIOUS
<1>1. RoutingInv /\ StoreSound /\ HasFields /\ Faithful /\ MatchSound
  BY DEF MatchInv, RoutingInv
<1>2. RoutingInv' /\ Faithful'
  <2>1. Faithful'
    BY <1>1 DEF Faithful
  <2> QED
    BY <1>1, <2>1, RoutingInvNext
<1>3. ASSUME MatchSound' PROVE MatchInv'
  BY <1>2, <1>3 DEF MatchInv
<1>4. ASSUME request' = request, networks' = networks, matching' = matching PROVE MatchSound'
  <2> DEFINE network == networks[request.network]
             m == matching
             q == request
  <2>1. network' = network /\ m' = m /\ q' = q
    BY <1>4
  <2> HIDE DEF network
  <2> QED
    BY <1>1, <2>1 DEF MatchSound, network
<1>5. CASE \/ \E name \in DOMAIN Maps : Publish(name)
           \/ Rollback \/ DiscardStale \/ Expand \/ UNCHANGED routingVars
  <2>1. request' = request /\ networks' = networks /\ matching' = matching
    BY <1>5 DEF Publish, Rollback, DiscardStale, Expand, routingVars, store
  <2> QED
    BY <1>3, <1>4, <2>1
<1>6. ASSUME request'.at \notin {"match", "matched"} PROVE MatchInv'
  BY <1>3, <1>6 DEF MatchSound
<1>7. CASE \E ask \in Asks, algorithm \in Algorithms, metric \in Metrics, limit \in ExpansionLimits :
              BeginRoute(ask[1], ask[2], algorithm, metric, limit)
  <2>1. request'.at = "route"
    BY <1>7 DEF BeginRoute, NoRequest
  <2> QED
    BY <1>6, <2>1
<1>8. CASE \E trace \in Traces, limit \in ExpansionLimits : BeginMatch(trace, limit)
  BY <1>3, <1>8, MatchBegins
<1>9. CASE NextPair \/ EndSearch \/ EndAtLimit
  <2>1. ASSUME NEW pair, NEW route, NEW limited, FoundFor(pair, route, limited)
        PROVE  MatchInv'
    <3>1. CASE request.at = "match"
      BY <1>1, <1>3, <2>1, <3>1, MatchTried DEF FoundFor
    <3>2. CASE request.at = "route"
      <4>1. request'.at = "route"
        BY <1>1, <2>1, <3>2, TriedFields DEF FoundFor
      <4> QED
        BY <1>6, <4>1
    <3> QED
      BY <2>1, <3>1, <3>2 DEF FoundFor
  <2> QED
    BY <1>1, <1>3, <1>4, <1>9, <2>1, PairEnds
<1>13. CASE Answer
  <2>1. request'.at = "answered"
    BY <1>1, <1>13 DEF Answer, HasFields
  <2> QED
    BY <1>6, <2>1
<1>14. CASE Done
  <2>1. request'.at = "idle"
    BY <1>14 DEF Done, NoRequest
  <2> QED
    BY <1>6, <2>1
<1>15. CASE NextObservation
  BY <1>3, <1>15, MatchObserves
<1>16. CASE EndMatch
  BY <1>3, <1>16, MatchEnds
<1> QED
  BY <1>5, <1>7, <1>8, <1>9, <1>13, <1>14, <1>15, <1>16
     DEF RoutingNext, RequestStep, SearchStep

\* If the arrays of every map have the paths of its ways (Faithful), the roads of a
\* matched trace are a likeliest choice of its candidates among those that need no
\* transition whose search met the limit, and a trace that is short enough fails only
\* if there is no such choice: what each observation keeps for each candidate, pair
\* by pair, loses none (MapMatcher::Match, map_matcher.cpp, over
\* RoutingEngine::RouteCandidates).
THEOREM LikeliestMatched == Faithful /\ RoutingSpec => []MatchLikeliest
<1>1. Faithful /\ RoutingInit => MatchInv
  BY RoutingInvInit DEF MatchInv, MatchSound, RoutingInit, NoRequest
<1>2. MatchInv => MatchLikeliest
  <2> SUFFICES ASSUME MatchInv, request.at = "matched", Len(matching.trace) <= MaxObservations
               PROVE  MatchLikeliest
    BY DEF MatchLikeliest
  <2>1. MatchedTrue(networks[request.network], matching.trace, matching.candidates,
                    matching.skipped, matching.status, matching.roads)
    BY DEF MatchInv, MatchSound
  <2> QED
    BY <2>1 DEF MatchLikeliest, MatchedTrue, Likely, Selections
<1> QED
  BY <1>1, <1>2, MatchInvNext, PTL DEF RoutingSpec
=============================================================================
