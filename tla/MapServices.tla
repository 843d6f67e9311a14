---------------------------- MODULE MapServices ----------------------------
(***************************************************************************)
(* The map tools of mcp_server/plugins/map-services/MapServicesPlugin.cpp  *)
(* over the chain of HTTP clients their online provider is built on: a     *)
(* response cache, around a rate limiter, around a retrying client, around *)
(* the network (gis/providers/src/http_client.cpp).                        *)
(*                                                                         *)
(* The server calls the plugin from one thread, so calls follow each       *)
(* other; what changes under them is time, the online provider and what it *)
(* knows, the Redis server and the result service.  Times are ticks that   *)
(* remain; a look into the cache and a token take less than a tick.        *)
(***************************************************************************)
EXTENDS Integers, Sequences, FiniteSets

CONSTANTS
    Place,        \* the place name that is geocoded
    Candidates,   \* the positions it may stand for
    Trip,         \* the route that is asked for
    Lists,        \* the lists of candidates the provider may know, in order
    Large,        \* keys whose results exceed the inline limits
    Configs,      \* the environments Initialize may find
    MaxAttempts,  \* GIS_PROVIDER_MAX_ATTEMPTS
    Burst,        \* GIS_PROVIDER_BURST; the rate is one request a tick
    MaxEntries,   \* GIS_CACHE_MAX_ENTRIES
    CacheTtl,     \* GIS_CACHE_TTL_SECONDS, in ticks
    Failures      \* the ways the online provider fails

\* A request of the provider, as BuildCacheKey tells them apart: the place,
\* the surroundings of a position, or the route.
Keys == {Place, Trip} \cup Candidates

ASSUME LimitAssumption ==
    {MaxAttempts, Burst, MaxEntries, CacheTtl} \subseteq Nat \ {0}
ASSUME WorldAssumption ==
    /\ Place # Trip /\ Candidates \cap {Place, Trip} = {}
    /\ Large \subseteq Keys \ {Place}
    /\ Lists \subseteq Seq(Candidates) \ {<<>>}
    /\ Failures \subseteq {"throttled", "refused", "failing", "denied"}
    /\ Configs \subseteq [online : BOOLEAN, local : BOOLEAN, redis : BOOLEAN,
                          publisher : BOOLEAN, publishInline : BOOLEAN]

VARIABLES
    config,   \* what Initialize found; it does not change
    world,    \* the list of candidates the provider knows now
    healthy,  \* the provider answers
    tokens,   \* tokens_ of the rate limiter
    cache,    \* entries_ of the response cache, by key
    call,     \* the tool call that is being handled
    reply,    \* what the last call was answered
    seen,     \* the candidates the agent was last asked to choose from
    relisted, \* history: the place was asked for again since
    debt      \* history: requests sent, less MaxAttempts for every tick

environment == <<config, world, healthy>>
agent == <<seen, relisted>>
vars == <<config, world, healthy, tokens, cache, call, reply, seen, relisted,
          debt>>

-----------------------------------------------------------------------------
(* State *)

\* What a request comes back with.  "throttled" is HTTP 200 with a failure the
\* provider calls retryable, "refused" one that it does not, "failing" is no
\* response, 429 or 5xx, "denied" is 401 or 403, "limited" is the 429 of our
\* own rate limiter.
Good(list) == [status |-> "ok", list |-> list]
Bad(status) == [status |-> status, list |-> <<>>]
NoAnswer == Bad("none")
Answers == {Good(list) : list \in Lists \cup {<<>>}}
             \cup {Bad(status) : status \in Failures \cup {"limited"}}

Succeeds(answer) == answer.status \in {"ok", "throttled", "refused"}  \* a 2xx
Retryable(status) == status \in {"throttled", "failing", "limited", "unpublished"}

NoCall == [at |-> "idle", tool |-> "none", key |-> Place, index |-> 0,
           try |-> 0, answer |-> NoAnswer, attempts |-> 0, hit |-> FALSE,
           cached |-> FALSE, requests |-> 0]
NoReply == [status |-> "none", attempts |-> 0, hit |-> FALSE, requests |-> 0,
            cached |-> FALSE, index |-> 0, key |-> Place]

\* The environment, the limits and the clocks as the plugin starts.
Init ==
    /\ config \in Configs
    /\ world \in Lists
    /\ healthy \in BOOLEAN
    /\ tokens = Burst
    /\ cache = <<>>
    /\ call = NoCall
    /\ reply = NoReply
    /\ seen = <<>>
    /\ relisted = FALSE
    /\ debt = 0

-----------------------------------------------------------------------------
(* Replies *)

\* A success carries meta data, and so does the failure that has the agent choose
\* a candidate; those of the others are zero.  cached tells, for the properties,
\* that the answer that decided came from the cache, and requests how many were
\* made.
Described == {"ok", "ambiguous"}
Replied(status, c) ==
    IF status \in Described
    THEN [status |-> status, attempts |-> c.attempts, hit |-> c.hit,
          requests |-> c.requests, cached |-> c.cached, index |-> c.index,
          key |-> c.key]
    ELSE [NoReply EXCEPT !.status = status, !.cached = c.cached, !.key = c.key]

Finish(status, c) ==
    /\ call' = NoCall
    /\ reply' = Replied(status, c)

-----------------------------------------------------------------------------
(* The handler *)

Begin(c) ==
    /\ call.at = "idle"
    /\ call' = c
    /\ reply' = NoReply
    /\ UNCHANGED <<environment, tokens, cache, agent, debt>>

\* A tool that needs a provider that is not configured fails at once.
Unconfigured ==
    /\ call.at = "idle"
    /\ Finish("unavailable", NoCall)
    /\ UNCHANGED <<environment, tokens, cache, agent, debt>>

OnlineCall(tool, key, index) ==
    IF config.online
    THEN Begin([NoCall EXCEPT !.at = "lookup", !.tool = tool, !.key = key,
                              !.index = index, !.hit = TRUE])
    ELSE Unconfigured

\* geocode, nearby_search and the other tools that ask the provider once.
LookUp(key) == key # Trip /\ OnlineCall("lookup", key, 0)

\* search_nearby_by_place, with no candidateIndex or with the one the agent
\* chose from the list it was shown.
SearchByPlace(index) ==
    /\ index \in 0 .. Len(seen)
    /\ OnlineCall("search", Place, index)

\* provider_route: auto prefers the local network for driving.
Route(wanted, profile) ==
    LET local == \/ wanted = "local-osm"
                 \/ wanted = "auto" /\ profile = "driving" /\ config.local
    IN  IF ~local THEN OnlineCall("route", Trip, 0)
        ELSE IF ~config.local THEN Unconfigured
        ELSE Begin([NoCall EXCEPT !.at = "local", !.tool = "route",
                                  !.key = Trip, !.index = 0,
                                  !.try = IF profile = "driving" THEN 1 ELSE 0])

\* The local network has a route or, for driving only, may have.  It fails
\* with NotFound or, asked for a walk by name, with Unsupported, neither of
\* which lets an automatic call cross to the online provider.
RouteLocally ==
    /\ call.at = "local"
    /\ LET done == [call EXCEPT !.attempts = 1, !.requests = 1] IN
          \/ /\ call.try = 1
             /\ call' = [done EXCEPT !.at = "prepare"]
             /\ UNCHANGED reply
          \/ Finish("refused", done)
    /\ UNCHANGED <<environment, tokens, cache, agent, debt>>

-----------------------------------------------------------------------------
(* The HTTP clients *)

Live_Forever(key) == key \in DOMAIN cache   \* mutant: nothing expires
Live(key) == key \in DOMAIN cache /\ cache[key].left > 0

\* CachingHttpClient: an answer from the cache counts no attempt.
HitAttempts == 0

Hit ==
    /\ call.at = "lookup"
    /\ Live(call.key)
    /\ call' = [call EXCEPT !.at = "received", !.answer = cache[call.key].answer,
                            !.attempts = @ + HitAttempts, !.cached = TRUE]
    /\ UNCHANGED <<environment, tokens, cache, reply, agent, debt>>

\* RateLimitedHttpClient: a token pays for a request and all its retries.
HasToken_Overdrawn == tokens >= 0   \* mutant: one request on credit
HasToken == tokens >= 1

\* A look that finds nothing drops an expired entry; Redis also finds nothing
\* when it is not reached.
Miss ==
    /\ call.at = "lookup"
    /\ ~Live(call.key) \/ config.redis
    /\ cache' = IF Live(call.key) THEN cache
                ELSE [k \in DOMAIN cache \ {call.key} |-> cache[k]]
    /\ \/ /\ HasToken
          /\ tokens' = tokens - 1
          /\ call' = [call EXCEPT !.at = "send", !.try = 1, !.hit = FALSE,
                                  !.cached = FALSE]
       \/ /\ ~HasToken
          /\ call' = [call EXCEPT !.at = "received", !.answer = Bad("limited"),
                                  !.hit = FALSE, !.cached = FALSE]
          /\ UNCHANGED tokens
    /\ UNCHANGED <<environment, reply, agent, debt>>

\* What the provider may answer now.
MayAnswer(key) ==
    IF healthy THEN {Good(IF key = Place THEN world ELSE <<>>)}
    ELSE {Bad(status) : status \in Failures}

\* MemoryResponseCache::Put makes room by dropping the entry that expires
\* first; Redis has room, or is not reached and keeps what it had.
Put(key, answer) ==
    LET with(kept) == [k \in kept \cup {key} |->
            IF k = key THEN [answer |-> answer, left |-> CacheTtl] ELSE cache[k]]
        full == key \notin DOMAIN cache /\ Cardinality(DOMAIN cache) >= MaxEntries
    IN  IF config.redis
        THEN cache' \in {cache, with(DOMAIN cache)}
        ELSE IF ~full THEN cache' = with(DOMAIN cache)
        ELSE \E first \in DOMAIN cache :
                /\ \A k \in DOMAIN cache : cache[first].left <= cache[k].left
                /\ cache' = with(DOMAIN cache \ {first})

\* RetryingHttpClient: one request, tried again at once (the backoff is
\* shorter than a tick) or handed up and, if it is a 2xx, cached.
MayRetry(answer) == answer.status = "failing" /\ call.try < MaxAttempts

Send ==
    /\ call.at = "send"
    /\ \E answer \in MayAnswer(call.key) :
          LET sent == [call EXCEPT !.requests = @ + 1] IN
          \/ /\ MayRetry(answer)
             /\ call' = [sent EXCEPT !.try = @ + 1]
             /\ UNCHANGED <<cache, relisted>>
          \/ /\ ~MayRetry(answer)
             /\ call' = [sent EXCEPT !.at = "received", !.answer = answer,
                                     !.attempts = @ + call.try]
             /\ relisted' = (relisted \/ (call.key = Place /\ seen # <<>>))
             /\ IF Succeeds(answer)
                THEN Put(call.key, answer)
                ELSE UNCHANGED cache
    /\ debt' = debt + 1
    /\ UNCHANGED <<environment, tokens, reply, seen>>

-----------------------------------------------------------------------------
(* What the handler makes of an answer *)

Fail ==
    /\ call.at = "received"
    /\ call.answer.status # "ok"
    /\ Finish(call.answer.status, call)
    /\ UNCHANGED <<environment, tokens, cache, agent, debt>>

\* The candidate the search goes on with.
Selected_First(list, index) == list[1]   \* mutant: the index is not used
Selected(list, index) == IF index = 0 THEN list[1] ELSE list[index]

\* The first half of search_nearby_by_place.
Resolve ==
    /\ call.at = "received"
    /\ call.answer.status = "ok"
    /\ call.tool = "search" /\ call.key = Place
    /\ LET list == call.answer.list IN
          \/ /\ call.index > Len(list)
             /\ Finish("invalid", call)
             /\ UNCHANGED agent
          \/ /\ call.index = 0 /\ Len(list) > 1
             /\ Finish("ambiguous", call)
             /\ seen' = list
             /\ relisted' = FALSE
          \/ /\ call.index = 0 => Len(list) = 1
             /\ call.index <= Len(list)
             /\ call' = [call EXCEPT !.at = "lookup",
                                     !.key = Selected(list, call.index)]
             /\ UNCHANGED <<reply, agent>>
    /\ UNCHANGED <<environment, tokens, cache, debt>>

Accept ==
    /\ call.at = "received"
    /\ call.answer.status = "ok"
    /\ ~(call.tool = "search" /\ call.key = Place)
    /\ call' = [call EXCEPT !.at = "prepare"]
    /\ UNCHANGED <<environment, tokens, cache, reply, agent, debt>>

\* GeoJsonOutputPolicy::Prepare: a large result has to be published and a
\* small one is published too when that is asked for; a publication that fails
\* fails the call.
Prepare ==
    /\ call.at = "prepare"
    /\ LET large == call.key \in Large
           published == config.publisher /\ (large \/ config.publishInline)
       IN  \/ (large => published) /\ Finish("ok", call)
           \/ (published \/ large) /\ Finish("unpublished", call)
    /\ UNCHANGED <<environment, tokens, cache, agent, debt>>

-----------------------------------------------------------------------------
(* The environment *)

Less(n) == IF n > 0 THEN n - 1 ELSE 0

Refilled == IF tokens < Burst THEN tokens + 1 ELSE tokens

\* Redis drops what has expired.
Tick ==
    /\ tokens' = Refilled
    /\ cache' = [k \in {k \in DOMAIN cache : config.redis => cache[k].left > 1} |->
                    [cache[k] EXCEPT !.left = Less(@)]]
    /\ debt' = IF debt > MaxAttempts THEN debt - MaxAttempts ELSE 0
    /\ <<tokens', cache', debt'>> # <<tokens, cache, debt>>
    /\ UNCHANGED <<environment, call, reply, agent>>

\* The provider learns of other candidates, fails or recovers.
ProviderChanges ==
    /\ world' \in Lists
    /\ healthy' \in BOOLEAN
    /\ <<world', healthy'>> # <<world, healthy>>
    /\ UNCHANGED <<config, tokens, cache, call, reply, agent, debt>>

Profiles == {"walking", "driving"}
Wanted == {"auto", "amap", "local-osm"}

CallBegins ==
    \/ \E key \in Keys : LookUp(key)
    \/ \E index \in 0 .. Len(seen) : SearchByPlace(index)
    \/ \E wanted \in Wanted, profile \in Profiles : Route(wanted, profile)

Step == RouteLocally \/ Hit \/ Miss \/ Send \/ Fail \/ Resolve \/ Accept \/ Prepare

Next == CallBegins \/ Step \/ Tick \/ ProviderChanges

Spec == Init /\ [][Next]_vars

\* A call that was begun is carried on, and time passes.  Nobody is obliged to
\* call, and the provider need not recover.
FairSpec == Spec /\ WF_vars(Step) /\ WF_vars(Tick)

-----------------------------------------------------------------------------
(* Properties *)

\* Every variable keeps its type; the cache and the bucket keep their limits.
TypeOK ==
    /\ config \in Configs /\ world \in Lists /\ healthy \in BOOLEAN
    /\ tokens \in 0 .. Burst
    /\ DOMAIN cache \subseteq Keys
    /\ ~config.redis => Cardinality(DOMAIN cache) <= MaxEntries
    /\ \A k \in DOMAIN cache : cache[k] \in [answer : Answers, left : 0 .. CacheTtl]
    /\ call.at \in {"idle", "lookup", "send", "received", "prepare", "local"}
    /\ call.key \in Keys /\ call.try \in 0 .. MaxAttempts
    /\ seen \in Lists \cup {<<>>} /\ relisted \in BOOLEAN
    /\ debt \in Nat

\* The meta data of a success tell the truth, over both halves of a search, and so
\* do those of a list to choose from: attempts counts the requests that were made
\* for it, and cacheHit says that there were none.
MetaTrue ==
    reply.status \in Described =>
        /\ reply.attempts = reply.requests
        /\ reply.hit <=> reply.requests = 0

\* What the provider sees conforms to a leaky bucket, though retries pass the
\* limiter by: MaxAttempts requests a tick, with a burst of a full bucket's,
\* every one retried, and of one more whose token a tick paid back before it
\* was sent.
ProviderSpared == debt <= (Burst + 1) * MaxAttempts

\* A search by a candidate the agent chose uses that candidate, as long as the
\* place was not asked for again since the agent was shown the candidates.
\* Redis is left out: when a Put did not reach it, an older list comes back.
PickHonoured ==
    reply.status = "ok" /\ reply.index > 0 /\ ~relisted /\ ~config.redis =>
        reply.key = seen[reply.index]

\* Once the provider is well for good, its failures are no longer reported:
\* those in the cache expire, and the limiter's refusals are not the
\* provider's.
FailuresHeal ==
    <>[]healthy =>
        <>[][reply' # reply /\ reply'.key # Trip =>
                reply'.status \notin Failures]_vars

\* A failure the agent is told to retry is not one that the cache repeats
\* until its TTL has passed: refuted (see the README).
RetryAsksProvider == Retryable(reply.status) => ~reply.cached

\* A search by a chosen candidate uses that candidate: refuted (see the
\* README).
PickAlwaysHonoured ==
    reply.status = "ok" /\ reply.index > 0 => reply.key = seen[reply.index]
=============================================================================
