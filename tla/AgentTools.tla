----------------------------- MODULE AgentTools -----------------------------
(***************************************************************************)
(* The tools an agent sees and calls: mcp_client/src/                      *)
(* mcp_agent_integration.cpp over mcp_tool_manager.cpp, and the retrieval  *)
(* of rag/tool_retriever.cpp over the vector index, its file, the          *)
(* embedding cache and the embedding service.                              *)
(*                                                                         *)
(* One thread of the host initializes, refreshes and shuts down; callers   *)
(* (callToolAsync starts a thread for each) ask for the relevant tools,    *)
(* choose one and call it.  The MCP server changes what it offers, the     *)
(* embedding service fails and recovers, and the process may die.          *)
(*                                                                         *)
(* The retry loop of callTool is not here: executeTool reports failures as *)
(* values and does not throw, so the loop ends with its first round.       *)
(***************************************************************************)
EXTENDS Integers, SequencesExt, FiniteSets

CONSTANTS
    Tools,     \* names of tools
    Catalogs,  \* what the server may offer: functions from names to versions
    Callers,   \* threads that ask and call
    TopK,      \* rag_config.top_k
    CacheMax,  \* cache_config.max_size
    NoTool     \* no name

ASSUME CatalogAssumption ==
    /\ \A catalog \in Catalogs : DOMAIN catalog \subseteq Tools
    /\ NoTool \notin Tools
ASSUME LimitAssumption == TopK \in Nat \ {0} /\ CacheMax \in Nat \ {0}

VARIABLES
    config,     \* rag_config.enabled, and whether there is an index_path
    offered,    \* what the server offers
    embedding,  \* the embedding service answers
    pc,         \* where the host's thread is
    initialized,\* initialized_
    connected,  \* connected_, with a client that is connected
    listed,     \* available_tools_ of the tool manager, when there is one
    began,      \* history: the list the connection began with
    cached,     \* tool_cache_
    locked,     \* tool_cache_mutex_ is held over an indexing pass
    todo,       \* the tools that pass has still to index
    retrieving, \* rag_initialized_, with a tool_retriever_
    index,      \* tools_ of the vector index
    embedded,   \* cache_list_ of the embedding cache, most recent first
    saved,      \* the index file
    caller,     \* what each caller is doing
    denied,     \* history: the last question got no tool although there are some
    missed,     \* history: a tool of the last pass could not be embedded
    crashed     \* history: a caller used what shutdown had destroyed

environment == <<config, offered, embedding>>
ragVars == <<retrieving, index, embedded>>
sessionVars == <<initialized, connected, listed, began>>
hostVars == <<pc, sessionVars, cached, locked, todo, missed>>
vars == <<environment, ragVars, hostVars, saved, caller, denied, crashed>>

-----------------------------------------------------------------------------
(* State *)

Empty == <<>>
NoManager == [manager |-> FALSE, tools |-> Empty]
Manager(tools) == [manager |-> TRUE, tools |-> tools]
NoFile == [state |-> "none", tools |-> Empty]
Torn == [state |-> "torn", tools |-> Empty]
Whole(tools) == [state |-> "whole", tools |-> tools]

\* What is embedded: the text of a version of a tool, or the query.
Text(tool, version) == <<tool, version>>
Query == <<NoTool, 0>>

Idle == [at |-> "idle", tool |-> NoTool, session |-> FALSE]

\* The state of a process that has just started.
Fresh ==
    /\ pc = "out" /\ initialized = FALSE /\ connected = FALSE
    /\ listed = NoManager /\ began = Empty /\ cached = Empty
    /\ locked = FALSE /\ todo = {} /\ retrieving = FALSE /\ index = Empty
    /\ embedded = <<>> /\ caller = [c \in Callers |-> Idle]
    /\ denied = FALSE /\ missed = FALSE

Init ==
    /\ config \in [rag : BOOLEAN, file : BOOLEAN]
    /\ offered \in Catalogs
    /\ embedding \in BOOLEAN
    /\ Fresh
    /\ saved = NoFile
    /\ crashed = FALSE

\* The process ends, by a crash or from outside, and is started again.
StartsAgain ==
    /\ pc' = "out" /\ initialized' = FALSE /\ connected' = FALSE
    /\ listed' = NoManager /\ began' = Empty
    /\ cached' = Empty /\ locked' = FALSE /\ todo' = {} /\ retrieving' = FALSE
    /\ index' = Empty /\ embedded' = <<>>
    /\ caller' = [c \in Callers |-> Idle] /\ denied' = FALSE
    /\ missed' = FALSE
    /\ UNCHANGED <<environment, saved>>

Crash == crashed' = TRUE /\ StartsAgain

-----------------------------------------------------------------------------
(* The embedding cache and the embedding service *)

\* get and put of EmbeddingCache: the text moves to the front or is added
\* there, in the place of the least recently used one when there is no room.
Remember(text) ==
    LET others == RemoveFirst(embedded, text)
        full == text \notin ToSet(embedded) /\ Len(embedded) >= CacheMax
    IN  <<text>> \o IF full THEN Front(others) ELSE others

\* getEmbedding returns; an entry may be too old to count.
Embeds(text) ==
    /\ text \in ToSet(embedded) \/ embedding
    /\ embedded' = Remember(text)

\* It throws when all attempts failed.
EmbedFails(text) == ~embedding /\ UNCHANGED embedded

-----------------------------------------------------------------------------
(* The host's thread *)

\* initialize: without a server the agent goes on, in degraded mode.
Connect ==
    /\ pc = "out"
    /\ pc' \in {"list", "finish"}
    /\ UNCHANGED <<environment, ragVars, sessionVars, cached, locked, todo, missed,
                   saved, caller, denied, crashed>>

\* MCPToolManager::initialize: an error or a timeout of tools/list is an
\* empty list.
ListTools ==
    /\ pc = "list"
    /\ \E tools \in {offered, Empty} : listed' = Manager(tools) /\ began' = tools
    /\ connected' = TRUE
    /\ pc' = "copy"
    /\ UNCHANGED <<environment, ragVars, initialized, cached, locked, todo, missed,
                   saved, caller, denied, crashed>>

\* The first updateToolCache, before there is a retriever.
CopyTools ==
    /\ pc = "copy"
    /\ cached' = listed.tools
    /\ pc' = IF config.rag THEN "load" ELSE "finish"
    /\ UNCHANGED <<environment, ragVars, sessionVars, locked, todo, missed, saved,
                   caller, denied, crashed>>

\* initializeRAG: a new retriever, with the index of the file if it can be
\* parsed, and an indexing pass under the mutex.
NewIndex_Kept == index   \* mutant: the retriever of the last session is kept
NewIndex == IF config.file THEN saved.tools ELSE Empty

LoadIndex ==
    /\ pc = "load"
    /\ index' = NewIndex
    /\ embedded' = <<>>
    /\ locked' = TRUE
    /\ todo' = DOMAIN cached
    /\ missed' = FALSE
    /\ pc' = "index"
    /\ UNCHANGED <<environment, retrieving, sessionVars, cached, saved, caller,
                   denied, crashed>>

\* No retriever can be made, and the agent goes on without.
LoadFails ==
    /\ pc = "load"
    /\ pc' = "finish"
    /\ UNCHANGED <<environment, ragVars, sessionVars, cached, locked, todo, missed,
                   saved, caller, denied, crashed>>

Initialized ==
    /\ pc = "finish"
    /\ initialized' = TRUE
    /\ pc' = "ready"
    /\ UNCHANGED <<environment, ragVars, connected, listed, began, cached, locked,
                   todo, missed, saved, caller, denied, crashed>>

\* refreshTools: copies the manager's list, which it does not renew.
RefreshTools ==
    /\ pc = "ready"
    /\ connected
    /\ cached' = listed.tools
    /\ locked' = TRUE
    /\ todo' = IF retrieving THEN DOMAIN cached' ELSE {}
    /\ missed' = FALSE
    /\ pc' = "index"
    /\ UNCHANGED <<environment, ragVars, sessionVars, saved, caller, denied,
                   crashed>>

\* addTool, one tool of indexTools: a tool that cannot be embedded is skipped.
Reindexed_New(tool) == tool \notin DOMAIN index   \* mutant: old entries stay
Reindexed(tool) == TRUE

IndexOne(tool) ==
    /\ pc = "index"
    /\ tool \in todo
    /\ todo' = todo \ {tool}
    /\ \/ /\ Embeds(Text(tool, cached[tool]))
          /\ index' = IF Reindexed(tool)
                      THEN [t \in DOMAIN index \cup {tool} |->
                              IF t = tool THEN cached[tool] ELSE index[t]]
                      ELSE index
          /\ UNCHANGED missed
       \/ /\ EmbedFails(Text(tool, cached[tool]))
          /\ missed' = TRUE
          /\ UNCHANGED index
    /\ UNCHANGED <<environment, retrieving, pc, sessionVars, cached, locked, saved,
                   caller, denied, crashed>>

PassEnds_IfAll == todo = {} /\ ~missed   \* mutant: a failure keeps the mutex
PassEnds == todo = {}

IndexDone ==
    /\ pc = "index"
    /\ PassEnds
    /\ locked' = FALSE
    /\ retrieving' = (retrieving \/ ~initialized)
    /\ pc' = IF initialized THEN "ready" ELSE "finish"
    /\ UNCHANGED <<environment, index, embedded, sessionVars, cached, todo, missed,
                   saved, caller, denied, crashed>>

\* shutdown: ToolRetriever::shutdown truncates the file and writes the index,
\* then everything is dropped in this order.
SaveBegin ==
    /\ pc = "ready"
    /\ saved' = IF retrieving /\ config.file THEN Torn ELSE saved
    /\ pc' = "save"
    /\ UNCHANGED <<environment, ragVars, sessionVars, cached, locked, todo, missed,
                   caller, denied, crashed>>

\* Whoever is inside of what is destroyed loses it under his feet, and so may those
\* about to enter, who may have the pointer already.
Strand(inside, entering) ==
    \E late \in SUBSET {c \in Callers : caller[c].at \in entering} :
        caller' = [c \in Callers |->
                     IF caller[c].at \in inside \/ c \in late
                     THEN [caller[c] EXCEPT !.at = "stranded"] ELSE caller[c]]

DropRetriever ==
    /\ pc = "save"
    /\ saved' = IF retrieving /\ config.file THEN Whole(index) ELSE saved
    /\ retrieving' = FALSE
    /\ Strand({"asking"}, {})
    /\ pc' = "empty"
    /\ UNCHANGED <<environment, index, embedded, sessionVars, cached, locked, todo,
                   missed, denied, crashed>>

\* MCPToolManager::shutdown, under the mutex of the manager.
EmptyManager ==
    /\ pc = "empty"
    /\ listed' = [listed EXCEPT !.tools = Empty]
    /\ pc' = "drop"
    /\ UNCHANGED <<environment, ragVars, initialized, connected, began, cached,
                   locked, todo, missed, saved, caller, denied, crashed>>

DropManager ==
    /\ pc = "drop"
    /\ listed' = NoManager
    /\ Strand({"listed"}, {"execute"})
    /\ pc' = "disconnect"
    /\ UNCHANGED <<environment, ragVars, initialized, connected, began, cached,
                   locked, todo, missed, saved, denied, crashed>>

\* MCPClient::disconnect; a call that waits for its answer goes on waiting.
Disconnect ==
    /\ pc = "disconnect"
    /\ connected' = FALSE
    /\ pc' = "forget"
    /\ UNCHANGED <<environment, ragVars, initialized, listed, began, cached, locked,
                   todo, missed, saved, caller, denied, crashed>>

DropClient ==
    /\ pc = "forget"
    /\ began' = Empty
    /\ Strand({"sent"}, {"chosen"})
    /\ pc' = "clear"
    /\ UNCHANGED <<environment, ragVars, initialized, connected, listed, cached,
                   locked, todo, missed, saved, denied, crashed>>

ClearCache ==
    /\ pc = "clear"
    /\ cached' = Empty
    /\ initialized' = FALSE
    /\ pc' = "out"
    /\ caller' = [c \in Callers |-> [caller[c] EXCEPT !.session = FALSE]]
    /\ UNCHANGED <<environment, ragVars, connected, listed, began, locked, todo,
                   missed, saved, denied, crashed>>

-----------------------------------------------------------------------------
(* Callers *)

\* The question is answered with these tools; the model chooses one, or none.
Answered(c, tools) ==
    /\ denied' = (tools = {} /\ cached # Empty)
    /\ \/ caller' = [caller EXCEPT ![c] = Idle]
       \/ \E tool \in tools :
             caller' = [caller EXCEPT ![c] = [at |-> "chosen", tool |-> tool,
                                              session |-> TRUE]]

GoesOn(c, at) == caller' = [caller EXCEPT ![c].at = at]
Returns(c) == caller' = [caller EXCEPT ![c] = Idle]

\* getRelevantTools without retrieval: all tools, read under the mutex.
Ask(c) ==
    /\ caller[c].at = "idle"
    /\ ~retrieving
    /\ GoesOn(c, "waiting")
    /\ UNCHANGED <<environment, ragVars, hostVars, saved, denied, crashed>>

AnswerAll(c) ==
    /\ caller[c].at = "waiting"
    /\ ~locked
    /\ Answered(c, DOMAIN cached)
    /\ UNCHANGED <<environment, ragVars, hostVars, saved, crashed>>

\* With retrieval, an empty index is an empty answer.
AskIndex(c) ==
    /\ caller[c].at = "idle"
    /\ retrieving
    /\ IF index = Empty
       THEN Answered(c, {})
       ELSE /\ caller' = [caller EXCEPT ![c].at = "asking"]
            /\ UNCHANGED denied
    /\ UNCHANGED <<environment, ragVars, hostVars, saved, crashed>>

\* VectorIndex::search: the best of those above the threshold, or the best.
Found(tools) == tools # {} /\ Cardinality(tools) <= TopK

Retrieve(c) ==
    /\ caller[c].at = "asking"
    /\ \/ /\ Embeds(Query)
          /\ \E tools \in SUBSET DOMAIN index :
                Found(tools) /\ Answered(c, tools)
       \/ /\ EmbedFails(Query)
          /\ Answered(c, {})
    /\ UNCHANGED <<environment, retrieving, index, hostVars, saved, crashed>>

\* callTool: isAvailable.
CheckAvailable(c) ==
    /\ caller[c].at = "chosen"
    /\ \/ initialized /\ connected /\ GoesOn(c, "available")
       \/ ~(initialized /\ connected) /\ Returns(c)
    /\ UNCHANGED <<environment, ragVars, hostVars, saved, denied, crashed>>

\* hasToolAvailable, under the mutex.
CheckTool(c) ==
    /\ caller[c].at = "available"
    /\ ~locked
    /\ IF caller[c].tool \in DOMAIN cached THEN GoesOn(c, "execute") ELSE Returns(c)
    /\ UNCHANGED <<environment, ragVars, hostVars, saved, denied, crashed>>

\* MCPToolManager::executeTool looks into its own list again, under its mutex ...
IsAvailable_Trusted(tool) == TRUE   \* mutant: the first check is trusted
IsAvailable(tool) == tool \in DOMAIN listed.tools

Execute(c) ==
    /\ caller[c].at = "execute"
    /\ \/ ~listed.manager /\ Crash
       \/ /\ listed.manager
          /\ IF IsAvailable(caller[c].tool) THEN GoesOn(c, "listed") ELSE Returns(c)
          /\ UNCHANGED <<environment, ragVars, hostVars, saved, denied, crashed>>

\* ... and sends without it.
Send(c) ==
    /\ caller[c].at = "listed"
    /\ IF connected THEN GoesOn(c, "sent") ELSE Returns(c)
    /\ UNCHANGED <<environment, ragVars, hostVars, saved, denied, crashed>>

UseDestroyed(c) == caller[c].at = "stranded" /\ Crash

\* The server's answer, its error or the timeout.
Receive(c) ==
    /\ caller[c].at = "sent"
    /\ Returns(c)
    /\ UNCHANGED <<environment, ragVars, hostVars, saved, denied, crashed>>

-----------------------------------------------------------------------------
(* The environment *)

\* The server is updated, the embedding service changes, an entry of the
\* embedding cache reaches its ttl, the process is killed.
ServerChanges ==
    /\ offered' \in Catalogs \ {offered}
    /\ UNCHANGED <<config, embedding, ragVars, hostVars, saved, caller,
                   denied, crashed>>

EmbeddingChanges ==
    /\ embedding' = ~embedding
    /\ UNCHANGED <<config, offered, ragVars, hostVars, saved, caller, denied,
                   crashed>>

Expire ==
    /\ \E i \in DOMAIN embedded : embedded' = RemoveAt(embedded, i)
    /\ UNCHANGED <<environment, retrieving, index, hostVars, saved, caller,
                   denied, crashed>>

Killed ==
    /\ pc # "out"
    /\ StartsAgain
    /\ UNCHANGED crashed

-----------------------------------------------------------------------------
CallStep(c) ==
    \/ AnswerAll(c) \/ Retrieve(c) \/ CheckAvailable(c) \/ CheckTool(c)
    \/ Execute(c) \/ Send(c) \/ Receive(c) \/ UseDestroyed(c)
IndexStep == IndexDone \/ \E tool \in Tools : IndexOne(tool)

Next ==
    \/ Connect \/ ListTools \/ CopyTools \/ LoadIndex \/ LoadFails \/ Initialized
    \/ RefreshTools \/ IndexStep \/ SaveBegin \/ DropRetriever \/ EmptyManager
    \/ DropManager \/ Disconnect \/ DropClient \/ ClearCache
    \/ \E c \in Callers : Ask(c) \/ AskIndex(c) \/ CallStep(c)
    \/ ServerChanges \/ EmbeddingChanges \/ Expire \/ Killed

Spec == Init /\ [][Next]_vars

\* The threads of the process run; nobody is obliged to begin anything.
FairSpec ==
    /\ Spec
    /\ WF_vars(IndexStep)
    /\ \A c \in Callers : SF_vars(CallStep(c))

-----------------------------------------------------------------------------
(* Properties *)

\* Every variable keeps its type; the embedding cache keeps to its size and
\* holds no text twice.
TypeOK ==
    /\ offered \in Catalogs
    /\ pc \in {"out", "list", "copy", "load", "finish", "ready", "index", "save",
               "empty", "drop", "disconnect", "forget", "clear"}
    /\ DOMAIN cached \subseteq Tools /\ DOMAIN index \subseteq Tools
    /\ todo \subseteq DOMAIN cached
    /\ saved.state \in {"none", "torn", "whole"}
    /\ Len(embedded) <= CacheMax /\ IsInjective(embedded)
    /\ \A c \in Callers :
          /\ caller[c].at \in {"idle", "waiting", "asking", "chosen", "available",
                               "execute", "listed", "sent", "stranded"}
          /\ caller[c].tool \in Tools \cup {NoTool}

\* A request goes to the server only for a tool of the list that this
\* connection began with, although the checks before it may have been made
\* against the lists of an earlier connection and the manager's list may be cleared
\* between the last of them and the sending.
SentIsListed ==
    \A c \in Callers :
        caller[c].at = "sent" => caller[c].tool \in DOMAIN began

\* While the host does not shut down, a tool that was retrieved is one that
\* callTool finds; unless the index came from a file, which may name tools
\* the server has withdrawn.
RetrievedCallable ==
    ~config.file =>
        \A c \in Callers : caller[c].session => caller[c].tool \in DOMAIN cached

\* After a pass in which every embedding succeeded the index has every cached
\* tool, as the server described it, whatever a file or an earlier pass had
\* left in it.
IndexCurrent ==
    retrieving /\ ~locked /\ ~missed =>
        \A tool \in DOMAIN cached :
            tool \in DOMAIN index /\ index[tool] = cached[tool]

\* Every call and every question is answered, or the process ends, although
\* an indexing pass holds the mutex over calls of the embedding service.
CallsReturn == \A c \in Callers : caller[c].at # "idle" ~> caller[c].at = "idle"

\* When retrieval fails the agent is given all tools: refuted (see the README).
FallsBack == ~denied

\* Nobody uses what shutdown has destroyed: refuted (see the README).
NeverCrashes == ~crashed

\* Refreshing brings what the server offers: refuted (see the README).
RefreshFollowsServer ==
    \A catalog \in Catalogs :
        <>[](offered = catalog /\ connected) /\ []<><<RefreshTools>>_vars =>
            <>(cached = catalog)
=============================================================================
