-------------------------- MODULE AgentToolsProofs --------------------------
(***************************************************************************)
(* Proofs about AgentTools for any tools, catalogs, callers and limits:    *)
(* what is sent to the server is on the list of the connection, what was   *)
(* retrieved can be called, and the index follows the list, whatever       *)
(* refreshes, shutdowns, failures and restarts come between.               *)
(***************************************************************************)
EXTENDS AgentTools, TLAPS, SequenceTheorems

Places == {"idle", "waiting", "asking", "chosen", "available", "execute", "listed", "sent",
           "stranded"}
CallerStates == [at : Places, tool : Tools \cup {NoTool}, session : BOOLEAN]
Lists == Catalogs \cup {Empty}

\* The lists and the callers have the shape their steps expect.
ShapeInv ==
    /\ config \in [rag : BOOLEAN, file : BOOLEAN]
    /\ offered \in Catalogs
    /\ listed \in [manager : BOOLEAN, tools : Lists]
    /\ DOMAIN cached \subseteq Tools
    /\ DOMAIN index \subseteq Tools
    /\ DOMAIN saved.tools \subseteq Tools
    /\ began \in Lists
    /\ {initialized, connected, retrieving, missed} \subseteq BOOLEAN
    /\ caller \in [Callers -> CallerStates]

\* There is no manager before the list was asked for and after it was dropped,
\* and its list is the connection's or empty; who is inside of it, or waits for an
\* answer, asks for a tool of the connection's list.
ManagerInv ==
    /\ pc \in {"out", "list", "disconnect", "forget", "clear"} => ~listed.manager
    /\ listed.manager => DOMAIN listed.tools \subseteq DOMAIN began
    /\ \A c \in Callers : caller[c].at = "listed" =>
          listed.manager /\ caller[c].tool \in DOMAIN began
    /\ \A c \in Callers : caller[c].at = "sent" =>
          pc \notin {"clear", "out", "list"} /\ caller[c].tool \in DOMAIN began

\* Retrieval is on in a session with retrieval only; the mutex is held exactly
\* during a pass.
SessionInv ==
    /\ locked = (pc = "index")
    /\ retrieving => config.rag /\ pc \in {"finish", "ready", "index", "save"}
    /\ pc \in {"out", "list", "copy", "load", "finish"} => ~initialized
    /\ pc = "ready" => initialized
    /\ pc \in {"forget", "clear", "out", "list"} => ~connected
    /\ pc \in {"copy", "load", "index"} => connected
    /\ pc = "load" => config.rag
    /\ pc = "index" /\ ~initialized => config.rag
    /\ \A c \in Callers : caller[c].at = "asking" => retrieving

\* A tool of the list that the pass has done is in the index.
IndexInv ==
    /\ IndexCurrent
    /\ pc = "index" /\ (retrieving \/ ~initialized) /\ ~missed =>
          \A tool \in DOMAIN cached \ todo :
              tool \in DOMAIN index /\ index[tool] = cached[tool]

\* Within a connection the agent's list is the manager's, and without a file
\* the index has no other tools.
ListInv ==
    /\ pc \in {"out", "list", "copy"} => DOMAIN cached = {}
    /\ connected /\ pc \in {"load", "finish", "ready", "index"} => cached = listed.tools
    /\ ~config.file /\ (retrieving \/ (pc = "index" /\ ~initialized)) =>
          DOMAIN index \subseteq DOMAIN cached
    /\ pc = "index" => todo \subseteq DOMAIN cached
    /\ RetrievedCallable

AgentInv == ShapeInv /\ ManagerInv /\ SessionInv /\ IndexInv /\ ListInv

-----------------------------------------------------------------------------
LEMMA EmptyList == DOMAIN Empty = {}
BY DEF Empty

LEMMA ListDomain == \A list \in Lists : DOMAIN list \subseteq Tools
BY CatalogAssumption, EmptyList DEF Lists

\* The invariant says nothing of an unmodified process but what it starts with.
LEMMA AgentInit == Init => AgentInv
<1> SUFFICES ASSUME Init PROVE AgentInv
  OBVIOUS
<1> USE EmptyList DEF Init, Fresh
<1>1. ShapeInv
  BY DEF ShapeInv, NoManager, NoFile, Lists, Idle, CallerStates, Places
<1>2. ManagerInv
  BY DEF ManagerInv, NoManager, Idle
<1>3. SessionInv
  BY DEF SessionInv, Idle
<1>4. IndexInv
  BY DEF IndexInv, IndexCurrent
<1>5. ListInv
  BY DEF ListInv, RetrievedCallable, Idle
<1> QED
  BY <1>1, <1>2, <1>3, <1>4, <1>5 DEF AgentInv

\* A process that starts again is as in the beginning, but for the file.
LEMMA AgentRestart ==
  ASSUME AgentInv, StartsAgain
  PROVE  AgentInv'
<1> USE EmptyList DEF StartsAgain, environment
<1>1. ShapeInv'
  BY DEF AgentInv, ShapeInv, NoManager, Lists, Idle, CallerStates, Places
<1>2. ManagerInv'
  BY DEF ManagerInv, NoManager, Idle
<1>3. SessionInv'
  BY DEF SessionInv, Idle
<1>4. IndexInv'
  BY DEF IndexInv, IndexCurrent
<1>5. ListInv'
  BY DEF ListInv, RetrievedCallable, Idle
<1> QED
  BY <1>1, <1>2, <1>3, <1>4, <1>5 DEF AgentInv

-----------------------------------------------------------------------------
(* The host's thread *)

LEMMA AgentOpen ==
  ASSUME AgentInv, Connect \/ ListTools \/ CopyTools \/ LoadFails \/ Initialized
  PROVE  AgentInv'
<1> USE EmptyList, ListDomain DEF environment, ragVars, hostVars, sessionVars
<1>1. CASE Connect
  BY <1>1 DEF Connect, AgentInv, ShapeInv, ManagerInv, SessionInv, IndexInv,
              IndexCurrent, ListInv, RetrievedCallable
<1>2. CASE ListTools
  <2>1. ShapeInv'
    BY <1>2 DEF ListTools, Manager, AgentInv, ShapeInv, Lists
  <2>2. ManagerInv' /\ SessionInv' /\ IndexInv' /\ ListInv'
    BY <1>2 DEF ListTools, Manager, AgentInv, ManagerInv, SessionInv, IndexInv,
                IndexCurrent, ListInv, RetrievedCallable
  <2> QED
    BY <2>1, <2>2 DEF AgentInv
<1>3. CASE CopyTools
  <2>1. ShapeInv'
    BY <1>3 DEF CopyTools, AgentInv, ShapeInv
  <2>2. ManagerInv' /\ SessionInv' /\ IndexInv'
    BY <1>3 DEF CopyTools, AgentInv, ManagerInv, SessionInv, IndexInv,
                IndexCurrent, ShapeInv
  <2>3. ListInv'
    BY <1>3 DEF CopyTools, AgentInv, SessionInv, ListInv, RetrievedCallable
  <2> QED
    BY <2>1, <2>2, <2>3 DEF AgentInv
<1>4. CASE LoadFails
  BY <1>4 DEF LoadFails, AgentInv, ShapeInv, ManagerInv, SessionInv, IndexInv,
              IndexCurrent, ListInv, RetrievedCallable
<1>5. CASE Initialized
  BY <1>5 DEF Initialized, AgentInv, ShapeInv, ManagerInv, SessionInv, IndexInv,
              IndexCurrent, ListInv, RetrievedCallable
<1> QED
  BY <1>1, <1>2, <1>3, <1>4, <1>5

\* An indexing pass begins: nothing of the list is done yet.
LEMMA AgentPass ==
  ASSUME AgentInv, LoadIndex \/ RefreshTools
  PROVE  AgentInv'
<1> USE EmptyList, ListDomain DEF environment, ragVars, hostVars, sessionVars
<1>1. CASE LoadIndex
  <2>1. ShapeInv'
    BY <1>1 DEF LoadIndex, NewIndex, AgentInv, ShapeInv
  <2>2. ManagerInv' /\ SessionInv' /\ IndexInv'
    BY <1>1 DEF LoadIndex, AgentInv, ManagerInv, SessionInv, IndexInv, IndexCurrent
  <2>3. ListInv'
    BY <1>1 DEF LoadIndex, NewIndex, AgentInv, SessionInv, ListInv, RetrievedCallable
  <2> QED
    BY <2>1, <2>2, <2>3 DEF AgentInv
<1>2. CASE RefreshTools
  <2>1. cached' = cached
    BY <1>2 DEF RefreshTools, AgentInv, ListInv
  <2>2. ShapeInv'
    BY <1>2, <2>1 DEF RefreshTools, AgentInv, ShapeInv
  <2>3. ManagerInv' /\ SessionInv' /\ IndexInv'
    BY <1>2, <2>1 DEF RefreshTools, AgentInv, ManagerInv, SessionInv, IndexInv,
                      IndexCurrent
  <2>4. ListInv'
    BY <1>2, <2>1 DEF RefreshTools, AgentInv, SessionInv, ListInv, RetrievedCallable
  <2> QED
    BY <2>2, <2>3, <2>4 DEF AgentInv
<1> QED
  BY <1>1, <1>2

\* A tool is indexed, or skipped, and the pass ends.
LEMMA AgentIndexOne ==
  ASSUME AgentInv, NEW tool \in Tools, IndexOne(tool)
  PROVE  AgentInv'
<1> USE DEF IndexOne, environment, ragVars, hostVars, sessionVars, EmbedFails
<1>1. /\ \/ UNCHANGED <<index>> /\ missed' = TRUE
         \/ /\ index' = [t \in DOMAIN index \cup {tool} |->
                            IF t = tool THEN cached[tool] ELSE index[t]]
            /\ missed' = missed
      /\ pc = "index" /\ tool \in todo /\ todo' = todo \ {tool}
      /\ UNCHANGED <<config, offered, retrieving, pc, initialized, connected, listed,
                     began, cached, locked, saved, caller>>
  BY DEF Reindexed
<1>2. /\ DOMAIN index' \subseteq DOMAIN index \cup {tool}
      /\ DOMAIN index \subseteq DOMAIN index'
      /\ tool \in DOMAIN cached
  BY <1>1 DEF AgentInv, ListInv
<1>3. ShapeInv'
  BY <1>1, <1>2 DEF AgentInv, ShapeInv
<1>4. ManagerInv' /\ SessionInv'
  BY <1>1 DEF AgentInv, ManagerInv, SessionInv
<1>5. IndexInv'
  <2>1. IndexCurrent'
    BY <1>1 DEF AgentInv, SessionInv, IndexCurrent
  <2>2. SUFFICES ASSUME retrieving' \/ ~initialized', ~missed',
                        NEW t \in DOMAIN cached \ todo'
                 PROVE  t \in DOMAIN index' /\ index'[t] = cached[t]
    BY <2>1, <1>1 DEF IndexInv
  <2>3. index' = [u \in DOMAIN index \cup {tool} |->
                     IF u = tool THEN cached[tool] ELSE index[u]]
    BY <1>1, <2>2
  <2>4. CASE t = tool
    BY <2>3, <2>4
  <2>5. CASE t # tool
    BY <1>1, <2>2, <2>3, <2>5 DEF AgentInv, IndexInv
  <2> QED
    BY <2>4, <2>5
<1>6. ListInv'
  BY <1>1, <1>2 DEF AgentInv, ListInv, RetrievedCallable
<1> QED
  BY <1>3, <1>4, <1>5, <1>6 DEF AgentInv

LEMMA AgentIndexDone ==
  ASSUME AgentInv, IndexDone
  PROVE  AgentInv'
<1> USE DEF IndexDone, environment, ragVars, hostVars, sessionVars
<1>1. ShapeInv'
  BY DEF AgentInv, ShapeInv
<1>2. ManagerInv' /\ SessionInv'
  BY DEF AgentInv, ManagerInv, SessionInv
<1>3. IndexInv'
  BY DEF AgentInv, IndexInv, IndexCurrent, PassEnds
<1>4. ListInv'
  BY DEF AgentInv, SessionInv, ListInv, RetrievedCallable
<1> QED
  BY <1>1, <1>2, <1>3, <1>4 DEF AgentInv

\* What shutdown destroys takes those inside with it; the others are where they were.
LEMMA AgentStrand ==
  ASSUME AgentInv, NEW inside, NEW entering, Strand(inside, entering)
  PROVE  /\ caller' \in [Callers -> CallerStates]
         /\ \A c \in Callers :
               /\ caller'[c].at = caller[c].at \/ caller'[c].at = "stranded"
               /\ caller[c].at \in inside => caller'[c].at = "stranded"
               /\ caller'[c].tool = caller[c].tool
               /\ caller'[c].session = caller[c].session
<1>1. PICK late : caller' = [c \in Callers |->
                               IF caller[c].at \in inside \/ c \in late
                               THEN [caller[c] EXCEPT !.at = "stranded"] ELSE caller[c]]
  BY DEF Strand
<1>2. \A c \in Callers : caller[c] \in CallerStates
  BY DEF AgentInv, ShapeInv
<1>3. \A state \in CallerStates :
        /\ [state EXCEPT !.at = "stranded"] \in CallerStates
        /\ [state EXCEPT !.at = "stranded"].at = "stranded"
        /\ [state EXCEPT !.at = "stranded"].tool = state.tool
        /\ [state EXCEPT !.at = "stranded"].session = state.session
  BY DEF CallerStates, Places
<1> QED
  BY <1>1, <1>2, <1>3

\* Shutdown: nobody stays inside of what is destroyed.
LEMMA AgentShutdown ==
  ASSUME AgentInv,
         \/ SaveBegin \/ DropRetriever \/ EmptyManager \/ DropManager
         \/ Disconnect \/ DropClient \/ ClearCache
  PROVE  AgentInv'
<1> USE EmptyList DEF environment, ragVars, hostVars, sessionVars
<1>1. CASE SaveBegin
  <2>1. ShapeInv'
    BY <1>1 DEF SaveBegin, Torn, AgentInv, ShapeInv
  <2>2. ManagerInv' /\ SessionInv' /\ IndexInv' /\ ListInv'
    BY <1>1 DEF SaveBegin, AgentInv, ManagerInv, SessionInv, IndexInv,
                IndexCurrent, ListInv, RetrievedCallable
  <2> QED
    BY <2>1, <2>2 DEF AgentInv
<1>2. CASE DropRetriever
  <2>1. /\ caller' \in [Callers -> CallerStates]
        /\ \A c \in Callers :
              /\ caller'[c].at = caller[c].at \/ caller'[c].at = "stranded"
              /\ caller'[c].at # "asking"
              /\ caller'[c].tool = caller[c].tool
              /\ caller'[c].session = caller[c].session
    BY <1>2, AgentStrand DEF DropRetriever
  <2>2. /\ saved' = IF retrieving /\ config.file THEN Whole(index) ELSE saved
        /\ retrieving' = FALSE /\ pc = "save" /\ pc' = "empty"
        /\ UNCHANGED <<config, offered, index, initialized, connected, listed, began,
                       cached, locked, todo, missed>>
    BY <1>2 DEF DropRetriever
  <2>3. ShapeInv'
    BY <2>1, <2>2 DEF Whole, AgentInv, ShapeInv
  <2>4. ManagerInv' /\ SessionInv'
    BY <2>1, <2>2 DEF AgentInv, ManagerInv, SessionInv
  <2>5. IndexInv' /\ ListInv'
    BY <2>1, <2>2 DEF AgentInv, IndexInv, IndexCurrent, ListInv, RetrievedCallable
  <2> QED
    BY <2>3, <2>4, <2>5 DEF AgentInv
<1>3. CASE DropManager
  <2>1. /\ caller' \in [Callers -> CallerStates]
        /\ \A c \in Callers :
              /\ caller'[c].at = caller[c].at \/ caller'[c].at = "stranded"
              /\ caller'[c].at # "listed"
              /\ caller'[c].tool = caller[c].tool
              /\ caller'[c].session = caller[c].session
    BY <1>3, AgentStrand DEF DropManager
  <2>2. /\ listed' = NoManager /\ pc = "drop" /\ pc' = "disconnect"
        /\ UNCHANGED <<config, offered, retrieving, index, initialized, connected, began,
                       cached, locked, todo, missed, saved>>
    BY <1>3 DEF DropManager
  <2>3. ShapeInv'
    BY <2>1, <2>2 DEF NoManager, Lists, AgentInv, ShapeInv
  <2>4. ManagerInv' /\ SessionInv'
    BY <2>1, <2>2 DEF NoManager, AgentInv, ManagerInv, SessionInv
  <2>5. IndexInv' /\ ListInv'
    BY <2>1, <2>2 DEF AgentInv, SessionInv, IndexInv, IndexCurrent, ListInv,
                      RetrievedCallable
  <2> QED
    BY <2>3, <2>4, <2>5 DEF AgentInv
<1>4. CASE Disconnect
  BY <1>4 DEF Disconnect, AgentInv, ShapeInv, ManagerInv, SessionInv, IndexInv,
              IndexCurrent, ListInv, RetrievedCallable
<1>6. CASE EmptyManager
  <2>1. /\ listed' = [listed EXCEPT !.tools = Empty] /\ pc = "empty" /\ pc' = "drop"
        /\ UNCHANGED <<config, offered, retrieving, index, initialized, connected, began,
                       cached, locked, todo, missed, saved, caller>>
    BY <1>6 DEF EmptyManager
  <2>2. listed' \in [manager : BOOLEAN, tools : Lists]
        /\ listed'.manager = listed.manager /\ listed'.tools = Empty
    BY <2>1 DEF AgentInv, ShapeInv, Lists
  <2>3. ShapeInv'
    BY <2>1, <2>2 DEF AgentInv, ShapeInv
  <2>4. ManagerInv' /\ SessionInv'
    BY <2>1, <2>2 DEF AgentInv, ManagerInv, SessionInv
  <2>5. IndexInv' /\ ListInv'
    BY <2>1 DEF AgentInv, SessionInv, IndexInv, IndexCurrent, ListInv, RetrievedCallable
  <2> QED
    BY <2>3, <2>4, <2>5 DEF AgentInv
<1>7. CASE DropClient
  <2>1. /\ caller' \in [Callers -> CallerStates]
        /\ \A c \in Callers :
              /\ caller'[c].at = caller[c].at \/ caller'[c].at = "stranded"
              /\ caller'[c].at # "sent"
              /\ caller'[c].tool = caller[c].tool
              /\ caller'[c].session = caller[c].session
    BY <1>7, AgentStrand DEF DropClient
  <2>2. /\ began' = Empty /\ pc = "forget" /\ pc' = "clear"
        /\ UNCHANGED <<config, offered, retrieving, index, initialized, connected, listed,
                       cached, locked, todo, missed, saved>>
    BY <1>7 DEF DropClient
  <2>3. ShapeInv'
    BY <2>1, <2>2 DEF Lists, AgentInv, ShapeInv
  <2>4. ManagerInv' /\ SessionInv'
    BY <2>1, <2>2 DEF AgentInv, ManagerInv, SessionInv
  <2>5. IndexInv' /\ ListInv'
    BY <2>1, <2>2 DEF AgentInv, SessionInv, IndexInv, IndexCurrent, ListInv,
                      RetrievedCallable
  <2> QED
    BY <2>3, <2>4, <2>5 DEF AgentInv
<1>5. CASE ClearCache
  <2>1. /\ caller' \in [Callers -> CallerStates]
        /\ \A c \in Callers : /\ caller'[c].at = caller[c].at
                              /\ caller'[c].tool = caller[c].tool
                              /\ ~caller'[c].session
    <3>1. caller' = [c \in Callers |-> [caller[c] EXCEPT !.session = FALSE]]
      BY <1>5 DEF ClearCache
    <3>2. \A c \in Callers : caller[c] \in CallerStates
      BY DEF AgentInv, ShapeInv
    <3>3. \A state \in CallerStates :
            /\ [state EXCEPT !.session = FALSE] \in CallerStates
            /\ [state EXCEPT !.session = FALSE].at = state.at
            /\ [state EXCEPT !.session = FALSE].tool = state.tool
            /\ ~[state EXCEPT !.session = FALSE].session
      BY DEF CallerStates
    <3> QED
      BY <3>1, <3>2, <3>3
  <2>2. /\ pc = "clear" /\ pc' = "out" /\ cached' = Empty /\ initialized' = FALSE
        /\ UNCHANGED <<config, offered, retrieving, index, connected, listed, began,
                       locked, todo, missed, saved>>
    BY <1>5 DEF ClearCache
  <2>3. ShapeInv'
    BY <2>1, <2>2 DEF AgentInv, ShapeInv
  <2>4. ManagerInv' /\ SessionInv'
    BY <2>1, <2>2 DEF AgentInv, ManagerInv, SessionInv
  <2>5. IndexInv' /\ ListInv'
    BY <2>1, <2>2 DEF AgentInv, SessionInv, IndexInv, IndexCurrent, ListInv,
                      RetrievedCallable
  <2> QED
    BY <2>3, <2>4, <2>5 DEF AgentInv
<1> QED
  BY <1>1, <1>2, <1>3, <1>4, <1>5, <1>6, <1>7

-----------------------------------------------------------------------------
(* Callers *)

\* What a caller may become without disturbing anything else.
LEMMA AgentCaller ==
  ASSUME AgentInv, NEW c \in Callers, NEW state \in CallerStates,
         caller' = [caller EXCEPT ![c] = state],
         state.at = "listed" => listed.manager /\ state.tool \in DOMAIN began,
         state.at = "sent" =>
             pc \notin {"clear", "out", "list"} /\ state.tool \in DOMAIN began,
         state.at = "asking" => retrieving,
         ~config.file /\ state.session => state.tool \in DOMAIN cached,
         UNCHANGED <<config, offered, retrieving, index, hostVars, saved>>
  PROVE  AgentInv'
<1>1. ShapeInv'
  BY DEF AgentInv, ShapeInv, hostVars, sessionVars
<1>2. ManagerInv'
  BY DEF AgentInv, ShapeInv, ManagerInv, hostVars, sessionVars
<1>3. SessionInv'
  BY DEF AgentInv, ShapeInv, SessionInv, hostVars, sessionVars
<1>4. IndexInv'
  BY DEF AgentInv, IndexInv, IndexCurrent, hostVars, sessionVars
<1>5. ListInv'
  BY DEF AgentInv, ShapeInv, ListInv, RetrievedCallable, hostVars, sessionVars
<1> QED
  BY <1>1, <1>2, <1>3, <1>4, <1>5 DEF AgentInv

\* An answer names tools of the list, unless the index came from a file.
LEMMA AgentAnswered ==
  ASSUME AgentInv, NEW c \in Callers, NEW tools, tools \subseteq Tools,
         ~config.file => tools \subseteq DOMAIN cached,
         Answered(c, tools),
         UNCHANGED <<config, offered, retrieving, index, hostVars, saved>>
  PROVE  AgentInv'
<1>1. CASE caller' = [caller EXCEPT ![c] = Idle]
  BY <1>1, AgentCaller DEF Idle, CallerStates, Places
<1>2. CASE \E tool \in tools :
              caller' = [caller EXCEPT ![c] = [at |-> "chosen", tool |-> tool,
                                               session |-> TRUE]]
  <2>1. PICK tool \in tools :
              caller' = [caller EXCEPT ![c] = [at |-> "chosen", tool |-> tool,
                                               session |-> TRUE]]
    BY <1>2
  <2>2. [at |-> "chosen", tool |-> tool, session |-> TRUE] \in CallerStates
    BY DEF CallerStates, Places
  <2> QED
    BY <2>1, <2>2, AgentCaller
<1> QED
  BY <1>1, <1>2 DEF Answered

LEMMA AgentAsk ==
  ASSUME AgentInv, NEW c \in Callers, Ask(c) \/ AnswerAll(c) \/ AskIndex(c) \/ Retrieve(c)
  PROVE  AgentInv'
<1> USE DEF environment, ragVars
<1>1. CASE AnswerAll(c)
  BY <1>1, AgentAnswered DEF AnswerAll, AgentInv, ShapeInv
<1>2. CASE AskIndex(c)
  <2>1. CASE index = Empty
    <3>1. /\ Answered(c, {})
          /\ UNCHANGED <<config, offered, retrieving, index, hostVars, saved>>
      BY <1>2, <2>1 DEF AskIndex
    <3>2. {} \subseteq Tools /\ {} \subseteq DOMAIN cached
      OBVIOUS
    <3> QED
      BY <3>1, <3>2, AgentAnswered
  <2>2. CASE index # Empty
    <3>1. caller' = [caller EXCEPT ![c] = [caller[c] EXCEPT !.at = "asking"]]
      BY <1>2, <2>2 DEF AskIndex
    <3>2. [caller[c] EXCEPT !.at = "asking"] \in CallerStates
      BY DEF AgentInv, ShapeInv, CallerStates, Places
    <3> QED
      BY <1>2, <3>1, <3>2, AgentCaller
         DEF AskIndex, AgentInv, ShapeInv, ListInv, RetrievedCallable, CallerStates
  <2> QED
    BY <2>1, <2>2
<1>3. CASE Retrieve(c)
  <2>1. /\ retrieving /\ config.rag
        /\ UNCHANGED <<config, offered, retrieving, index, hostVars, saved>>
    BY <1>3 DEF Retrieve, AgentInv, SessionInv
  <2>2. \E tools \in SUBSET DOMAIN index : Answered(c, tools)
    BY <1>3 DEF Retrieve
  <2>3. PICK tools \in SUBSET DOMAIN index : Answered(c, tools)
    BY <2>2
  <2>4. tools \subseteq Tools /\ (~config.file => tools \subseteq DOMAIN cached)
    BY <2>1 DEF AgentInv, ShapeInv, ListInv
  <2> QED
    BY <2>1, <2>3, <2>4, AgentAnswered
<1>4. CASE Ask(c)
  <2>1. caller' = [caller EXCEPT ![c] = [caller[c] EXCEPT !.at = "waiting"]]
    BY <1>4 DEF Ask, GoesOn
  <2>2. /\ [caller[c] EXCEPT !.at = "waiting"] \in CallerStates
        /\ [caller[c] EXCEPT !.at = "waiting"].at = "waiting"
        /\ [caller[c] EXCEPT !.at = "waiting"].tool = caller[c].tool
        /\ [caller[c] EXCEPT !.at = "waiting"].session = caller[c].session
    BY DEF AgentInv, ShapeInv, CallerStates, Places
  <2>3. ~config.file /\ caller[c].session => caller[c].tool \in DOMAIN cached
    BY DEF AgentInv, ListInv, RetrievedCallable
  <2> QED
    BY <1>4, <2>1, <2>2, <2>3, AgentCaller DEF Ask
<1> QED
  BY <1>1, <1>2, <1>3, <1>4

\* A caller goes on, with the same tool, or returns.
LEMMA AgentGoesOn ==
  ASSUME AgentInv, NEW c \in Callers,
         \/ Returns(c)
         \/ \E at \in {"available", "execute"} : GoesOn(c, at)
         \/ /\ GoesOn(c, "listed")
            /\ listed.manager /\ caller[c].tool \in DOMAIN began
         \/ /\ GoesOn(c, "sent")
            /\ pc \notin {"clear", "out", "list"} /\ caller[c].tool \in DOMAIN began,
         UNCHANGED <<config, offered, retrieving, index, hostVars, saved>>
  PROVE  AgentInv'
<1>1. CASE Returns(c)
  BY <1>1, AgentCaller DEF Returns, Idle, CallerStates, Places
<1>2. CASE ~Returns(c)
  <2>1. PICK at \in {"available", "execute", "listed", "sent"} :
          /\ caller' = [caller EXCEPT ![c] = [caller[c] EXCEPT !.at = at]]
          /\ at = "listed" => listed.manager /\ caller[c].tool \in DOMAIN began
          /\ at = "sent" =>
                pc \notin {"clear", "out", "list"} /\ caller[c].tool \in DOMAIN began
    BY <1>2 DEF GoesOn
  <2> DEFINE state == [caller[c] EXCEPT !.at = at]
  <2>2. /\ state \in CallerStates /\ state.at = at
        /\ state.tool = caller[c].tool /\ state.session = caller[c].session
    BY DEF AgentInv, ShapeInv, CallerStates, Places
  <2>3. ~config.file /\ state.session => state.tool \in DOMAIN cached
    BY <2>2 DEF AgentInv, ListInv, RetrievedCallable
  <2> QED
    BY <2>1, <2>2, <2>3, AgentCaller
<1> QED
  BY <1>1, <1>2

LEMMA AgentCall ==
  ASSUME AgentInv, NEW c \in Callers, CallStep(c)
  PROVE  AgentInv'
<1> USE DEF environment, ragVars
<1>1. CASE CheckAvailable(c) \/ CheckTool(c) \/ Receive(c)
  BY <1>1, AgentGoesOn DEF CheckAvailable, CheckTool, Receive
<1>2. CASE Execute(c)
  <2>1. CASE ~listed.manager
    BY <1>2, <2>1, AgentRestart DEF Execute, Crash
  <2>2. CASE listed.manager
    BY <1>2, <2>2, AgentGoesOn DEF Execute, IsAvailable, AgentInv, ManagerInv
  <2> QED
    BY <2>1, <2>2
<1>3. CASE Retrieve(c) \/ AnswerAll(c)
  BY <1>3, AgentAsk
<1>4. CASE Send(c)
  BY <1>4, AgentGoesOn DEF Send, AgentInv, ManagerInv
<1>5. CASE UseDestroyed(c)
  BY <1>5, AgentRestart DEF UseDestroyed, Crash
<1> QED
  BY <1>1, <1>2, <1>3, <1>4, <1>5 DEF CallStep

-----------------------------------------------------------------------------
\* What the invariant speaks of is left alone, but for the server's offer.
LEMMA AgentFrame ==
  ASSUME AgentInv, offered' \in Catalogs,
         UNCHANGED <<config, retrieving, index, hostVars, saved, caller>>
  PROVE  AgentInv'
BY DEF hostVars, sessionVars, AgentInv, ShapeInv, ManagerInv, SessionInv, IndexInv,
       IndexCurrent, ListInv, RetrievedCallable

LEMMA AgentStep == AgentInv /\ [Next]_vars => AgentInv'
<1> SUFFICES ASSUME AgentInv, [Next]_vars PROVE AgentInv'
  OBVIOUS
<1>1. CASE Connect \/ ListTools \/ CopyTools \/ LoadFails \/ Initialized
  BY <1>1, AgentOpen
<1>2. CASE LoadIndex \/ RefreshTools
  BY <1>2, AgentPass
<1>3. CASE IndexStep
  BY <1>3, AgentIndexOne, AgentIndexDone DEF IndexStep
<1>4. CASE \/ SaveBegin \/ DropRetriever \/ EmptyManager \/ DropManager
           \/ Disconnect \/ DropClient \/ ClearCache
  BY <1>4, AgentShutdown
<1>5. CASE \E c \in Callers : Ask(c) \/ AskIndex(c) \/ CallStep(c)
  BY <1>5, AgentAsk, AgentCall
<1>6. CASE ServerChanges \/ EmbeddingChanges \/ Expire \/ UNCHANGED vars
  BY <1>6, AgentFrame DEF ServerChanges, EmbeddingChanges, Expire, vars,
     environment, ragVars, AgentInv, ShapeInv
<1>7. CASE Killed
  BY <1>7, AgentRestart DEF Killed
<1> QED
  BY <1>1, <1>2, <1>3, <1>4, <1>5, <1>6, <1>7 DEF Next

LEMMA AgentAlways == Spec => []AgentInv
BY AgentInit, AgentStep, PTL DEF Spec

-----------------------------------------------------------------------------
\* Whatever connection the checks of a call were made in, what goes to the
\* server names a tool of the list this connection began with.
THEOREM SentListed == Spec => []SentIsListed
<1>1. AgentInv => SentIsListed
  BY DEF AgentInv, ManagerInv, SentIsListed
<1> QED
  BY <1>1, AgentAlways, PTL

\* Without an index file, what retrieval answers can be called for as long as
\* the host does not shut down.
THEOREM RetrievedFound == Spec => []RetrievedCallable
<1>1. AgentInv => RetrievedCallable
  BY DEF AgentInv, ListInv
<1> QED
  BY <1>1, AgentAlways, PTL

\* Between passes the index has every tool of the list as the list has it,
\* unless one could not be embedded, whatever a file or an earlier session
\* left in it.
THEOREM IndexFollows == Spec => []IndexCurrent
<1>1. AgentInv => IndexCurrent
  BY DEF AgentInv, IndexInv
<1> QED
  BY <1>1, AgentAlways, PTL

-----------------------------------------------------------------------------
(* The embedding cache *)

\* A list of texts of at most m, none of them twice.
CacheOf(m, list) ==
    /\ \E S : list \in Seq(S)
    /\ Len(list) <= m
    /\ IsInjective(list)

\* A part of a list.
LEMMA Part ==
  ASSUME NEW S, NEW s \in Seq(S), NEW m \in Nat \ {0}, NEW n \in Nat,
         m <= n + 1, n <= Len(s)
  PROVE  /\ SubSeq(s, m, n) \in Seq(S)
         /\ Len(SubSeq(s, m, n)) = n - m + 1
         /\ \A j \in 1..(n - m + 1) : SubSeq(s, m, n)[j] = s[m + j - 1]
<1>1. \A j \in 1..Len(s) : s[j] \in S
  BY ElementOfSeq
<1>2. \A j \in m..n : j \in 1..Len(s)
  BY LenProperties
<1>3. \A j \in m..n : s[j] \in S
  BY <1>1, <1>2
<1>4. m \in Int /\ n \in Int
  OBVIOUS
<1>5. /\ SubSeq(s, m, n) \in Seq(S)
      /\ Len(SubSeq(s, m, n)) = IF m <= n THEN n - m + 1 ELSE 0
      /\ \A j \in 1..(n - m + 1) : SubSeq(s, m, n)[j] = s[m + j - 1]
  BY <1>3, <1>4, SubSeqProperties
<1>6. ~(m <= n) => n - m + 1 = 0
  OBVIOUS
<1> QED
  BY <1>5, <1>6

\* A list without its i-th entry.
LEMMA Removed ==
  ASSUME NEW S, NEW s \in Seq(S), NEW i \in 1..Len(s), IsInjective(s)
  PROVE  /\ RemoveAt(s, i) \in Seq(S)
         /\ Len(RemoveAt(s, i)) = Len(s) - 1
         /\ IsInjective(RemoveAt(s, i))
         /\ \A j \in DOMAIN RemoveAt(s, i) : RemoveAt(s, i)[j] # s[i]
<1> DEFINE a == SubSeq(s, 1, i - 1)
           b == SubSeq(s, i + 1, Len(s))
           r == a \o b
           l == Len(s)
<1>1. RemoveAt(s, i) = r
  BY DEF RemoveAt
<1>2. l \in Nat /\ i \in 1..l /\ DOMAIN s = 1..l
  BY LenProperties
<1>3. \A j, k \in 1..l : s[j] = s[k] => j = k
  BY <1>2 DEF IsInjective
<1>4. /\ a \in Seq(S) /\ Len(a) = i - 1
      /\ \A j \in 1..(i - 1) : a[j] = s[j]
  <2>1. /\ 1 \in Nat \ {0} /\ i - 1 \in Nat /\ 1 <= (i - 1) + 1 /\ i - 1 <= Len(s)
        /\ (i - 1) - 1 + 1 = i - 1 /\ \A j \in 1..(i - 1) : 1 + j - 1 = j
    BY <1>2
  <2>2. /\ a \in Seq(S) /\ Len(a) = (i - 1) - 1 + 1
        /\ \A j \in 1..((i - 1) - 1 + 1) : a[j] = s[1 + j - 1]
    BY <2>1, Part
  <2> HIDE DEF a
  <2> QED
    BY <2>1, <2>2
<1>5. /\ b \in Seq(S) /\ Len(b) = l - i
      /\ \A j \in 1..(l - i) : b[j] = s[i + j]
  <2> DEFINE m == i + 1
             n == Len(s)
  <2>1. /\ m \in Nat \ {0} /\ n \in Nat /\ m <= n + 1 /\ n <= Len(s)
        /\ n - m + 1 = l - i /\ \A j \in 1..(l - i) : m + j - 1 = i + j
    BY <1>2
  <2>2. b = SubSeq(s, m, n)
    OBVIOUS
  <2> HIDE DEF b, l, m, n
  <2>3. /\ SubSeq(s, m, n) \in Seq(S) /\ Len(SubSeq(s, m, n)) = n - m + 1
        /\ \A j \in 1..(n - m + 1) : SubSeq(s, m, n)[j] = s[m + j - 1]
    BY <2>1, Part
  <2> QED
    BY <2>1, <2>2, <2>3
<1> HIDE DEF a, b
<1>6. /\ r \in Seq(S) /\ Len(r) = Len(a) + Len(b)
      /\ \A j \in 1..(Len(a) + Len(b)) :
            r[j] = IF j <= Len(a) THEN a[j] ELSE b[j - Len(a)]
  BY <1>4, <1>5, ConcatProperties
<1> HIDE DEF r, l
<1>7. /\ Len(r) = l - 1
      /\ \A j \in 1..(l - 1) : r[j] = IF j <= i - 1 THEN a[j] ELSE b[j - (i - 1)]
  <2>1. Len(a) + Len(b) = l - 1
    BY <1>2, <1>4, <1>5
  <2> QED
    BY <1>4, <1>6, <2>1
<1>8. DOMAIN r = 1..(l - 1)
  BY <1>6, <1>7, LenProperties
<1> DEFINE at(j) == IF j <= i - 1 THEN j ELSE j + 1
<1>9. \A j \in 1..(l - 1) : r[j] = s[at(j)] /\ at(j) \in 1..l /\ at(j) # i
  <2> TAKE j \in 1..(l - 1)
  <2>1. CASE j <= i - 1
    <3>1. r[j] = a[j] /\ j \in 1..(i - 1)
      BY <1>2, <1>7, <2>1
    <3>2. a[j] = s[j] /\ j \in 1..l /\ j # i
      BY <1>2, <1>4, <3>1
    <3> QED
      BY <2>1, <3>1, <3>2
  <2>2. CASE ~(j <= i - 1)
    <3>1. j - (i - 1) \in 1..(l - i) /\ i + (j - (i - 1)) = j + 1 /\ j + 1 \in 1..l /\ j + 1 # i
      BY <1>2, <2>2
    <3>2. r[j] = b[j - (i - 1)]
      BY <1>7, <2>2
    <3>3. b[j - (i - 1)] = s[j + 1]
      BY <1>5, <3>1
    <3> QED
      BY <2>2, <3>1, <3>2, <3>3
  <2> QED
    BY <2>1, <2>2
<1>10. \A j, k \in 1..(l - 1) : at(j) = at(k) => j = k
  BY <1>2
<1> HIDE DEF at
<1>11. IsInjective(r)
  BY <1>3, <1>8, <1>9, <1>10 DEF IsInjective
<1>12. \A j \in DOMAIN r : r[j] # s[i]
  BY <1>2, <1>3, <1>8, <1>9
<1> QED
  BY <1>1, <1>6, <1>7, <1>11, <1>12 DEF l

\* Without a text, which is in the list at most once.
LEMMA RemovedFirst ==
  ASSUME NEW S, NEW s \in Seq(S), NEW x, IsInjective(s)
  PROVE  /\ RemoveFirst(s, x) \in Seq(S)
         /\ Len(RemoveFirst(s, x)) = IF x \in ToSet(s) THEN Len(s) - 1 ELSE Len(s)
         /\ IsInjective(RemoveFirst(s, x))
         /\ \A j \in DOMAIN RemoveFirst(s, x) : RemoveFirst(s, x)[j] # x
<1>1. DOMAIN s = 1..Len(s) /\ Len(s) \in Nat
  OBVIOUS
<1>2. x \in ToSet(s) <=> \E i \in 1..Len(s) : s[i] = x
  BY <1>1 DEF ToSet
<1>3. CASE \E i \in 1..Len(s) : s[i] = x
  <2>1. PICK i \in 1..Len(s) : s[i] = x
    BY <1>3
  <2> DEFINE I == {j \in 1..Len(s) : s[j] = x}
  <2>2. I = {i}
    BY <1>1, <2>1 DEF IsInjective
  <2>3. Min(I) = i
    BY <2>2 DEF Min
  <2>4. RemoveFirst(s, x) = RemoveAt(s, i)
    BY <1>3, <2>2, <2>3 DEF RemoveFirst, SelectInSeq
  <2> QED
    BY <1>2, <1>3, <2>1, <2>4, Removed
<1>4. CASE ~\E i \in 1..Len(s) : s[i] = x
  <2>1. RemoveFirst(s, x) = s
    BY <1>4 DEF RemoveFirst
  <2> QED
    BY <1>1, <1>2, <1>4, <2>1
<1> QED
  BY <1>3, <1>4

\* A new entry in front of a list that does not have it.
LEMMA PutFirst ==
  ASSUME NEW S, NEW s \in Seq(S), NEW x, IsInjective(s), \A j \in DOMAIN s : s[j] # x
  PROVE  /\ <<x>> \o s \in Seq(S \cup {x})
         /\ Len(<<x>> \o s) = Len(s) + 1
         /\ IsInjective(<<x>> \o s)
<1> DEFINE r == <<x>> \o s
           T == S \cup {x}
<1>1. s \in Seq(T) /\ <<x>> \in Seq(T) /\ Len(<<x>>) = 1 /\ <<x>>[1] = x
      /\ DOMAIN s = 1..Len(s) /\ Len(s) \in Nat
  OBVIOUS
<1> HIDE DEF T
<1>2. /\ r \in Seq(T) /\ Len(r) = Len(s) + 1 /\ DOMAIN r = 1..(Len(s) + 1)
      /\ r[1] = x
      /\ \A j \in 2..(Len(s) + 1) : r[j] = s[j - 1] /\ j - 1 \in 1..Len(s)
  BY <1>1
<1> HIDE DEF r
<1>3. ASSUME NEW j \in DOMAIN r, NEW k \in DOMAIN r, r[j] = r[k] PROVE j = k
  <2>1. CASE j = 1 /\ k = 1
    BY <2>1
  <2>2. CASE j # 1 /\ k # 1
    <3>1. j - 1 \in DOMAIN s /\ k - 1 \in DOMAIN s /\ s[j - 1] = s[k - 1]
      BY <1>1, <1>2, <1>3, <2>2
    <3>2. j - 1 = k - 1
      BY <3>1 DEF IsInjective
    <3> QED
      BY <1>1, <1>2, <3>2
  <2>3. CASE j = 1 /\ k # 1
    BY <1>1, <1>2, <1>3, <2>3
  <2>4. CASE j # 1 /\ k = 1
    BY <1>1, <1>2, <1>3, <2>4
  <2> QED
    BY <2>1, <2>2, <2>3, <2>4
<1>4. IsInjective(r)
  BY <1>3 DEF IsInjective
<1> QED
  BY <1>2, <1>4 DEF r, T

\* A list without its last entry.
LEMMA WithoutLast ==
  ASSUME NEW S, NEW s \in Seq(S), Len(s) >= 1, IsInjective(s)
  PROVE  /\ Front(s) \in Seq(S)
         /\ Len(Front(s)) = Len(s) - 1
         /\ IsInjective(Front(s))
         /\ \A j \in DOMAIN Front(s) : j \in DOMAIN s /\ Front(s)[j] = s[j]
<1> DEFINE r == SubSeq(s, 1, Len(s) - 1)
<1>1. Front(s) = r
  BY DEF Front
<1>2. /\ r \in Seq(S) /\ Len(r) = Len(s) - 1 /\ DOMAIN r = 1..(Len(s) - 1)
      /\ DOMAIN s = 1..Len(s) /\ Len(s) \in Nat
      /\ \A j \in 1..(Len(s) - 1) : r[j] = s[j]
  <2> DEFINE n == Len(s) - 1
  <2>1. Len(s) \in Nat /\ DOMAIN s = 1..Len(s)
    BY LenProperties
  <2>2. /\ 1 \in Nat \ {0} /\ n \in Nat /\ 1 <= n + 1 /\ n <= Len(s)
        /\ n - 1 + 1 = n /\ \A j \in 1..n : 1 + j - 1 = j
    BY <2>1
  <2> HIDE DEF n
  <2>3. /\ SubSeq(s, 1, n) \in Seq(S) /\ Len(SubSeq(s, 1, n)) = n - 1 + 1
        /\ \A j \in 1..(n - 1 + 1) : SubSeq(s, 1, n)[j] = s[1 + j - 1]
    BY <2>2, Part
  <2>4. r \in Seq(S) /\ Len(r) = n /\ \A j \in 1..n : r[j] = s[j]
    BY <2>2, <2>3 DEF n
  <2> HIDE DEF r
  <2>5. DOMAIN r = 1..n
    BY <2>4, LenProperties
  <2> QED
    BY <2>1, <2>4, <2>5 DEF n
<1> HIDE DEF r
<1>3. \A j \in DOMAIN r : j \in DOMAIN s /\ r[j] = s[j]
  BY <1>2
<1>4. IsInjective(r)
  BY <1>3 DEF IsInjective
<1> QED
  BY <1>1, <1>2, <1>3, <1>4

\* Looking a text up or adding it keeps to the size.
LEMMA Remembered ==
  ASSUME CacheOf(CacheMax, embedded), NEW text
  PROVE  CacheOf(CacheMax, Remember(text))
<1> DEFINE others == RemoveFirst(embedded, text)
           full == text \notin ToSet(embedded) /\ Len(embedded) >= CacheMax
           kept == IF full THEN Front(others) ELSE others
<1>1. PICK S : embedded \in Seq(S)
  BY DEF CacheOf
<1>2. Len(embedded) \in Nat /\ Len(embedded) <= CacheMax /\ CacheMax \in Nat \ {0}
  BY <1>1, LimitAssumption DEF CacheOf
<1>3. /\ others \in Seq(S) /\ IsInjective(others)
      /\ Len(others) = IF text \in ToSet(embedded) THEN Len(embedded) - 1
                       ELSE Len(embedded)
      /\ \A j \in DOMAIN others : others[j] # text
  BY <1>1, RemovedFirst DEF CacheOf
<1> HIDE DEF others
<1>4. /\ kept \in Seq(S) /\ IsInjective(kept) /\ Len(kept) + 1 <= CacheMax
      /\ \A j \in DOMAIN kept : kept[j] # text
  <2>1. CASE full
    <3>1. Len(others) >= 1 /\ Len(others) - 1 + 1 <= CacheMax
      BY <1>2, <1>3, <2>1
    <3>2. kept = Front(others)
      BY <2>1
    <3> QED
      BY <1>3, <3>1, <3>2, WithoutLast
  <2>2. CASE ~full
    <3>1. Len(others) + 1 <= CacheMax
      <4>1. CASE text \in ToSet(embedded)
        BY <1>2, <1>3, <4>1
      <4>2. CASE text \notin ToSet(embedded)
        BY <1>2, <1>3, <2>2, <4>2
      <4> QED
        BY <4>1, <4>2
    <3>2. kept = others
      BY <2>2
    <3> QED
      BY <1>3, <3>1, <3>2
  <2> QED
    BY <2>1, <2>2
<1>5. Remember(text) = <<text>> \o kept
  BY DEF Remember, others
<1> HIDE DEF kept
<1>6. /\ <<text>> \o kept \in Seq(S \cup {text})
      /\ Len(<<text>> \o kept) = Len(kept) + 1
      /\ IsInjective(<<text>> \o kept)
  BY <1>4, PutFirst
<1> QED
  BY <1>4, <1>5, <1>6 DEF CacheOf

\* An empty cache keeps to its size.
LEMMA NothingCached == CacheOf(CacheMax, <<>>)
<1>1. <<>> \in Seq({}) /\ Len(<<>>) = 0
  OBVIOUS
<1>2. IsInjective(<<>>)
  BY DEF IsInjective
<1> QED
  BY <1>1, <1>2, LimitAssumption DEF CacheOf

\* What no other part of the invariant says: the host's thread is somewhere,
\* a pass has work only while it goes on, the file is whole, torn or not there,
\* and the cache keeps to its size.
BoundInv ==
    /\ pc \in {"out", "list", "copy", "load", "finish", "ready", "index", "save",
               "empty", "drop", "disconnect", "forget", "clear"}
    /\ pc # "index" => todo = {}
    /\ saved.state \in {"none", "torn", "whole"}
    /\ CacheOf(CacheMax, embedded)

LEMMA BoundInit == Init => BoundInv
BY NothingCached DEF Init, Fresh, NoFile, BoundInv

LEMMA BoundRestart == BoundInv /\ StartsAgain => BoundInv'
BY NothingCached DEF StartsAgain, BoundInv

LEMMA BoundStep == BoundInv /\ [Next]_vars => BoundInv'
<1> SUFFICES ASSUME BoundInv, [Next]_vars PROVE BoundInv'
  OBVIOUS
<1> USE DEF environment, ragVars, hostVars, sessionVars
<1>1. CASE \/ Connect \/ ListTools \/ CopyTools \/ LoadFails \/ Initialized
           \/ RefreshTools \/ IndexDone
  BY <1>1 DEF Connect, ListTools, CopyTools, LoadFails, Initialized, RefreshTools, IndexDone,
     PassEnds, BoundInv
<1>2. CASE LoadIndex
  BY <1>2, NothingCached DEF LoadIndex, BoundInv
<1>3. CASE \E tool \in Tools : IndexOne(tool)
  <2>1. PICK tool \in Tools : IndexOne(tool)
    BY <1>3
  <2>2. pc' = pc /\ pc = "index" /\ saved' = saved
    BY <2>1 DEF IndexOne
  <2>3. embedded' = Remember(Text(tool, cached[tool])) \/ embedded' = embedded
    BY <2>1 DEF IndexOne, Embeds, EmbedFails
  <2>4. CacheOf(CacheMax, embedded')
    BY <2>3, Remembered DEF BoundInv
  <2> QED
    BY <2>2, <2>4 DEF BoundInv
<1>4. CASE \/ SaveBegin \/ DropRetriever \/ EmptyManager \/ DropManager
           \/ Disconnect \/ DropClient \/ ClearCache
  BY <1>4 DEF SaveBegin, DropRetriever, EmptyManager, DropManager, Disconnect, DropClient,
     ClearCache, Torn, Whole, BoundInv
<1>5. CASE \E c \in Callers : Ask(c) \/ AskIndex(c) \/ CallStep(c)
  <2>1. PICK c \in Callers : Ask(c) \/ AskIndex(c) \/ CallStep(c)
    BY <1>5
  <2>2. CASE StartsAgain
    BY <2>2, BoundRestart
  <2>3. CASE ~StartsAgain
    <3>1. UNCHANGED <<pc, todo, saved>>
      BY <2>1, <2>3 DEF Ask, AnswerAll, AskIndex, CallStep, CheckAvailable, CheckTool,
         Execute, Send, UseDestroyed, Crash, Receive, Retrieve
    <3>2. embedded' = Remember(Query) \/ embedded' = embedded
      BY <2>1, <2>3 DEF Ask, AnswerAll, AskIndex, CallStep, CheckAvailable, CheckTool,
         Execute, Send, UseDestroyed, Crash, Receive, Retrieve, Embeds, EmbedFails
    <3>3. CacheOf(CacheMax, embedded')
      BY <3>2, Remembered DEF BoundInv
    <3> QED
      BY <3>1, <3>3 DEF BoundInv
  <2> QED
    BY <2>2, <2>3
<1>6. CASE ServerChanges \/ EmbeddingChanges \/ UNCHANGED vars
  BY <1>6 DEF ServerChanges, EmbeddingChanges, vars, BoundInv
<1>7. CASE Expire
  <2>1. PICK i \in DOMAIN embedded : embedded' = RemoveAt(embedded, i)
    BY <1>7 DEF Expire
  <2>2. PICK S : embedded \in Seq(S)
    BY DEF BoundInv, CacheOf
  <2>3. /\ embedded' \in Seq(S) /\ IsInjective(embedded')
        /\ Len(embedded') = Len(embedded) - 1 /\ Len(embedded) \in Nat
    BY <2>1, <2>2, Removed DEF BoundInv, CacheOf
  <2>4. CacheOf(CacheMax, embedded')
    BY <2>3, LimitAssumption DEF BoundInv, CacheOf
  <2>5. UNCHANGED <<pc, todo, saved>>
    BY <1>7 DEF Expire
  <2> QED
    BY <2>4, <2>5 DEF BoundInv
<1>8. CASE Killed
  BY <1>8, BoundRestart DEF Killed
<1> QED
  BY <1>1, <1>2, <1>3, <1>4, <1>5, <1>6, <1>7, <1>8 DEF Next, IndexStep

\* Whatever is embedded, expires or fails, the embedding cache holds no text
\* twice and no more than its size, and a pass has only tools of the list to do.
THEOREM AgentTyped == Spec => []TypeOK
<1>1. AgentInv /\ BoundInv => TypeOK
  <2> SUFFICES ASSUME AgentInv, BoundInv PROVE TypeOK
    OBVIOUS
  <2>1. todo \subseteq DOMAIN cached
    BY DEF AgentInv, ListInv, BoundInv
  <2>2. \A c \in Callers : /\ caller[c].at \in {"idle", "waiting", "asking", "chosen",
                                               "available", "execute", "listed", "sent",
                                               "stranded"}
                           /\ caller[c].tool \in Tools \cup {NoTool}
    BY DEF AgentInv, ShapeInv, CallerStates, Places
  <2> QED
    BY <2>1, <2>2 DEF AgentInv, ShapeInv, BoundInv, CacheOf, TypeOK
<1>2. Spec => []BoundInv
  BY BoundInit, BoundStep, PTL DEF Spec
<1> QED
  BY <1>1, <1>2, AgentAlways, PTL
=============================================================================
