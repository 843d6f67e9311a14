---------------------------- MODULE SseTransport ----------------------------
(***************************************************************************)
(* The SSE transport of the server, mcp_server/src/transport/              *)
(* SseTransport.cpp, between Server::Connect and the HTTP library.         *)
(*                                                                         *)
(* Requests come as POSTs into incoming_messages_, which main reads; what  *)
(* main and the notification writer say goes through outgoing_messages_    *)
(* to whichever event stream pops it first.  POSTs and event streams run   *)
(* on the workers of the HTTP library's pool, and a stream keeps its       *)
(* worker until it ends.  Posted and said messages are numbered in the     *)
(* order in which they are queued.                                         *)
(***************************************************************************)
EXTENDS Naturals, Sequences, FiniteSets

CONSTANTS
    Clients,      \* event streams that clients may open, one each
    Workers,      \* the threads of the HTTP library's pool
    Nobody,       \* not a client
    Interrupts,   \* whether SIGINT may arrive
    MaxPosts,     \* bound on the POSTs
    MaxSaid       \* bound on the messages said before no more notifications

ASSUME TransportAssumption ==
    /\ Nobody \notin Clients
    /\ Interrupts \in BOOLEAN
    /\ {MaxPosts, MaxSaid} \subseteq Nat

VARIABLES
    main,        \* where main stands in Read, Write or Stop
    writer,      \* where the notification writer stands in Write
    abandoned,   \* mutexes main held when SIGINT interrupted it
    running,     \* server_running_
    connected,   \* client_connected_
    active,      \* sse_active_
    socket,      \* the listening socket and its loop: see PoolServes
    incoming,    \* incoming_messages_
    outgoing,    \* outgoing_messages_
    accepted,    \* POSTs queued so far
    handled,     \* POSTs read so far
    said,        \* messages queued for the streams so far
    worker,      \* per worker, where it stands
    serving,     \* per worker, the client whose stream it runs
    popped,      \* per worker, the message it is about to write, if any
    present,     \* clients that have opened a stream and not hung up
    arrived,     \* clients that have opened a stream
    delivered,   \* what the clients have received, in order
    lost         \* messages popped and not received by anybody

mainVars == <<main, writer, abandoned>>
flagVars == <<running, connected, active, socket>>
queueVars == <<incoming, outgoing, accepted, handled, said>>
workerVars == <<worker, serving, popped>>
clientVars == <<present, arrived, delivered, lost>>
vars == <<main, writer, abandoned, running, connected, active, socket,
          incoming, outgoing, accepted, handled, said, worker, serving,
          popped, present, arrived, delivered, lost>>

-----------------------------------------------------------------------------
\* Start has returned true and nobody has connected yet.
Init ==
    /\ main = "read" /\ writer = "idle" /\ abandoned = {}
    /\ running = TRUE /\ connected = FALSE /\ active = FALSE
    /\ socket = "open"
    /\ incoming = <<>> /\ outgoing = <<>>
    /\ accepted = 0 /\ handled = 0 /\ said = 0
    /\ worker = [w \in Workers |-> "free"]
    /\ serving = [w \in Workers |-> Nobody]
    /\ popped = [w \in Workers |-> <<>>]
    /\ present = {} /\ arrived = {}
    /\ delivered = <<>> /\ lost = {}

\* A notification of incoming_cv_ wakes main.
Woken_Nobody == main   \* mutant: the notification is left out
Woken == IF main = "asleep" THEN "read" ELSE main

-----------------------------------------------------------------------------
(* Read and the handling of what was read, by main *)

\* main takes incoming_mutex_, which it keeps while it evaluates the
\* predicate of the wait.
ReadLock ==
    /\ main = "read"
    /\ main' = "evaluate"
    /\ UNCHANGED <<writer, abandoned, flagVars, queueVars, workerVars, clientVars>>

ReadMessage ==
    /\ main = "evaluate"
    /\ incoming # <<>>
    /\ incoming' = Tail(incoming)
    /\ handled' = handled + 1
    /\ main' = "handle"
    /\ UNCHANGED <<writer, abandoned, flagVars, outgoing, accepted, said,
                   workerVars, clientVars>>

\* With nothing to read main blocks, or returns the empty message on which
\* Connect stops.
ReadNothing ==
    /\ main = "evaluate"
    /\ incoming = <<>>
    /\ main' = IF running THEN "asleep" ELSE "stop"
    /\ UNCHANGED <<writer, abandoned, flagVars, queueVars, workerVars, clientVars>>

\* A notification of the client has no response; too many messages that do
\* not parse end Connect.
HandleQuietly ==
    /\ main = "handle"
    /\ main' \in {"read", "stop"}
    /\ UNCHANGED <<writer, abandoned, flagVars, queueVars, workerVars, clientVars>>

-----------------------------------------------------------------------------
(* Write, by main and by the writer, each under output_mutex_ *)

\* Without a client the message is dropped.
RespondBegin ==
    /\ main = "handle"
    /\ writer = "idle"
    /\ main' = IF connected THEN "push" ELSE "read"
    /\ UNCHANGED <<writer, abandoned, flagVars, queueVars, workerVars, clientVars>>

NotifyBegin ==
    /\ writer = "idle"
    /\ main # "push" /\ "output" \notin abandoned
    /\ connected
    /\ said < MaxSaid
    /\ writer' = "push"
    /\ UNCHANGED <<main, abandoned, flagVars, queueVars, workerVars, clientVars>>

Pushed_InFront(n) == <<n>> \o outgoing   \* mutant: the last said goes first
Pushed(n) == Append(outgoing, n)

QueueOutgoing ==
    /\ "outgoing" \notin abandoned
    /\ said' = said + 1
    /\ outgoing' = Pushed(said + 1)
    /\ UNCHANGED <<abandoned, flagVars, incoming, accepted, handled,
                   workerVars, clientVars>>

RespondPush == main = "push" /\ main' = "read" /\ UNCHANGED writer /\ QueueOutgoing
NotifyPush == writer = "push" /\ writer' = "idle" /\ UNCHANGED main /\ QueueOutgoing

-----------------------------------------------------------------------------
(* POST /messages *)

\* Connections are taken while the socket is open; when it has failed, the ones
\* queued or kept alive are still served until the pool has ended.
PoolServes == socket \in {"open", "failed"}

\* A client that is not connected is refused with 503; the others have the
\* body of the request queued.
PostBegin(w) ==
    /\ PoolServes
    /\ worker[w] = "free"
    /\ connected
    /\ accepted + Cardinality({v \in Workers : worker[v] = "post"}) < MaxPosts
    /\ worker' = [worker EXCEPT ![w] = "post"]
    /\ UNCHANGED <<mainVars, flagVars, queueVars, serving, popped, clientVars>>

PostPush(w) ==
    /\ worker[w] = "post"
    /\ main # "evaluate" /\ "incoming" \notin abandoned
    /\ incoming' = Append(incoming, accepted + 1)
    /\ accepted' = accepted + 1
    /\ main' = Woken
    /\ worker' = [worker EXCEPT ![w] = "free"]
    /\ UNCHANGED <<writer, abandoned, flagVars, outgoing, handled, said,
                   serving, popped, clientVars>>

-----------------------------------------------------------------------------
(* GET /sse: one event stream *)

Goes(w, place) == worker' = [worker EXCEPT ![w] = place]

\* The worker is free again; its client, if still there, has no stream.
StreamEnds(w) ==
    /\ Goes(w, "free")
    /\ serving' = [serving EXCEPT ![w] = Nobody]

StreamBegin(w, c) ==
    /\ PoolServes
    /\ worker[w] = "free"
    /\ c \notin arrived
    /\ arrived' = arrived \cup {c}
    /\ present' = present \cup {c}
    /\ connected' = TRUE
    /\ Goes(w, "begin")
    /\ serving' = [serving EXCEPT ![w] = c]
    /\ UNCHANGED <<mainVars, running, active, socket, queueVars, popped, delivered, lost>>

StreamActivate(w) ==
    /\ worker[w] = "begin"
    /\ active' = TRUE
    /\ Goes(w, "loop")
    /\ UNCHANGED <<mainVars, running, connected, socket, queueVars, serving,
                   popped, clientVars>>

\* Before each call of the provider the library looks whether the server was
\* stopped and whether the client is there; if not, the stream ends without
\* the provider's terminate.
ShuttingDown_Never == FALSE   \* mutant: the stream outlives the server
ShuttingDown == socket = "closed"

StreamCheck(w) ==
    /\ worker[w] = "loop"
    /\ IF ShuttingDown \/ serving[w] \notin present
       THEN StreamEnds(w)
       ELSE Goes(w, "provide") /\ UNCHANGED serving
    /\ UNCHANGED <<mainVars, flagVars, queueVars, popped, clientVars>>

\* The endpoint event, once per worker, or a ping when one is due, or neither.
\* Writing to a client that has hung up may fail.
StreamProvide(w) ==
    /\ worker[w] = "provide"
    /\ \/ Goes(w, "wait")
       \/ serving[w] \notin present /\ Goes(w, "terminate")
    /\ UNCHANGED <<mainVars, flagVars, queueVars, serving, popped, clientVars>>

\* The wait for a message ends after 200 ms at the latest.
Rest_Kept == outgoing   \* mutant: the message is not popped
Rest == Tail(outgoing)

StreamWait(w) ==
    /\ worker[w] = "wait"
    /\ "outgoing" \notin abandoned
    /\ \/ /\ ~active
          /\ Goes(w, "terminate")
          /\ UNCHANGED <<outgoing, popped>>
       \/ /\ active /\ outgoing = <<>>
          /\ Goes(w, "loop")
          /\ UNCHANGED <<outgoing, popped>>
       \/ /\ active /\ outgoing # <<>>
          /\ popped' = [popped EXCEPT ![w] = <<Head(outgoing)>>]
          /\ outgoing' = Rest
          /\ Goes(w, "deliver")
    /\ UNCHANGED <<mainVars, flagVars, incoming, accepted, handled, said,
                   serving, clientVars>>

\* The message is lost when the client has hung up, noticed or not.
StreamDeliver(w) ==
    /\ worker[w] = "deliver"
    /\ \/ /\ serving[w] \in present
          /\ delivered' = Append(delivered, <<serving[w], Head(popped[w])>>)
          /\ Goes(w, "loop")
          /\ UNCHANGED lost
       \/ /\ serving[w] \notin present
          /\ lost' = lost \cup {Head(popped[w])}
          /\ Goes(w, "loop") \/ Goes(w, "terminate")
          /\ UNCHANGED delivered
    /\ popped' = [popped EXCEPT ![w] = <<>>]
    /\ UNCHANGED <<mainVars, flagVars, queueVars, serving, present, arrived>>

\* terminate: two stores that other streams may come between.
StreamTerminate(w) ==
    /\ worker[w] = "terminate"
    /\ active' = FALSE
    /\ Goes(w, "disconnect")
    /\ UNCHANGED <<mainVars, running, connected, socket, queueVars, serving,
                   popped, clientVars>>

StreamDisconnect(w) ==
    /\ worker[w] = "disconnect"
    /\ connected' = FALSE
    /\ main' = Woken
    /\ StreamEnds(w)
    /\ UNCHANGED <<writer, abandoned, running, active, socket, queueVars,
                   popped, clientVars>>

HangUp(c) ==
    /\ c \in present
    /\ present' = present \ {c}
    /\ UNCHANGED <<mainVars, flagVars, queueVars, workerVars, arrived, delivered, lost>>

-----------------------------------------------------------------------------
(* The end *)

\* SIGINT runs stop_handler on main, which keeps the mutexes it holds and
\* never goes back.
Interrupt ==
    /\ Interrupts
    /\ main \in {"read", "evaluate", "asleep", "handle", "push"}
    /\ abandoned' \in CASE main = "evaluate" -> {{"incoming"}}
                        [] main = "push" -> {{"output"}, {"output", "outgoing"}}
                        [] OTHER -> {{}}
    /\ main' = "stop"
    /\ UNCHANGED <<writer, flagVars, queueVars, workerVars, clientVars>>

\* When the listening thread has given up, Stop returns without joining it: the
\* destructor of the transport then ends the process.
StopFlags ==
    /\ main = "stop"
    /\ \/ /\ running
          /\ running' = FALSE /\ connected' = FALSE /\ active' = FALSE
          /\ main' = "close"
       \/ /\ ~running
          /\ main' = "unjoined"
          /\ UNCHANGED <<running, connected, active>>
    /\ UNCHANGED <<writer, abandoned, socket, queueVars, workerVars, clientVars>>

StopSocket ==
    /\ main = "close"
    /\ socket' = "closed"
    /\ main' = "join"
    /\ UNCHANGED <<writer, abandoned, running, connected, active, queueVars,
                   workerVars, clientVars>>

AllFree == \A w \in Workers : worker[w] = "free"

\* The thread that listens joins the workers, and Stop joins it.
StopJoin ==
    /\ main = "join"
    /\ AllFree
    /\ main' = "done"
    /\ UNCHANGED <<writer, abandoned, flagVars, queueVars, workerVars, clientVars>>

\* accept fails for good: no client is taken any more, and when the workers
\* are done the server counts as stopped, which nobody is told.
ListenFails ==
    /\ socket = "open"
    /\ socket' = "failed"
    /\ UNCHANGED <<mainVars, running, connected, active, queueVars, workerVars, clientVars>>

ListenReturns ==
    /\ socket = "failed"
    /\ AllFree
    /\ socket' = "returned"
    /\ running' = FALSE
    /\ UNCHANGED <<mainVars, connected, active, queueVars, workerVars, clientVars>>

-----------------------------------------------------------------------------
Read == ReadLock \/ ReadMessage \/ ReadNothing
Respond == HandleQuietly \/ RespondBegin \/ RespondPush
Stop == StopFlags \/ StopSocket \/ StopJoin
Stream(w) ==
    \/ StreamActivate(w) \/ StreamCheck(w) \/ StreamProvide(w) \/ StreamWait(w)
    \/ StreamDeliver(w) \/ StreamTerminate(w) \/ StreamDisconnect(w)

Next ==
    \/ Read \/ Respond \/ NotifyBegin \/ NotifyPush
    \/ Interrupt \/ Stop \/ ListenFails \/ ListenReturns
    \/ \E w \in Workers :
          PostBegin(w) \/ PostPush(w) \/ Stream(w) \/ \E c \in Clients : StreamBegin(w, c)
    \/ \E c \in Clients : HangUp(c)

Spec == Init /\ [][Next]_vars

\* Threads that can go on do; clients, senders of notifications and failures
\* of the socket owe nothing.
FairSpec ==
    /\ Spec
    /\ WF_vars(Read) /\ WF_vars(Respond) /\ WF_vars(Stop) /\ WF_vars(NotifyPush)
    /\ \A w \in Workers : WF_vars(PostPush(w)) /\ WF_vars(Stream(w))

-----------------------------------------------------------------------------
(* Properties *)

\* Every variable keeps its type; a worker has a client exactly while it runs
\* a stream and a message exactly while it delivers one; and main never
\* sleeps while there is something to read.
TypeOK ==
    /\ main \in {"read", "evaluate", "asleep", "handle", "push",
                 "stop", "close", "join", "unjoined", "done"}
    /\ writer \in {"idle", "push"}
    /\ abandoned \subseteq {"incoming", "outgoing", "output"}
    /\ {running, connected, active} \subseteq BOOLEAN
    /\ socket \in {"open", "failed", "returned", "closed"}
    /\ accepted \in 0 .. MaxPosts /\ handled \in 0 .. accepted
    /\ said \in 0 .. MaxSaid + MaxPosts
    /\ incoming \in Seq(1 .. accepted) /\ outgoing \in Seq(1 .. said)
    /\ \A w \in Workers :
          /\ worker[w] \in {"free", "post", "begin", "loop", "provide", "wait",
                            "deliver", "terminate", "disconnect"}
          /\ serving[w] = Nobody <=> worker[w] \in {"free", "post"}
          /\ popped[w] # <<>> <=> worker[w] = "deliver"
    /\ present \subseteq arrived /\ arrived \subseteq Clients
    /\ delivered \in Seq(Clients \X (1 .. said)) /\ lost \subseteq 1 .. said
    /\ main = "asleep" => incoming = <<>>

Delivering == {w \in Workers : worker[w] = "deliver"}

\* Every message said is in the queue, in the hands of one stream, with one
\* client or lost with a client that hung up, however streams come and go.
EachMessageOnce ==
    LET gone == said - Len(outgoing)
    IN  /\ outgoing = [i \in 1 .. Len(outgoing) |-> gone + i]
        /\ {Head(popped[w]) : w \in Delivering} \cup lost
              \cup {delivered[i][2] : i \in 1 .. Len(delivered)} = 1 .. gone
        /\ Cardinality(Delivering) + Cardinality(lost) + Len(delivered) = gone

\* A client gets its messages in the order in which they were said, also
\* when several streams share the queue.
ClientInOrder ==
    \A i, j \in 1 .. Len(delivered) :
        i < j /\ delivered[i][1] = delivered[j][1]
            => delivered[i][2] < delivered[j][2]

\* A POST is refused with "No SSE connection" (SseTransport.cpp:282) when there
\* is none: the transport accepts POSTs and queues messages only while some
\* event stream is open.
PostsNeedConnection == connected => \E w \in Workers : serving[w] # Nobody

\* A POST answered with 200 is read, unless the server stops first.
AcceptedRead ==
    \A n \in 1 .. MaxPosts :
        accepted >= n ~>
            (handled >= n \/ main \in {"stop", "close", "join", "unjoined", "done"})

\* Stop returns, with any number of streams and POSTs under way, unless
\* SIGINT caught main with a mutex of the transport in its hands.
StopReturns ==
    main = "stop" ~>
        (main \in {"unjoined", "done"} \/ abandoned \cap {"incoming", "outgoing"} # {})
=============================================================================
