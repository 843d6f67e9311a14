----------------------------- MODULE McpClient -----------------------------
(***************************************************************************)
(* The MCP client of mcp_client/src/mcp_client.cpp over stdio: callers     *)
(* write requests to a server process and take responses from one queue,   *)
(* a reader thread fills that queue, and a controlling thread connects and *)
(* disconnects.                                                            *)
(*                                                                         *)
(* The server is another process: it answers requests in order, may send   *)
(* notifications, may be slow, may fail to start and may die.  Requests    *)
(* are numbered in the order in which they are written.  A message of the  *)
(* server is the number of the request it answers, 0 when it has no id,    *)
(* and whether it carries an error.                                        *)
(***************************************************************************)
EXTENDS Integers, Sequences, FiniteSets

CONSTANTS
    Callers,      \* threads that call listTools, callTool and the like
    Slow,         \* whether an answer may take longer than the timeout
    Refuses,      \* whether the server may answer with an error without id
    MaxRequests,  \* bound on the requests written
    MaxNotices,   \* bound on the notifications of the server
    MaxConnects   \* bound on the connections made

ASSUME ClientAssumption ==
    /\ IsFiniteSet(Callers)
    /\ {Slow, Refuses} \subseteq BOOLEAN
    /\ {MaxRequests, MaxNotices, MaxConnects} \subseteq Nat

VARIABLES
    control,    \* where the controlling thread stands in connect, disconnect
    connects,   \* connections made
    connected,  \* connected_ and running_, set and unset together
    pipes,      \* stdin_pipe_ and stdout_pipe_ are open
    alive,      \* the server process runs
    inbox,      \* requests in the stdin pipe of the server
    outbox,     \* messages in its stdout pipe
    reader,     \* the notification thread: "none", "reading" or "ended"
    line,       \* messages it has read and not handled
    queue,      \* response_queue_
    caller,     \* where each caller stands
    waitsFor,   \* the request each caller wrote last
    requests,   \* requests written
    notices,    \* notifications sent by the server
    timeouts,   \* calls that timed out
    returned,   \* what calls returned: the request and the message it got
    killed      \* the host was ended by SIGPIPE

controlVars == <<control, connects, connected, pipes>>
serverVars == <<alive, inbox, outbox, notices>>
readerVars == <<reader, line>>
callVars == <<caller, waitsFor, requests, timeouts, returned, killed>>
vars == <<control, connects, connected, pipes, alive, inbox, outbox, reader,
          line, queue, caller, waitsFor, requests, notices, timeouts,
          returned, killed>>

-----------------------------------------------------------------------------
Message == [id : Nat, error : BOOLEAN]

Answer(n) == [id |-> n, error |-> FALSE]
Refusal == [id |-> 0, error |-> TRUE]
Notice == [id |-> 0, error |-> FALSE]

Init ==
    /\ control = "off"
    /\ connects = 0
    /\ connected = FALSE
    /\ pipes = FALSE
    /\ alive = FALSE
    /\ inbox = <<>>
    /\ outbox = <<>>
    /\ reader = "none"
    /\ line = <<>>
    /\ queue = <<>>
    /\ caller = [c \in Callers |-> "idle"]
    /\ waitsFor = [c \in Callers |-> 0]
    /\ requests = 0
    /\ notices = 0
    /\ timeouts = 0
    /\ returned = {}
    /\ killed = FALSE

-----------------------------------------------------------------------------
(* connect and disconnect *)

\* startMCPServer forks the child process; when exec fails the child exits,
\* which the parent does not notice.
StartMCPServer == alive' \in BOOLEAN /\ pipes' = TRUE

\* response_queue_ keeps what an earlier connection left.
ConnectClient ==
    /\ ~killed
    /\ control = "off"
    /\ connects < MaxConnects
    /\ connects' = connects + 1
    /\ control' = "on"
    /\ connected' = TRUE
    /\ StartMCPServer
    /\ reader' = "reading"
    /\ line' = <<>>
    /\ UNCHANGED <<inbox, outbox, notices, queue, callVars>>

Disconnect ==
    /\ ~killed
    /\ control = "on"
    /\ connected' = FALSE
    /\ control' = "join"
    /\ UNCHANGED <<connects, pipes, queue, serverVars, readerVars, callVars>>

JoinReader ==
    /\ ~killed
    /\ control = "join"
    /\ reader = "ended"
    /\ reader' = "none"
    /\ control' = "kill"
    /\ UNCHANGED <<connects, connected, pipes, line, queue, serverVars, callVars>>

\* SIGTERM and waitpid: the server has ended when waitpid returns.  A server that
\* ignored SIGTERM would be waited for for ever; this project's handles SIGINT only.
KillServer ==
    /\ ~killed
    /\ control = "kill"
    /\ alive' = FALSE
    /\ inbox' = <<>>
    /\ control' = "close"
    /\ UNCHANGED <<connects, connected, pipes, outbox, notices, queue,
                   readerVars, callVars>>

ClosePipes ==
    /\ ~killed
    /\ control = "close"
    /\ pipes' = FALSE
    /\ outbox' = <<>>
    /\ control' = "off"
    /\ UNCHANGED <<connects, connected, alive, inbox, notices, queue,
                   readerVars, callVars>>

-----------------------------------------------------------------------------
(* The server process *)

Say(message) ==
    /\ alive
    /\ outbox' = Append(outbox, message)
    /\ UNCHANGED <<alive, queue, controlVars, readerVars, callVars>>

ServerAnswers ==
    /\ inbox # <<>>
    /\ \/ Say(Answer(Head(inbox)))
       \/ Refuses /\ Say(Refusal)
    /\ inbox' = Tail(inbox)
    /\ UNCHANGED notices

ServerNotifies ==
    /\ notices < MaxNotices
    /\ Say(Notice)
    /\ notices' = notices + 1
    /\ UNCHANGED inbox

ServerDies ==
    /\ alive
    /\ alive' = FALSE
    /\ inbox' = <<>>
    /\ UNCHANGED <<outbox, notices, queue, controlVars, readerVars, callVars>>

-----------------------------------------------------------------------------
(* The reader thread *)

\* One read brings some of the messages; they are all handled before
\* running_ is looked at again.
ReadSome ==
    /\ ~killed
    /\ reader = "reading"
    /\ line = <<>>
    /\ connected
    /\ \E k \in 1 .. Len(outbox) :
          /\ line' = SubSeq(outbox, 1, k)
          /\ outbox' = SubSeq(outbox, k + 1, Len(outbox))
    /\ UNCHANGED <<reader, alive, inbox, notices, queue, controlVars, callVars>>

\* A message is taken for a notification when it has no id and an error.
TakenForNotice(m) == m.id = 0 /\ m.error

\* What a notification is about does not matter here: the callback is only
\* for the method notifications/message, which comes without an error.
HandleMessage ==
    /\ ~killed
    /\ line # <<>>
    /\ line' = Tail(line)
    /\ \/ /\ TakenForNotice(Head(line))
          /\ UNCHANGED queue
       \/ /\ ~TakenForNotice(Head(line))
          /\ queue' = Append(queue, Head(line))
    /\ UNCHANGED <<reader, serverVars, controlVars, callVars>>

\* The pipe does not block, so the loop comes back to its condition; the end
\* of input ends it too.
MayLeave_AtEnd == ~alive /\ outbox = <<>>   \* mutant: the read blocks
MayLeave == ~connected \/ (~alive /\ outbox = <<>>)

ReaderEnds ==
    /\ ~killed
    /\ reader = "reading"
    /\ line = <<>>
    /\ MayLeave
    /\ reader' = "ended"
    /\ UNCHANGED <<line, queue, serverVars, controlVars, callVars>>

-----------------------------------------------------------------------------
(* Calls *)

\* connected_ is tested first; a call that finds it unset returns an error.
BeginCall(c) ==
    /\ ~killed
    /\ caller[c] = "idle"
    /\ connected
    /\ requests < MaxRequests
    /\ caller' = [caller EXCEPT ![c] = "write"]
    /\ UNCHANGED <<waitsFor, requests, timeouts, returned, killed, queue,
                   controlVars, serverVars, readerVars>>

\* sendRequest: without a pipe it fails; a pipe nobody reads any more raises
\* SIGPIPE, which the host neither handles nor ignores.
WriteRequest(c) ==
    /\ ~killed
    /\ caller[c] = "write"
    /\ \/ /\ ~pipes
          /\ caller' = [caller EXCEPT ![c] = "idle"]
          /\ UNCHANGED <<waitsFor, requests, inbox, killed>>
       \/ /\ pipes /\ ~alive
          /\ killed' = TRUE
          /\ UNCHANGED <<caller, waitsFor, requests, inbox>>
       \/ /\ pipes /\ alive
          /\ requests < MaxRequests
          /\ requests' = requests + 1
          /\ waitsFor' = [waitsFor EXCEPT ![c] = requests + 1]
          /\ inbox' = Append(inbox, requests + 1)
          /\ caller' = [caller EXCEPT ![c] = "wait"]
          /\ UNCHANGED killed
    /\ UNCHANGED <<timeouts, returned, alive, outbox, notices, queue,
                   controlVars, readerVars>>

\* receiveResponse: the front of the queue, whatever its id.
Remaining_All == queue   \* mutant: the front is read and not popped
Remaining == Tail(queue)

ReceiveResponse(c) ==
    /\ ~killed
    /\ caller[c] = "wait"
    /\ queue # <<>>
    /\ returned' = returned \cup {[asked |-> waitsFor[c], got |-> Head(queue)]}
    /\ queue' = Remaining
    /\ caller' = [caller EXCEPT ![c] = "idle"]
    /\ UNCHANGED <<waitsFor, requests, timeouts, killed, controlVars,
                   serverVars, readerVars>>

\* Nothing is on its way that would end a wait.
NothingComes ==
    /\ outbox = <<>> \/ reader # "reading"
    /\ line = <<>>
    /\ inbox = <<>> \/ reader # "reading"

\* The 30 seconds pass and the queue is still empty.
MayTimeOut_Never == FALSE   \* mutant: the wait has no timeout
MayTimeOut == Slow \/ NothingComes

TimeOut(c) ==
    /\ ~killed
    /\ caller[c] = "wait"
    /\ queue = <<>>
    /\ MayTimeOut
    /\ timeouts' = timeouts + 1
    /\ caller' = [caller EXCEPT ![c] = "idle"]
    /\ UNCHANGED <<waitsFor, requests, returned, killed, queue, controlVars,
                   serverVars, readerVars>>

-----------------------------------------------------------------------------
Controller ==
    ConnectClient \/ Disconnect \/ JoinReader \/ KillServer \/ ClosePipes
Server == ServerAnswers \/ ServerNotifies \/ ServerDies
Reader == ReadSome \/ HandleMessage \/ ReaderEnds
Wait(c) == ReceiveResponse(c) \/ TimeOut(c)
Call(c) == BeginCall(c) \/ WriteRequest(c) \/ Wait(c)

Next == Controller \/ Server \/ Reader \/ \E c \in Callers : Call(c)

Spec == Init /\ [][Next]_vars

\* Threads run, a disconnect that began goes on, and the timeout ends a wait
\* that nothing else ends.  The server owes nothing, not even an answer.
FairSpec ==
    /\ Spec
    /\ WF_vars(Reader)
    /\ WF_vars(JoinReader \/ KillServer \/ ClosePipes)
    /\ \A c \in Callers : WF_vars(WriteRequest(c) \/ Wait(c))

-----------------------------------------------------------------------------
(* Properties *)

\* Every variable keeps its type, a reader thread exists exactly from connect
\* to the join in disconnect, and only then are there messages it holds.
TypeOK ==
    /\ control \in {"off", "on", "join", "kill", "close"}
    /\ connects \in 0 .. MaxConnects
    /\ {connected, pipes, alive, killed} \subseteq BOOLEAN
    /\ connected <=> control = "on"
    /\ pipes <=> control # "off"
    /\ inbox \in Seq(1 .. MaxRequests)
    /\ outbox \in Seq(Message) /\ line \in Seq(Message) /\ queue \in Seq(Message)
    /\ reader \in {"none", "reading", "ended"}
    /\ reader = "none" <=> control \in {"off", "kill", "close"}
    /\ line # <<>> => reader = "reading"
    /\ caller \in [Callers -> {"idle", "write", "wait"}]
    /\ waitsFor \in [Callers -> 0 .. MaxRequests]
    /\ requests \in 0 .. MaxRequests
    /\ notices \in 0 .. MaxNotices
    /\ timeouts \in 0 .. MaxRequests
    /\ returned \subseteq [asked : 1 .. MaxRequests, got : Message]

\* No answer is handed to two calls, whatever callers, the reader and
\* reconnects interleave.
AnswersGivenOnce ==
    \A r, s \in returned : r.got.id = s.got.id /\ r.got.id # 0 => r = s

\* What a call gets is behind what it asked by no more than the notifications
\* sent, the calls that timed out and the other callers: each of them shifts
\* later answers by at most one, across reconnects too.  A single caller whose
\* server is in time and silent otherwise thus gets its own answers.
LagBounded ==
    \A r \in returned :
        r.got.id # 0 =>
            r.asked - r.got.id <= timeouts + notices + Cardinality(Callers) - 1

\* A call returns the result of that call ("@return 工具调用结果",
\* mcp_agent_integration.h:182): the answer it takes is for the request it wrote.
OwnAnswer == \A r \in returned : r.got.id = r.asked

\* What the reader queues "is a response" (mcp_client.cpp:480): no message of
\* the queue is a notification of the server.
QueueHoldsResponses == \A i \in 1 .. Len(queue) : queue[i] # Notice

\* "When MCP is not available a failure result is returned"
\* (mcp_agent_integration.h:184): a call never ends the host process.
HostSurvives == ~killed

\* A call that waits returns: with a response or with the timeout.
CallsReturn == \A c \in Callers : caller[c] = "wait" ~> (caller[c] # "wait" \/ killed)

\* disconnect returns, although the reader it joins was reading a pipe.
DisconnectReturns == control = "join" ~> (control = "off" \/ killed)
=============================================================================
