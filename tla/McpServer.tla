----------------------------- MODULE McpServer -----------------------------
(***************************************************************************)
(* The serving loop of mcp_server/src/server/Server.cpp over stdio: Connect *)
(* reads requests and writes their responses, SendNotification queues      *)
(* messages of plugins and of the plugin runtime, WriterLoop sends them,   *)
(* and Stop ends it all.                                                   *)
(*                                                                         *)
(* Three kinds of thread meet at output_mutex_: main, which runs Connect   *)
(* and Stop (and stop_handler, when SIGINT interrupts it), the writer, and *)
(* the senders.  Messages are numbered in the order in which they are read *)
(* or queued.                                                              *)
(***************************************************************************)
EXTENDS Naturals, Sequences, SequencesExt

CONSTANTS
    Senders,          \* threads that call SendNotification
    Interrupts,       \* whether SIGINT may arrive
    MaxParserErrors,  \* MAX_PARSER_ERRORS
    MaxRequests,      \* bound on the requests read
    MaxNotices        \* bound on the notifications sent

ASSUME ServerAssumption ==
    /\ {"main", "writer"} \cap Senders = {}
    /\ Interrupts \in BOOLEAN
    /\ {MaxParserErrors, MaxRequests, MaxNotices} \subseteq Nat

VARIABLES
    main,         \* where main stands in Connect or in Stop
    errors,       \* parserErrors_
    asked,        \* requests read
    isStopping,   \* isStopping_
    transport,    \* transport_ is set
    running,      \* writer_running_, and no stop requested of writer_thread_
    mutex,        \* the holder of output_mutex_, or "free"
    queue,        \* notification_queue_
    writer,       \* where the writer thread stands
    taken,        \* notification_to_send, as a sequence of at most one
    sender,       \* where each sender stands in SendNotification
    queued,       \* notifications queued so far
    out,          \* what the transport has written
    nullWrite     \* the writer wrote through a transport_ that was reset

mainVars == <<errors, asked, isStopping, transport, running>>
writerVars == <<queue, taken, nullWrite>>
senderVars == <<sender, queued>>
vars == <<main, errors, asked, isStopping, transport, running, mutex, queue,
          writer, taken, sender, queued, out, nullWrite>>

-----------------------------------------------------------------------------
Init ==
    /\ main = "read"
    /\ errors = 0
    /\ asked = 0
    /\ isStopping = FALSE
    /\ transport = TRUE
    /\ running = TRUE
    /\ mutex = "free"
    /\ queue = <<>>
    /\ writer = "check"
    /\ taken = <<>>
    /\ sender = [s \in Senders |-> "idle"]
    /\ queued = 0
    /\ out = <<>>
    /\ nullWrite = FALSE

-----------------------------------------------------------------------------
(* Connect *)

\* A line that is a request; it is handled before anything else is read.
ReadRequest ==
    /\ main = "read"
    /\ asked < MaxRequests
    /\ asked' = asked + 1
    /\ errors' = 0
    /\ main' = "respond"
    /\ UNCHANGED <<isStopping, transport, running, mutex, writer, out,
                   writerVars, senderVars>>

\* A request whose handling throws what Connect does not catch, as one for an
\* unknown method whose id is no number: std::terminate ends the process, and
\* with it every thread.
RequestThrows ==
    /\ main = "read"
    /\ main' = "terminated"
    /\ isStopping' = TRUE
    /\ transport' = FALSE
    /\ mutex' = "free"
    /\ writer' = "crashed"
    /\ taken' = <<>>
    /\ sender' = [s \in Senders |-> "idle"]
    /\ UNCHANGED <<errors, asked, running, queue, queued, out, nullWrite>>

\* A line that is a notification of the client: it has no response.
ReadNotification ==
    /\ main = "read"
    /\ errors' = 0
    /\ UNCHANGED <<main, asked, isStopping, transport, running, mutex, writer,
                   out, writerVars, senderVars>>

\* A line that does not parse; after too many of them Connect returns, and
\* the server is stopped by its destructor.
ReadGarbage ==
    /\ main = "read"
    /\ errors' = errors + 1
    /\ main' = IF errors' > MaxParserErrors THEN "stop" ELSE "read"
    /\ UNCHANGED <<asked, isStopping, transport, running, mutex, writer, out,
                   writerVars, senderVars>>

\* End of input, or an empty line.
ReadNothing ==
    /\ main = "read"
    /\ isStopping' = TRUE
    /\ main' = "stop"
    /\ UNCHANGED <<errors, asked, transport, running, mutex, writer, out,
                   writerVars, senderVars>>

\* output_mutex_ can be taken.
Free == mutex = "free"

LockResponse ==
    /\ main = "respond"
    /\ Free
    /\ mutex' = "main"
    /\ main' = "write"
    /\ UNCHANGED <<writer, out, mainVars, writerVars, senderVars>>

WriteResponse ==
    /\ main = "write"
    /\ out' = Append(out, <<"response", asked>>)
    /\ mutex' = "free"
    /\ main' = "read"
    /\ UNCHANGED <<writer, mainVars, writerVars, senderVars>>

-----------------------------------------------------------------------------
(* Stop *)

\* SIGINT interrupts main wherever it is, with the mutex it may hold, and
\* main never goes back there.
Interrupt ==
    /\ Interrupts
    /\ main \in {"read", "respond", "write"}
    /\ main' = "stop"
    /\ UNCHANGED <<mutex, writer, out, mainVars, writerVars, senderVars>>

StopBegin ==
    /\ main = "stop"
    /\ isStopping' = TRUE
    /\ main' = "reset"
    /\ UNCHANGED <<errors, asked, transport, running, mutex, writer, out,
                   writerVars, senderVars>>

\* transport_ is reset without output_mutex_.
StopTransport ==
    /\ main = "reset"
    /\ transport' = FALSE
    /\ main' = "unset"
    /\ UNCHANGED <<errors, asked, isStopping, running, mutex, writer, out,
                   writerVars, senderVars>>

StopWriter ==
    /\ main = "unset"
    /\ running' = FALSE
    /\ main' = "notify"
    /\ UNCHANGED <<errors, asked, isStopping, transport, mutex, writer, out,
                   writerVars, senderVars>>

\* notify_all and notify_one reach the writer only when it is blocked.
Woken == IF writer = "blocked" THEN "lock" ELSE writer

StopNotify ==
    /\ main = "notify"
    /\ writer' = Woken
    /\ main' = "join"
    /\ UNCHANGED <<mutex, out, mainVars, writerVars, senderVars>>

StopJoin ==
    /\ main = "join"
    /\ writer = "ended"
    /\ main' = "done"
    /\ UNCHANGED <<mutex, writer, out, mainVars, writerVars, senderVars>>

-----------------------------------------------------------------------------
(* SendNotification *)

SendCheck(s) ==
    /\ sender[s] = "idle"
    /\ ~isStopping
    /\ sender' = [sender EXCEPT ![s] = "push"]
    /\ UNCHANGED <<main, mutex, writer, queued, out, mainVars, writerVars>>

\* The push is one step under output_mutex_.
MayPush_Unlocked == TRUE   \* mutant: the mutex is not taken
MayPush == Free

SendPush(s) ==
    /\ sender[s] = "push"
    /\ MayPush
    /\ queued < MaxNotices
    /\ queued' = queued + 1
    /\ queue' = Append(queue, queued + 1)
    /\ sender' = [sender EXCEPT ![s] = "notify"]
    /\ UNCHANGED <<main, mutex, writer, taken, out, nullWrite, mainVars>>

SendNotify(s) ==
    /\ sender[s] = "notify"
    /\ writer' = Woken
    /\ sender' = [sender EXCEPT ![s] = "idle"]
    /\ UNCHANGED <<main, mutex, queued, out, mainVars, writerVars>>

-----------------------------------------------------------------------------
(* WriterLoop *)

WriterGoes(to, holder) ==
    /\ writer' = to
    /\ mutex' = holder
    /\ UNCHANGED <<main, mainVars, senderVars>>

\* The condition of the loop.
WriterCheck ==
    /\ writer = "check"
    /\ WriterGoes(IF running THEN "lock" ELSE "ended", mutex)
    /\ UNCHANGED <<out, writerVars>>

WriterLock ==
    /\ writer = "lock"
    /\ Free
    /\ WriterGoes("evaluate", "writer")
    /\ UNCHANGED <<out, writerVars>>

\* The predicate of the wait, evaluated under the mutex.
WriterEvaluate ==
    /\ writer = "evaluate"
    /\ WriterGoes(IF queue = <<>> /\ running THEN "block" ELSE "take", mutex)
    /\ UNCHANGED <<out, writerVars>>

\* The wait releases the mutex and blocks.
WriterBlock ==
    /\ writer = "block"
    /\ WriterGoes("blocked", "free")
    /\ UNCHANGED <<out, writerVars>>

\* What is left in the queue once its first message is taken.
Popped_Kept == queue   \* mutant: the message is read and not popped
Popped == Tail(queue)

WriterTake ==
    /\ writer = "take"
    /\ \/ /\ queue = <<>>
          /\ ~running
          /\ WriterGoes("ended", "free")
          /\ UNCHANGED writerVars
       \/ /\ queue # <<>>
          /\ taken' = <<Head(queue)>>
          /\ queue' = Popped
          /\ WriterGoes("send", "free")
          /\ UNCHANGED nullWrite
    /\ UNCHANGED out

\* transport_ is tested before and after output_mutex_ is taken again; when
\* it is gone the message is dropped.
Drop(holder) ==
    /\ taken' = <<>>
    /\ WriterGoes("check", holder)
    /\ UNCHANGED <<queue, nullWrite>>

WriterTest ==
    /\ writer = "send"
    /\ \/ /\ transport
          /\ WriterGoes("relock", mutex)
          /\ UNCHANGED writerVars
       \/ /\ ~transport
          /\ Drop(mutex)
    /\ UNCHANGED out

WriterRelock ==
    /\ writer = "relock"
    /\ Free
    /\ \/ /\ transport
          /\ WriterGoes("write", "writer")
          /\ UNCHANGED writerVars
       \/ /\ ~transport
          /\ Drop("free")
    /\ UNCHANGED out

\* The write uses transport_, which Stop may have reset since the test.
WriterWrite ==
    /\ writer = "write"
    /\ \/ /\ transport
          /\ out' = Append(out, <<"notice", Head(taken)>>)
          /\ UNCHANGED nullWrite
          /\ WriterGoes("check", "free")
       \/ /\ ~transport
          /\ nullWrite' = TRUE
          /\ UNCHANGED out
          /\ WriterGoes("crashed", "free")
    /\ taken' = <<>>
    /\ UNCHANGED queue

-----------------------------------------------------------------------------
Connect == ReadRequest \/ ReadNotification \/ ReadGarbage \/ ReadNothing
Respond == LockResponse \/ WriteResponse
Stop == StopBegin \/ StopTransport \/ StopWriter \/ StopNotify \/ StopJoin
Send(s) == SendCheck(s) \/ SendPush(s) \/ SendNotify(s)
WriterLoop ==
    \/ WriterCheck \/ WriterLock \/ WriterEvaluate \/ WriterBlock
    \/ WriterTake \/ WriterTest \/ WriterRelock \/ WriterWrite

Next ==
    \/ Connect \/ RequestThrows \/ Respond \/ Interrupt \/ Stop \/ WriterLoop
    \/ \E s \in Senders : Send(s)

Spec == Init /\ [][Next]_vars

\* Threads that have something to do go on; the client need not send a line
\* and nobody need send a notification.  Weak fairness is enough for a thread
\* that waits for the mutex because requests and notifications are bounded.
FairSpec ==
    /\ Spec
    /\ WF_vars(Respond)
    /\ WF_vars(Stop)
    /\ WF_vars(WriterLoop)
    /\ \A s \in Senders : WF_vars(SendPush(s) \/ SendNotify(s))

-----------------------------------------------------------------------------
(* Properties *)

\* Every variable keeps its type, and the mutex belongs to the thread that is
\* at a step it takes under the mutex, unless SIGINT made main leave such a
\* step.
TypeOK ==
    /\ main \in {"read", "respond", "write", "stop", "reset", "unset",
                 "notify", "join", "done", "terminated"}
    /\ errors \in 0 .. MaxParserErrors + 1
    /\ asked \in 0 .. MaxRequests
    /\ {isStopping, transport, running, nullWrite} \subseteq BOOLEAN
    /\ mutex \in {"free", "main", "writer"}
    /\ mutex = "writer" <=> writer \in {"evaluate", "block", "take", "write"}
    /\ main = "write" => mutex = "main"
    /\ queue \in Seq(1 .. MaxNotices)
    /\ taken \in {<<>>} \cup {<<n>> : n \in 1 .. MaxNotices}
    /\ sender \in [Senders -> {"idle", "push", "notify"}]
    /\ queued \in 0 .. MaxNotices

\* The messages of a kind that were written are the first n of it, once each
\* and in order.
Places(kind) == {i \in DOMAIN out : out[i][1] = kind}
WrittenUpTo(kind, n) ==
    /\ {out[i][2] : i \in Places(kind)} = 1 .. n
    /\ \A i, j \in Places(kind) : i < j => out[i][2] < out[j][2]

\* As long as the transport is there, every notification queued has been
\* written, is being written or is in the queue, once and in the order of
\* queueing, and every request but the one in hand has its one response, in
\* the order of the requests, whatever the threads interleave.
OutputConserved ==
    /\ transport =>
          LET waiting == taken \o queue
              written == queued - Len(waiting)
          IN  /\ WrittenUpTo("notice", written)
              /\ \A i \in DOMAIN waiting : waiting[i] = written + i
    /\ main = "read" => WrittenUpTo("response", asked)

\* A notification is written, or the server begins to stop: no notification
\* waits forever in the queue of a sleeping writer.
NoticesWritten ==
    \A n \in 1 .. MaxNotices :
        queued = n ~> (<<"notice", n>> \in ToSet(out)
                         \/ main \notin {"read", "respond", "write"})

\* Stop returns: the writer stops cooperatively (README.md:15), so joining it
\* ends, unless it crashed on the transport that Stop took away.
StopReturns == main = "stop" ~> (main = "done" \/ nullWrite)

\* output_mutex_ "protects both queue and transport writes" (Server.h:113):
\* the writer never writes through a transport that Stop has taken away.
TransportProtected == ~nullWrite

\* The writer leaves its loop "if stopped and queue is empty" (Server.cpp:80):
\* it never ends with notifications in the queue.
WriterDrains == writer = "ended" => queue = <<>>
=============================================================================
