--------------------------- MODULE McpClientProofs ---------------------------
(***************************************************************************)
(* The client's calls and the one queue they share: for any number of      *)
(* callers, whatever the server sends, and across timeouts and reconnects, *)
(* no answer is given to two calls, and what a call gets lags behind what  *)
(* it asked by a bounded number of requests.                               *)
(***************************************************************************)
EXTENDS McpClient, SequenceTheorems, FiniteSetTheorems, TLAPS

Constants ==
    /\ IsFiniteSet(Callers)
    /\ MaxRequests \in Nat /\ MaxNotices \in Nat /\ MaxConnects \in Nat

LEMMA ConstantsOK == Constants
BY ClientAssumption DEF Constants

-----------------------------------------------------------------------------
(* The types of the invariant, by part *)

\* Where the controlling thread stands decides about the connection and the
\* reader thread.
ControlOK ==
    /\ control \in {"off", "on", "join", "kill", "close"}
    /\ connects \in 0 .. MaxConnects
    /\ reader \in {"none", "reading", "ended"}
    /\ reader = "none" <=> control \in {"off", "kill", "close"}
    /\ line # <<>> => reader = "reading"

FlagsOK ==
    /\ connected \in BOOLEAN /\ pipes \in BOOLEAN
    /\ connected <=> control = "on"
    /\ pipes <=> control # "off"

OthersOK == alive \in BOOLEAN /\ killed \in BOOLEAN

StreamsOK ==
    /\ inbox \in Seq(1 .. MaxRequests)
    /\ outbox \in Seq(Message) /\ line \in Seq(Message) /\ queue \in Seq(Message)

CallsOK ==
    /\ caller \in [Callers -> {"idle", "write", "wait"}]
    /\ waitsFor \in [Callers -> 0 .. MaxRequests]
    /\ requests \in 0 .. MaxRequests
    /\ notices \in 0 .. MaxNotices
    /\ timeouts \in Nat
    /\ returned \subseteq [asked : 1 .. MaxRequests, got : Message]

\* Every request was written by a call that still waits, that timed out or
\* that returned.
Waiters == {c \in Callers : caller[c] = "wait"}

CountInv ==
    /\ IsFiniteSet(returned)
    /\ requests = Cardinality(Waiters) + timeouts + Cardinality(returned)
    /\ \A c \in Waiters : waitsFor[c] \in 1 .. requests
    /\ \A c, d \in Waiters : waitsFor[c] = waitsFor[d] => c = d
    /\ \A r \in returned : r.asked \in 1 .. requests
    /\ \A c \in Waiters, r \in returned : r.asked # waitsFor[c]

LEMMA MessagesTyped ==
    /\ \A n \in Nat : Answer(n) \in Message /\ Answer(n).id = n
    /\ Refusal \in Message /\ Refusal.id = 0
    /\ Notice \in Message /\ Notice.id = 0
BY DEF Answer, Refusal, Notice, Message

-----------------------------------------------------------------------------
(* What the steps do *)

\* The streams between the server and the calls.
Streams == <<queue, line, outbox, inbox>>
Counters == <<requests, notices, timeouts, returned>>

LEMMA StreamShape ==
  ASSUME [Next]_vars
  PROVE  \/ UNCHANGED Streams /\ UNCHANGED <<requests, notices, returned>>
         \/ /\ line' = <<>> /\ UNCHANGED <<queue, outbox, inbox>>
            /\ UNCHANGED <<requests, notices, returned>>
         \/ /\ inbox' = <<>> /\ UNCHANGED <<queue, line, outbox>>
            /\ UNCHANGED <<requests, notices, returned>>
         \/ /\ outbox' = <<>> /\ UNCHANGED <<queue, line, inbox>>
            /\ UNCHANGED <<requests, notices, returned>>
         \/ /\ inbox # <<>> /\ inbox' = Tail(inbox)
            /\ outbox' = Append(outbox, Answer(Head(inbox)))
                 \/ outbox' = Append(outbox, Refusal)
            /\ UNCHANGED <<queue, line, requests, notices, returned>>
         \/ /\ outbox' = Append(outbox, Notice)
            /\ notices < MaxNotices /\ notices' = notices + 1
            /\ UNCHANGED <<queue, line, inbox, requests, returned>>
         \/ /\ line = <<>>
            /\ \E k \in 1 .. Len(outbox) :
                  /\ line' = SubSeq(outbox, 1, k)
                  /\ outbox' = SubSeq(outbox, k + 1, Len(outbox))
            /\ UNCHANGED <<queue, inbox, requests, notices, returned>>
         \/ /\ line # <<>> /\ line' = Tail(line)
            /\ queue' = queue \/ queue' = Append(queue, Head(line))
            /\ UNCHANGED <<outbox, inbox, requests, notices, returned>>
         \/ /\ requests < MaxRequests /\ requests' = requests + 1
            /\ inbox' = Append(inbox, requests + 1)
            /\ UNCHANGED <<queue, line, outbox, notices, returned>>
         \/ /\ queue # <<>> /\ queue' = Tail(queue)
            /\ \E c \in Waiters :
                  returned' = returned \cup {[asked |-> waitsFor[c], got |-> Head(queue)]}
            /\ UNCHANGED <<line, outbox, inbox, requests, notices>>
<1> USE DEF Streams, controlVars, serverVars, readerVars, callVars
<1>1. CASE Controller
  BY <1>1 DEF Controller, ConnectClient, Disconnect, JoinReader, KillServer, ClosePipes
<1>2. CASE Server
  BY <1>2 DEF Server, ServerAnswers, ServerNotifies, ServerDies, Say
<1>3. CASE Reader
  BY <1>3 DEF Reader, ReadSome, HandleMessage, ReaderEnds
<1>4. ASSUME NEW c \in Callers, BeginCall(c) \/ TimeOut(c)
      PROVE  UNCHANGED Streams /\ UNCHANGED <<requests, notices, returned>>
  BY <1>4 DEF BeginCall, TimeOut
<1>5. ASSUME NEW c \in Callers, WriteRequest(c)
      PROVE  \/ UNCHANGED Streams /\ UNCHANGED <<requests, notices, returned>>
             \/ /\ requests < MaxRequests /\ requests' = requests + 1
                /\ inbox' = Append(inbox, requests + 1)
                /\ UNCHANGED <<queue, line, outbox, notices, returned>>
  BY <1>5 DEF WriteRequest
<1>6. ASSUME NEW c \in Callers, ReceiveResponse(c)
      PROVE  /\ queue # <<>> /\ queue' = Tail(queue)
             /\ c \in Waiters
             /\ returned' = returned \cup {[asked |-> waitsFor[c], got |-> Head(queue)]}
             /\ UNCHANGED <<line, outbox, inbox, requests, notices>>
  BY <1>6 DEF ReceiveResponse, Remaining, Waiters
<1>7. CASE UNCHANGED vars
  BY <1>7 DEF vars
<1> QED
  BY <1>1, <1>2, <1>3, <1>4, <1>5, <1>6, <1>7 DEF Next, Call, Wait

LEMMA CallShape ==
  ASSUME [Next]_vars
  PROVE  \/ UNCHANGED <<caller, waitsFor, requests, timeouts, returned>>
         \/ \E c \in Callers :
              \/ /\ caller[c] # "wait"
                 /\ \E at \in {"idle", "write"} : caller' = [caller EXCEPT ![c] = at]
                 /\ UNCHANGED <<waitsFor, requests, timeouts, returned>>
              \/ /\ caller[c] # "wait" /\ caller' = [caller EXCEPT ![c] = "wait"]
                 /\ requests < MaxRequests /\ requests' = requests + 1
                 /\ waitsFor' = [waitsFor EXCEPT ![c] = requests + 1]
                 /\ UNCHANGED <<timeouts, returned>>
              \/ /\ caller[c] = "wait" /\ caller' = [caller EXCEPT ![c] = "idle"]
                 /\ queue # <<>>
                 /\ returned' = returned \cup
                                  {[asked |-> waitsFor[c], got |-> Head(queue)]}
                 /\ UNCHANGED <<waitsFor, requests, timeouts>>
              \/ /\ caller[c] = "wait" /\ caller' = [caller EXCEPT ![c] = "idle"]
                 /\ timeouts' = timeouts + 1
                 /\ UNCHANGED <<waitsFor, requests, returned>>
<1> USE DEF controlVars, serverVars, readerVars, callVars
<1>1. CASE Controller \/ Server \/ Reader \/ UNCHANGED vars
  BY <1>1 DEF Controller, ConnectClient, Disconnect, JoinReader, KillServer, ClosePipes,
              Server, ServerAnswers, ServerNotifies, ServerDies, Say,
              Reader, ReadSome, HandleMessage, ReaderEnds, vars
<1>2. ASSUME NEW c \in Callers, BeginCall(c)
      PROVE  /\ caller[c] # "wait" /\ caller' = [caller EXCEPT ![c] = "write"]
             /\ UNCHANGED <<waitsFor, requests, timeouts, returned>>
  BY <1>2 DEF BeginCall
<1>3. ASSUME NEW c \in Callers, WriteRequest(c)
      PROVE  \/ UNCHANGED <<caller, waitsFor, requests, timeouts, returned>>
             \/ /\ caller[c] # "wait" /\ caller' = [caller EXCEPT ![c] = "idle"]
                /\ UNCHANGED <<waitsFor, requests, timeouts, returned>>
             \/ /\ caller[c] # "wait" /\ caller' = [caller EXCEPT ![c] = "wait"]
                /\ requests < MaxRequests /\ requests' = requests + 1
                /\ waitsFor' = [waitsFor EXCEPT ![c] = requests + 1]
                /\ UNCHANGED <<timeouts, returned>>
  BY <1>3 DEF WriteRequest
<1>4. ASSUME NEW c \in Callers, ReceiveResponse(c)
      PROVE  /\ caller[c] = "wait" /\ caller' = [caller EXCEPT ![c] = "idle"]
             /\ queue # <<>>
             /\ returned' = returned \cup {[asked |-> waitsFor[c], got |-> Head(queue)]}
             /\ UNCHANGED <<waitsFor, requests, timeouts>>
  BY <1>4 DEF ReceiveResponse
<1>5. ASSUME NEW c \in Callers, TimeOut(c)
      PROVE  /\ caller[c] = "wait" /\ caller' = [caller EXCEPT ![c] = "idle"]
             /\ timeouts' = timeouts + 1
             /\ UNCHANGED <<waitsFor, requests, returned>>
  BY <1>5 DEF TimeOut
<1> QED
  BY <1>1, <1>2, <1>3, <1>4, <1>5 DEF Next, Call, Wait

-----------------------------------------------------------------------------
(* Type correctness *)

LEMMA ControlStep == ControlOK /\ [Next]_vars => ControlOK'
<1> SUFFICES ASSUME ControlOK, [Next]_vars PROVE ControlOK'
  OBVIOUS
<1> USE DEF ControlOK, controlVars, serverVars, readerVars, callVars
<1>1. CASE Controller
  <2>1. MaxConnects \in Nat
    BY ConstantsOK DEF Constants
  <2> QED
    BY <1>1, <2>1 DEF Controller, ConnectClient, Disconnect, JoinReader, KillServer,
                      ClosePipes
<1>2. CASE Server
  BY <1>2 DEF Server, ServerAnswers, ServerNotifies, ServerDies, Say
<1>3. CASE Reader
  BY <1>3 DEF Reader, ReadSome, HandleMessage, ReaderEnds
<1>4. ASSUME NEW c \in Callers, Call(c) PROVE ControlOK'
  BY <1>4 DEF Call, Wait, BeginCall, WriteRequest, ReceiveResponse, TimeOut
<1>5. CASE UNCHANGED vars
  BY <1>5 DEF vars
<1> QED
  BY <1>1, <1>2, <1>3, <1>4, <1>5 DEF Next

LEMMA FlagsStep == FlagsOK /\ OthersOK /\ [Next]_vars => FlagsOK' /\ OthersOK'
<1> SUFFICES ASSUME FlagsOK, OthersOK, [Next]_vars PROVE FlagsOK' /\ OthersOK'
  OBVIOUS
<1> USE DEF FlagsOK, OthersOK, controlVars, serverVars, readerVars, callVars
<1>1. CASE ConnectClient
  BY <1>1 DEF ConnectClient, StartMCPServer
<1>2. CASE Disconnect
  BY <1>2 DEF Disconnect
<1>3. CASE JoinReader
  BY <1>3 DEF JoinReader
<1>4. CASE KillServer
  BY <1>4 DEF KillServer
<1>5. CASE ClosePipes
  BY <1>5 DEF ClosePipes
<1>6. CASE Server
  <2>1. (alive' = alive \/ alive' = FALSE) /\ UNCHANGED <<control, connected, pipes, killed>>
    BY <1>6 DEF Server, ServerAnswers, ServerNotifies, ServerDies, Say
  <2> QED
    BY <2>1
<1>7. CASE Reader
  BY <1>7 DEF Reader, ReadSome, HandleMessage, ReaderEnds
<1>8. ASSUME NEW c \in Callers, Call(c) PROVE FlagsOK' /\ OthersOK'
  <2>1. WriteRequest(c) => (killed' = killed \/ killed' = TRUE)
                           /\ UNCHANGED <<control, connected, pipes, alive>>
    BY DEF WriteRequest
  <2>2. BeginCall(c) \/ ReceiveResponse(c) \/ TimeOut(c) =>
           UNCHANGED <<control, connected, pipes, alive, killed>>
    BY DEF BeginCall, ReceiveResponse, TimeOut
  <2>3. (killed' = killed \/ killed' = TRUE) /\ UNCHANGED <<control, connected, pipes, alive>>
    BY <1>8, <2>1, <2>2 DEF Call, Wait
  <2> QED
    BY <2>3
<1>9. CASE UNCHANGED vars
  BY <1>9 DEF vars
<1> QED
  BY <1>1, <1>2, <1>3, <1>4, <1>5, <1>6, <1>7, <1>8, <1>9 DEF Next, Controller

LEMMA StreamsStep == StreamsOK /\ CallsOK /\ [Next]_vars => StreamsOK'
<1> SUFFICES ASSUME StreamsOK, CallsOK, [Next]_vars PROVE StreamsOK'
  OBVIOUS
<1> USE DEF StreamsOK
<1>0. /\ <<>> \in Seq(Message) /\ <<>> \in Seq(1 .. MaxRequests)
      /\ MaxRequests \in Nat
  BY ConstantsOK DEF Constants
<1>1. CASE UNCHANGED Streams
  BY <1>1 DEF Streams
<1>2. CASE /\ line' = <<>> \/ inbox' = <<>> \/ outbox' = <<>>
           /\ line' \in {line, <<>>} /\ inbox' \in {inbox, <<>>}
           /\ outbox' \in {outbox, <<>>} /\ queue' = queue
  BY <1>0, <1>2
<1>3. CASE /\ inbox # <<>> /\ inbox' = Tail(inbox)
           /\ outbox' = Append(outbox, Answer(Head(inbox)))
                \/ outbox' = Append(outbox, Refusal)
           /\ UNCHANGED <<queue, line>>
  <2>1. Head(inbox) \in 1 .. MaxRequests /\ Tail(inbox) \in Seq(1 .. MaxRequests)
    BY <1>3, HeadTailProperties
  <2>2. Answer(Head(inbox)) \in Message /\ Refusal \in Message
    BY <1>0, <2>1, MessagesTyped
  <2>3. \A m \in Message : Append(outbox, m) \in Seq(Message)
    BY AppendProperties
  <2>4. outbox' \in Seq(Message)
    BY <1>3, <2>2, <2>3
  <2> QED
    BY <1>3, <2>1, <2>4
<1>4. CASE outbox' = Append(outbox, Notice) /\ UNCHANGED <<queue, line, inbox>>
  BY <1>4, MessagesTyped, AppendProperties
<1>5. ASSUME NEW k \in 1 .. Len(outbox),
             line' = SubSeq(outbox, 1, k), outbox' = SubSeq(outbox, k + 1, Len(outbox)),
             UNCHANGED <<queue, inbox>>
      PROVE  StreamsOK'
  <2>1. line' \in Seq(Message)
    BY <1>5
  <2>2. outbox' \in Seq(Message)
    BY <1>5
  <2> QED
    BY <1>5, <2>1, <2>2
<1>6. CASE /\ line # <<>> /\ line' = Tail(line)
           /\ queue' = queue \/ queue' = Append(queue, Head(line))
           /\ UNCHANGED <<outbox, inbox>>
  <2>1. Head(line) \in Message /\ Tail(line) \in Seq(Message)
    BY <1>6, HeadTailProperties
  <2>2. Append(queue, Head(line)) \in Seq(Message)
    BY <2>1, AppendProperties
  <2> QED
    BY <1>6, <2>1, <2>2
<1>7. CASE /\ requests < MaxRequests /\ inbox' = Append(inbox, requests + 1)
           /\ UNCHANGED <<queue, line, outbox>>
  <2>1. requests + 1 \in 1 .. MaxRequests
    BY <1>0, <1>7 DEF CallsOK
  <2> QED
    BY <1>7, <2>1, AppendProperties
<1>8. CASE queue # <<>> /\ queue' = Tail(queue) /\ UNCHANGED <<line, outbox, inbox>>
  <2>1. Tail(queue) \in Seq(Message)
    BY <1>8, HeadTailProperties
  <2> QED
    BY <1>8, <2>1
<1> QED
  BY <1>1, <1>2, <1>3, <1>4, <1>5, <1>6, <1>7, <1>8, StreamShape

LEMMA WaitersFinite ==
  ASSUME NEW f
  PROVE  LET W == {c \in Callers : f[c] = "wait"} IN
            IsFiniteSet(W) /\ Cardinality(W) \in Nat /\ Cardinality(W) <= Cardinality(Callers)
<1> DEFINE W == {c \in Callers : f[c] = "wait"}
<1>1. W \subseteq Callers /\ IsFiniteSet(Callers)
  BY ConstantsOK DEF Constants
<1> HIDE DEF W
<1>2. IsFiniteSet(W) /\ Cardinality(W) \in Nat /\ Cardinality(W) <= Cardinality(Callers)
  BY <1>1, FS_Subset, FS_CardinalityType
<1> QED
  BY <1>2 DEF W

LEMMA CallsStep ==
  ASSUME StreamsOK, CallsOK, CountInv, [Next]_vars
  PROVE  CallsOK' /\ CountInv'
<1>0. /\ MaxRequests \in Nat /\ MaxNotices \in Nat
      /\ IsFiniteSet(Waiters) /\ Cardinality(Waiters) \in Nat
      /\ IsFiniteSet(returned) /\ Cardinality(returned) \in Nat
      /\ requests \in Nat /\ requests <= MaxRequests /\ timeouts \in Nat
      /\ caller \in [Callers -> {"idle", "write", "wait"}]
      /\ waitsFor \in [Callers -> 0 .. MaxRequests]
  <2>1. IsFiniteSet(Waiters) /\ Cardinality(Waiters) \in Nat
    BY WaitersFinite DEF Waiters
  <2>2. IsFiniteSet(returned) /\ Cardinality(returned) \in Nat
    BY FS_CardinalityType DEF CountInv
  <2>3. MaxRequests \in Nat /\ MaxNotices \in Nat
    BY ConstantsOK DEF Constants
  <2> QED
    BY <2>1, <2>2, <2>3 DEF CallsOK
<1>n. notices' \in 0 .. MaxNotices
  <2>1. notices' = notices \/ (notices < MaxNotices /\ notices' = notices + 1)
    BY StreamShape DEF Streams
  <2> QED
    BY <1>0, <2>1 DEF CallsOK
<1>1. CASE UNCHANGED <<caller, waitsFor, requests, timeouts, returned>>
  <2>1. Waiters' = Waiters
    BY <1>1 DEF Waiters
  <2> QED
    BY <1>1, <1>n, <2>1 DEF CallsOK, CountInv
<1>2. ASSUME NEW c \in Callers, caller[c] # "wait", NEW at \in {"idle", "write"},
             caller' = [caller EXCEPT ![c] = at],
             UNCHANGED <<waitsFor, requests, timeouts, returned>>
      PROVE  CallsOK' /\ CountInv'
  <2>1. Waiters' = Waiters
    BY <1>0, <1>2 DEF Waiters
  <2>2. caller' \in [Callers -> {"idle", "write", "wait"}]
    BY <1>0, <1>2
  <2> QED
    BY <1>2, <1>n, <2>1, <2>2 DEF CallsOK, CountInv
<1>3. ASSUME NEW c \in Callers, caller[c] # "wait",
             caller' = [caller EXCEPT ![c] = "wait"],
             requests < MaxRequests, requests' = requests + 1,
             waitsFor' = [waitsFor EXCEPT ![c] = requests + 1],
             UNCHANGED <<timeouts, returned>>
      PROVE  CallsOK' /\ CountInv'
  <2>1. Waiters' = Waiters \cup {c} /\ c \notin Waiters
    BY <1>0, <1>3 DEF Waiters
  <2>2. Cardinality(Waiters') = Cardinality(Waiters) + 1
    BY <1>0, <2>1, FS_AddElement
  <2>3. CallsOK'
    BY <1>0, <1>3, <1>n DEF CallsOK
  <2>4. /\ \A d \in Waiters : waitsFor'[d] = waitsFor[d] /\ waitsFor[d] \in 1 .. requests
        /\ waitsFor'[c] = requests + 1
    BY <1>0, <1>3, <2>1 DEF CountInv, Waiters
  <2>5. requests' = Cardinality(Waiters') + timeouts' + Cardinality(returned')
    BY <1>0, <1>3, <2>2 DEF CountInv
  <2>6. \A d \in Waiters' : waitsFor'[d] \in 1 .. requests'
    BY <1>0, <1>3, <2>1, <2>4
  <2>7. \A d, e \in Waiters' : waitsFor'[d] = waitsFor'[e] => d = e
    <3>1. \A d \in Waiters : waitsFor'[d] # waitsFor'[c]
      BY <1>0, <2>4
    <3> QED
      BY <2>1, <2>4, <3>1 DEF CountInv
  <2>8. \A r \in returned' : r.asked \in 1 .. requests'
    BY <1>0, <1>3 DEF CountInv
  <2>9. \A d \in Waiters', r \in returned' : r.asked # waitsFor'[d]
    <3>1. \A r \in returned : r.asked # requests + 1
      BY <1>0 DEF CountInv
    <3> QED
      BY <1>3, <2>1, <2>4, <3>1 DEF CountInv
  <2> QED
    BY <1>0, <1>3, <2>3, <2>5, <2>6, <2>7, <2>8, <2>9 DEF CountInv
<1>4. ASSUME NEW c \in Callers, caller[c] = "wait",
             caller' = [caller EXCEPT ![c] = "idle"]
      PROVE  /\ Waiters' = Waiters \ {c} /\ c \in Waiters
             /\ Cardinality(Waiters') = Cardinality(Waiters) - 1
             /\ caller' \in [Callers -> {"idle", "write", "wait"}]
  <2>1. Waiters' = Waiters \ {c} /\ c \in Waiters
    BY <1>0, <1>4 DEF Waiters
  <2>2. Cardinality(Waiters') = Cardinality(Waiters) - 1
    BY <1>0, <2>1, FS_RemoveElement
  <2>3. caller' \in [Callers -> {"idle", "write", "wait"}]
    BY <1>0, <1>4
  <2> QED
    BY <2>1, <2>2, <2>3
<1>5. ASSUME NEW c \in Callers, caller[c] = "wait",
             caller' = [caller EXCEPT ![c] = "idle"], queue # <<>>,
             returned' = returned \cup {[asked |-> waitsFor[c], got |-> Head(queue)]},
             UNCHANGED <<waitsFor, requests, timeouts>>
      PROVE  CallsOK' /\ CountInv'
  <2> DEFINE new == [asked |-> waitsFor[c], got |-> Head(queue)]
  <2>1. /\ Waiters' = Waiters \ {c} /\ c \in Waiters
        /\ Cardinality(Waiters') = Cardinality(Waiters) - 1
        /\ caller' \in [Callers -> {"idle", "write", "wait"}]
    BY <1>4, <1>5
  <2>2. new.asked = waitsFor[c] /\ waitsFor[c] \in 1 .. requests
    BY <2>1 DEF CountInv
  <2>3. new \in [asked : 1 .. MaxRequests, got : Message]
    <3>1. Head(queue) \in Message
      BY <1>5, HeadTailProperties DEF StreamsOK
    <3>2. waitsFor[c] \in 1 .. MaxRequests
      BY <1>0, <2>2
    <3> QED
      BY <3>1, <3>2
  <2> HIDE DEF new
  <2>4. new \notin returned
    BY <2>1, <2>2 DEF CountInv
  <2>5. returned' = returned \cup {new}
    BY <1>5 DEF new
  <2>6. IsFiniteSet(returned') /\ Cardinality(returned') = Cardinality(returned) + 1
    BY <1>0, <2>4, <2>5, FS_AddElement
  <2>7. requests' = Cardinality(Waiters') + timeouts' + Cardinality(returned')
    <3>1. requests = Cardinality(Waiters) + timeouts + Cardinality(returned)
      BY DEF CountInv
    <3> QED
      BY <1>0, <1>5, <2>1, <2>6, <3>1
  <2>8. CallsOK'
    BY <1>5, <1>n, <2>1, <2>3, <2>5 DEF CallsOK
  <2>9. \A d \in Waiters', r \in returned' : r.asked # waitsFor'[d]
    BY <1>5, <2>1, <2>2, <2>5 DEF CountInv
  <2>10. /\ \A d \in Waiters' : waitsFor'[d] \in 1 .. requests'
         /\ \A d, e \in Waiters' : waitsFor'[d] = waitsFor'[e] => d = e
         /\ \A r \in returned' : r.asked \in 1 .. requests'
    BY <1>5, <2>1, <2>2, <2>5 DEF CountInv
  <2> QED
    BY <2>6, <2>7, <2>8, <2>9, <2>10 DEF CountInv
<1>6. ASSUME NEW c \in Callers, caller[c] = "wait",
             caller' = [caller EXCEPT ![c] = "idle"],
             timeouts' = timeouts + 1,
             UNCHANGED <<waitsFor, requests, returned>>
      PROVE  CallsOK' /\ CountInv'
  <2>1. /\ Waiters' = Waiters \ {c}
        /\ Cardinality(Waiters') = Cardinality(Waiters) - 1
        /\ caller' \in [Callers -> {"idle", "write", "wait"}]
    BY <1>4, <1>6
  <2>2. requests' = Cardinality(Waiters') + timeouts' + Cardinality(returned')
    <3>1. requests = Cardinality(Waiters) + timeouts + Cardinality(returned)
      BY DEF CountInv
    <3>2. Cardinality(returned') = Cardinality(returned)
      BY <1>6
    <3> QED
      BY <1>0, <1>6, <2>1, <3>1, <3>2
  <2>3. CallsOK'
    BY <1>0, <1>6, <1>n, <2>1 DEF CallsOK
  <2> QED
    BY <1>6, <2>1, <2>2, <2>3 DEF CountInv
<1> QED
  BY <1>1, <1>2, <1>3, <1>5, <1>6, CallShape

TypeInv == ControlOK /\ FlagsOK /\ OthersOK /\ StreamsOK /\ CallsOK /\ CountInv

LEMMA TypeInit == Init => TypeInv
<1> SUFFICES ASSUME Init PROVE TypeInv
  OBVIOUS
<1>0. MaxRequests \in Nat /\ MaxNotices \in Nat /\ MaxConnects \in Nat
  BY ConstantsOK DEF Constants
<1>1. ControlOK
  BY <1>0 DEF Init, ControlOK
<1>2. FlagsOK /\ OthersOK
  BY DEF Init, FlagsOK, OthersOK
<1>3. StreamsOK
  <2>1. <<>> \in Seq(Message) /\ <<>> \in Seq(1 .. MaxRequests)
    OBVIOUS
  <2> QED
    BY <2>1 DEF Init, StreamsOK
<1>4. CallsOK
  <2>1. /\ caller = [c \in Callers |-> "idle"] /\ waitsFor = [c \in Callers |-> 0]
        /\ requests = 0 /\ notices = 0 /\ timeouts = 0 /\ returned = {}
    BY DEF Init
  <2> QED
    BY <1>0, <2>1 DEF CallsOK
<1>5. CountInv
  <2>1. Waiters = {} /\ returned = {} /\ requests = 0 /\ timeouts = 0
    BY DEF Init, Waiters
  <2>2. IsFiniteSet({}) /\ Cardinality({}) = 0
    BY FS_EmptySet
  <2> QED
    BY <2>1, <2>2 DEF CountInv
<1> QED
  BY <1>1, <1>2, <1>3, <1>4, <1>5 DEF TypeInv

LEMMA TypeSafe == Spec => []TypeInv
<1>1. TypeInv /\ [Next]_vars => TypeInv'
  BY ControlStep, FlagsStep, StreamsStep, CallsStep DEF TypeInv
<1> QED
  BY TypeInit, <1>1, PTL DEF Spec

\* Every variable keeps its type, a reader thread exists exactly from connect
\* to the join in disconnect, only then are there messages it holds, and no
\* more calls time out than requests were written.
THEOREM TypeCorrect == Spec => []TypeOK
<1>1. TypeInv => TypeOK
  <2> SUFFICES ASSUME TypeInv PROVE TypeOK
    OBVIOUS
  <2>1. timeouts \in 0 .. MaxRequests
    <3>1. Cardinality(Waiters) \in Nat /\ Cardinality(returned) \in Nat
      BY WaitersFinite, FS_CardinalityType DEF Waiters, TypeInv, CountInv
    <3>2. MaxRequests \in Nat
      BY ConstantsOK DEF Constants
    <3> QED
      BY <3>1, <3>2 DEF TypeInv, CallsOK, CountInv
  <2> QED
    BY <2>1 DEF TypeInv, TypeOK, ControlOK, FlagsOK, OthersOK, StreamsOK, CallsOK
<1> QED
  BY <1>1, TypeSafe, PTL

-----------------------------------------------------------------------------
(* The streams as sequences of request numbers *)

Ids(s) == [i \in DOMAIN s |-> s[i].id]

Queued == Ids(queue)
Read == Ids(line)
Sent == Ids(outbox)
Taken == Cardinality(returned)

LEMMA IdsTyped ==
  ASSUME NEW s \in Seq(Message)
  PROVE  Ids(s) \in Seq(Nat) /\ Len(Ids(s)) = Len(s) /\ DOMAIN Ids(s) = 1 .. Len(s)
<1>1. Len(s) \in Nat /\ DOMAIN s = 1 .. Len(s)
  BY LenProperties
<1>2. \A i \in 1 .. Len(s) : s[i].id \in Nat
  <2> TAKE i \in 1 .. Len(s)
  <2>1. s[i] \in Message
    BY ElementOfSeq
  <2> QED
    BY <2>1 DEF Message
<1>3. Ids(s) = [i \in 1 .. Len(s) |-> s[i].id]
  BY <1>1 DEF Ids
<1>4. Ids(s) \in [1 .. Len(s) -> Nat]
  BY <1>2, <1>3
<1>5. Ids(s) \in Seq(Nat)
  BY <1>1, <1>4, SeqDef
<1> QED
  BY <1>1, <1>3, <1>5, LenProperties

LEMMA IdsEmpty == Ids(<<>>) = <<>>
<1>1. DOMAIN Ids(<<>>) = {}
  BY DEF Ids
<1>2. Ids(<<>>) \in Seq(Nat) /\ Len(Ids(<<>>)) = 0
  <2>1. <<>> \in Seq(Message) /\ Len(<<>>) = 0
    OBVIOUS
  <2> QED
    BY <2>1, IdsTyped
<1> QED
  BY <1>2, EmptySeq

LEMMA IdsTail ==
  ASSUME NEW s \in Seq(Message), s # <<>>
  PROVE  /\ Ids(s) # <<>> /\ Ids(Tail(s)) = Tail(Ids(s)) /\ Head(Ids(s)) = Head(s).id
<1> DEFINE a == Ids(Tail(s))
           b == Tail(Ids(s))
<1>1. /\ Len(s) \in Nat \ {0} /\ DOMAIN s = 1 .. Len(s)
      /\ Tail(s) \in Seq(Message) /\ Len(Tail(s)) = Len(s) - 1
      /\ \A i \in 1 .. Len(s) - 1 : Tail(s)[i] = s[i + 1]
      /\ Head(s) = s[1]
  OBVIOUS
<1>2. Ids(s) \in Seq(Nat) /\ Len(Ids(s)) = Len(s) /\ DOMAIN Ids(s) = 1 .. Len(s)
  BY IdsTyped
<1>3. Ids(s) # <<>> /\ Head(Ids(s)) = Ids(s)[1] /\ Ids(s)[1] = s[1].id
  BY <1>1, <1>2 DEF Ids
<1>4. /\ b \in Seq(Nat) /\ Len(b) = Len(s) - 1
      /\ \A i \in 1 .. Len(s) - 1 : b[i] = Ids(s)[i + 1]
  BY <1>1, <1>2, <1>3
<1>5. a \in Seq(Nat) /\ Len(a) = Len(s) - 1 /\ DOMAIN a = 1 .. Len(s) - 1
  BY <1>1, IdsTyped
<1>6. \A i \in 1 .. Len(s) - 1 : a[i] = b[i]
  <2> TAKE i \in 1 .. Len(s) - 1
  <2>1. a[i] = Tail(s)[i].id
    BY <1>1, <1>5 DEF Ids
  <2>2. b[i] = s[i + 1].id
    BY <1>1, <1>4 DEF Ids
  <2> QED
    BY <1>1, <2>1, <2>2
<1>7. a = b
  <2> HIDE DEF a, b
  <2> QED
    BY <1>1, <1>4, <1>5, <1>6, SeqEqual
<1> QED
  BY <1>1, <1>3, <1>7

LEMMA IdsAppend ==
  ASSUME NEW s \in Seq(Message), NEW m \in Message
  PROVE  Ids(Append(s, m)) = Append(Ids(s), m.id)
<1> DEFINE a == Ids(Append(s, m))
           b == Append(Ids(s), m.id)
<1>1. /\ Len(s) \in Nat /\ Append(s, m) \in Seq(Message) /\ m.id \in Nat
      /\ Len(Append(s, m)) = Len(s) + 1
      /\ \A i \in 1 .. Len(s) : Append(s, m)[i] = s[i]
      /\ Append(s, m)[Len(s) + 1] = m
  BY AppendProperties, LenProperties DEF Message
<1>2. Ids(s) \in Seq(Nat) /\ Len(Ids(s)) = Len(s) /\ DOMAIN Ids(s) = 1 .. Len(s)
      /\ DOMAIN s = 1 .. Len(s)
  BY IdsTyped, LenProperties
<1>3. /\ b \in Seq(Nat) /\ Len(b) = Len(s) + 1
      /\ \A i \in 1 .. Len(s) : b[i] = Ids(s)[i]
      /\ b[Len(s) + 1] = m.id
  BY <1>1, <1>2, AppendProperties
<1>4. a \in Seq(Nat) /\ Len(a) = Len(s) + 1
      /\ DOMAIN Append(s, m) = 1 .. Len(s) + 1
  BY <1>1, IdsTyped, LenProperties
<1>5. \A i \in 1 .. Len(s) + 1 : a[i] = b[i]
  <2> TAKE i \in 1 .. Len(s) + 1
  <2>1. a[i] = Append(s, m)[i].id
    BY <1>4 DEF Ids
  <2>2. CASE i = Len(s) + 1
    BY <1>1, <1>3, <2>1, <2>2
  <2>3. CASE i \in 1 .. Len(s)
    <3>1. Ids(s)[i] = s[i].id
      BY <1>2, <2>3 DEF Ids
    <3> QED
      BY <1>1, <1>3, <2>1, <2>3, <3>1
  <2>4. i = Len(s) + 1 \/ i \in 1 .. Len(s)
    BY <1>1
  <2> HIDE DEF a, b
  <2> QED
    BY <2>2, <2>3, <2>4
<1> HIDE DEF a, b
<1>6. a = b
  BY <1>1, <1>3, <1>4, <1>5, SeqEqual
<1> QED
  BY <1>6 DEF a, b

LEMMA IdsSplit ==
  ASSUME NEW s \in Seq(Message), NEW k \in 1 .. Len(s)
  PROVE  /\ Ids(SubSeq(s, 1, k)) = SubSeq(Ids(s), 1, k)
         /\ Ids(SubSeq(s, k + 1, Len(s))) = SubSeq(Ids(s), k + 1, Len(s))
<1>1. Len(s) \in Nat /\ k \in Nat /\ DOMAIN s = 1 .. Len(s)
  BY LenProperties
<1>2. Ids(s) \in Seq(Nat) /\ Len(Ids(s)) = Len(s) /\ DOMAIN Ids(s) = 1 .. Len(s)
      /\ \A i \in 1 .. Len(s) : Ids(s)[i] = s[i].id
  BY <1>1, IdsTyped DEF Ids
<1>3. ASSUME NEW m \in 1 .. Len(s) + 1, NEW n \in 0 .. Len(s), n - m + 1 \in Nat
      PROVE  Ids(SubSeq(s, m, n)) = SubSeq(Ids(s), m, n)
  <2> DEFINE len == n - m + 1
             sub == SubSeq(s, m, n)
             a == Ids(sub)
             b == SubSeq(Ids(s), m, n)
  <2>1. /\ sub \in Seq(Message) /\ Len(sub) = len
        /\ \A i \in 1 .. len : sub[i] = s[m + i - 1]
    BY <1>1, <1>3
  <2>2. /\ b \in Seq(Nat) /\ Len(b) = len
        /\ \A i \in 1 .. len : b[i] = Ids(s)[m + i - 1]
    BY <1>1, <1>2, <1>3
  <2> HIDE DEF sub, b
  <2>3. a \in Seq(Nat) /\ Len(a) = len /\ DOMAIN sub = 1 .. len
    BY <2>1, IdsTyped, LenProperties
  <2>4. \A i \in 1 .. len : a[i] = b[i]
    <3> TAKE i \in 1 .. len
    <3>1. a[i] = sub[i].id
      BY <2>3 DEF Ids
    <3>2. m + i - 1 \in 1 .. Len(s)
      BY <1>1, <1>3
    <3> QED
      BY <1>2, <2>1, <2>2, <3>1, <3>2
  <2> HIDE DEF a
  <2>5. a = b
    BY <1>3, <2>2, <2>3, <2>4, SeqEqual
  <2> QED
    BY <2>5 DEF a, b, sub
<1>4. Ids(SubSeq(s, 1, k)) = SubSeq(Ids(s), 1, k)
  BY <1>1, <1>3
<1>5. Ids(SubSeq(s, k + 1, Len(s))) = SubSeq(Ids(s), k + 1, Len(s))
  <2>1. k + 1 \in 1 .. Len(s) + 1 /\ Len(s) \in 0 .. Len(s) /\ Len(s) - (k + 1) + 1 \in Nat
    BY <1>1
  <2> QED
    BY <1>3, <2>1
<1> QED
  BY <1>4, <1>5

LEMMA NumbersTyped ==
  ASSUME TypeInv
  PROVE  /\ Queued \in Seq(Nat) /\ Read \in Seq(Nat) /\ Sent \in Seq(Nat)
         /\ inbox \in Seq(Nat) /\ \A i \in DOMAIN inbox : inbox[i] # 0
         /\ requests \in Nat /\ notices \in Nat /\ timeouts \in Nat
         /\ IsFiniteSet(returned) /\ Taken \in Nat
<1>1. MaxRequests \in Nat /\ MaxNotices \in Nat
  BY ConstantsOK DEF Constants
<1>2. /\ requests \in Nat /\ notices \in Nat /\ timeouts \in Nat
      /\ IsFiniteSet(returned)
  BY <1>1 DEF TypeInv, CallsOK, CountInv
<1>3. Taken \in Nat
  BY <1>2, FS_CardinalityType DEF Taken
<1>4. inbox \in Seq(1 .. MaxRequests)
  BY DEF TypeInv, StreamsOK
<1>5. 1 .. MaxRequests \subseteq Nat /\ \A i \in DOMAIN inbox : inbox[i] \in 1 .. MaxRequests
  BY <1>1, <1>4, ElementOfSeq, LenProperties
<1>6. inbox \in Seq(Nat)
  BY <1>4, <1>5, SeqMonotonic
<1>7. Queued \in Seq(Nat) /\ Read \in Seq(Nat) /\ Sent \in Seq(Nat)
  BY IdsTyped DEF TypeInv, StreamsOK, Queued, Read, Sent
<1> QED
  BY <1>2, <1>3, <1>5, <1>6, <1>7

\* The steps, on the numbers alone.
LEMMA NumberShape ==
  ASSUME TypeInv, [Next]_vars
  PROVE  \/ UNCHANGED <<Queued, Read, Sent, inbox, requests, notices, returned>>
         \/ /\ Read' = <<>>
            /\ UNCHANGED <<Queued, Sent, inbox, requests, notices, returned>>
         \/ /\ inbox' = <<>>
            /\ UNCHANGED <<Queued, Read, Sent, requests, notices, returned>>
         \/ /\ Sent' = <<>>
            /\ UNCHANGED <<Queued, Read, inbox, requests, notices, returned>>
         \/ /\ inbox # <<>> /\ inbox' = Tail(inbox)
            /\ Sent' = Append(Sent, Head(inbox)) \/ Sent' = Append(Sent, 0)
            /\ UNCHANGED <<Queued, Read, requests, notices, returned>>
         \/ /\ Sent' = Append(Sent, 0)
            /\ notices' = notices + 1
            /\ UNCHANGED <<Queued, Read, inbox, requests, returned>>
         \/ /\ Read = <<>>
            /\ \E k \in 1 .. Len(Sent) :
                  /\ Read' = SubSeq(Sent, 1, k)
                  /\ Sent' = SubSeq(Sent, k + 1, Len(Sent))
            /\ UNCHANGED <<Queued, inbox, requests, notices, returned>>
         \/ /\ Read # <<>> /\ Read' = Tail(Read)
            /\ Queued' = Queued \/ Queued' = Append(Queued, Head(Read))
            /\ UNCHANGED <<Sent, inbox, requests, notices, returned>>
         \/ /\ requests' = requests + 1
            /\ inbox' = Append(inbox, requests + 1)
            /\ UNCHANGED <<Queued, Read, Sent, notices, returned>>
         \/ /\ Queued # <<>> /\ Queued' = Tail(Queued)
            /\ \E c \in Waiters :
                  \E new \in [asked : {waitsFor[c]}, got : Message] :
                     /\ new.got.id = Head(Queued)
                     /\ returned' = returned \cup {new}
            /\ UNCHANGED <<Read, Sent, inbox, requests, notices>>
<1>0. queue \in Seq(Message) /\ line \in Seq(Message) /\ outbox \in Seq(Message)
      /\ inbox \in Seq(Nat)
  BY NumbersTyped DEF TypeInv, StreamsOK
<1>1. CASE UNCHANGED Streams /\ UNCHANGED <<requests, notices, returned>>
  BY <1>1 DEF Streams, Queued, Read, Sent
<1>2. CASE /\ line' = <<>> /\ UNCHANGED <<queue, outbox, inbox>>
           /\ UNCHANGED <<requests, notices, returned>>
  BY <1>2, IdsEmpty DEF Queued, Read, Sent
<1>3. CASE /\ inbox' = <<>> /\ UNCHANGED <<queue, line, outbox>>
           /\ UNCHANGED <<requests, notices, returned>>
  BY <1>3 DEF Queued, Read, Sent
<1>4. CASE /\ outbox' = <<>> /\ UNCHANGED <<queue, line, inbox>>
           /\ UNCHANGED <<requests, notices, returned>>
  BY <1>4, IdsEmpty DEF Queued, Read, Sent
<1>5. CASE /\ inbox # <<>> /\ inbox' = Tail(inbox)
           /\ outbox' = Append(outbox, Answer(Head(inbox)))
                 \/ outbox' = Append(outbox, Refusal)
           /\ UNCHANGED <<queue, line, requests, notices, returned>>
  <2>1. Head(inbox) \in Nat
    BY <1>0, <1>5, HeadTailProperties
  <2>2. /\ Ids(Append(outbox, Answer(Head(inbox)))) = Append(Sent, Head(inbox))
        /\ Ids(Append(outbox, Refusal)) = Append(Sent, 0)
    <3>1. /\ Answer(Head(inbox)) \in Message /\ Answer(Head(inbox)).id = Head(inbox)
          /\ Refusal \in Message /\ Refusal.id = 0
      BY <2>1, MessagesTyped
    <3>2. \A m \in Message : Ids(Append(outbox, m)) = Append(Ids(outbox), m.id)
      BY <1>0, IdsAppend
    <3> QED
      BY <3>1, <3>2 DEF Sent
  <2>3. Sent' = Append(Sent, Head(inbox)) \/ Sent' = Append(Sent, 0)
    <3>1. Sent' = Ids(outbox')
      BY DEF Sent
    <3> QED
      BY <1>5, <2>2, <3>1
  <2>4. UNCHANGED <<Queued, Read>>
    BY <1>5 DEF Queued, Read
  <2> QED
    BY <1>5, <2>3, <2>4
<1>6. CASE /\ outbox' = Append(outbox, Notice)
           /\ notices < MaxNotices /\ notices' = notices + 1
           /\ UNCHANGED <<queue, line, inbox, requests, returned>>
  <2>1. Sent' = Append(Sent, 0)
    BY <1>0, <1>6, IdsAppend, MessagesTyped DEF Sent
  <2> QED
    BY <1>6, <2>1 DEF Queued, Read
<1>7. CASE /\ line = <<>>
           /\ \E k \in 1 .. Len(outbox) :
                  /\ line' = SubSeq(outbox, 1, k)
                  /\ outbox' = SubSeq(outbox, k + 1, Len(outbox))
           /\ UNCHANGED <<queue, inbox, requests, notices, returned>>
  <2>1. Read = <<>> /\ Len(Sent) = Len(outbox)
    BY <1>0, <1>7, IdsEmpty, IdsTyped DEF Read, Sent
  <2>2. PICK k \in 1 .. Len(outbox) : /\ line' = SubSeq(outbox, 1, k)
                                      /\ outbox' = SubSeq(outbox, k + 1, Len(outbox))
    BY <1>7
  <2>3. Read' = SubSeq(Sent, 1, k) /\ Sent' = SubSeq(Sent, k + 1, Len(Sent))
    BY <1>0, <2>1, <2>2, IdsSplit DEF Read, Sent
  <2> QED
    BY <1>7, <2>1, <2>3 DEF Queued
<1>8. CASE /\ line # <<>> /\ line' = Tail(line)
           /\ queue' = queue \/ queue' = Append(queue, Head(line))
           /\ UNCHANGED <<outbox, inbox, requests, notices, returned>>
  <2>1. Read # <<>> /\ Read' = Tail(Read) /\ Head(Read) = Head(line).id
    BY <1>0, <1>8, IdsTail DEF Read
  <2>2. Ids(Append(queue, Head(line))) = Append(Queued, Head(Read))
    <3>1. Head(line) \in Message
      BY <1>0, <1>8, HeadTailProperties
    <3> QED
      BY <1>0, <2>1, <3>1, IdsAppend DEF Queued
  <2>3. Queued' = Queued \/ Queued' = Append(Queued, Head(Read))
    <3>1. Queued' = Ids(queue')
      BY DEF Queued
    <3>2. Queued = Ids(queue)
      BY DEF Queued
    <3> QED
      BY <1>8, <2>2, <3>1, <3>2
  <2> QED
    BY <1>8, <2>1, <2>3 DEF Sent
<1>9. CASE /\ requests < MaxRequests /\ requests' = requests + 1
           /\ inbox' = Append(inbox, requests + 1)
           /\ UNCHANGED <<queue, line, outbox, notices, returned>>
  BY <1>9 DEF Queued, Read, Sent
<1>10. CASE /\ queue # <<>> /\ queue' = Tail(queue)
            /\ \E c \in Waiters :
                  returned' = returned \cup {[asked |-> waitsFor[c], got |-> Head(queue)]}
            /\ UNCHANGED <<line, outbox, inbox, requests, notices>>
  <2>1. Queued # <<>> /\ Queued' = Tail(Queued) /\ Head(Queued) = Head(queue).id
    BY <1>0, <1>10, IdsTail DEF Queued
  <2>2. PICK c \in Waiters :
           returned' = returned \cup {[asked |-> waitsFor[c], got |-> Head(queue)]}
    BY <1>10
  <2>3. Head(queue) \in Message
    BY <1>0, <1>10, HeadTailProperties
  <2> DEFINE new == [asked |-> waitsFor[c], got |-> Head(queue)]
  <2>4. new \in [asked : {waitsFor[c]}, got : Message] /\ new.got.id = Head(Queued)
    BY <2>1, <2>3
  <2>5. returned' = returned \cup {new}
    BY <2>2
  <2>6. UNCHANGED <<Read, Sent, inbox, requests, notices>>
    BY <1>10 DEF Read, Sent
  <2> HIDE DEF new
  <2> QED
    BY <2>1, <2>4, <2>5, <2>6
<1> QED
  BY <1>1, <1>2, <1>3, <1>4, <1>5, <1>6, <1>7, <1>8, <1>9, <1>10, StreamShape

-----------------------------------------------------------------------------
(* How far an answer can lag *)

\* No element of s, which has n others before it, is further back than its
\* number and the notices account for: every request puts one message into
\* the streams at most, and they keep their order.
Behind(s, n, ns) == \A i \in DOMAIN s : s[i] # 0 => n + i <= s[i] + ns

LEMMA BehindLess ==
  ASSUME NEW s \in Seq(Nat), NEW n \in Nat, NEW ns \in Nat, Behind(s, n, ns),
         NEW m \in Nat, m <= n, NEW ms \in Nat, ms >= ns
  PROVE  Behind(s, m, ms)
<1>1. \A i \in DOMAIN s : i \in Nat /\ s[i] \in Nat
  BY ElementOfSeq, LenProperties
<1> QED
  BY <1>1 DEF Behind

LEMMA BehindEmpty == ASSUME NEW n, NEW ns PROVE Behind(<<>>, n, ns)
<1>1. DOMAIN <<>> = {}
  OBVIOUS
<1> QED
  BY <1>1 DEF Behind

LEMMA BehindTail ==
  ASSUME NEW s \in Seq(Nat), NEW n \in Nat, NEW ns \in Nat, Behind(s, n, ns), s # <<>>
  PROVE  Behind(Tail(s), n + 1, ns) /\ (Head(s) # 0 => n + 1 <= Head(s) + ns)
<1>1. /\ Len(s) \in Nat \ {0} /\ DOMAIN s = 1 .. Len(s) /\ DOMAIN Tail(s) = 1 .. Len(s) - 1
      /\ \A i \in 1 .. Len(s) - 1 : Tail(s)[i] = s[i + 1] /\ i + 1 \in DOMAIN s
      /\ Head(s) = s[1] /\ 1 \in DOMAIN s
      /\ \A i \in DOMAIN s : s[i] \in Nat
  OBVIOUS
<1>2. ASSUME NEW i \in DOMAIN Tail(s), Tail(s)[i] # 0
      PROVE  (n + 1) + i <= Tail(s)[i] + ns
  <2>1. Tail(s)[i] = s[i + 1] /\ i + 1 \in DOMAIN s /\ i \in Nat /\ s[i + 1] \in Nat
    BY <1>1
  <2>2. n + (i + 1) <= s[i + 1] + ns
    BY <1>2, <2>1 DEF Behind
  <2> QED
    BY <2>1, <2>2
<1> QED
  BY <1>1, <1>2 DEF Behind

LEMMA BehindAppend ==
  ASSUME NEW s \in Seq(Nat), NEW n \in Nat, NEW ns \in Nat, Behind(s, n, ns),
         NEW m \in Nat, m # 0 => n + Len(s) + 1 <= m + ns
  PROVE  Behind(Append(s, m), n, ns)
<1>1. /\ Len(s) \in Nat /\ DOMAIN s = 1 .. Len(s) /\ DOMAIN Append(s, m) = 1 .. Len(s) + 1
      /\ \A i \in 1 .. Len(s) : Append(s, m)[i] = s[i]
      /\ Append(s, m)[Len(s) + 1] = m
      /\ \A i \in DOMAIN s : s[i] \in Nat
  OBVIOUS
<1>2. ASSUME NEW i \in DOMAIN Append(s, m), Append(s, m)[i] # 0
      PROVE  n + i <= Append(s, m)[i] + ns
  <2>1. CASE i = Len(s) + 1
    BY <1>1, <1>2, <2>1
  <2>2. CASE i \in 1 .. Len(s)
    BY <1>1, <1>2, <2>2 DEF Behind
  <2> QED
    BY <1>1, <2>1, <2>2
<1> QED
  BY <1>2 DEF Behind

LEMMA BehindSplit ==
  ASSUME NEW s \in Seq(Nat), NEW n \in Nat, NEW ns \in Nat, Behind(s, n, ns),
         NEW k \in 1 .. Len(s)
  PROVE  Behind(SubSeq(s, 1, k), n, ns) /\ Behind(SubSeq(s, k + 1, Len(s)), n + k, ns)
<1>1. /\ Len(s) \in Nat /\ DOMAIN s = 1 .. Len(s) /\ k \in Nat
      /\ DOMAIN SubSeq(s, 1, k) = 1 .. k
      /\ \A i \in 1 .. k : SubSeq(s, 1, k)[i] = s[i] /\ i \in DOMAIN s
      /\ \A i \in DOMAIN s : s[i] \in Nat
  OBVIOUS
<1>2. /\ DOMAIN SubSeq(s, k + 1, Len(s)) = 1 .. Len(s) - k
      /\ \A i \in 1 .. Len(s) - k :
            SubSeq(s, k + 1, Len(s))[i] = s[k + i] /\ k + i \in DOMAIN s
  BY <1>1
<1>3. Behind(SubSeq(s, 1, k), n, ns)
  BY <1>1 DEF Behind
<1>4. ASSUME NEW i \in 1 .. Len(s) - k, SubSeq(s, k + 1, Len(s))[i] # 0
      PROVE  (n + k) + i <= SubSeq(s, k + 1, Len(s))[i] + ns
  <2>1. SubSeq(s, k + 1, Len(s))[i] = s[k + i] /\ k + i \in DOMAIN s
    BY <1>2
  <2>2. n + (k + i) <= s[k + i] + ns
    BY <1>4, <2>1 DEF Behind
  <2> QED
    BY <1>1, <2>1, <2>2
<1>5. Behind(SubSeq(s, k + 1, Len(s)), n + k, ns)
  BY <1>2, <1>4 DEF Behind
<1> QED
  BY <1>3, <1>5

\* How many messages were put into the streams before those of the line, of
\* the server's pipe and of its inbox, when none was lost.
BeforeRead == Taken + Len(Queued)
BeforeSent == BeforeRead + Len(Read)
BeforeInbox == BeforeSent + Len(Sent)

PlaceInv ==
    /\ Behind(Queued, Taken, notices)
    /\ Behind(Read, BeforeRead, notices)
    /\ Behind(Sent, BeforeSent, notices)
    /\ Behind(inbox, BeforeInbox, notices)
    /\ BeforeInbox + Len(inbox) <= requests + notices

PlacesOK ==
    /\ Len(Queued) \in Nat /\ Len(Read) \in Nat /\ Len(Sent) \in Nat
    /\ Len(inbox) \in Nat
    /\ Taken \in Nat /\ BeforeRead \in Nat /\ BeforeSent \in Nat
    /\ BeforeInbox \in Nat

LEMMA PlacesTyped == TypeInv => PlacesOK
<1> SUFFICES ASSUME TypeInv PROVE PlacesOK
  OBVIOUS
<1>1. /\ Len(Queued) \in Nat /\ Len(Read) \in Nat /\ Len(Sent) \in Nat
      /\ Len(inbox) \in Nat /\ Taken \in Nat
  BY NumbersTyped, LenProperties
<1> QED
  BY <1>1 DEF PlacesOK, BeforeRead, BeforeSent, BeforeInbox

LEMMA PlaceInit == Init => PlaceInv
<1> SUFFICES ASSUME Init PROVE PlaceInv
  OBVIOUS
<1>1. /\ inbox = <<>> /\ outbox = <<>> /\ line = <<>> /\ queue = <<>>
      /\ requests = 0 /\ notices = 0 /\ returned = {}
  BY DEF Init
<1>2. Queued = <<>> /\ Read = <<>> /\ Sent = <<>>
  BY <1>1, IdsEmpty DEF Queued, Read, Sent
<1>3. Taken = 0 /\ Len(<<>>) = 0
  <2>1. Cardinality({}) = 0
    BY FS_EmptySet
  <2>2. Len(<<>>) = 0
    OBVIOUS
  <2> QED
    BY <1>1, <2>1, <2>2 DEF Taken
<1>4. \A n, ns : Behind(<<>>, n, ns)
  BY BehindEmpty
<1>5. BeforeInbox + Len(inbox) <= requests + notices
  BY <1>1, <1>2, <1>3 DEF BeforeInbox, BeforeSent, BeforeRead
<1> QED
  BY <1>1, <1>2, <1>4, <1>5 DEF PlaceInv

\* What a receive puts aside is one message more at most.
LEMMA TakenOneMore ==
  ASSUME IsFiniteSet(returned), NEW new, returned' = returned \cup {new}
  PROVE  Taken' \in Nat /\ Taken' <= Taken + 1 /\ Taken <= Taken'
<1>1. Cardinality(returned) \in Nat
  BY FS_CardinalityType
<1>2. CASE new \in returned
  <2>1. returned' = returned
    BY <1>2
  <2>2. Taken' = Taken
    BY <2>1 DEF Taken
  <2> QED
    BY <1>1, <2>2 DEF Taken
<1>3. CASE new \notin returned
  <2>1. Cardinality(returned \cup {new}) = Cardinality(returned) + 1
    BY <1>3, FS_AddElement
  <2>2. Taken' = Taken + 1
    BY <2>1 DEF Taken
  <2> QED
    BY <1>1, <2>2 DEF Taken
<1> QED
  BY <1>2, <1>3

LEMMA PlaceStep ==
  ASSUME TypeInv, PlaceInv, [Next]_vars, PlacesOK'
  PROVE  PlaceInv'
<1>t. /\ Queued \in Seq(Nat) /\ Read \in Seq(Nat) /\ Sent \in Seq(Nat)
      /\ inbox \in Seq(Nat) /\ IsFiniteSet(returned)
      /\ requests \in Nat /\ notices \in Nat /\ notices + 1 \in Nat
      /\ notices >= notices /\ notices + 1 >= notices
  BY NumbersTyped
<1>l. /\ Len(Queued) \in Nat /\ Len(Read) \in Nat /\ Len(Sent) \in Nat
      /\ Len(inbox) \in Nat
      /\ Taken \in Nat /\ BeforeRead \in Nat /\ BeforeSent \in Nat
      /\ BeforeInbox \in Nat
  BY PlacesTyped DEF PlacesOK
<1>m. /\ Len(Queued') \in Nat /\ Len(Read') \in Nat /\ Len(Sent') \in Nat
      /\ Len(inbox') \in Nat
      /\ Taken' \in Nat /\ BeforeRead' \in Nat /\ BeforeSent' \in Nat
      /\ BeforeInbox' \in Nat
  BY DEF PlacesOK
<1>b. /\ Behind(Queued, Taken, notices) /\ Behind(Read, BeforeRead, notices)
      /\ Behind(Sent, BeforeSent, notices) /\ Behind(inbox, BeforeInbox, notices)
      /\ BeforeInbox + Len(inbox) <= requests + notices
  BY DEF PlaceInv
<1>d. /\ BeforeRead = Taken + Len(Queued) /\ BeforeSent = BeforeRead + Len(Read)
      /\ BeforeInbox = BeforeSent + Len(Sent)
      /\ BeforeRead' = Taken' + Len(Queued') /\ BeforeSent' = BeforeRead' + Len(Read')
      /\ BeforeInbox' = BeforeSent' + Len(Sent')
  BY DEF BeforeRead, BeforeSent, BeforeInbox
<1>c. requests \in Nat /\ notices \in Nat /\ BeforeInbox + Len(inbox) <= requests + notices
  BY <1>t, <1>b
<1>p. ASSUME Behind(Queued', Taken', notices'), Behind(Read', BeforeRead', notices'),
             Behind(Sent', BeforeSent', notices'),
             Behind(inbox', BeforeInbox', notices'),
             BeforeInbox' + Len(inbox') <= requests' + notices'
      PROVE  PlaceInv'
  BY <1>p DEF PlaceInv
<1>e. \A n, ns : Behind(<<>>, n, ns)
  BY BehindEmpty
<1>z. Len(<<>>) = 0
  OBVIOUS
\* The parts that stay where they were, and may only have come forward.
<1>q. ASSUME Queued' = Queued, Taken' <= Taken, notices' \in Nat, notices' >= notices
      PROVE  Behind(Queued', Taken', notices')
  BY <1>q, <1>t, <1>l, <1>m, <1>b, BehindLess
<1>r. ASSUME Read' = Read, BeforeRead' <= BeforeRead, notices' = notices
      PROVE  Behind(Read', BeforeRead', notices')
  BY <1>r, <1>t, <1>l, <1>m, <1>b, BehindLess
<1>s. ASSUME Sent' = Sent, BeforeSent' <= BeforeSent, notices' = notices
      PROVE  Behind(Sent', BeforeSent', notices')
  BY <1>s, <1>t, <1>l, <1>m, <1>b, BehindLess
<1>i. ASSUME inbox' = inbox, BeforeInbox' <= BeforeInbox, notices' = notices
      PROVE  Behind(inbox', BeforeInbox', notices')
  BY <1>i, <1>t, <1>l, <1>m, <1>b, BehindLess
<1>u. returned' = returned => Taken' = Taken
  BY DEF Taken
<1>1. CASE UNCHANGED <<Queued, Read, Sent, inbox, requests, notices, returned>>
  <2>1. UNCHANGED <<Taken, BeforeRead, BeforeSent, BeforeInbox>>
    BY <1>1, <1>u, <1>d
  <2>2. notices' >= notices
    BY <1>1, <1>t
  <2> QED
    BY <1>1, <2>1, <1>b, <1>p
<1>2. CASE /\ Read' = <<>>
           /\ UNCHANGED <<Queued, Sent, inbox, requests, notices, returned>>
  <2>1. /\ Taken' = Taken /\ BeforeRead' = BeforeRead /\ BeforeSent' <= BeforeSent
        /\ BeforeInbox' <= BeforeInbox
        /\ BeforeInbox' + Len(inbox') <= requests' + notices'
    BY <1>2, <1>u, <1>d, <1>l, <1>m, <1>b, <1>z, <1>t
  <2> QED
    BY <1>2, <2>1, <1>b, <1>e, <1>s, <1>i, <1>p
<1>3. CASE /\ inbox' = <<>>
           /\ UNCHANGED <<Queued, Read, Sent, requests, notices, returned>>
  <2>1. /\ UNCHANGED <<Taken, BeforeRead, BeforeSent, BeforeInbox>>
        /\ BeforeInbox' + Len(inbox') <= requests' + notices'
    BY <1>3, <1>u, <1>d, <1>l, <1>m, <1>b, <1>z, <1>t
  <2> QED
    BY <1>3, <2>1, <1>b, <1>e, <1>p
<1>4. CASE /\ Sent' = <<>>
           /\ UNCHANGED <<Queued, Read, inbox, requests, notices, returned>>
  <2>1. /\ UNCHANGED <<Taken, BeforeRead, BeforeSent>> /\ BeforeInbox' <= BeforeInbox
        /\ BeforeInbox' + Len(inbox') <= requests' + notices'
    BY <1>4, <1>u, <1>d, <1>l, <1>m, <1>b, <1>z, <1>t
  <2> QED
    BY <1>4, <2>1, <1>b, <1>e, <1>i, <1>p
\* The server answers: the front of the inbox goes to the end of its pipe.
<1>5. CASE /\ inbox # <<>> /\ inbox' = Tail(inbox)
           /\ Sent' = Append(Sent, Head(inbox)) \/ Sent' = Append(Sent, 0)
           /\ UNCHANGED <<Queued, Read, requests, notices, returned>>
  <2>1. /\ Behind(Tail(inbox), BeforeInbox + 1, notices)
        /\ Head(inbox) # 0 => BeforeInbox + 1 <= Head(inbox) + notices
    BY <1>5, <1>t, <1>l, <1>b, BehindTail
  <2>2. /\ Head(inbox) \in Nat /\ Len(inbox') = Len(inbox) - 1
        /\ Len(Append(Sent, Head(inbox))) = Len(Sent) + 1
        /\ Len(Append(Sent, 0)) = Len(Sent) + 1
    BY <1>5, <1>t, HeadTailProperties, AppendProperties
  <2>3. /\ UNCHANGED <<Taken, BeforeRead, BeforeSent>>
        /\ BeforeInbox' = BeforeInbox + 1
        /\ BeforeInbox' + Len(inbox') <= requests' + notices'
    <3>1. Len(Sent') = Len(Sent) + 1
      BY <1>5, <2>2
    <3>2. /\ Taken' = Taken /\ Len(Queued') = Len(Queued) /\ Len(Read') = Len(Read)
          /\ requests' = requests /\ notices' = notices
      BY <1>5, <1>u
    <3> QED
      BY <2>2, <3>1, <3>2, <1>d, <1>l, <1>b, <1>t
  <2>4. /\ Behind(Append(Sent, Head(inbox)), BeforeSent, notices)
        /\ Behind(Append(Sent, 0), BeforeSent, notices)
    <3>1. Head(inbox) # 0 => BeforeSent + Len(Sent) + 1 <= Head(inbox) + notices
      BY <2>1, <1>d
    <3> QED
      BY <2>2, <3>1, <1>t, <1>l, <1>b, BehindAppend
  <2> QED
    BY <1>5, <2>1, <2>3, <2>4, <1>b, <1>p
\* A notice pushes what is in the inbox back by one, and counts one.
<1>6. CASE /\ Sent' = Append(Sent, 0)
           /\ notices' = notices + 1
           /\ UNCHANGED <<Queued, Read, inbox, requests, returned>>
  <2>1. Len(Sent') = Len(Sent) + 1
    BY <1>6, <1>t, AppendProperties
  <2>2. /\ UNCHANGED <<Taken, BeforeRead, BeforeSent>>
        /\ BeforeInbox' = BeforeInbox + 1
        /\ BeforeInbox' + Len(inbox') <= requests' + notices'
    BY <1>6, <2>1, <1>u, <1>d, <1>l, <1>m, <1>b, <1>t
  <2>3. /\ Behind(Queued, Taken, notices + 1) /\ Behind(Read, BeforeRead, notices + 1)
        /\ Behind(Sent, BeforeSent, notices + 1)
    BY <1>t, <1>l, <1>b, BehindLess
  <2>4. Behind(Append(Sent, 0), BeforeSent, notices + 1)
    BY <2>3, <1>t, <1>l, BehindAppend
  <2>5. Behind(inbox, BeforeInbox + 1, notices + 1)
    <3>1. \A i \in DOMAIN inbox : i \in Nat /\ inbox[i] \in Nat
      BY <1>t, ElementOfSeq, LenProperties
    <3>2. \A i \in DOMAIN inbox : inbox[i] # 0 => BeforeInbox + i <= inbox[i] + notices
      BY <1>b DEF Behind
    <3> QED
      BY <3>1, <3>2, <1>t, <1>l DEF Behind
  <2> QED
    BY <1>6, <2>2, <2>3, <2>4, <2>5, <1>p
<1>7. ASSUME Read = <<>>, NEW k \in 1 .. Len(Sent),
             Read' = SubSeq(Sent, 1, k), Sent' = SubSeq(Sent, k + 1, Len(Sent)),
             UNCHANGED <<Queued, inbox, requests, notices, returned>>
      PROVE  PlaceInv'
  <2>1. k \in Nat /\ k <= Len(Sent)
    BY <1>l
  <2>2. Len(Read') = k
    BY <1>7, <1>t, <1>l
  <2>3. Len(Sent') = Len(Sent) - k
    BY <1>7, <1>t, <1>l
  <2>4. /\ UNCHANGED <<Taken, BeforeRead, BeforeInbox>>
        /\ BeforeSent = BeforeRead /\ BeforeSent' = BeforeRead + k
        /\ BeforeInbox' + Len(inbox') <= requests' + notices'
    BY <1>7, <2>1, <2>2, <2>3, <1>u, <1>d, <1>l, <1>m, <1>b, <1>z, <1>t
  <2>5. /\ Behind(SubSeq(Sent, 1, k), BeforeSent, notices)
        /\ Behind(SubSeq(Sent, k + 1, Len(Sent)), BeforeSent + k, notices)
    BY <1>t, <1>l, <1>b, BehindSplit
  <2> QED
    BY <1>7, <2>4, <2>5, <1>b, <1>p
<1>8. CASE /\ Read # <<>> /\ Read' = Tail(Read)
           /\ Queued' = Queued \/ Queued' = Append(Queued, Head(Read))
           /\ UNCHANGED <<Sent, inbox, requests, notices, returned>>
  <2>1. /\ Behind(Tail(Read), BeforeRead + 1, notices)
        /\ Head(Read) # 0 => BeforeRead + 1 <= Head(Read) + notices
    BY <1>8, <1>t, <1>l, <1>b, BehindTail
  <2>2. /\ Head(Read) \in Nat /\ Len(Read') = Len(Read) - 1 /\ Tail(Read) \in Seq(Nat)
        /\ Len(Append(Queued, Head(Read))) = Len(Queued) + 1
    BY <1>8, <1>t, HeadTailProperties, AppendProperties
  <2>3. /\ Taken' = Taken /\ BeforeRead' <= BeforeRead + 1 /\ BeforeSent' <= BeforeSent
        /\ BeforeInbox' <= BeforeInbox
        /\ BeforeInbox' + Len(inbox') <= requests' + notices'
    <3>1. Len(Queued') <= Len(Queued) + 1
      BY <1>8, <1>l, <2>2
    <3>2. /\ Taken' = Taken /\ Len(Sent') = Len(Sent) /\ Len(inbox') = Len(inbox)
          /\ requests' = requests /\ notices' = notices
      BY <1>8, <1>u
    <3>3. BeforeRead' <= BeforeRead + 1
      BY <3>1, <3>2, <1>d, <1>l, <1>m
    <3>4. Len(Read') = Len(Read) - 1
      BY <2>2
    <3>5. BeforeSent' <= BeforeSent
      BY <3>3, <3>4, <1>d, <1>l, <1>m, SMTT(40)
    <3>6. BeforeInbox' <= BeforeInbox
      BY <3>2, <3>5, <1>d, <1>l, <1>m
    <3>7. BeforeInbox' + Len(inbox') <= requests' + notices'
      BY <3>2, <3>6, <1>l, <1>m, <1>c
    <3> QED
      BY <3>2, <3>3, <3>5, <3>6, <3>7
  <2>4. Behind(Append(Queued, Head(Read)), Taken, notices)
    <3>1. Head(Read) # 0 => Taken + Len(Queued) + 1 <= Head(Read) + notices
      BY <2>1, <1>d
    <3> QED
      BY <2>2, <3>1, <1>t, <1>l, <1>b, BehindAppend
  <2>5. Behind(Tail(Read), BeforeRead', notices)
    <3>1. BeforeRead + 1 \in Nat
      BY <1>l
    <3> QED
      BY <2>1, <2>2, <2>3, <3>1, <1>t, <1>m, BehindLess
  <2> QED
    BY <1>8, <2>3, <2>4, <2>5, <1>b, <1>s, <1>i, <1>p
<1>9. CASE /\ requests' = requests + 1
           /\ inbox' = Append(inbox, requests + 1)
           /\ UNCHANGED <<Queued, Read, Sent, notices, returned>>
  <2>1. requests + 1 \in Nat /\ Len(inbox') = Len(inbox) + 1
    BY <1>9, <1>t, AppendProperties
  <2>2. /\ UNCHANGED <<Taken, BeforeRead, BeforeSent, BeforeInbox>>
        /\ BeforeInbox' + Len(inbox') <= requests' + notices'
    BY <1>9, <2>1, <1>u, <1>d, <1>l, <1>m, <1>b, <1>t
  <2>3. BeforeInbox + Len(inbox) + 1 <= (requests + 1) + notices
    BY <1>b, <1>l, <1>t
  <2>4. Behind(Append(inbox, requests + 1), BeforeInbox, notices)
    BY <2>1, <2>3, <1>t, <1>l, <1>b, BehindAppend
  <2> QED
    BY <1>9, <2>2, <2>4, <1>b, <1>p
<1>10. ASSUME Queued # <<>>, Queued' = Tail(Queued), NEW new,
              returned' = returned \cup {new},
              UNCHANGED <<Read, Sent, inbox, requests, notices>>
       PROVE  PlaceInv'
  <2>1. Behind(Tail(Queued), Taken + 1, notices)
    BY <1>10, <1>t, <1>l, <1>b, BehindTail
  <2>2. Len(Queued') = Len(Queued) - 1 /\ Tail(Queued) \in Seq(Nat)
    BY <1>10, <1>t, HeadTailProperties
  <2>3. Taken' <= Taken + 1
    BY <1>10, <1>t, TakenOneMore
  <2>4. /\ BeforeRead' <= BeforeRead /\ BeforeSent' <= BeforeSent
        /\ BeforeInbox' <= BeforeInbox
        /\ BeforeInbox' + Len(inbox') <= requests' + notices'
    <3>1. /\ Len(Read') = Len(Read) /\ Len(Sent') = Len(Sent)
          /\ Len(inbox') = Len(inbox) /\ requests' = requests /\ notices' = notices
      BY <1>10
    <3>2. Len(Queued') = Len(Queued) - 1
      BY <2>2
    <3>3. BeforeRead' <= BeforeRead
      BY <2>3, <3>2, <1>d, <1>l, <1>m, SMTT(40)
    <3>4. BeforeSent' <= BeforeSent
      BY <3>1, <3>3, <1>d, <1>l, <1>m, SMTT(40)
    <3>5. BeforeInbox' <= BeforeInbox
      BY <3>1, <3>4, <1>d, <1>l, <1>m, SMTT(40)
    <3>6. BeforeInbox' + Len(inbox') <= requests' + notices'
      BY <3>1, <3>5, <1>l, <1>m, <1>c
    <3> QED
      BY <3>3, <3>4, <3>5, <3>6
  <2>5. Behind(Tail(Queued), Taken', notices)
    <3>1. Taken + 1 \in Nat
      BY <1>l
    <3> QED
      BY <2>1, <2>2, <2>3, <3>1, <1>t, <1>m, BehindLess
  <2> QED
    BY <1>10, <2>4, <2>5, <1>r, <1>s, <1>i, <1>p
<1> QED
  BY <1>1, <1>2, <1>3, <1>4, <1>5, <1>6, <1>7, <1>8, <1>9, <1>10, NumberShape

\* A bound that is a sum grows with its parts.
LEMMA BoundGrows ==
  ASSUME NEW d \in Int, NEW a \in Nat, NEW b \in Nat, NEW n \in Nat,
         NEW x \in Nat, NEW y \in Nat, a <= x, b <= y, d <= a + b + n - 1
  PROVE  d <= x + y + n - 1
OBVIOUS

LEMMA LagStep ==
  ASSUME TypeInv, PlaceInv, LagBounded, [Next]_vars
  PROVE  LagBounded'
<1> DEFINE n == Cardinality(Callers)
<1>1. /\ requests \in Nat /\ notices \in Nat /\ timeouts \in Nat /\ Taken \in Nat
      /\ Queued \in Seq(Nat)
      /\ \A r \in returned : r.asked \in Nat /\ r.got.id \in Nat
  <2>1. returned \subseteq [asked : 1 .. MaxRequests, got : Message] /\ MaxRequests \in Nat
    BY ConstantsOK DEF TypeInv, CallsOK, Constants
  <2> QED
    BY <2>1, NumbersTyped DEF Message
<1>2. n \in Nat /\ Cardinality(Waiters) \in Nat /\ Cardinality(Waiters) <= n
  BY WaitersFinite, ConstantsOK, FS_CardinalityType DEF Waiters, Constants
<1>3. \A c \in Waiters : waitsFor[c] \in Nat /\ waitsFor[c] <= n + timeouts + Taken
  BY <1>1, <1>2 DEF TypeInv, CountInv, Taken
<1> HIDE DEF n
<1>4. notices' \in {notices, notices + 1}
  BY NumberShape
<1>5. timeouts' \in {timeouts, timeouts + 1}
  BY CallShape
<1>6. \A r \in returned : r.got.id # 0 =>
         r.asked - r.got.id <= timeouts' + notices' + n - 1
  <2> TAKE r \in returned
  <2>1. r.got.id # 0 => r.asked - r.got.id <= timeouts + notices + n - 1
    BY DEF LagBounded, n
  <2>2. timeouts \in Nat /\ notices \in Nat /\ n \in Nat /\ r.asked - r.got.id \in Int
    BY <1>1, <1>2
  <2>3. timeouts <= timeouts' /\ timeouts' \in Nat
    BY <1>5, <2>2
  <2>4. notices <= notices' /\ notices' \in Nat
    BY <1>4, <2>2
  <2> QED
    BY <2>1, <2>2, <2>3, <2>4, BoundGrows
<1>7. CASE returned' = returned
  BY <1>6, <1>7 DEF LagBounded, n
<1>8. ASSUME Queued # <<>>, NEW c \in Waiters,
             NEW new \in [asked : {waitsFor[c]}, got : Message],
             new.got.id = Head(Queued), returned' = returned \cup {new}
      PROVE  LagBounded'
  <2>1. Head(Queued) \in Nat /\ (Head(Queued) # 0 => Taken + 1 <= Head(Queued) + notices)
    <3>1. Behind(Queued, Taken, notices)
      BY DEF PlaceInv
    <3> QED
      BY <1>1, <1>8, <3>1, BehindTail, HeadTailProperties
  <2>2. new.asked = waitsFor[c]
    BY <1>8
  <2>3. new.got.id # 0 => new.asked - new.got.id <= timeouts' + notices' + n - 1
    <3>1. waitsFor[c] \in Nat /\ waitsFor[c] <= n + timeouts + Taken
      BY <1>3
    <3>2. timeouts' >= timeouts /\ notices' >= notices /\ timeouts' \in Nat
          /\ notices' \in Nat
      BY <1>1, <1>4, <1>5
    <3>3. new.got.id \in Nat /\ (new.got.id # 0 => Taken + 1 <= new.got.id + notices)
      BY <1>8, <2>1
    <3>4. /\ timeouts \in Nat /\ notices \in Nat /\ Taken \in Nat
          /\ new.asked \in Nat /\ new.asked <= n + timeouts + Taken
      BY <1>1, <2>2, <3>1
    <3> HIDE DEF n
    <3> QED
      BY <1>2, <3>2, <3>3, <3>4
  <2> QED
    BY <1>6, <1>8, <2>3 DEF LagBounded, n
<1> QED
  BY <1>7, <1>8, NumberShape

\* What a call gets is behind what it asked by no more than the notifications
\* sent, the calls that timed out and the other callers (mcp_client.cpp,
\* receiveResponse takes the front of the queue whatever its id).
THEOREM LagsAreBounded == Spec => []LagBounded
<1>1. Init => LagBounded
  BY DEF Init, LagBounded
<1>2. TypeInv /\ PlaceInv /\ LagBounded /\ [Next]_vars /\ PlacesOK' =>
         PlaceInv' /\ LagBounded'
  BY PlaceStep, LagStep
<1> QED
  BY TypeSafe, PlacesTyped, PlaceInit, <1>1, <1>2, PTL DEF Spec

-----------------------------------------------------------------------------
(* No answer twice *)

\* The answers among the messages of a stream, and whether they stand in the
\* order of their requests.
Numbers(s) == {s[i] : i \in DOMAIN s} \ {0}
Rising(s) == \A i, j \in DOMAIN s : i < j /\ s[i] # 0 /\ s[j] # 0 => s[i] < s[j]

LEMMA NumbersEmpty == Numbers(<<>>) = {} /\ Rising(<<>>)
<1>1. DOMAIN <<>> = {}
  OBVIOUS
<1> QED
  BY <1>1 DEF Numbers, Rising

LEMMA NumbersTail ==
  ASSUME NEW s \in Seq(Nat), s # <<>>, Rising(s)
  PROVE  /\ Rising(Tail(s)) /\ Numbers(Tail(s)) \subseteq Numbers(s)
         /\ Head(s) \in Nat /\ (Head(s) # 0 => Head(s) \in Numbers(s))
         /\ Head(s) # 0 => \A n \in Numbers(Tail(s)) : Head(s) < n
<1>1. /\ Len(s) \in Nat \ {0} /\ DOMAIN s = 1 .. Len(s) /\ DOMAIN Tail(s) = 1 .. Len(s) - 1
      /\ \A i \in 1 .. Len(s) - 1 : Tail(s)[i] = s[i + 1] /\ i + 1 \in DOMAIN s
      /\ Head(s) = s[1] /\ 1 \in DOMAIN s
      /\ \A i \in DOMAIN s : s[i] \in Nat
  OBVIOUS
<1>2. Rising(Tail(s))
  <2> SUFFICES ASSUME NEW i \in DOMAIN Tail(s), NEW j \in DOMAIN Tail(s), i < j,
                      Tail(s)[i] # 0, Tail(s)[j] # 0
               PROVE  Tail(s)[i] < Tail(s)[j]
    BY DEF Rising
  <2>1. /\ Tail(s)[i] = s[i + 1] /\ Tail(s)[j] = s[j + 1] /\ i + 1 < j + 1
        /\ i + 1 \in DOMAIN s /\ j + 1 \in DOMAIN s
    BY <1>1
  <2> QED
    BY <2>1 DEF Rising
<1>3. ASSUME NEW i \in DOMAIN Tail(s), Tail(s)[i] # 0
      PROVE  Tail(s)[i] \in Numbers(s) /\ (Head(s) # 0 => Head(s) < Tail(s)[i])
  <2>1. Tail(s)[i] = s[i + 1] /\ i + 1 \in DOMAIN s /\ 1 < i + 1
    BY <1>1
  <2> QED
    BY <1>1, <1>3, <2>1 DEF Numbers, Rising
<1>4. Head(s) \in Nat /\ (Head(s) # 0 => Head(s) \in Numbers(s))
  BY <1>1 DEF Numbers
<1>5. \A n \in Numbers(Tail(s)) : n \in Numbers(s) /\ (Head(s) # 0 => Head(s) < n)
  BY <1>3 DEF Numbers
<1> QED
  BY <1>2, <1>4, <1>5

LEMMA NumbersAppend ==
  ASSUME NEW s \in Seq(Nat), NEW m \in Nat, Rising(s),
         m # 0 => \A n \in Numbers(s) : n < m
  PROVE  /\ Rising(Append(s, m))
         /\ Numbers(Append(s, m)) = Numbers(s) \cup ({m} \ {0})
<1>1. /\ Len(s) \in Nat /\ DOMAIN s = 1 .. Len(s) /\ DOMAIN Append(s, m) = 1 .. Len(s) + 1
      /\ \A i \in 1 .. Len(s) : Append(s, m)[i] = s[i]
      /\ Append(s, m)[Len(s) + 1] = m
      /\ \A i \in DOMAIN s : s[i] \in Nat
  OBVIOUS
<1>2. ASSUME NEW i \in DOMAIN Append(s, m)
      PROVE  i = Len(s) + 1 \/ (i \in DOMAIN s /\ Append(s, m)[i] = s[i])
  BY <1>1
<1>3. Rising(Append(s, m))
  <2> SUFFICES ASSUME NEW i \in DOMAIN Append(s, m), NEW j \in DOMAIN Append(s, m), i < j,
                      Append(s, m)[i] # 0, Append(s, m)[j] # 0
               PROVE  Append(s, m)[i] < Append(s, m)[j]
    BY DEF Rising
  <2>1. i \in DOMAIN s /\ Append(s, m)[i] = s[i]
    BY <1>1, <1>2
  <2>2. CASE j = Len(s) + 1
    <3>1. s[i] \in Numbers(s) /\ Append(s, m)[j] = m /\ m # 0
      BY <1>1, <2>1, <2>2 DEF Numbers
    <3> QED
      BY <2>1, <3>1
  <2>3. CASE j \in DOMAIN s /\ Append(s, m)[j] = s[j]
    BY <2>1, <2>3 DEF Rising
  <2> QED
    BY <1>2, <2>2, <2>3
<1>4. \A n : n \in Numbers(Append(s, m)) => n \in Numbers(s) \cup ({m} \ {0})
  BY <1>1, <1>2 DEF Numbers
<1>5. \A n : n \in Numbers(s) => n \in Numbers(Append(s, m))
  <2>1. \A i \in DOMAIN s : i \in DOMAIN Append(s, m) /\ Append(s, m)[i] = s[i]
    BY <1>1
  <2> QED
    BY <2>1 DEF Numbers
<1>6. m # 0 => m \in Numbers(Append(s, m))
  <2>1. Len(s) + 1 \in DOMAIN Append(s, m)
    BY <1>1
  <2> QED
    BY <1>1, <2>1 DEF Numbers
<1> QED
  BY <1>3, <1>4, <1>5, <1>6

LEMMA NumbersSplit ==
  ASSUME NEW s \in Seq(Nat), NEW k \in 1 .. Len(s), Rising(s)
  PROVE  /\ Rising(SubSeq(s, 1, k)) /\ Rising(SubSeq(s, k + 1, Len(s)))
         /\ Numbers(SubSeq(s, 1, k)) \subseteq Numbers(s)
         /\ Numbers(SubSeq(s, k + 1, Len(s))) \subseteq Numbers(s)
         /\ \A m \in Numbers(SubSeq(s, 1, k)), n \in Numbers(SubSeq(s, k + 1, Len(s))) : m < n
<1> DEFINE a == SubSeq(s, 1, k)
           b == SubSeq(s, k + 1, Len(s))
<1>1. /\ Len(s) \in Nat /\ DOMAIN s = 1 .. Len(s) /\ k \in Nat
      /\ DOMAIN a = 1 .. k
      /\ \A i \in 1 .. k : a[i] = s[i] /\ i \in DOMAIN s
      /\ \A i \in DOMAIN s : s[i] \in Nat
  OBVIOUS
<1>2. /\ DOMAIN b = 1 .. Len(s) - k
      /\ \A i \in 1 .. Len(s) - k : b[i] = s[k + i] /\ k + i \in DOMAIN s
  BY <1>1
<1> HIDE DEF a, b
<1>3. Rising(a) /\ Numbers(a) \subseteq Numbers(s)
  BY <1>1 DEF Rising, Numbers
<1>4. Rising(b)
  <2> SUFFICES ASSUME NEW i \in DOMAIN b, NEW j \in DOMAIN b, i < j, b[i] # 0, b[j] # 0
               PROVE  b[i] < b[j]
    BY DEF Rising
  <2>1. i \in 1 .. Len(s) - k /\ j \in 1 .. Len(s) - k
    BY <1>2
  <2>2. /\ b[i] = s[k + i] /\ b[j] = s[k + j]
        /\ k + i \in DOMAIN s /\ k + j \in DOMAIN s
    BY <1>2, <2>1
  <2>3. k + i < k + j
    BY <1>1, <2>1
  <2> QED
    BY <2>2, <2>3 DEF Rising
<1>5. Numbers(b) \subseteq Numbers(s)
  BY <1>2 DEF Numbers
<1>6. ASSUME NEW i \in DOMAIN a, NEW j \in DOMAIN b, a[i] # 0, b[j] # 0
      PROVE  a[i] < b[j]
  <2>1. /\ a[i] = s[i] /\ b[j] = s[k + j] /\ i < k + j
        /\ i \in DOMAIN s /\ k + j \in DOMAIN s
    BY <1>1, <1>2
  <2> QED
    BY <1>6, <2>1 DEF Rising
<1>7. \A m \in Numbers(a), n \in Numbers(b) : m < n
  BY <1>6 DEF Numbers
<1> QED
  BY <1>3, <1>4, <1>5, <1>7 DEF a, b

\* The answers that calls got.
Got == {r.got.id : r \in returned} \ {0}

\* Sets of numbers one after the other, none beyond the last request.
Before(A, B) == \A a \in A, b \in B : a < b

InOrder(G, Q, R, S, I, n) ==
    /\ Before(G, Q \cup R \cup S \cup I)
    /\ Before(Q, R \cup S \cup I)
    /\ Before(R, S \cup I)
    /\ Before(S, I)
    /\ \A a \in G \cup Q \cup R \cup S \cup I : a <= n

\* The answers on their way stand in the order of their requests, behind
\* those that calls got.
OrderInv ==
    /\ Rising(Queued) /\ Rising(Read) /\ Rising(Sent) /\ Rising(inbox)
    /\ InOrder(Got, Numbers(Queued), Numbers(Read), Numbers(Sent), Numbers(inbox), requests)

LEMMA OrderInit == Init => OrderInv /\ AnswersGivenOnce
<1> SUFFICES ASSUME Init PROVE OrderInv /\ AnswersGivenOnce
  OBVIOUS
<1>1. inbox = <<>> /\ outbox = <<>> /\ line = <<>> /\ queue = <<>> /\ returned = {}
  BY DEF Init
<1>2. Queued = <<>> /\ Read = <<>> /\ Sent = <<>>
  BY <1>1, IdsEmpty DEF Queued, Read, Sent
<1>3. Got = {}
  BY <1>1 DEF Got
<1>4. Numbers(<<>>) = {} /\ Rising(<<>>)
  BY NumbersEmpty
<1>5. OrderInv
  BY <1>1, <1>2, <1>3, <1>4 DEF OrderInv, InOrder, Before
<1>6. AnswersGivenOnce
  BY <1>1 DEF AnswersGivenOnce
<1> QED
  BY <1>5, <1>6

LEMMA InOrderLess ==
  ASSUME NEW G, NEW Q, NEW R, NEW S, NEW I, NEW n, InOrder(G, Q, R, S, I, n),
         NEW Q1, Q1 \subseteq Q, NEW R1, R1 \subseteq R,
         NEW S1, S1 \subseteq S, NEW I1, I1 \subseteq I
  PROVE  InOrder(G, Q1, R1, S1, I1, n)
BY DEF InOrder, Before

LEMMA OrderStep ==
  ASSUME TypeInv, OrderInv, [Next]_vars
  PROVE  OrderInv'
<1>t. /\ Queued \in Seq(Nat) /\ Read \in Seq(Nat) /\ Sent \in Seq(Nat)
      /\ inbox \in Seq(Nat) /\ requests \in Nat
  BY NumbersTyped
<1> DEFINE Q == Numbers(Queued)
           R == Numbers(Read)
           S == Numbers(Sent)
           I == Numbers(inbox)
<1>o. /\ Rising(Queued) /\ Rising(Read) /\ Rising(Sent) /\ Rising(inbox)
      /\ InOrder(Got, Q, R, S, I, requests)
  BY DEF OrderInv
<1>q. OrderInv' <=>
         /\ Rising(Queued') /\ Rising(Read') /\ Rising(Sent') /\ Rising(inbox')
         /\ InOrder(Got', Numbers(Queued'), Numbers(Read'), Numbers(Sent'),
                    Numbers(inbox'), requests')
  BY DEF OrderInv, InOrder, Before, Rising, Numbers
<1>g. returned' = returned => Got' = Got
  BY DEF Got
<1>e. Numbers(<<>>) = {} /\ Rising(<<>>)
  BY NumbersEmpty
<1>1. CASE UNCHANGED <<Queued, Read, Sent, inbox, requests, notices, returned>>
  BY <1>1, <1>g, <1>o, <1>q
<1>2. CASE /\ Read' = <<>>
           /\ UNCHANGED <<Queued, Sent, inbox, requests, notices, returned>>
  <2>1. InOrder(Got, Q, {}, S, I, requests)
    BY <1>o, InOrderLess
  <2> QED
    BY <1>2, <2>1, <1>g, <1>o, <1>q, <1>e
<1>3. CASE /\ inbox' = <<>>
           /\ UNCHANGED <<Queued, Read, Sent, requests, notices, returned>>
  <2>1. InOrder(Got, Q, R, S, {}, requests)
    BY <1>o, InOrderLess
  <2> QED
    BY <1>3, <2>1, <1>g, <1>o, <1>q, <1>e
<1>4. CASE /\ Sent' = <<>>
           /\ UNCHANGED <<Queued, Read, inbox, requests, notices, returned>>
  <2>1. InOrder(Got, Q, R, {}, I, requests)
    BY <1>o, InOrderLess
  <2> QED
    BY <1>4, <2>1, <1>g, <1>o, <1>q, <1>e
<1>5. CASE /\ inbox # <<>> /\ inbox' = Tail(inbox)
           /\ Sent' = Append(Sent, Head(inbox)) \/ Sent' = Append(Sent, 0)
           /\ UNCHANGED <<Queued, Read, requests, notices, returned>>
  <2> DEFINE h == Head(inbox)
             I1 == Numbers(Tail(inbox))
  <2>1. /\ Rising(Tail(inbox)) /\ I1 \subseteq I
        /\ h \in Nat /\ (h # 0 => h \in I)
        /\ h # 0 => \A n \in I1 : h < n
    BY <1>5, <1>t, <1>o, NumbersTail
  <2> HIDE DEF Q, R, S, I, h, I1
  <2>2. h # 0 => \A n \in S : n < h
    BY <1>o, <2>1 DEF InOrder, Before
  <2>3. /\ Rising(Append(Sent, h)) /\ Numbers(Append(Sent, h)) = S \cup ({h} \ {0})
        /\ Rising(Append(Sent, 0)) /\ Numbers(Append(Sent, 0)) = S
    <3>1. /\ Rising(Append(Sent, h)) /\ Numbers(Append(Sent, h)) = S \cup ({h} \ {0})
      BY <1>t, <1>o, <2>1, <2>2, NumbersAppend DEF S
    <3>2. /\ Rising(Append(Sent, 0)) /\ Numbers(Append(Sent, 0)) = S \cup ({0} \ {0})
      BY <1>t, <1>o, NumbersAppend DEF S
    <3> QED
      BY <3>1, <3>2
  <2>4. /\ InOrder(Got, Q, R, S \cup ({h} \ {0}), I1, requests)
        /\ InOrder(Got, Q, R, S, I1, requests)
    BY <1>o, <2>1, <2>2 DEF InOrder, Before
  <2>5. Sent' = Append(Sent, h) \/ Sent' = Append(Sent, 0)
    BY <1>5 DEF h
  <2>6. Rising(Sent') /\ InOrder(Got, Q, R, Numbers(Sent'), I1, requests)
    BY <2>3, <2>4, <2>5
  <2> QED
    BY <1>5, <2>1, <2>6, <1>g, <1>o, <1>q DEF Q, R, I1
<1>6. CASE /\ Sent' = Append(Sent, 0)
           /\ notices' = notices + 1
           /\ UNCHANGED <<Queued, Read, inbox, requests, returned>>
  <2>1. Rising(Append(Sent, 0)) /\ Numbers(Append(Sent, 0)) = S \cup ({0} \ {0})
    BY <1>t, <1>o, NumbersAppend
  <2>2. Rising(Append(Sent, 0)) /\ Numbers(Append(Sent, 0)) = S
    BY <2>1
  <2> QED
    BY <1>6, <2>2, <1>g, <1>o, <1>q
<1>7. ASSUME Read = <<>>, NEW k \in 1 .. Len(Sent),
             Read' = SubSeq(Sent, 1, k), Sent' = SubSeq(Sent, k + 1, Len(Sent)),
             UNCHANGED <<Queued, inbox, requests, notices, returned>>
      PROVE  OrderInv'
  <2> DEFINE A == Numbers(SubSeq(Sent, 1, k))
             B == Numbers(SubSeq(Sent, k + 1, Len(Sent)))
  <2>1. /\ Rising(SubSeq(Sent, 1, k)) /\ Rising(SubSeq(Sent, k + 1, Len(Sent)))
        /\ A \subseteq S /\ B \subseteq S /\ \A m \in A, n \in B : m < n
    BY <1>t, <1>o, NumbersSplit
  <2>2. InOrder(Got, Q, A, B, I, requests)
    <3> HIDE DEF Q, R, S, I, A, B
    <3> QED
      BY <1>o, <2>1 DEF InOrder, Before
  <2>3. /\ InOrder(Got', Numbers(Queued'), Numbers(Read'), Numbers(Sent'),
                   Numbers(inbox'), requests')
        /\ Rising(Read') /\ Rising(Sent') /\ Rising(Queued') /\ Rising(inbox')
    BY <1>7, <2>1, <2>2, <1>g, <1>o
  <2> QED
    BY <1>q, <2>3
<1>8. CASE /\ Read # <<>> /\ Read' = Tail(Read)
           /\ Queued' = Queued \/ Queued' = Append(Queued, Head(Read))
           /\ UNCHANGED <<Sent, inbox, requests, notices, returned>>
  <2> DEFINE h == Head(Read)
             R1 == Numbers(Tail(Read))
  <2>1. /\ Rising(Tail(Read)) /\ R1 \subseteq R
        /\ h \in Nat /\ (h # 0 => h \in R)
        /\ h # 0 => \A n \in R1 : h < n
    BY <1>8, <1>t, <1>o, NumbersTail
  <2> HIDE DEF Q, R, S, I, h, R1
  <2>2. h # 0 => \A n \in Q : n < h
    BY <1>o, <2>1 DEF InOrder, Before
  <2>3. Rising(Append(Queued, h)) /\ Numbers(Append(Queued, h)) = Q \cup ({h} \ {0})
    BY <1>t, <1>o, <2>1, <2>2, NumbersAppend DEF Q
  <2>4. /\ InOrder(Got, Q \cup ({h} \ {0}), R1, S, I, requests)
        /\ InOrder(Got, Q, R1, S, I, requests)
    BY <1>o, <2>1, <2>2 DEF InOrder, Before
  <2>5. Queued' = Queued \/ Queued' = Append(Queued, h)
    BY <1>8 DEF h
  <2>6. Rising(Queued') /\ InOrder(Got, Numbers(Queued'), R1, S, I, requests)
    BY <2>3, <2>4, <2>5, <1>o DEF Q
  <2> QED
    BY <1>8, <2>1, <2>6, <1>g, <1>o, <1>q DEF S, I, R1
<1>9. CASE /\ requests' = requests + 1
           /\ inbox' = Append(inbox, requests + 1)
           /\ UNCHANGED <<Queued, Read, Sent, notices, returned>>
  <2> HIDE DEF Q, R, S, I
  <2>1. \A n \in I : n < requests + 1
    <3>1. \A n \in I : n \in Nat
      BY <1>t, ElementOfSeq, LenProperties DEF I, Numbers
    <3> QED
      BY <1>t, <1>o, <3>1 DEF InOrder
  <2>2. /\ Rising(Append(inbox, requests + 1))
        /\ Numbers(Append(inbox, requests + 1)) = I \cup ({requests + 1} \ {0})
    <3>1. requests + 1 \in Nat
      BY <1>t
    <3> QED
      BY <1>t, <1>o, <2>1, <3>1, NumbersAppend DEF I
  <2>3. \A a \in Got \cup Q \cup R \cup S \cup I : a \in Nat
    <3>1. \A a \in Q \cup R \cup S \cup I : a \in Nat
      BY <1>t, ElementOfSeq, LenProperties DEF Q, R, S, I, Numbers
    <3>2. \A a \in Got : a \in Nat
      BY DEF TypeInv, CallsOK, Got, Message
    <3> QED
      BY <3>1, <3>2
  <2>4. InOrder(Got, Q, R, S, I \cup ({requests + 1} \ {0}), requests + 1)
    <3>1. \A a \in Got \cup Q \cup R \cup S \cup I : a < requests + 1 /\ a <= requests + 1
      BY <1>t, <1>o, <2>3 DEF InOrder
    <3> QED
      BY <1>t, <1>o, <3>1 DEF InOrder, Before
  <2> QED
    BY <1>9, <2>2, <2>4, <1>g, <1>o, <1>q DEF Q, R, S
<1>10. ASSUME Queued # <<>>, Queued' = Tail(Queued), NEW new, new.got.id = Head(Queued),
              returned' = returned \cup {new},
              UNCHANGED <<Read, Sent, inbox, requests, notices>>
       PROVE  OrderInv'
  <2> DEFINE h == Head(Queued)
             Q1 == Numbers(Tail(Queued))
  <2>1. /\ Rising(Tail(Queued)) /\ Q1 \subseteq Q
        /\ h \in Nat /\ (h # 0 => h \in Q)
        /\ h # 0 => \A n \in Q1 : h < n
    BY <1>10, <1>t, <1>o, NumbersTail
  <2>2. Got' = Got \cup ({h} \ {0})
    BY <1>10 DEF Got
  <2> HIDE DEF Q, R, S, I, h, Q1
  <2>3. InOrder(Got \cup ({h} \ {0}), Q1, R, S, I, requests)
    BY <1>o, <2>1 DEF InOrder, Before
  <2>4. /\ InOrder(Got', Numbers(Queued'), Numbers(Read'), Numbers(Sent'),
                   Numbers(inbox'), requests')
        /\ Rising(Read') /\ Rising(Sent') /\ Rising(Queued') /\ Rising(inbox')
    BY <1>10, <2>1, <2>2, <2>3, <1>o DEF Q1, R, S, I
  <2> QED
    BY <1>q, <2>4
<1> HIDE DEF Q, R, S, I
<1> QED
  BY <1>1, <1>2, <1>3, <1>4, <1>5, <1>6, <1>7, <1>8, <1>9, <1>10, NumberShape

LEMMA OnceStep ==
  ASSUME TypeInv, OrderInv, AnswersGivenOnce, [Next]_vars
  PROVE  AnswersGivenOnce'
<1>1. CASE returned' = returned
  BY <1>1 DEF AnswersGivenOnce
<1>2. ASSUME Queued # <<>>, NEW new, new.got.id = Head(Queued),
             returned' = returned \cup {new}
      PROVE  AnswersGivenOnce'
  <2>1. Queued \in Seq(Nat) /\ Rising(Queued) /\ Before(Got, Numbers(Queued))
    BY NumbersTyped DEF OrderInv, InOrder, Before
  <2>2. Head(Queued) # 0 => Head(Queued) \in Numbers(Queued) /\ Head(Queued) \in Nat
    BY <1>2, <2>1, NumbersTail
  <2>3. \A a \in Got : Head(Queued) # 0 => a # Head(Queued)
    BY <2>1, <2>2 DEF Before
  <2>4. \A r \in returned : r.got.id # 0 => r.got.id \in Got
    BY DEF Got
  <2>5. \A r \in returned : new.got.id # 0 => r.got.id # new.got.id
    BY <1>2, <2>3, <2>4
  <2> QED
    BY <1>2, <2>5 DEF AnswersGivenOnce
<1> QED
  BY <1>1, <1>2, NumberShape

\* No answer is handed to two calls, whatever callers, the reader and
\* reconnects interleave (mcp_client.cpp, receiveResponse pops the front of the
\* queue under its mutex).
THEOREM NoAnswerTwice == Spec => []AnswersGivenOnce
<1>1. TypeInv /\ OrderInv /\ AnswersGivenOnce /\ [Next]_vars =>
         OrderInv' /\ AnswersGivenOnce'
  BY OrderStep, OnceStep
<1> QED
  BY TypeSafe, OrderInit, <1>1, PTL DEF Spec
=============================================================================
