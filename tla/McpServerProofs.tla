--------------------------- MODULE McpServerProofs ---------------------------
(***************************************************************************)
(* The serving loop keeps its types and loses nothing: for any number of   *)
(* senders, requests and notifications, and with SIGINT at any point, the  *)
(* transport has written what was asked and queued, once and in order.     *)
(***************************************************************************)
EXTENDS McpServer, SequenceTheorems, TLAPS

Constants ==
    /\ "main" \notin Senders /\ "writer" \notin Senders
    /\ Interrupts \in BOOLEAN
    /\ MaxParserErrors \in Nat /\ MaxRequests \in Nat /\ MaxNotices \in Nat

LEMMA ConstantsOK == Constants
BY ServerAssumption DEF Constants

-----------------------------------------------------------------------------
(* Type correctness *)

\* Main's part of the invariant: Connect has returned once there were too
\* many errors.
MainOK ==
    /\ main \in {"read", "respond", "write", "stop", "reset", "unset",
                 "notify", "join", "done", "terminated"}
    /\ errors \in 0 .. MaxParserErrors + 1
    /\ main \in {"read", "respond", "write"} => errors <= MaxParserErrors
    /\ asked \in 0 .. MaxRequests

FlagsOK ==
    /\ isStopping \in BOOLEAN /\ transport \in BOOLEAN /\ running \in BOOLEAN
    /\ nullWrite \in BOOLEAN

MutexOK ==
    /\ mutex \in {"free", "main", "writer"}
    /\ mutex = "writer" <=> writer \in {"evaluate", "block", "take", "write"}
    /\ main = "write" => mutex = "main"

QueueOK ==
    /\ queue \in Seq(1 .. MaxNotices)
    /\ taken \in {<<>>} \cup {<<n>> : n \in 1 .. MaxNotices}
    /\ sender \in [Senders -> {"idle", "push", "notify"}]
    /\ queued \in 0 .. MaxNotices

TypeInv == MainOK /\ FlagsOK /\ MutexOK /\ QueueOK

LEMMA TypeInit == Init => TypeInv
<1> SUFFICES ASSUME Init PROVE TypeInv
  OBVIOUS
<1>1. <<>> \in Seq(1 .. MaxNotices)
  OBVIOUS
<1>2. MaxParserErrors \in Nat /\ MaxRequests \in Nat /\ MaxNotices \in Nat
  BY ConstantsOK DEF Constants
<1>3. MainOK
  BY <1>2 DEF Init, MainOK
<1>4. MutexOK
  BY DEF Init, MutexOK
<1>5. QueueOK
  BY <1>1, <1>2 DEF Init, QueueOK
<1>6. FlagsOK
  BY DEF Init, FlagsOK
<1> QED
  BY <1>3, <1>4, <1>5, <1>6 DEF TypeInv

LEMMA MainStep == MainOK /\ [Next]_vars => MainOK'
<1> SUFFICES ASSUME MainOK, [Next]_vars PROVE MainOK'
  OBVIOUS
<1> USE ConstantsOK DEF Constants, MainOK, mainVars
<1>1. CASE Connect
  BY <1>1 DEF Connect, ReadRequest, ReadNotification, ReadGarbage, ReadNothing
<1>2. CASE Respond
  BY <1>2 DEF Respond, LockResponse, WriteResponse
<1>3. CASE Interrupt
  BY <1>3 DEF Interrupt
<1>4. CASE Stop
  BY <1>4 DEF Stop, StopBegin, StopTransport, StopWriter, StopNotify, StopJoin
<1>5. CASE WriterLoop
  BY <1>5 DEF WriterLoop, WriterCheck, WriterLock, WriterEvaluate, WriterBlock,
              WriterTake, WriterTest, WriterRelock, WriterWrite, WriterGoes, Drop
<1>6. ASSUME NEW s \in Senders, Send(s) PROVE MainOK'
  BY <1>6 DEF Send, SendCheck, SendPush, SendNotify
<1>7. CASE UNCHANGED vars
  BY <1>7 DEF vars
<1>8. CASE RequestThrows
  BY <1>8 DEF RequestThrows
<1> QED
  BY <1>1, <1>2, <1>3, <1>4, <1>5, <1>6, <1>7, <1>8 DEF Next

LEMMA FlagsStep == FlagsOK /\ [Next]_vars => FlagsOK'
<1> SUFFICES ASSUME FlagsOK, [Next]_vars PROVE FlagsOK'
  OBVIOUS
<1>1. /\ isStopping' = isStopping \/ isStopping' = TRUE
      /\ transport' = transport \/ transport' = FALSE
      /\ running' = running \/ running' = FALSE
      /\ nullWrite' = nullWrite \/ nullWrite' = TRUE
  BY DEF Next, vars, mainVars, writerVars, senderVars,
         Connect, ReadRequest, ReadNotification, ReadGarbage, ReadNothing,
         RequestThrows, Respond, LockResponse, WriteResponse, Interrupt,
         Stop, StopBegin, StopTransport, StopWriter, StopNotify, StopJoin,
         Send, SendCheck, SendPush, SendNotify,
         WriterLoop, WriterCheck, WriterLock, WriterEvaluate, WriterBlock,
         WriterTake, WriterTest, WriterRelock, WriterWrite, WriterGoes, Drop
<1> QED
  BY <1>1 DEF FlagsOK

LEMMA MutexStep == MutexOK /\ [Next]_vars => MutexOK'
<1> SUFFICES ASSUME MutexOK, [Next]_vars PROVE MutexOK'
  OBVIOUS
<1> USE DEF MutexOK
<1>1. CASE Connect
  BY <1>1 DEF Connect, ReadRequest, ReadNotification, ReadGarbage, ReadNothing
<1>2. CASE Respond
  BY <1>2 DEF Respond, LockResponse, WriteResponse, Free
<1>3. CASE Interrupt
  BY <1>3 DEF Interrupt
<1>4. CASE Stop
  BY <1>4 DEF Stop, StopBegin, StopTransport, StopWriter, StopNotify, StopJoin, Woken
<1>5. CASE WriterLoop
  BY <1>5 DEF WriterLoop, WriterCheck, WriterLock, WriterEvaluate, WriterBlock, Free,
              WriterTake, WriterTest, WriterRelock, WriterWrite, WriterGoes, Drop
<1>6. ASSUME NEW s \in Senders, Send(s) PROVE MutexOK'
  BY <1>6 DEF Send, SendCheck, SendPush, SendNotify, Woken
<1>7. CASE UNCHANGED vars
  BY <1>7 DEF vars
<1>8. CASE RequestThrows
  BY <1>8 DEF RequestThrows
<1> QED
  BY <1>1, <1>2, <1>3, <1>4, <1>5, <1>6, <1>7, <1>8 DEF Next

LEMMA QueueStep == QueueOK /\ [Next]_vars => QueueOK'
<1> SUFFICES ASSUME QueueOK, [Next]_vars PROVE QueueOK'
  OBVIOUS
<1> USE ConstantsOK DEF Constants
<1>1. CASE UNCHANGED <<writerVars, senderVars>>
  BY <1>1 DEF QueueOK, writerVars, senderVars
<1>2. ASSUME NEW s \in Senders, SendPush(s) PROVE QueueOK'
  <2>1. queued + 1 \in 1 .. MaxNotices
    BY <1>2 DEF SendPush, QueueOK
  <2>2. queue' \in Seq(1 .. MaxNotices)
    BY <1>2, <2>1 DEF SendPush, QueueOK
  <2> QED
    BY <1>2, <2>1, <2>2 DEF SendPush, QueueOK
<1>3. ASSUME NEW s \in Senders, SendCheck(s) \/ SendNotify(s) PROVE QueueOK'
  BY <1>3 DEF SendCheck, SendNotify, QueueOK, writerVars
<1>4. CASE WriterTake
  <2>1. CASE UNCHANGED writerVars
    BY <1>4, <2>1 DEF WriterTake, WriterGoes, QueueOK, writerVars, senderVars
  <2>2. CASE /\ queue # <<>>
             /\ taken' = <<Head(queue)>>
             /\ queue' = Tail(queue)
             /\ UNCHANGED senderVars
    <3>1. Head(queue) \in 1 .. MaxNotices /\ Tail(queue) \in Seq(1 .. MaxNotices)
      BY <2>2, HeadTailProperties DEF QueueOK
    <3>2. taken' \in {<<n>> : n \in 1 .. MaxNotices}
      BY <2>2, <3>1
    <3> QED
      BY <2>2, <3>1, <3>2 DEF QueueOK, senderVars
  <2> QED
    BY <1>4, <2>1, <2>2 DEF WriterTake, WriterGoes, Popped
<1>5. CASE WriterTest \/ WriterRelock \/ WriterWrite
  <2>1. taken' \in {taken, <<>>} /\ UNCHANGED <<queue, sender, queued>>
    BY <1>5 DEF WriterTest, WriterRelock, WriterWrite, WriterGoes, Drop, writerVars,
                senderVars
  <2> QED
    BY <2>1 DEF QueueOK
<1>6. Connect \/ Respond \/ Interrupt \/ Stop \/ WriterCheck \/ WriterLock
        \/ WriterEvaluate \/ WriterBlock \/ UNCHANGED vars
      => UNCHANGED <<writerVars, senderVars>>
  BY DEF Connect, ReadRequest, ReadNotification, ReadGarbage, ReadNothing, Respond,
         LockResponse, WriteResponse, Interrupt, Stop, StopBegin, StopTransport,
         StopWriter, StopNotify, StopJoin, WriterCheck, WriterLock, WriterEvaluate,
         WriterBlock, WriterGoes, vars, writerVars, senderVars
<1>7. CASE RequestThrows
  BY <1>7 DEF RequestThrows, QueueOK
<1> QED
  BY <1>1, <1>2, <1>3, <1>4, <1>5, <1>6, <1>7 DEF Next, WriterLoop, Send

LEMMA TypeSafe == Spec => []TypeInv
<1>1. TypeInv /\ [Next]_vars => TypeInv'
  BY MainStep, FlagsStep, MutexStep, QueueStep DEF TypeInv
<1> QED
  BY TypeInit, <1>1, PTL DEF Spec

\* Every variable keeps its type, and the mutex belongs to the thread that is
\* at a step it takes under the mutex.
THEOREM TypeCorrect == Spec => []TypeOK
<1>1. TypeInv => TypeOK
  BY DEF TypeInv, TypeOK, MainOK, FlagsOK, MutexOK, QueueOK
<1> QED
  BY TypeSafe, <1>1, PTL

-----------------------------------------------------------------------------
(* What has been written *)

Outputs == {"response", "notice"} \X Nat

\* WrittenUpTo, for any output.
Written(s, kind, n) ==
    /\ {s[i][2] : i \in {j \in DOMAIN s : s[j][1] = kind}} = 1 .. n
    /\ \A i, j \in DOMAIN s :
          s[i][1] = kind /\ s[j][1] = kind /\ i < j => s[i][2] < s[j][2]

LEMMA WrittenIs == ASSUME NEW kind, NEW n PROVE WrittenUpTo(kind, n) <=> Written(out, kind, n)
BY DEF WrittenUpTo, Places, Written

\* The next message of a kind extends what was written of it.
LEMMA WriteNext ==
  ASSUME NEW s \in Seq(Outputs), NEW kind \in {"response", "notice"}, NEW n \in Nat,
         Written(s, kind, n)
  PROVE  Written(Append(s, <<kind, n + 1>>), kind, n + 1)
<1> DEFINE t == Append(s, <<kind, n + 1>>)
<1>1. /\ Len(s) \in Nat /\ DOMAIN s = 1 .. Len(s)
      /\ DOMAIN t = 1 .. Len(s) + 1
      /\ \A i \in 1 .. Len(s) : t[i] = s[i] /\ i \in DOMAIN t
      /\ t[Len(s) + 1] = <<kind, n + 1>> /\ Len(s) + 1 \in DOMAIN t
  <2>1. <<kind, n + 1>> \in Outputs
    BY DEF Outputs
  <2> QED
    BY <2>1, AppendProperties, LenProperties
<1>2. \A i \in DOMAIN s : s[i][2] \in Nat
  BY <1>1, ElementOfSeq DEF Outputs
<1> HIDE DEF t
<1>3. \A i \in DOMAIN s : s[i][1] = kind => s[i][2] \in 1 .. n
  BY DEF Written
<1>4. {t[i][2] : i \in {j \in DOMAIN t : t[j][1] = kind}} = 1 .. n + 1
  <2>1. ASSUME NEW i \in DOMAIN t, t[i][1] = kind PROVE t[i][2] \in 1 .. n + 1
    <3>1. CASE i = Len(s) + 1
      BY <1>1, <3>1
    <3>2. CASE i # Len(s) + 1
      <4>1. i \in DOMAIN s /\ t[i] = s[i]
        BY <1>1, <3>2
      <4>2. s[i][2] \in 1 .. n
        BY <1>3, <2>1, <4>1
      <4> QED
        BY <4>1, <4>2
    <3> QED
      BY <3>1, <3>2
  <2>2. ASSUME NEW m \in 1 .. n + 1
        PROVE  \E i \in DOMAIN t : t[i][1] = kind /\ t[i][2] = m
    <3>1. CASE m = n + 1
      BY <1>1, <3>1
    <3>2. CASE m # n + 1
      <4>1. m \in 1 .. n
        BY <3>2
      <4>2. PICK i \in DOMAIN s : s[i][1] = kind /\ s[i][2] = m
        BY <4>1 DEF Written
      <4> QED
        BY <1>1, <4>2
    <3> QED
      BY <3>1, <3>2
  <2> QED
    BY <2>1, <2>2
<1>5. ASSUME NEW i \in DOMAIN t, NEW j \in DOMAIN t,
             t[i][1] = kind, t[j][1] = kind, i < j
      PROVE  t[i][2] < t[j][2]
  <2>1. i \in DOMAIN s /\ t[i] = s[i]
    BY <1>1, <1>5
  <2>2. CASE j = Len(s) + 1
    <3>1. s[i][2] \in 1 .. n /\ t[j][2] = n + 1
      BY <1>1, <1>3, <1>5, <2>1, <2>2
    <3> QED
      BY <2>1, <3>1
  <2>3. CASE j # Len(s) + 1
    <3>1. j \in DOMAIN s /\ t[j] = s[j]
      BY <1>1, <2>3
    <3> QED
      BY <1>5, <2>1, <3>1 DEF Written
  <2> QED
    BY <2>2, <2>3
<1> QED
  BY <1>4, <1>5 DEF Written, t

\* A message of the other kind changes nothing.
LEMMA WriteOther ==
  ASSUME NEW s \in Seq(Outputs), NEW kind \in {"response", "notice"}, NEW n \in Nat,
         Written(s, kind, n), NEW m \in Outputs, m[1] # kind
  PROVE  Written(Append(s, m), kind, n)
<1> DEFINE t == Append(s, m)
<1>1. /\ Len(s) \in Nat /\ DOMAIN s = 1 .. Len(s)
      /\ DOMAIN t = 1 .. Len(s) + 1
      /\ \A i \in 1 .. Len(s) : t[i] = s[i] /\ i \in DOMAIN t
      /\ t[Len(s) + 1] = m
  BY AppendProperties, LenProperties
<1> HIDE DEF t
<1>2. \A i \in DOMAIN t : t[i][1] = kind => i \in DOMAIN s /\ t[i] = s[i]
  <2> TAKE i \in DOMAIN t
  <2>1. i \in 1 .. Len(s) \/ i = Len(s) + 1
    BY <1>1
  <2> QED
    BY <1>1, <2>1
<1>3. {t[i][2] : i \in {j \in DOMAIN t : t[j][1] = kind}}
        = {s[i][2] : i \in {j \in DOMAIN s : s[j][1] = kind}}
  <2>1. ASSUME NEW i \in DOMAIN s PROVE i \in DOMAIN t /\ t[i] = s[i]
    BY <1>1
  <2> QED
    BY <1>2, <2>1
<1> QED
  BY <1>2, <1>3 DEF Written, t

LEMMA NothingWritten == ASSUME NEW kind PROVE Written(<<>>, kind, 0)
BY DEF Written

LEMMA SequencesTyped ==
  ASSUME TypeInv
  PROVE  queue \in Seq(Nat) /\ taken \in Seq(Nat) /\ queued \in Nat /\ asked \in Nat
<1>1. MaxNotices \in Nat /\ MaxRequests \in Nat
  BY ConstantsOK DEF Constants
<1>2. queued \in Nat /\ asked \in Nat
  BY <1>1 DEF TypeInv, QueueOK, MainOK
<1>3. queue \in Seq(Nat)
  <2>1. queue \in Seq(1 .. MaxNotices)
    BY DEF TypeInv, QueueOK
  <2>2. 1 .. MaxNotices \subseteq Nat
    BY <1>1
  <2> QED
    BY <2>1, <2>2, SeqMonotonic
<1>4. taken \in Seq(Nat)
  <2>1. CASE taken = <<>>
    <3>1. <<>> \in Seq(Nat)
      OBVIOUS
    <3> QED
      BY <2>1, <3>1
  <2>2. ASSUME NEW n \in 1 .. MaxNotices, taken = <<n>> PROVE taken \in Seq(Nat)
    <3>1. n \in Nat
      BY <1>1
    <3>2. <<n>> \in Seq(Nat)
      BY <3>1
    <3> QED
      BY <2>2, <3>2
  <2>3. taken = <<>> \/ \E n \in 1 .. MaxNotices : taken = <<n>>
    <3>1. taken \in {<<>>} \cup {<<n>> : n \in 1 .. MaxNotices}
      BY DEF TypeInv, QueueOK
    <3> QED
      BY <3>1
  <2> QED
    BY <2>1, <2>2, <2>3
<1> QED
  BY <1>2, <1>3, <1>4

\* The writer holds a message exactly from taking it to writing or dropping it.
HeldInv ==
    /\ writer \in {"send", "relock", "write"} => Len(taken) = 1
    /\ writer \notin {"send", "relock", "write"} => taken = <<>>

\* Notifications that are neither in the queue nor in the writer's hands.
Sent == queued - Len(taken) - Len(queue)

NoticesInv ==
    transport =>
        /\ Sent \in Nat
        /\ Written(out, "notice", Sent)
        /\ \A i \in DOMAIN taken : taken[i] = Sent + i
        /\ \A i \in DOMAIN queue : queue[i] = Sent + Len(taken) + i

ResponsesInv ==
    /\ main = "read" => Written(out, "response", asked)
    /\ main \in {"respond", "write"} =>
          asked - 1 \in Nat /\ Written(out, "response", asked - 1)

ConserveInv == out \in Seq(Outputs) /\ HeldInv /\ NoticesInv /\ ResponsesInv

LEMMA ConserveInit == Init => ConserveInv
<1> SUFFICES ASSUME Init PROVE ConserveInv
  OBVIOUS
<1>1. out = <<>> /\ taken = <<>> /\ queue = <<>> /\ queued = 0 /\ asked = 0
      /\ main = "read" /\ writer = "check"
  BY DEF Init
<1>2. out \in Seq(Outputs)
  BY <1>1
<1>3. Len(taken) = 0 /\ Len(queue) = 0 /\ DOMAIN taken = {} /\ DOMAIN queue = {}
  BY <1>1
<1>4. Sent = 0
  <2>1. queued = 0
    BY <1>1
  <2> QED
    BY <1>3, <2>1 DEF Sent
<1>5. NoticesInv
  BY <1>1, <1>3, <1>4, NothingWritten DEF NoticesInv
<1>6. HeldInv /\ ResponsesInv
  BY <1>1, NothingWritten DEF HeldInv, ResponsesInv
<1> QED
  BY <1>2, <1>5, <1>6 DEF ConserveInv

LEMMA HeldStep == TypeInv /\ HeldInv /\ [Next]_vars => HeldInv'
<1> SUFFICES ASSUME TypeInv, HeldInv, [Next]_vars PROVE HeldInv'
  OBVIOUS
<1> USE DEF HeldInv
<1>1. CASE UNCHANGED <<writer, taken>>
  BY <1>1
<1>2. CASE writer' = Woken /\ UNCHANGED taken
  BY <1>2 DEF Woken
<1>3. CASE WriterCheck \/ WriterLock \/ WriterEvaluate \/ WriterBlock
  BY <1>3 DEF WriterCheck, WriterLock, WriterEvaluate, WriterBlock, WriterGoes, writerVars
<1>4. CASE WriterTake
  <2>1. CASE UNCHANGED writerVars /\ writer' = "ended"
    BY <1>4, <2>1 DEF WriterTake, writerVars
  <2>2. CASE taken' = <<Head(queue)>> /\ writer' = "send"
    <3>1. Len(<<Head(queue)>>) = 1
      OBVIOUS
    <3> QED
      BY <2>2, <3>1
  <2> QED
    BY <1>4, <2>1, <2>2 DEF WriterTake, WriterGoes
<1>5. CASE WriterTest \/ WriterRelock \/ WriterWrite
  BY <1>5 DEF WriterTest, WriterRelock, WriterWrite, WriterGoes, Drop, writerVars
<1>6. Connect \/ Respond \/ Interrupt \/ StopBegin \/ StopTransport \/ StopWriter
        \/ StopJoin \/ (\E s \in Senders : SendCheck(s) \/ SendPush(s)) \/ UNCHANGED vars
      => UNCHANGED <<writer, taken>>
  BY DEF Connect, ReadRequest, ReadNotification, ReadGarbage, ReadNothing, Respond,
         LockResponse, WriteResponse, Interrupt, StopBegin, StopTransport,
         StopWriter, StopJoin, SendCheck, SendPush, vars, writerVars
<1>7. StopNotify \/ (\E s \in Senders : SendNotify(s))
      => writer' = Woken /\ UNCHANGED taken
  BY DEF StopNotify, SendNotify, writerVars
<1>8. CASE RequestThrows
  BY <1>8 DEF RequestThrows
<1> QED
  BY <1>1, <1>2, <1>3, <1>4, <1>5, <1>6, <1>7, <1>8 DEF Next, WriterLoop, Send, Stop

\* What each step does to what is queued, held and written.
LEMMA OutputShape ==
  ASSUME TypeInv, [Next]_vars
  PROVE  /\ transport' => transport
         /\ \/ UNCHANGED <<queue, taken, queued, out>>
            \/ /\ main = "write"
               /\ out' = Append(out, <<"response", asked>>)
               /\ UNCHANGED <<queue, taken, queued>>
            \/ /\ queued' = queued + 1
               /\ queue' = Append(queue, queued + 1)
               /\ UNCHANGED <<taken, out>>
            \/ /\ writer = "take" /\ queue # <<>>
               /\ taken' = <<Head(queue)>> /\ queue' = Tail(queue)
               /\ UNCHANGED <<queued, out>>
            \/ /\ writer = "write" /\ taken' = <<>>
               /\ out' = Append(out, <<"notice", Head(taken)>>)
               /\ UNCHANGED <<queue, queued>>
            \/ ~transport' /\ UNCHANGED out
<1>1. CASE Connect \/ Interrupt \/ Stop \/ UNCHANGED vars
  BY <1>1 DEF Connect, ReadRequest, ReadNotification, ReadGarbage, ReadNothing,
         Interrupt, Stop, StopBegin, StopTransport, StopWriter, StopNotify, StopJoin,
         vars, mainVars, writerVars, senderVars
<1>2. CASE Respond
  BY <1>2 DEF Respond, LockResponse, WriteResponse, mainVars, writerVars, senderVars
<1>3. ASSUME NEW s \in Senders, Send(s)
      PROVE  /\ transport' => transport
             /\ \/ UNCHANGED <<queue, taken, queued, out>>
                \/ /\ queued' = queued + 1
                   /\ queue' = Append(queue, queued + 1)
                   /\ UNCHANGED <<taken, out>>
  BY <1>3 DEF Send, SendCheck, SendPush, SendNotify, mainVars, writerVars
<1>4. CASE WriterLoop
  <2>1. transport' = transport
    BY <1>4 DEF WriterLoop, WriterCheck, WriterLock, WriterEvaluate, WriterBlock,
         WriterTake, WriterTest, WriterRelock, WriterWrite, WriterGoes, Drop, mainVars
  <2>2. CASE WriterTake
    BY <2>1, <2>2 DEF WriterTake, WriterGoes, Popped, writerVars, senderVars
  <2>3. CASE WriterTest \/ WriterRelock
    BY <2>1, <2>3 DEF WriterTest, WriterRelock, WriterGoes, Drop, writerVars, senderVars
  <2>4. CASE WriterWrite
    BY <2>1, <2>4 DEF WriterWrite, WriterGoes, senderVars
  <2>5. CASE WriterCheck \/ WriterLock \/ WriterEvaluate \/ WriterBlock
    BY <2>1, <2>5 DEF WriterCheck, WriterLock, WriterEvaluate, WriterBlock, WriterGoes,
         writerVars, senderVars
  <2> QED
    BY <1>4, <2>2, <2>3, <2>4, <2>5 DEF WriterLoop
<1>5. CASE RequestThrows
  BY <1>5 DEF RequestThrows
<1> QED
  BY <1>1, <1>2, <1>3, <1>4, <1>5 DEF Next

LEMMA NoticesStep ==
  ASSUME TypeInv, ConserveInv, [Next]_vars
  PROVE  NoticesInv'
<1> SUFFICES ASSUME transport' PROVE NoticesInv'
  BY DEF NoticesInv
<1>1. /\ queue \in Seq(Nat) /\ taken \in Seq(Nat) /\ queued \in Nat
      /\ out \in Seq(Outputs) /\ asked \in Nat
  BY SequencesTyped DEF ConserveInv
<1>2. /\ transport
      /\ Sent \in Nat /\ Written(out, "notice", Sent)
      /\ \A i \in DOMAIN taken : taken[i] = Sent + i
      /\ \A i \in DOMAIN queue : queue[i] = Sent + Len(taken) + i
  BY OutputShape DEF ConserveInv, NoticesInv
<1>3. Sent = queued - Len(taken) - Len(queue) /\ Len(taken) \in Nat /\ Len(queue) \in Nat
  BY <1>1 DEF Sent
<1>4. CASE UNCHANGED <<queue, taken, queued, out>>
  <2>1. Sent' = Sent
    BY <1>4 DEF Sent
  <2> QED
    BY <1>2, <1>4, <2>1 DEF NoticesInv
<1>5. CASE /\ out' = Append(out, <<"response", asked>>)
           /\ UNCHANGED <<queue, taken, queued>>
  <2>1. Sent' = Sent
    BY <1>5 DEF Sent
  <2>2. <<"response", asked>> \in Outputs /\ <<"response", asked>>[1] # "notice"
    BY <1>1 DEF Outputs
  <2>3. Written(out', "notice", Sent)
    BY <1>1, <1>2, <1>5, <2>2, WriteOther
  <2> QED
    BY <1>2, <1>5, <2>1, <2>3 DEF NoticesInv
<1>6. CASE /\ queued' = queued + 1
           /\ queue' = Append(queue, queued + 1)
           /\ UNCHANGED <<taken, out>>
  <2>1. /\ Len(queue') = Len(queue) + 1 /\ DOMAIN queue' = 1 .. Len(queue) + 1
        /\ \A i \in 1 .. Len(queue) : queue'[i] = queue[i] /\ i \in DOMAIN queue
        /\ queue'[Len(queue) + 1] = queued + 1
    BY <1>1, <1>6
  <2>2. Sent' = Sent
    BY <1>1, <1>3, <1>6, <2>1 DEF Sent
  <2>3. ASSUME NEW i \in DOMAIN queue' PROVE queue'[i] = Sent + Len(taken) + i
    <3>1. CASE i = Len(queue) + 1
      BY <1>1, <1>3, <2>1, <3>1
    <3>2. CASE i # Len(queue) + 1
      BY <1>2, <1>3, <2>1, <3>2
    <3> QED
      BY <3>1, <3>2
  <2> QED
    BY <1>2, <1>6, <2>2, <2>3 DEF NoticesInv
<1>7. CASE /\ writer = "take" /\ queue # <<>>
           /\ taken' = <<Head(queue)>> /\ queue' = Tail(queue)
           /\ UNCHANGED <<queued, out>>
  <2>1. Len(taken) = 0
    BY <1>7 DEF ConserveInv, HeldInv
  <2>2. /\ Len(queue') = Len(queue) - 1 /\ DOMAIN queue' = 1 .. Len(queue) - 1
        /\ \A i \in 1 .. Len(queue) - 1 : queue'[i] = queue[i + 1] /\ i + 1 \in DOMAIN queue
        /\ Len(taken') = 1 /\ DOMAIN taken' = {1} /\ taken'[1] = queue[1]
        /\ 1 \in DOMAIN queue
    BY <1>1, <1>7
  <2>3. Sent' = Sent
    BY <1>1, <1>3, <1>7, <2>1, <2>2 DEF Sent
  <2>4. \A i \in DOMAIN taken' : taken'[i] = Sent + i
    BY <1>2, <1>3, <2>1, <2>2
  <2>5. ASSUME NEW i \in DOMAIN queue' PROVE queue'[i] = Sent + Len(taken') + i
    <3>1. queue'[i] = queue[i + 1] /\ i + 1 \in DOMAIN queue /\ i \in Nat
      BY <2>2
    <3>2. queue[i + 1] = Sent + Len(taken) + (i + 1)
      BY <1>2, <3>1
    <3> QED
      BY <1>2, <2>1, <2>2, <3>1, <3>2
  <2> QED
    BY <1>2, <1>7, <2>3, <2>4, <2>5 DEF NoticesInv
<1>8. CASE /\ writer = "write" /\ taken' = <<>>
           /\ out' = Append(out, <<"notice", Head(taken)>>)
           /\ UNCHANGED <<queue, queued>>
  <2>1. Len(taken) = 1 /\ 1 \in DOMAIN taken /\ Head(taken) = taken[1]
    BY <1>1, <1>8 DEF ConserveInv, HeldInv
  <2>2. Head(taken) = Sent + 1
    BY <1>2, <2>1
  <2>3. Len(taken') = 0 /\ DOMAIN taken' = {}
    BY <1>8
  <2>4. Sent' = Sent + 1
    BY <1>1, <1>3, <1>8, <2>1, <2>3 DEF Sent
  <2>5. Written(out', "notice", Sent + 1)
    BY <1>1, <1>2, <1>8, <2>2, WriteNext
  <2>6. \A i \in DOMAIN queue' : queue'[i] = (Sent + 1) + Len(taken') + i
    BY <1>1, <1>2, <1>3, <1>8, <2>1, <2>3
  <2> QED
    BY <1>2, <2>3, <2>4, <2>5, <2>6 DEF NoticesInv
<1> QED
  BY <1>2, <1>4, <1>5, <1>6, <1>7, <1>8, OutputShape

LEMMA ResponsesStep ==
  ASSUME TypeInv, ConserveInv, [Next]_vars
  PROVE  ResponsesInv' /\ out' \in Seq(Outputs)
<1>0. asked \in Nat /\ out \in Seq(Outputs) /\ ResponsesInv
  BY ConstantsOK DEF TypeInv, MainOK, ConserveInv, Constants
<1>1. CASE UNCHANGED out
  <2>1. CASE UNCHANGED <<main, asked>>
    BY <1>0, <1>1, <2>1 DEF ResponsesInv
  <2>2. CASE ReadRequest
    BY <1>0, <1>1, <2>2 DEF ReadRequest, ResponsesInv
  <2>3. CASE main' = "write" /\ main = "respond" /\ UNCHANGED asked
    BY <1>0, <1>1, <2>3 DEF ResponsesInv
  <2>4. CASE main' \notin {"read", "respond", "write"}
    BY <1>0, <1>1, <2>4 DEF ResponsesInv
  <2>5. \/ UNCHANGED <<main, asked>> \/ ReadRequest
        \/ main' = "write" /\ main = "respond" /\ UNCHANGED asked
        \/ main' \notin {"read", "respond", "write"} \/ WriteResponse
    BY DEF Next, vars, mainVars, writerVars, senderVars,
         Connect, ReadNotification, ReadGarbage, ReadNothing, RequestThrows, Respond, LockResponse,
         Interrupt, Stop, StopBegin, StopTransport, StopWriter, StopNotify, StopJoin,
         Send, SendCheck, SendPush, SendNotify,
         WriterLoop, WriterCheck, WriterLock, WriterEvaluate, WriterBlock,
         WriterTake, WriterTest, WriterRelock, WriterWrite, WriterGoes, Drop
  <2>6. ~WriteResponse
    <3>1. SUFFICES ASSUME WriteResponse PROVE FALSE
      OBVIOUS
    <3>2. <<"response", asked>> \in Outputs
      BY <1>0 DEF Outputs
    <3>3. Len(out') = Len(out) + 1 /\ Len(out) \in Nat
      BY <1>0, <3>1, <3>2, AppendProperties, LenProperties DEF WriteResponse
    <3> QED
      BY <1>1, <3>3
  <2> QED
    BY <2>1, <2>2, <2>3, <2>4, <2>5, <2>6
<1>2. CASE WriteResponse
  <2>1. /\ main = "write" /\ main' = "read" /\ asked' = asked
        /\ out' = Append(out, <<"response", (asked - 1) + 1>>)
    BY <1>0, <1>2 DEF WriteResponse, mainVars
  <2>2. asked - 1 \in Nat /\ Written(out, "response", asked - 1)
    BY <1>0, <2>1 DEF ResponsesInv
  <2>3. Written(out', "response", (asked - 1) + 1)
    BY <1>0, <2>1, <2>2, WriteNext
  <2>4. <<"response", (asked - 1) + 1>> \in Outputs
    BY <2>2 DEF Outputs
  <2>5. out' \in Seq(Outputs)
    BY <1>0, <2>1, <2>4, AppendProperties
  <2> QED
    BY <1>0, <2>1, <2>3, <2>5 DEF ResponsesInv
<1>3. CASE WriterWrite /\ transport
  <2>1. /\ out' = Append(out, <<"notice", Head(taken)>>) /\ UNCHANGED <<main, asked>>
        /\ writer = "write"
    BY <1>3 DEF WriterWrite, WriterGoes, mainVars
  <2>2. Head(taken) \in Nat
    <3>1. taken \in Seq(Nat)
      BY SequencesTyped
    <3>2. Len(taken) = 1
      BY <2>1 DEF ConserveInv, HeldInv
    <3>3. Head(taken) = taken[1] /\ 1 \in DOMAIN taken
      BY <3>1, <3>2
    <3> QED
      BY <3>1, <3>3
  <2>3. <<"notice", Head(taken)>> \in Outputs /\ <<"notice", Head(taken)>>[1] # "response"
    BY <2>2 DEF Outputs
  <2>4. out' \in Seq(Outputs)
    BY <1>0, <2>1, <2>3, AppendProperties
  <2>5. \A n \in Nat : Written(out, "response", n) => Written(out', "response", n)
    BY <1>0, <2>1, <2>3, WriteOther
  <2> QED
    BY <1>0, <2>1, <2>4, <2>5 DEF ResponsesInv
<1>4. UNCHANGED out \/ WriteResponse \/ (WriterWrite /\ transport)
  BY DEF Next, vars, mainVars, writerVars, senderVars,
         Connect, ReadRequest, ReadNotification, ReadGarbage, ReadNothing, RequestThrows,
         Respond, LockResponse, Interrupt, Stop, StopBegin, StopTransport, StopWriter,
         StopNotify, StopJoin, Send, SendCheck, SendPush, SendNotify,
         WriterLoop, WriterCheck, WriterLock, WriterEvaluate, WriterBlock,
         WriterTake, WriterTest, WriterRelock, WriterWrite, WriterGoes, Drop
<1> QED
  BY <1>0, <1>1, <1>2, <1>3, <1>4

\* As long as the transport is there, every notification queued has been
\* written, is being written or is in the queue, once and in the order of
\* queueing, and every request but the one in hand has its one response, in
\* the order of the requests, whatever the threads interleave.
THEOREM Conserved == Spec => []OutputConserved
<1>1. TypeInv /\ ConserveInv /\ [Next]_vars => ConserveInv'
  BY HeldStep, NoticesStep, ResponsesStep DEF ConserveInv
<1>2. TypeInv /\ ConserveInv => OutputConserved
  <2> SUFFICES ASSUME TypeInv, ConserveInv PROVE OutputConserved
    OBVIOUS
  <2>1. main = "read" => WrittenUpTo("response", asked)
    BY WrittenIs DEF ConserveInv, ResponsesInv
  <2>2. ASSUME transport
        PROVE  LET waiting == taken \o queue
                   written == queued - Len(waiting)
               IN  /\ WrittenUpTo("notice", written)
                   /\ \A i \in DOMAIN waiting : waiting[i] = written + i
    <3> DEFINE waiting == taken \o queue
    <3>1. queue \in Seq(Nat) /\ taken \in Seq(Nat) /\ queued \in Nat
      BY SequencesTyped
    <3>2. /\ Len(waiting) = Len(taken) + Len(queue)
          /\ DOMAIN waiting = 1 .. Len(taken) + Len(queue)
          /\ \A i \in DOMAIN waiting :
                waiting[i] = IF i <= Len(taken) THEN taken[i] ELSE queue[i - Len(taken)]
          /\ Len(taken) \in Nat /\ Len(queue) \in Nat
          /\ DOMAIN taken = 1 .. Len(taken) /\ DOMAIN queue = 1 .. Len(queue)
      BY <3>1
    <3> HIDE DEF waiting
    <3>3. queued - Len(waiting) = Sent
      BY <3>1, <3>2 DEF Sent
    <3>4. /\ Sent \in Nat /\ Written(out, "notice", Sent)
          /\ \A i \in DOMAIN taken : taken[i] = Sent + i
          /\ \A i \in DOMAIN queue : queue[i] = Sent + Len(taken) + i
      BY <2>2 DEF ConserveInv, NoticesInv
    <3>5. ASSUME NEW i \in DOMAIN waiting PROVE waiting[i] = Sent + i
      <4>1. CASE i <= Len(taken)
        BY <3>2, <3>4, <4>1
      <4>2. CASE i > Len(taken)
        <5>1. i - Len(taken) \in DOMAIN queue /\ waiting[i] = queue[i - Len(taken)]
          BY <3>2, <4>2
        <5>2. queue[i - Len(taken)] = Sent + Len(taken) + (i - Len(taken))
          BY <3>4, <5>1
        <5> QED
          BY <3>2, <3>4, <5>1, <5>2
      <4> QED
        BY <3>2, <4>1, <4>2
    <3> QED
      BY <3>3, <3>4, <3>5, WrittenIs DEF waiting
  <2> QED
    BY <2>1, <2>2 DEF OutputConserved
<1> QED
  BY ConserveInit, <1>1, <1>2, TypeSafe, PTL DEF Spec
=============================================================================
