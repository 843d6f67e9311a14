------------------------- MODULE SseTransportProofs -------------------------
(***************************************************************************)
(* Proofs about SseTransport for any number of clients, of workers and of  *)
(* messages: a client receives its messages in the order in which they     *)
(* were said, and nobody receives a message that somebody else received.   *)
(***************************************************************************)
EXTENDS SseTransport, FiniteSetTheorems, TLAPS

\* The messages that have left the queue are those up to this one.
Gone == said - Len(outgoing)

\* The queue holds the messages said last, in order.
QueueInv ==
    /\ said \in Nat
    /\ outgoing \in Seq(Nat)
    /\ Len(outgoing) <= said
    /\ \A i \in 1 .. Len(outgoing) : outgoing[i] = Gone + i

\* Each client has one stream at most, and what runs no stream has no client.
StreamInv ==
    /\ worker \in [Workers -> {"free", "post", "begin", "loop", "provide", "wait",
                               "deliver", "terminate", "disconnect"}]
    /\ serving \in [Workers -> Clients \cup {Nobody}]
    /\ \A w \in Workers :
          worker[w] \notin {"free", "post"} => serving[w] \in Clients
    /\ \A w \in Workers : serving[w] # Nobody => serving[w] \in arrived
    /\ \A w, v \in Workers : serving[w] = serving[v] => w = v \/ serving[w] = Nobody

Delivers(w) == worker[w] = "deliver"

\* The message in the hands of a stream.
InHand(w) == Head(popped[w])

\* Streams hold different messages, none of which has been received.
HandInv ==
    /\ popped \in [Workers -> Seq(Nat)]
    /\ \A w \in Workers : Delivers(w) =>
          /\ InHand(w) \in Nat
          /\ InHand(w) <= Gone
          /\ \A i \in DOMAIN delivered : delivered[i][2] # InHand(w)
    /\ \A w, v \in Workers :
          Delivers(w) /\ Delivers(v) /\ InHand(w) = InHand(v) => w = v

\* What is in hand for a client is later than what that client has.
ReceivedInv ==
    /\ delivered \in Seq(Clients \X Nat)
    /\ \A i \in DOMAIN delivered : delivered[i][2] <= Gone
    /\ \A w \in Workers, i \in DOMAIN delivered :
          Delivers(w) /\ delivered[i][1] = serving[w]
            => delivered[i][2] < InHand(w)
    /\ ClientInOrder

\* No message is received twice, by one client or by two.
ReceivedOnce ==
    \A i, j \in DOMAIN delivered : delivered[i][2] = delivered[j][2] => i = j

OrderInv == QueueInv /\ StreamInv /\ HandInv /\ ReceivedInv /\ ReceivedOnce

-----------------------------------------------------------------------------
LEMMA OrderInit == Init => OrderInv
<1> SUFFICES ASSUME Init PROVE OrderInv
  OBVIOUS
<1> USE TransportAssumption DEF Init
<1>1. QueueInv
  BY DEF QueueInv, Gone
<1>2. StreamInv
  BY DEF StreamInv
<1>3. HandInv
  BY DEF HandInv, Delivers
<1>4. ReceivedInv /\ ReceivedOnce
  BY DEF ReceivedInv, ReceivedOnce, ClientInOrder
<1> QED
  BY <1>1, <1>2, <1>3, <1>4 DEF OrderInv

\* Steps that leave queue, streams and clients alone.
LEMMA OrderFrame ==
  ASSUME OrderInv,
         UNCHANGED <<said, outgoing, worker, serving, popped, arrived, delivered>>
  PROVE  OrderInv'
BY DEF OrderInv, QueueInv, StreamInv, HandInv, ReceivedInv, ReceivedOnce,
       ClientInOrder, Gone, Delivers, InHand

\* Steps that move a worker that holds no message and is to hold none.
LEMMA OrderMove ==
  ASSUME OrderInv, NEW w \in Workers, NEW place, Goes(w, place),
         place \in {"begin", "loop", "provide", "wait", "terminate", "disconnect"},
         worker[w] \notin {"free", "post"},
         UNCHANGED <<said, outgoing, serving, popped, arrived, delivered>>
  PROVE  OrderInv'
<1>1. \A v \in Workers : Delivers(v)' => Delivers(v)
  BY DEF Delivers, Goes, OrderInv, StreamInv
<1>2. StreamInv'
  BY DEF OrderInv, StreamInv, Goes
<1>3. QueueInv'
  BY DEF OrderInv, QueueInv, Gone
<1>4. HandInv' /\ ReceivedInv' /\ ReceivedOnce'
  BY <1>1 DEF OrderInv, HandInv, ReceivedInv, ReceivedOnce, ClientInOrder, Gone,
              InHand
<1> QED
  BY <1>2, <1>3, <1>4 DEF OrderInv

\* A worker that takes or ends a POST, or ends a stream.
LEMMA OrderFree ==
  ASSUME OrderInv, NEW w \in Workers, NEW place, Goes(w, place),
         place \in {"free", "post"},
         serving' \in {serving, [serving EXCEPT ![w] = Nobody]},
         UNCHANGED <<said, outgoing, popped, arrived, delivered>>
  PROVE  OrderInv'
<1>1. \A v \in Workers : Delivers(v)' => Delivers(v) /\ serving'[v] = serving[v]
  BY DEF Delivers, Goes, OrderInv, StreamInv
<1>2. StreamInv'
  BY DEF OrderInv, StreamInv, Goes
<1>3. QueueInv'
  BY DEF OrderInv, QueueInv, Gone
<1>4. HandInv' /\ ReceivedInv' /\ ReceivedOnce'
  BY <1>1 DEF OrderInv, HandInv, ReceivedInv, ReceivedOnce, ClientInOrder, Gone,
              InHand
<1> QED
  BY <1>2, <1>3, <1>4 DEF OrderInv

\* A message is said.
LEMMA OrderQueue ==
  ASSUME OrderInv, QueueOutgoing
  PROVE  OrderInv'
<1>1. /\ said' = said + 1 /\ outgoing' = Append(outgoing, said + 1)
      /\ UNCHANGED <<worker, serving, popped, arrived, delivered>>
  BY DEF QueueOutgoing, Pushed, workerVars, clientVars
<1>2. said \in Nat /\ outgoing \in Seq(Nat)
  BY DEF OrderInv, QueueInv
<1>3. Gone' = Gone
  BY <1>1, <1>2 DEF Gone
<1>4. QueueInv'
  BY <1>1, <1>2, <1>3 DEF OrderInv, QueueInv, Gone
<1> QED
  BY <1>1, <1>3, <1>4 DEF OrderInv, StreamInv, HandInv, ReceivedInv,
     ReceivedOnce, ClientInOrder, Delivers, InHand

\* A stream takes the next message: it is later than all that left the queue.
LEMMA OrderTake ==
  ASSUME OrderInv, NEW w \in Workers, worker[w] = "wait", outgoing # <<>>,
         popped' = [popped EXCEPT ![w] = <<Head(outgoing)>>],
         outgoing' = Tail(outgoing), Goes(w, "deliver"),
         UNCHANGED <<said, serving, arrived, delivered>>
  PROVE  OrderInv'
<1>1. /\ said \in Nat /\ outgoing \in Seq(Nat) /\ Len(outgoing) \in Nat \ {0}
      /\ Len(outgoing) <= said
  BY DEF OrderInv, QueueInv
<1>2. Gone' = Gone + 1 /\ Gone \in Nat
  BY <1>1 DEF Gone
<1>3. Head(outgoing) = Gone + 1
  <2>1. Head(outgoing) = outgoing[1] /\ 1 \in 1 .. Len(outgoing)
    BY <1>1
  <2> QED
    BY <2>1 DEF OrderInv, QueueInv
<1>4. QueueInv'
  <2>1. /\ outgoing' \in Seq(Nat) /\ Len(outgoing') = Len(outgoing) - 1
        /\ \A i \in 1 .. Len(outgoing') : outgoing'[i] = outgoing[i + 1]
    BY <1>1
  <2>2. \A i \in 1 .. Len(outgoing') : i + 1 \in 1 .. Len(outgoing)
    BY <1>1, <2>1
  <2>3. \A i \in 1 .. Len(outgoing') : outgoing'[i] = Gone' + i
    BY <1>2, <2>1, <2>2 DEF OrderInv, QueueInv
  <2> QED
    BY <1>1, <2>1, <2>3 DEF QueueInv
<1>5. StreamInv'
  BY DEF OrderInv, StreamInv, Goes
<1>6. popped' \in [Workers -> Seq(Nat)] /\ InHand(w)' = Gone + 1
  BY <1>2, <1>3 DEF OrderInv, HandInv, InHand
<1>7. \A v \in Workers \ {w} :
         (Delivers(v)' <=> Delivers(v)) /\ InHand(v)' = InHand(v)
  BY DEF OrderInv, StreamInv, HandInv, Goes, Delivers, InHand
<1>8. \A i \in DOMAIN delivered :
         /\ delivered[i] \in Clients \X Nat
         /\ delivered[i][2] \in Nat /\ delivered[i][2] <= Gone
  BY DEF OrderInv, ReceivedInv
<1>9. HandInv'
  <2>1. \A v \in Workers : Delivers(v)' =>
           InHand(v)' \in Nat /\ InHand(v)' <= Gone'
              /\ \A i \in DOMAIN delivered' : delivered'[i][2] # InHand(v)'
    <3>1. SUFFICES ASSUME NEW v \in Workers, Delivers(v)'
                   PROVE  /\ InHand(v)' \in Nat /\ InHand(v)' <= Gone'
                          /\ \A i \in DOMAIN delivered : delivered[i][2] # InHand(v)'
      OBVIOUS
    <3>2. CASE v = w
      BY <1>2, <1>6, <1>8, <3>2
    <3>3. CASE v # w
      BY <1>2, <1>7, <3>1, <3>3 DEF OrderInv, HandInv
    <3> QED
      BY <3>2, <3>3
  <2>2. \A v \in Workers \ {w} : Delivers(v)' => InHand(v)' # InHand(w)'
    BY <1>2, <1>6, <1>7 DEF OrderInv, HandInv
  <2>3. ASSUME NEW u \in Workers, NEW v \in Workers, Delivers(u)', Delivers(v)',
               InHand(u)' = InHand(v)'
        PROVE  u = v
    BY <1>7, <2>2, <2>3 DEF OrderInv, HandInv
  <2> QED
    BY <1>6, <2>1, <2>3 DEF HandInv
<1>10. ReceivedInv'
  <2>1. ASSUME NEW v \in Workers, NEW i \in DOMAIN delivered,
               Delivers(v)', delivered[i][1] = serving[v]
        PROVE  delivered[i][2] < InHand(v)'
    <3>1. CASE v = w
      BY <1>2, <1>6, <1>8, <3>1
    <3>2. CASE v # w
      BY <1>7, <2>1, <3>2 DEF OrderInv, ReceivedInv
    <3> QED
      BY <3>1, <3>2
  <2>2. \A i \in DOMAIN delivered : delivered[i][2] <= Gone'
    BY <1>2, <1>8
  <2> QED
    BY <2>1, <2>2 DEF OrderInv, ReceivedInv, ClientInOrder
<1>11. ReceivedOnce'
  BY DEF OrderInv, ReceivedOnce
<1> QED
  BY <1>4, <1>5, <1>9, <1>10, <1>11 DEF OrderInv

\* A client receives the message its stream holds.
LEMMA OrderDeliver ==
  ASSUME OrderInv, NEW w \in Workers, Delivers(w),
         delivered' = Append(delivered, <<serving[w], InHand(w)>>),
         popped' = [popped EXCEPT ![w] = <<>>], Goes(w, "loop"),
         UNCHANGED <<said, outgoing, serving, arrived>>
  PROVE  OrderInv'
<1>1. QueueInv' /\ StreamInv' /\ Gone' = Gone
  <2>1. QueueInv' /\ Gone' = Gone
    BY DEF OrderInv, QueueInv, Gone
  <2>2. StreamInv'
    BY DEF OrderInv, StreamInv, Goes, Delivers
  <2> QED
    BY <2>1, <2>2
<1>2. /\ serving[w] \in Clients /\ InHand(w) \in Nat /\ InHand(w) <= Gone
      /\ delivered \in Seq(Clients \X Nat)
  BY DEF OrderInv, StreamInv, HandInv, ReceivedInv, Delivers
<1>3. /\ delivered' \in Seq(Clients \X Nat)
      /\ DOMAIN delivered' = DOMAIN delivered \cup {Len(delivered) + 1}
      /\ Len(delivered') = Len(delivered) + 1
      /\ \A i \in DOMAIN delivered : delivered'[i] = delivered[i]
      /\ delivered'[Len(delivered) + 1] = <<serving[w], InHand(w)>>
  BY <1>2
<1>4. \A v \in Workers : Delivers(v)' =>
         /\ v # w /\ Delivers(v) /\ InHand(v)' = InHand(v)
         /\ serving[v] # serving[w]
  BY TransportAssumption, <1>2
  DEF OrderInv, StreamInv, HandInv, Goes, Delivers, InHand
<1>5. HandInv'
  <2>1. popped' \in [Workers -> Seq(Nat)]
    BY DEF OrderInv, HandInv
  <2>2. ASSUME NEW v \in Workers, Delivers(v)', NEW i \in DOMAIN delivered'
        PROVE  delivered'[i][2] # InHand(v)'
    <3>1. InHand(v) # InHand(w)
      BY <1>4, <2>2 DEF OrderInv, HandInv
    <3> QED
      BY <1>3, <1>4, <2>2, <3>1 DEF OrderInv, HandInv
  <2> QED
    BY <1>1, <1>4, <2>1, <2>2 DEF OrderInv, HandInv
<1>6. ReceivedInv'
  <2>1. \A i \in DOMAIN delivered' : delivered'[i][2] <= Gone'
    BY <1>1, <1>2, <1>3 DEF OrderInv, ReceivedInv
  <2>2. \A v \in Workers, i \in DOMAIN delivered' :
           Delivers(v)' /\ delivered'[i][1] = serving'[v]
             => delivered'[i][2] < InHand(v)'
    BY <1>3, <1>4 DEF OrderInv, ReceivedInv
  <2>3. ClientInOrder'
    <3>1. ASSUME NEW i \in 1 .. Len(delivered'), NEW j \in 1 .. Len(delivered'),
                 i < j, delivered'[i][1] = delivered'[j][1]
          PROVE  delivered'[i][2] < delivered'[j][2]
      <4>1. i \in 1 .. Len(delivered) /\ i \in DOMAIN delivered
        BY <1>2, <1>3, <3>1
      <4>2. CASE j = Len(delivered) + 1
        BY <1>3, <3>1, <4>1, <4>2 DEF OrderInv, ReceivedInv
      <4>3. CASE j \in 1 .. Len(delivered)
        BY <1>2, <1>3, <3>1, <4>1, <4>3 DEF OrderInv, ReceivedInv, ClientInOrder
      <4> QED
        BY <1>2, <1>3, <4>2, <4>3
    <3> QED
      BY <3>1 DEF ClientInOrder
  <2> QED
    BY <1>3, <2>1, <2>2, <2>3 DEF ReceivedInv
<1>7. ReceivedOnce'
  BY <1>3 DEF OrderInv, HandInv, ReceivedOnce
<1> QED
  BY <1>1, <1>5, <1>6, <1>7 DEF OrderInv

\* A client that has not been served before gets a stream.
LEMMA OrderBegin ==
  ASSUME OrderInv, NEW w \in Workers, NEW c \in Clients, StreamBegin(w, c)
  PROVE  OrderInv'
<1>1. /\ worker[w] = "free" /\ c \notin arrived /\ arrived' = arrived \cup {c}
      /\ Goes(w, "begin") /\ serving' = [serving EXCEPT ![w] = c]
      /\ UNCHANGED <<said, outgoing, popped, delivered>>
  BY DEF StreamBegin, queueVars
<1>2. \A v \in Workers : Delivers(v)' => Delivers(v) /\ serving'[v] = serving[v]
  BY <1>1 DEF Delivers, Goes, OrderInv, StreamInv
<1>3. StreamInv'
  BY <1>1 DEF OrderInv, StreamInv, Goes
<1>4. QueueInv'
  BY <1>1 DEF OrderInv, QueueInv, Gone
<1>5. HandInv' /\ ReceivedInv' /\ ReceivedOnce'
  BY <1>1, <1>2
  DEF OrderInv, HandInv, ReceivedInv, ReceivedOnce, ClientInOrder, Gone, InHand
<1> QED
  BY <1>3, <1>4, <1>5 DEF OrderInv

\* What a stream holds is lost with a client that hung up.
LEMMA OrderLost ==
  ASSUME OrderInv, NEW w \in Workers, Delivers(w),
         popped' = [popped EXCEPT ![w] = <<>>], Goes(w, "loop") \/ Goes(w, "terminate"),
         UNCHANGED <<said, outgoing, serving, arrived, delivered>>
  PROVE  OrderInv'
<1>1. QueueInv' /\ Gone' = Gone
  BY DEF OrderInv, QueueInv, Gone
<1>2. StreamInv'
  BY DEF OrderInv, StreamInv, Goes, Delivers
<1>3. \A v \in Workers : Delivers(v)' => Delivers(v) /\ InHand(v)' = InHand(v)
  BY DEF OrderInv, StreamInv, HandInv, Goes, Delivers, InHand
<1>4. HandInv'
  BY <1>1, <1>3 DEF OrderInv, HandInv
<1>5. ReceivedInv' /\ ReceivedOnce'
  BY <1>1, <1>3 DEF OrderInv, ReceivedInv, ReceivedOnce, ClientInOrder
<1> QED
  BY <1>1, <1>2, <1>4, <1>5 DEF OrderInv

LEMMA OrderStream ==
  ASSUME OrderInv, NEW w \in Workers, Stream(w)
  PROVE  OrderInv'
<1> USE DEF queueVars, clientVars, workerVars
<1>1. CASE StreamActivate(w)
  BY <1>1, OrderMove DEF StreamActivate
<1>2. CASE StreamCheck(w)
  <2>1. /\ worker[w] = "loop"
        /\ UNCHANGED <<said, outgoing, popped, arrived, delivered>>
        /\ \/ Goes(w, "free") /\ serving' = [serving EXCEPT ![w] = Nobody]
           \/ Goes(w, "provide") /\ UNCHANGED serving
    BY <1>2 DEF StreamCheck, StreamEnds
  <2>2. CASE Goes(w, "free") /\ serving' = [serving EXCEPT ![w] = Nobody]
    BY <2>1, <2>2, OrderFree
  <2>3. CASE Goes(w, "provide") /\ UNCHANGED serving
    BY <2>1, <2>3, OrderMove
  <2> QED
    BY <2>1, <2>2, <2>3
<1>3. CASE StreamProvide(w)
  <2>1. /\ worker[w] = "provide"
        /\ UNCHANGED <<said, outgoing, serving, popped, arrived, delivered>>
        /\ Goes(w, "wait") \/ Goes(w, "terminate")
    BY <1>3 DEF StreamProvide
  <2> QED
    BY <2>1, OrderMove
<1>4. CASE StreamWait(w)
  <2>1. /\ worker[w] = "wait"
        /\ UNCHANGED <<said, serving, arrived, delivered>>
        /\ \/ (Goes(w, "terminate") \/ Goes(w, "loop")) /\ UNCHANGED <<outgoing, popped>>
           \/ /\ outgoing # <<>> /\ Goes(w, "deliver")
              /\ popped' = [popped EXCEPT ![w] = <<Head(outgoing)>>]
              /\ outgoing' = Tail(outgoing)
    BY <1>4 DEF StreamWait, Rest
  <2>2. CASE (Goes(w, "terminate") \/ Goes(w, "loop")) /\ UNCHANGED <<outgoing, popped>>
    BY <2>1, <2>2, OrderMove
  <2>3. CASE /\ outgoing # <<>> /\ Goes(w, "deliver")
             /\ popped' = [popped EXCEPT ![w] = <<Head(outgoing)>>]
             /\ outgoing' = Tail(outgoing)
    BY <2>1, <2>3, OrderTake
  <2> QED
    BY <2>1, <2>2, <2>3
<1>5. CASE StreamDeliver(w)
  <2>1. /\ Delivers(w) /\ popped' = [popped EXCEPT ![w] = <<>>]
        /\ UNCHANGED <<said, outgoing, serving, arrived>>
        /\ \/ /\ delivered' = Append(delivered, <<serving[w], InHand(w)>>)
              /\ Goes(w, "loop")
           \/ (Goes(w, "loop") \/ Goes(w, "terminate")) /\ UNCHANGED delivered
    BY <1>5 DEF StreamDeliver, Delivers, InHand
  <2>2. CASE (Goes(w, "loop") \/ Goes(w, "terminate")) /\ UNCHANGED delivered
    BY <2>1, <2>2, OrderLost
  <2>3. CASE /\ delivered' = Append(delivered, <<serving[w], InHand(w)>>)
             /\ Goes(w, "loop")
    BY <2>1, <2>3, OrderDeliver
  <2> QED
    BY <2>1, <2>2, <2>3
<1>6. CASE StreamTerminate(w)
  BY <1>6, OrderMove DEF StreamTerminate
<1>7. CASE StreamDisconnect(w)
  BY <1>7, OrderFree DEF StreamDisconnect, StreamEnds
<1> QED
  BY <1>1, <1>2, <1>3, <1>4, <1>5, <1>6, <1>7 DEF Stream

\* Every step keeps the order.
LEMMA OrderStep == OrderInv /\ [Next]_vars => OrderInv'
<1> SUFFICES ASSUME OrderInv, [Next]_vars PROVE OrderInv'
  OBVIOUS
<1> USE DEF queueVars, clientVars, workerVars
<1>1. CASE Read
  BY <1>1, OrderFrame DEF Read, ReadLock, ReadMessage, ReadNothing
<1>2. CASE HandleQuietly \/ RespondBegin \/ NotifyBegin
  BY <1>2, OrderFrame DEF HandleQuietly, RespondBegin, NotifyBegin
<1>3. CASE RespondPush \/ NotifyPush
  BY <1>3, OrderQueue DEF RespondPush, NotifyPush
<1>4. CASE Interrupt \/ Stop
  BY <1>4, OrderFrame DEF Interrupt, Stop, StopFlags, StopSocket, StopJoin
<1>5. CASE ListenFails \/ ListenReturns
  BY <1>5, OrderFrame DEF ListenFails, ListenReturns
<1>6. ASSUME NEW w \in Workers, PostBegin(w) PROVE OrderInv'
  BY <1>6, OrderFree DEF PostBegin, Goes
<1>7. ASSUME NEW w \in Workers, PostPush(w) PROVE OrderInv'
  BY <1>7, OrderFree DEF PostPush, Goes
<1>8. ASSUME NEW w \in Workers, Stream(w) PROVE OrderInv'
  BY <1>8, OrderStream
<1>9. ASSUME NEW w \in Workers, NEW c \in Clients, StreamBegin(w, c) PROVE OrderInv'
  BY <1>9, OrderBegin
<1>10. ASSUME NEW c \in Clients, HangUp(c) PROVE OrderInv'
  BY <1>10, OrderFrame DEF HangUp
<1>11. CASE UNCHANGED vars
  BY <1>11, OrderFrame DEF vars
<1> QED
  BY <1>1, <1>2, <1>3, <1>4, <1>5, <1>6, <1>7, <1>8, <1>9, <1>10, <1>11
  DEF Next, Respond

-----------------------------------------------------------------------------
\* A client gets its messages in the order in which they were said, whatever
\* streams take from the queue in which order (the provider of
\* SseTransport.cpp, which pops under outgoing_mutex_ and writes without it).
THEOREM InOrder == Spec => []ClientInOrder
<1>1. OrderInv => ClientInOrder
  BY DEF OrderInv, ReceivedInv
<1> QED
  BY OrderInit, OrderStep, <1>1, PTL DEF Spec

\* No message is received twice, by one client or by two.
THEOREM NoneTwice == Spec => []ReceivedOnce
<1>1. OrderInv => ReceivedOnce
  BY DEF OrderInv
<1> QED
  BY OrderInit, OrderStep, <1>1, PTL DEF Spec

-----------------------------------------------------------------------------
(* Every message in one place *)

InHands == {Head(popped[w]) : w \in Delivering}
Received == {delivered[i][2] : i \in 1 .. Len(delivered)}

\* What left the queue is in the hands of a stream, lost or received, and the
\* three count up to it: no message is in two places.
PlaceInv ==
    /\ IsFiniteSet(Delivering) /\ IsFiniteSet(lost)
    /\ \A w \in Delivering : Head(popped[w]) \notin lost
    /\ InHands \cup lost \cup Received = 1 .. Gone
    /\ Cardinality(Delivering) + Cardinality(lost) + Len(delivered) = Gone

OnceInv == OrderInv /\ PlaceInv

LEMMA PlaceInit == Init => PlaceInv
<1> SUFFICES ASSUME Init PROVE PlaceInv
  OBVIOUS
<1>1. Delivering = {} /\ lost = {} /\ delivered = <<>> /\ Gone = 0
  <2>1. Len(outgoing) = 0 /\ said = 0
    BY DEF Init
  <2>2. Gone = 0
    BY <2>1 DEF Gone
  <2>3. \A w \in Workers : worker[w] = "free"
    BY DEF Init
  <2>4. Delivering = {}
    BY <2>3 DEF Delivering
  <2> QED
    BY <2>2, <2>4 DEF Init
<1>2. InHands = {} /\ Received = {} /\ 1 .. Gone = {}
  BY <1>1 DEF InHands, Received
<1> QED
  BY <1>1, <1>2, FS_EmptySet DEF PlaceInv

\* Steps that move no message.
LEMMA PlaceFrame ==
  ASSUME PlaceInv, Delivering' = Delivering,
         \A w \in Delivering : popped'[w] = popped[w],
         Gone' = Gone, UNCHANGED <<delivered, lost>>
  PROVE  PlaceInv'
<1>1. InHands' = InHands /\ Received' = Received
  BY DEF InHands, Received
<1> QED
  BY <1>1 DEF PlaceInv

\* The worker that moves neither held a message nor is to hold one.
LEMMA PlaceMove ==
  ASSUME OrderInv, PlaceInv, NEW w \in Workers, NEW place, Goes(w, place),
         worker[w] # "deliver", place # "deliver",
         UNCHANGED <<said, outgoing, popped, delivered, lost>>
  PROVE  PlaceInv'
<1>1. Delivering' = Delivering
  BY DEF Delivering, Goes, OrderInv, StreamInv
<1> QED
  BY <1>1, PlaceFrame DEF Gone

\* The head of the queue goes from the queue into the hands of a stream.
LEMMA PlaceTake ==
  ASSUME OrderInv, PlaceInv, NEW w \in Workers, worker[w] = "wait", outgoing # <<>>,
         popped' = [popped EXCEPT ![w] = <<Head(outgoing)>>],
         outgoing' = Tail(outgoing), Goes(w, "deliver"),
         UNCHANGED <<said, delivered, lost>>
  PROVE  PlaceInv'
<1>1. /\ said \in Nat /\ outgoing \in Seq(Nat) /\ Len(outgoing) \in Nat \ {0}
      /\ Len(outgoing) <= said
  BY DEF OrderInv, QueueInv
<1>2. Gone' = Gone + 1 /\ Gone \in Nat
  BY <1>1 DEF Gone
<1>3. Head(outgoing) = Gone + 1
  <2>1. Head(outgoing) = outgoing[1] /\ 1 \in 1 .. Len(outgoing)
    BY <1>1
  <2> QED
    BY <2>1 DEF OrderInv, QueueInv
<1>4. Delivering' = Delivering \cup {w} /\ w \notin Delivering
  BY DEF Delivering, Goes, OrderInv, StreamInv
<1>5. /\ Head(popped'[w]) = Gone + 1
      /\ \A v \in Delivering : popped'[v] = popped[v]
  BY <1>3, <1>4 DEF OrderInv, HandInv
<1>6. InHands' = InHands \cup {Gone + 1} /\ Received' = Received
  BY <1>4, <1>5 DEF InHands, Received
<1>7. lost \subseteq 1 .. Gone
  BY DEF PlaceInv
<1>8. \A v \in Delivering' : Head(popped'[v]) \notin lost
  BY <1>2, <1>4, <1>5, <1>7 DEF PlaceInv
<1>9. InHands' \cup lost \cup Received' = 1 .. Gone'
  <2>1. 1 .. (Gone + 1) = (1 .. Gone) \cup {Gone + 1}
    BY <1>2
  <2> QED
    BY <1>2, <1>6, <2>1 DEF PlaceInv
<1>10. /\ IsFiniteSet(Delivering')
       /\ Cardinality(Delivering') = Cardinality(Delivering) + 1
  BY <1>4, FS_AddElement DEF PlaceInv
<1>11. /\ Cardinality(Delivering) \in Nat /\ Cardinality(lost) \in Nat
       /\ Len(delivered) \in Nat
  BY FS_CardinalityType DEF PlaceInv, OrderInv, ReceivedInv
<1>12. Cardinality(Delivering') + Cardinality(lost) + Len(delivered) = Gone'
  BY <1>2, <1>10, <1>11 DEF PlaceInv
<1> QED
  BY <1>8, <1>9, <1>10, <1>12 DEF PlaceInv

\* What a stream holds goes to the client or is lost: its hands are empty.
LEMMA PlaceGive ==
  ASSUME OrderInv, PlaceInv, NEW w \in Workers, Delivers(w),
         popped' = [popped EXCEPT ![w] = <<>>], Goes(w, "loop") \/ Goes(w, "terminate")
  PROVE  /\ Delivering' = Delivering \ {w} /\ w \in Delivering
         /\ \A v \in Delivering' : popped'[v] = popped[v] /\ InHand(v) # InHand(w)
         /\ InHands' = InHands \ {InHand(w)} /\ InHand(w) \in InHands
         /\ IsFiniteSet(Delivering')
         /\ Cardinality(Delivering') = Cardinality(Delivering) - 1
<1>1. Delivering' = Delivering \ {w} /\ w \in Delivering
  BY DEF Delivering, Delivers, Goes, OrderInv, StreamInv
<1>2. \A v \in Delivering' : popped'[v] = popped[v] /\ InHand(v) # InHand(w)
  BY <1>1 DEF OrderInv, HandInv, Delivering, Delivers
<1>3. InHands' = InHands \ {InHand(w)} /\ InHand(w) \in InHands
  BY <1>1, <1>2 DEF InHands, InHand
<1>4. /\ IsFiniteSet(Delivering')
      /\ Cardinality(Delivering') = Cardinality(Delivering) - 1
  BY <1>1, FS_RemoveElement DEF PlaceInv
<1> QED
  BY <1>1, <1>2, <1>3, <1>4

LEMMA PlaceDeliver ==
  ASSUME OrderInv, PlaceInv, NEW w \in Workers, StreamDeliver(w)
  PROVE  PlaceInv'
<1>1. /\ Delivers(w) /\ popped' = [popped EXCEPT ![w] = <<>>]
      /\ Goes(w, "loop") \/ Goes(w, "terminate")
      /\ UNCHANGED <<said, outgoing>>
      /\ \/ /\ delivered' = Append(delivered, <<serving[w], InHand(w)>>)
            /\ UNCHANGED lost
         \/ lost' = lost \cup {InHand(w)} /\ UNCHANGED delivered
  BY DEF StreamDeliver, Delivers, InHand, queueVars
<1>2. /\ Delivering' = Delivering \ {w} /\ w \in Delivering
      /\ \A v \in Delivering' : popped'[v] = popped[v] /\ InHand(v) # InHand(w)
      /\ InHands' = InHands \ {InHand(w)} /\ InHand(w) \in InHands
      /\ IsFiniteSet(Delivering')
      /\ Cardinality(Delivering') = Cardinality(Delivering) - 1
  BY <1>1, PlaceGive
<1>3. Gone' = Gone /\ Gone \in Nat
  BY <1>1 DEF Gone, OrderInv, QueueInv
<1>4. /\ Cardinality(Delivering) \in Nat /\ Cardinality(lost) \in Nat
      /\ Len(delivered) \in Nat /\ delivered \in Seq(Clients \X Nat)
      /\ IsFiniteSet(lost)
  BY FS_CardinalityType DEF PlaceInv, OrderInv, ReceivedInv
<1>5. InHand(w) \notin lost
  BY <1>2 DEF PlaceInv, InHand
<1>6. CASE /\ delivered' = Append(delivered, <<serving[w], InHand(w)>>)
           /\ UNCHANGED lost
  <2>1. /\ Len(delivered') = Len(delivered) + 1
        /\ \A i \in 1 .. Len(delivered) : delivered'[i] = delivered[i]
        /\ delivered'[Len(delivered) + 1] = <<serving[w], InHand(w)>>
    BY <1>4, <1>6
  <2>2. 1 .. Len(delivered') = (1 .. Len(delivered)) \cup {Len(delivered) + 1}
    BY <1>4, <2>1
  <2>3. Received' = Received \cup {InHand(w)}
    BY <2>1, <2>2 DEF Received
  <2>4. InHands' \cup lost' \cup Received' = 1 .. Gone'
    BY <1>2, <1>3, <1>6, <2>3 DEF PlaceInv
  <2>5. Cardinality(Delivering') + Cardinality(lost') + Len(delivered') = Gone'
    <3>1. Cardinality(lost') = Cardinality(lost)
      BY <1>6
    <3>2. Cardinality(Delivering) + Cardinality(lost) + Len(delivered) = Gone
      BY DEF PlaceInv
    <3> QED
      BY <1>2, <1>3, <1>4, <2>1, <3>1, <3>2
  <2>6. \A v \in Delivering' : Head(popped'[v]) \notin lost'
    BY <1>2, <1>6 DEF PlaceInv
  <2> QED
    BY <1>2, <1>4, <1>6, <2>4, <2>5, <2>6 DEF PlaceInv
<1>7. CASE lost' = lost \cup {InHand(w)} /\ UNCHANGED delivered
  <2>1. IsFiniteSet(lost') /\ Cardinality(lost') = Cardinality(lost) + 1
    BY <1>4, <1>5, <1>7, FS_AddElement
  <2>2. Received' = Received
    BY <1>7 DEF Received
  <2>3. InHands' \cup lost' \cup Received' = 1 .. Gone'
    BY <1>2, <1>3, <1>7, <2>2 DEF PlaceInv
  <2>4. Cardinality(Delivering') + Cardinality(lost') + Len(delivered') = Gone'
    BY <1>2, <1>3, <1>4, <1>7, <2>1 DEF PlaceInv
  <2>5. \A v \in Delivering' : Head(popped'[v]) \notin lost'
    BY <1>2, <1>7 DEF PlaceInv, InHand
  <2> QED
    BY <1>2, <2>1, <2>3, <2>4, <2>5 DEF PlaceInv
<1> QED
  BY <1>1, <1>6, <1>7

LEMMA PlaceStream ==
  ASSUME OrderInv, PlaceInv, NEW w \in Workers, Stream(w)
  PROVE  PlaceInv'
<1> USE DEF queueVars, clientVars, workerVars
<1>1. CASE StreamActivate(w) \/ StreamTerminate(w)
  BY <1>1, PlaceMove DEF StreamActivate, StreamTerminate
<1>2. CASE StreamCheck(w) \/ StreamDisconnect(w)
  BY <1>2, PlaceMove DEF StreamCheck, StreamDisconnect, StreamEnds
<1>3. CASE StreamProvide(w)
  BY <1>3, PlaceMove DEF StreamProvide
<1>4. CASE StreamWait(w)
  <2>1. /\ worker[w] = "wait" /\ UNCHANGED <<said, delivered, lost>>
        /\ \/ (Goes(w, "terminate") \/ Goes(w, "loop")) /\ UNCHANGED <<outgoing, popped>>
           \/ /\ outgoing # <<>> /\ Goes(w, "deliver")
              /\ popped' = [popped EXCEPT ![w] = <<Head(outgoing)>>]
              /\ outgoing' = Tail(outgoing)
    BY <1>4 DEF StreamWait, Rest
  <2> QED
    BY <2>1, PlaceMove, PlaceTake
<1>5. CASE StreamDeliver(w)
  BY <1>5, PlaceDeliver
<1> QED
  BY <1>1, <1>2, <1>3, <1>4, <1>5 DEF Stream

\* Every step keeps each message in its one place.
LEMMA PlaceStep == OrderInv /\ PlaceInv /\ [Next]_vars => PlaceInv'
<1> SUFFICES ASSUME OrderInv, PlaceInv, [Next]_vars PROVE PlaceInv'
  OBVIOUS
<1> USE DEF queueVars, clientVars, workerVars
<1>0. ASSUME UNCHANGED <<worker, popped, said, outgoing, delivered, lost>>
      PROVE  PlaceInv'
  BY <1>0, PlaceFrame DEF Delivering, Gone
<1>1. CASE Read
  BY <1>0, <1>1 DEF Read, ReadLock, ReadMessage, ReadNothing
<1>2. CASE HandleQuietly \/ RespondBegin \/ NotifyBegin
  BY <1>0, <1>2 DEF HandleQuietly, RespondBegin, NotifyBegin
<1>3. CASE RespondPush \/ NotifyPush
  <2>1. /\ said' = said + 1 /\ outgoing' = Append(outgoing, said + 1)
        /\ UNCHANGED <<worker, popped, delivered, lost>>
    BY <1>3 DEF RespondPush, NotifyPush, QueueOutgoing, Pushed
  <2>2. said \in Nat /\ outgoing \in Seq(Nat)
    BY DEF OrderInv, QueueInv
  <2>3. Gone' = Gone
    BY <2>1, <2>2 DEF Gone
  <2> QED
    BY <2>1, <2>3, PlaceFrame DEF Delivering
<1>4. CASE Interrupt \/ Stop
  BY <1>0, <1>4 DEF Interrupt, Stop, StopFlags, StopSocket, StopJoin
<1>5. CASE ListenFails \/ ListenReturns
  BY <1>0, <1>5 DEF ListenFails, ListenReturns
<1>6. ASSUME NEW w \in Workers, PostBegin(w) \/ PostPush(w) PROVE PlaceInv'
  BY <1>6, PlaceMove DEF PostBegin, PostPush, Goes
<1>7. ASSUME NEW w \in Workers, Stream(w) PROVE PlaceInv'
  BY <1>7, PlaceStream
<1>8. ASSUME NEW w \in Workers, NEW c \in Clients, StreamBegin(w, c) PROVE PlaceInv'
  BY <1>8, PlaceMove DEF StreamBegin
<1>9. ASSUME NEW c \in Clients, HangUp(c) PROVE PlaceInv'
  BY <1>0, <1>9 DEF HangUp
<1>10. CASE UNCHANGED vars
  BY <1>0, <1>10 DEF vars
<1> QED
  BY <1>1, <1>2, <1>3, <1>4, <1>5, <1>6, <1>7, <1>8, <1>9, <1>10
  DEF Next, Respond

LEMMA PlaceImplies == OrderInv /\ PlaceInv => EachMessageOnce
<1> SUFFICES ASSUME OrderInv, PlaceInv PROVE EachMessageOnce
  OBVIOUS
<1>1. outgoing = [i \in 1 .. Len(outgoing) |-> Gone + i]
  <2>1. outgoing \in Seq(Nat) /\ \A i \in 1 .. Len(outgoing) : outgoing[i] = Gone + i
    BY DEF OrderInv, QueueInv
  <2>2. outgoing = [i \in 1 .. Len(outgoing) |-> outgoing[i]]
    BY <2>1
  <2> QED
    BY <2>1, <2>2
<1> QED
  BY <1>1 DEF PlaceInv, EachMessageOnce, InHands, Received, Gone

\* Each message said is in one place only: in the queue, in the hands of one
\* stream, with one client, or lost with a client that hung up (the provider
\* of SseTransport.cpp pops under outgoing_mutex_ and writes what it popped).
THEOREM EachOnce == Spec => []EachMessageOnce
<1>1. Init => OnceInv
  BY OrderInit, PlaceInit DEF OnceInv
<1>2. OnceInv /\ [Next]_vars => OnceInv'
  BY OrderStep, PlaceStep DEF OnceInv
<1>3. OnceInv => EachMessageOnce
  BY PlaceImplies DEF OnceInv
<1> QED
  BY <1>1, <1>2, <1>3, PTL DEF Spec
=============================================================================
