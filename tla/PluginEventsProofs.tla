------------------------- MODULE PluginEventsProofs -------------------------
(***************************************************************************)
(* What is served when every file event has been handled: no plugin whose  *)
(* file is gone and, when the plugins on disk do not compete, the plugins  *)
(* that are on disk.  It holds for every number of paths and edits, every  *)
(* capacity of the kernel queue, every debounce and grace period.          *)
(***************************************************************************)
EXTENDS PluginEvents, SequenceTheorems, TLAPS

Overflow == <<"overflow">>
Written(p) == <<"written", p>>
Removed(p) == <<"gone", p>>

KernelEvent == {<<op, p>> : op \in {"written", "gone"}, p \in Paths}
                 \cup {Overflow, <<"directory">>, <<"moved">>}

Has(queue, event) == \E i \in DOMAIN queue : queue[i] = event

\* The last the queue says of the path is that it is gone.
EndsGone(queue, p) ==
    \E i \in DOMAIN queue :
        /\ queue[i] = Removed(p)
        /\ \A j \in DOMAIN queue : queue[j] = Written(p) => j < i

LEMMA EventsDiffer ==
  /\ \A p, q : Written(p) # Removed(q) /\ Written(p) # Overflow /\ Removed(p) # Overflow
  /\ \A p, q : Written(p) = Written(q) => p = q
  /\ \A p, q : Removed(p) = Removed(q) => p = q
BY DEF Written, Removed, Overflow

LEMMA EventsTyped ==
  /\ {Overflow, <<"directory">>, <<"moved">>} \subseteq KernelEvent
  /\ \A p \in Paths : Written(p) \in KernelEvent /\ Removed(p) \in KernelEvent
BY DEF KernelEvent, Written, Removed, Overflow

LEMMA AppendFacts ==
  ASSUME NEW queue \in Seq(KernelEvent), NEW event \in KernelEvent,
         NEW next, next = Append(queue, event)
  PROVE  /\ next \in Seq(KernelEvent)
         /\ Has(next, event)
         /\ \A x : Has(queue, x) => Has(next, x)
         /\ \A x : Has(next, x) /\ x # event => Has(queue, x)
         /\ \A p : event # Written(p) /\ EndsGone(queue, p) => EndsGone(next, p)
         /\ \A p : event = Removed(p) => EndsGone(next, p)
<1>1. /\ next \in Seq(KernelEvent) /\ Len(queue) \in Nat
      /\ DOMAIN queue = 1 .. Len(queue) /\ DOMAIN next = 1 .. Len(queue) + 1
      /\ next[Len(queue) + 1] = event
      /\ \A i \in 1 .. Len(queue) : next[i] = queue[i]
  BY AppendProperties, LenProperties
<1>2. Len(queue) + 1 \in DOMAIN next /\ DOMAIN queue \subseteq DOMAIN next
      /\ \A i \in DOMAIN next : i \in DOMAIN queue \/ i = Len(queue) + 1
  BY <1>1
<1>3. Has(next, event) /\ \A x : Has(queue, x) => Has(next, x)
  BY <1>1, <1>2 DEF Has
<1>4. \A x : Has(next, x) /\ x # event => Has(queue, x)
  BY <1>1, <1>2 DEF Has
<1>5. \A p : event # Written(p) /\ EndsGone(queue, p) => EndsGone(next, p)
  BY <1>1, <1>2 DEF EndsGone
<1>6. \A p : event = Removed(p) => EndsGone(next, p)
  <2> SUFFICES ASSUME NEW p, event = Removed(p) PROVE EndsGone(next, p)
    OBVIOUS
  <2>1. \A j \in DOMAIN next : next[j] = Written(p) => j < Len(queue) + 1
    BY <1>1, <1>2, EventsDiffer
  <2> QED
    BY <1>1, <1>2, <2>1 DEF EndsGone
<1> QED
  BY <1>1, <1>3, <1>4, <1>5, <1>6

\* An event is queued, is the last one queued already, or there is an overflow.
LEMMA EnqueueFacts ==
  ASSUME NEW queue \in Seq(KernelEvent), NEW event \in KernelEvent,
         NEW next, next = Enqueue(queue, event)
  PROVE  /\ next \in Seq(KernelEvent)
         /\ Has(next, event) \/ Has(next, Overflow)
         /\ \A x : Has(queue, x) => Has(next, x)
         /\ \A p : Has(next, Written(p)) /\ event # Written(p) => Has(queue, Written(p))
         /\ \A p : event # Written(p) /\ EndsGone(queue, p) => EndsGone(next, p)
         /\ \A p : event = Removed(p) => EndsGone(next, p) \/ Has(next, Overflow)
<1>0. Len(queue) \in Nat /\ DOMAIN queue = 1 .. Len(queue)
  BY LenProperties
<1>1. CASE queue # <<>> /\ queue[Len(queue)] = event
  <2>1. next = queue /\ Len(queue) \in DOMAIN queue
    BY <1>0, <1>1, EmptySeq DEF Enqueue
  <2>2. Has(next, event)
    BY <1>1, <2>1 DEF Has
  <2>3. ASSUME NEW p, event = Removed(p) PROVE EndsGone(next, p)
    <3>1. \A j \in DOMAIN queue : queue[j] = Written(p) => j < Len(queue)
      BY <1>0, <1>1, <2>3, EventsDiffer
    <3> QED
      BY <1>1, <2>1, <2>3, <3>1 DEF EndsGone
  <2> QED
    BY <2>1, <2>2, <2>3
<1>2. CASE next = queue /\ Has(queue, Overflow)
  BY <1>2
<1>3. CASE next = Append(queue, event)
  BY <1>3, AppendFacts
<1>4. CASE next = Append(queue, Overflow)
  <2>1. \A p : Overflow # Written(p) /\ Overflow # Removed(p)
    BY EventsDiffer
  <2>2. /\ next \in Seq(KernelEvent)
        /\ Has(next, Overflow)
        /\ \A x : Has(queue, x) => Has(next, x)
        /\ \A x : Has(next, x) /\ x # Overflow => Has(queue, x)
        /\ \A p : Overflow # Written(p) /\ EndsGone(queue, p) => EndsGone(next, p)
    BY <1>4, AppendFacts, EventsTyped
  <2> QED
    BY <2>1, <2>2
<1> QED
  BY <1>0, <1>1, <1>2, <1>3, <1>4 DEF Enqueue, Has, Overflow

\* The watcher thread takes the first event.
LEMMA TailFacts ==
  ASSUME NEW queue \in Seq(KernelEvent), queue # <<>>
  PROVE  /\ Tail(queue) \in Seq(KernelEvent)
         /\ Head(queue) \in KernelEvent
         /\ \A x : Has(queue, x) => Head(queue) = x \/ Has(Tail(queue), x)
         /\ \A x : Has(Tail(queue), x) => Has(queue, x)
         /\ \A p : EndsGone(queue, p) =>
               \/ EndsGone(Tail(queue), p)
               \/ Head(queue) = Removed(p) /\ ~Has(Tail(queue), Written(p))
<1> DEFINE t == Tail(queue)
<1>1. /\ t \in Seq(KernelEvent) /\ Head(queue) = queue[1] /\ Head(queue) \in KernelEvent
      /\ Len(queue) \in Nat \ {0} /\ DOMAIN queue = 1 .. Len(queue)
      /\ DOMAIN t = 1 .. Len(queue) - 1
      /\ \A i \in 1 .. Len(queue) - 1 : t[i] = queue[i + 1]
  BY HeadTailProperties, LenProperties, EmptySeq
<1> HIDE DEF t
<1>2. /\ \A i \in DOMAIN t : i + 1 \in DOMAIN queue /\ t[i] = queue[i + 1]
      /\ \A i \in DOMAIN queue : i = 1 \/ (i - 1 \in DOMAIN t /\ t[i - 1] = queue[i])
  BY <1>1
<1>3. \A x : Has(queue, x) => Head(queue) = x \/ Has(t, x)
  BY <1>1, <1>2 DEF Has
<1>4. \A x : Has(t, x) => Has(queue, x)
  BY <1>2 DEF Has
<1>5. ASSUME NEW p, EndsGone(queue, p)
      PROVE  EndsGone(t, p) \/ (Head(queue) = Removed(p) /\ ~Has(t, Written(p)))
  <2>1. PICK i \in DOMAIN queue :
           /\ queue[i] = Removed(p)
           /\ \A j \in DOMAIN queue : queue[j] = Written(p) => j < i
    BY <1>5 DEF EndsGone
  <2>2. CASE i = 1
    <3>1. \A j \in DOMAIN t : t[j] # Written(p)
      BY <1>1, <1>2, <2>1, <2>2
    <3> QED
      BY <1>1, <2>1, <2>2, <3>1 DEF Has
  <2>3. CASE i # 1
    <3>1. i - 1 \in DOMAIN t /\ t[i - 1] = Removed(p)
      BY <1>2, <2>1, <2>3
    <3>2. \A j \in DOMAIN t : t[j] = Written(p) => j < i - 1
      BY <1>1, <1>2, <2>1
    <3> QED
      BY <3>1, <3>2 DEF EndsGone
  <2> QED
    BY <2>2, <2>3
<1> QED
  BY <1>1, <1>3, <1>4, <1>5 DEF t
-----------------------------------------------------------------------------
(* The invariants *)

\* What the variables of the event thread have to do with each other.
Shape ==
    /\ kernel \in Seq(KernelEvent)
    /\ pending \subseteq Entry
    /\ \A e \in pending : e.key = Rescan <=> e.kind = "rescan"
    /\ at = "decide" => (key = Rescan <=> kind = "rescan") /\ key \in Paths \cup {Rescan}
    /\ at = "decide" => kind \in EventKinds
    /\ at = "stage" => key \in Paths
    /\ disk \in [Paths -> Contents \cup {Absent}]
    /\ at = "stage" => hashed \in Contents
    /\ at \notin {"work", "stage", "terminated"} => reloads = {} /\ removals = {}
    /\ reloads \subseteq Paths /\ removals \subseteq Paths
    /\ reloads \cap removals = {}
    /\ \A r \in active : r.path \in Paths

\* Events are handled from StartWatching to StopWatching.
Phases ==
    /\ running => stopper = "no"
    /\ stopper = "no" /\ watching => running

\* A rescan will be decided on.
Rescanning ==
    \/ Has(kernel, Overflow)
    \/ \E e \in pending : e.key = Rescan
    \/ at = "decide" /\ key = Rescan

\* An event of the path will be decided on.
Noted(p) ==
    \/ Has(kernel, Written(p)) \/ Has(kernel, Removed(p))
    \/ \E e \in pending : e.key = p
    \/ at = "decide" /\ key = p

\* The removal of a file that is not there will be decided on or was; a later
\* event of the path takes its place in pending only if the file is back.
Withdrawing(p) ==
    \/ EndsGone(kernel, p)
    \/ /\ ~Has(kernel, Written(p))
       /\ \E e \in pending : e.key = p /\ e.kind = "removed"
    \/ at = "decide" /\ key = p /\ kind = "removed"
    \/ p \in removals

Withdrawn(p) ==
    ~Exists(p) => \/ \A r \in active : r.path # p
                  \/ Rescanning
                  \/ Withdrawing(p)

\* A library that loads is served and stays so, or its reload is on the way.
Loading(p) == p \in reloads \/ (at = "stage" /\ key = p /\ hashed = disk[p])

Deployed(p) ==
    Exists(p) /\ Loads(disk[p]) =>
        \/ Rescanning
        \/ Noted(p)
        \/ p \notin removals /\ (Served(p) \/ Loading(p))

Following == ~missed /\ stopper = "no" /\ at # "terminated"

WithdrawnInv == Following => \A p \in Paths : Withdrawn(p)

-----------------------------------------------------------------------------
(* The shape of the state *)

LEMMA QueueShape ==
  ASSUME Shape, NEW k \in Paths \cup {Rescan}, NEW eventKind \in EventKinds,
         k = Rescan <=> eventKind = "rescan",
         QueueFileEvent(k, eventKind)
  PROVE  /\ pending' \subseteq Entry
         /\ \A e \in pending' : e.key = Rescan <=> e.kind = "rescan"
         /\ at' = at \/ (at = "asleep" /\ at' = "select")
<1>1. Delay(eventKind) \in Int
  BY EventsAssumption DEF EventsAssumption, Delay
<1>2. [key |-> k, kind |-> eventKind, left |-> Delay(eventKind)] \in Entry
  BY <1>1 DEF Entry
<1> QED
  BY <1>2 DEF Shape, QueueFileEvent, Merged

LEMMA ShapeInit == Init => Shape /\ Phases
<1> SUFFICES ASSUME Init PROVE Shape /\ Phases
  OBVIOUS
<1>1. <<>> \in Seq(KernelEvent)
  OBVIOUS
<1>2. disk \in [Paths -> Contents \cup {Absent}]
  BY DEF Init
<1> QED
  BY <1>1, <1>2 DEF Init, Shape, Phases

LEMMA PhasesStep == Phases /\ [Next]_vars => Phases'
<1> SUFFICES ASSUME Phases, [Next]_vars PROVE Phases'
  OBVIOUS
<1>1. CASE UNCHANGED <<running, watching, stopper>>
  BY <1>1 DEF Phases
<1>2. CASE StartWatching
  BY <1>2 DEF StartWatching, stopVars, Phases
<1>3. CASE StopBegin
  BY <1>3 DEF StopBegin, Phases
<1>4. CASE Stopper
  BY <1>4 DEF Stopper, StopWatcher, StopNotify, StopJoin, Phases
<1>5. CASE Terminate
  BY <1>5 DEF Terminate, stopVars, Phases
<1> QED
  BY <1>1, <1>2, <1>3, <1>4, <1>5
  DEF Next, vars, Deployer, MoveIn, BeginWrite, FinishWrite, Delete, Rename,
      MakeDirectory, MoveDirectory, Edit, HandleEvent, WalkThrows, EventThread, Leave,
      Sleep, WaitForEarliest, TakeDue, LookAgain, UseErased, Decide, HashSource,
      FinishReload, RemoveMissing, WorkDone, Tick, StartFails, stopVars

\* What an edit does to the queue of the kernel.
LEMMA ReportFacts ==
  ASSUME NEW queue \in Seq(KernelEvent), NEW op \in {"written", "gone"}, NEW p \in Paths
  PROVE  Report(queue, op, p) \in Seq(KernelEvent)
<1>1. <<op, p>> \in KernelEvent
  BY DEF KernelEvent
<1> QED
  BY <1>1, EnqueueFacts DEF Report

LEMMA DeployerShape == Shape /\ Deployer => Shape'
<1> SUFFICES ASSUME Shape, Deployer PROVE Shape'
  OBVIOUS
<1>0. \A p \in Paths : \A c \in Offers[p] : c \in Contents
  BY EventsAssumption DEF EventsAssumption
<1>1. UNCHANGED <<pending, at, key, kind, reloads, removals, hashed, active>>
  BY DEF Deployer, MoveIn, BeginWrite, FinishWrite, Delete, Rename,
         MakeDirectory, MoveDirectory, Edit, workVars
<1>2. disk' \in [Paths -> Contents \cup {Absent}]
  BY <1>0 DEF Shape, Deployer, MoveIn, BeginWrite, FinishWrite, Delete, Rename,
         MakeDirectory, MoveDirectory, Edit
<1>3. kernel' \in Seq(KernelEvent)
  <2>0. kernel \in Seq(KernelEvent)
    BY DEF Shape
  <2>1. ASSUME NEW p \in Paths, NEW c \in Offers[p], MoveIn(p, c) \/ FinishWrite(p, c)
        PROVE  kernel' \in Seq(KernelEvent)
    BY <2>0, <2>1, ReportFacts DEF MoveIn, FinishWrite, Edit
  <2>2. ASSUME NEW p \in Paths, NEW c \in Offers[p], BeginWrite(p, c)
        PROVE  kernel' \in Seq(KernelEvent)
    BY <2>0, <2>2 DEF BeginWrite, Edit
  <2>3. ASSUME NEW p \in Paths, Delete(p) PROVE kernel' \in Seq(KernelEvent)
    BY <2>0, <2>3, ReportFacts DEF Delete, Edit
  <2>4. ASSUME NEW p \in Paths, NEW q \in Paths, Rename(p, q)
        PROVE  kernel' \in Seq(KernelEvent)
    <3>1. Report(kernel, "gone", p) \in Seq(KernelEvent)
      BY <2>0, ReportFacts
    <3> QED
      BY <2>4, <3>1, ReportFacts DEF Rename
  <2>5. CASE MakeDirectory
    <3>1. Enqueue(kernel, <<"directory">>) \in Seq(KernelEvent)
      BY <2>0, EnqueueFacts, EventsTyped
    <3> QED
      BY <2>0, <2>5, <3>1 DEF MakeDirectory
  <2>6. CASE MoveDirectory
    <3>1. Enqueue(kernel, <<"moved">>) \in Seq(KernelEvent)
      BY <2>0, EnqueueFacts, EventsTyped
    <3> QED
      BY <2>0, <2>6, <3>1 DEF MoveDirectory
  <2> QED
    BY <2>1, <2>2, <2>3, <2>4, <2>5, <2>6 DEF Deployer
<1> QED
  BY <1>1, <1>2, <1>3 DEF Shape

LEMMA HandleCases ==
  ASSUME Shape, HandleEvent
  PROVE  \/ \E p \in Paths : /\ Head(kernel) = Written(p)
                             /\ QueueFileEvent(p, "modified")
         \/ \E p \in Paths : /\ Head(kernel) = Removed(p)
                             /\ QueueFileEvent(p, "removed")
         \/ /\ Head(kernel) = Overflow
            /\ QueueFileEvent(Rescan, "rescan")
         \/ /\ Head(kernel) \in {<<"directory">>, <<"moved">>}
            /\ UNCHANGED <<pending, at, notified>>
<1>1. Head(kernel) \in KernelEvent
  BY TailFacts DEF Shape, HandleEvent
<1> QED
  BY <1>1 DEF KernelEvent, HandleEvent, Written, Removed, Overflow

LEMMA HandleShape == Shape /\ HandleEvent => Shape'
<1> SUFFICES ASSUME Shape, HandleEvent PROVE Shape'
  OBVIOUS
<1>1. kernel' \in Seq(KernelEvent)
  BY TailFacts DEF Shape, HandleEvent
<1>2. Rescan \notin Paths
  BY EventsAssumption DEF EventsAssumption
<1> DEFINE QueueOK == /\ pending' \subseteq Entry
                      /\ \A e \in pending' : e.key = Rescan <=> e.kind = "rescan"
                      /\ at' = at \/ (at = "asleep" /\ at' = "select")
<1>3. QueueOK
  <2>1. ASSUME NEW p \in Paths, QueueFileEvent(p, "modified") \/ QueueFileEvent(p, "removed")
        PROVE  QueueOK
    BY <1>2, <2>1, QueueShape DEF EventKinds
  <2>2. ASSUME QueueFileEvent(Rescan, "rescan") PROVE QueueOK
    BY <2>2, QueueShape DEF EventKinds
  <2>3. ASSUME UNCHANGED <<pending, at>> PROVE QueueOK
    BY <2>3 DEF Shape
  <2> QED
    BY <2>1, <2>2, <2>3, HandleCases
<1>4. UNCHANGED <<disk, key, kind, reloads, removals, hashed, active>>
  BY DEF HandleEvent, workVars
<1> QED
  BY <1>1, <1>3, <1>4 DEF Shape

LEMMA ThreadShape == Shape /\ EventThread => Shape'
<1> SUFFICES ASSUME Shape, EventThread PROVE Shape'
  OBVIOUS
<1>0. UNCHANGED <<kernel, disk>>
  BY DEF EventThread, Leave, Sleep, WaitForEarliest, TakeDue, LookAgain,
         UseErased, Decide, HashSource, FinishReload, RemoveMissing, WorkDone,
         sourceVars
<1>1. CASE Leave \/ Sleep \/ LookAgain \/ UseErased
  BY <1>0, <1>1 DEF Shape, Leave, Sleep, LookAgain, UseErased, workVars
<1>2. CASE WaitForEarliest
  BY <1>0, <1>2 DEF Shape, WaitForEarliest, workVars
<1>3. CASE TakeDue
  <2>1. PICK e \in pending : e.key = key /\ kind' = e.kind /\ pending' = pending \ {e}
    BY <1>3 DEF TakeDue
  <2>2. e \in Entry /\ (e.key = Rescan <=> e.kind = "rescan")
    BY <2>1 DEF Shape
  <2>3. key \in Paths \cup {Rescan} /\ kind' \in EventKinds
    BY <2>1, <2>2 DEF Entry
  <2> QED
    BY <1>0, <1>3, <2>1, <2>2, <2>3 DEF Shape, TakeDue, workVars
<1>4. CASE Decide
  <2>1. reloads = {} /\ removals = {} /\ at = "decide" /\ at' = "work"
    BY <1>4 DEF Shape, Decide
  <2>2. /\ reloads' \subseteq Paths /\ removals' \subseteq Paths
        /\ reloads' \cap removals' = {}
    <3>1. CASE kind = "rescan"
      BY <1>4, <2>1, <3>1 DEF Shape, Decide, Missing
    <3>2. CASE kind # "rescan"
      <4>1. key \in Paths
        BY <2>1, <3>2 DEF Shape
      <4> QED
        BY <1>4, <2>1, <3>2, <4>1 DEF Decide
    <3> QED
      BY <3>1, <3>2
  <2> QED
    BY <1>0, <1>4, <2>1, <2>2 DEF Shape, Decide
<1>5. CASE HashSource
  <2>1. PICK p \in reloads :
          /\ reloads' = reloads \ {p}
          /\ IF Exists(p) /\ Plugin(p, disk[p]) \notin active
             THEN at' = "stage" /\ key' = p /\ hashed' = disk[p]
             ELSE UNCHANGED <<at, key, hashed>>
    BY <1>5 DEF HashSource
  <2>2. p \in Paths /\ disk[p] \in Contents \cup {Absent}
    BY <2>1 DEF Shape
  <2>3. at = "work" /\ UNCHANGED <<removals, pending, kind, active>>
    BY <1>5 DEF HashSource
  <2>4. CASE Exists(p) /\ Plugin(p, disk[p]) \notin active
    BY <1>0, <2>1, <2>2, <2>3, <2>4 DEF Shape, Exists
  <2>5. CASE ~(Exists(p) /\ Plugin(p, disk[p]) \notin active)
    BY <1>0, <2>1, <2>3, <2>5 DEF Shape
  <2> QED
    BY <2>4, <2>5
<1>6. CASE FinishReload
  <2>1. key \in Paths /\ Plugin(key, hashed).path = key
    BY <1>6 DEF Shape, FinishReload, Plugin
  <2>2. \A r \in active' : r.path \in Paths
    BY <1>6, <2>1 DEF Shape, FinishReload, Replacing
  <2> QED
    BY <1>0, <1>6, <2>2 DEF Shape, FinishReload
<1>7. CASE RemoveMissing
  BY <1>0, <1>7 DEF Shape, RemoveMissing
<1>8. CASE WorkDone
  BY <1>0, <1>8 DEF Shape, WorkDone, workVars
<1> QED
  BY <1>1, <1>2, <1>3, <1>4, <1>5, <1>6, <1>7, <1>8 DEF EventThread

LEMMA TickFacts ==
  ASSUME pending \subseteq Entry, Tick
  PROVE  /\ pending' \subseteq Entry
         /\ \A e \in pending : \E f \in pending' : f.key = e.key /\ f.kind = e.kind
         /\ \A f \in pending' : \E e \in pending : f.key = e.key /\ f.kind = e.kind
<1> DEFINE Later(e) == [e EXCEPT !.left = e.left - 1]
<1>1. pending' = {Later(e) : e \in pending}
  BY DEF Tick
<1>2. \A e \in Entry : /\ Later(e) \in Entry
                       /\ Later(e).key = e.key /\ Later(e).kind = e.kind
  BY DEF Entry
<1> HIDE DEF Later
<1>3. \A e \in pending : /\ Later(e) \in Entry
                         /\ Later(e).key = e.key /\ Later(e).kind = e.kind
  BY <1>2
<1>4. pending' \subseteq Entry
  BY <1>1, <1>3
<1>5. ASSUME NEW e \in pending PROVE \E f \in pending' : f.key = e.key /\ f.kind = e.kind
  <2>1. Later(e) \in pending'
    BY <1>1
  <2> QED
    BY <1>3, <2>1
<1>6. ASSUME NEW f \in pending' PROVE \E e \in pending : f.key = e.key /\ f.kind = e.kind
  <2>1. PICK e \in pending : f = Later(e)
    BY <1>1
  <2> QED
    BY <1>3, <2>1
<1> QED
  BY <1>4, <1>5, <1>6

LEMMA OtherShape ==
  Shape /\ (Tick \/ WalkThrows \/ StartWatching \/ StartFails \/ StopBegin \/ Stopper)
    => Shape'
<1> SUFFICES ASSUME Shape,
                    \/ Tick \/ WalkThrows
                    \/ StartWatching \/ StartFails \/ StopBegin \/ Stopper
             PROVE  Shape'
  OBVIOUS
<1>0. CASE Terminate
  <2>1. <<>> \in Seq(KernelEvent)
    OBVIOUS
  <2> QED
    BY <1>0, <2>1 DEF Shape, Terminate, workVars, sourceVars
<1>1. CASE Tick
  <2>1. /\ pending' \subseteq Entry
        /\ \A f \in pending' : \E e \in pending : f.key = e.key /\ f.kind = e.kind
    BY <1>1, TickFacts DEF Shape
  <2> QED
    BY <1>1, <2>1 DEF Shape, Tick, sourceVars, workVars
<1>2. CASE StartWatching
  BY <1>2 DEF Shape, StartWatching, workVars
<1>3. CASE StartFails
  BY <1>0, <1>3 DEF Shape, StartFails, workVars, sourceVars
<1>4. CASE StopBegin
  BY <1>4 DEF Shape, StopBegin, workVars, sourceVars
<1>5. CASE Stopper
  <2>1. <<>> \in Seq(KernelEvent)
    OBVIOUS
  <2> QED
    BY <1>5, <2>1 DEF Shape, Stopper, StopWatcher, StopNotify, StopJoin, workVars, sourceVars
<1> QED
  BY <1>0, <1>1, <1>2, <1>3, <1>4, <1>5 DEF WalkThrows

LEMMA ShapeStep == Shape /\ [Next]_vars => Shape'
<1>1. Shape /\ UNCHANGED vars => Shape'
  BY DEF Shape, vars, workVars, stopVars
<1> QED
  BY <1>1, DeployerShape, HandleShape, ThreadShape, OtherShape DEF Next
-----------------------------------------------------------------------------
(* Nothing is forgotten on the way from the kernel to the update *)

\* What is excused stays excused, and a stop is for good.
LEMMA FollowingStep == [Next]_vars /\ Following' => Following
<1> SUFFICES ASSUME [Next]_vars, Following' PROVE Following
  OBVIOUS
<1>1. ~missed' /\ stopper' = "no" /\ at' # "terminated"
  BY DEF Following
<1>2. ~missed
  BY <1>1 DEF Next, vars, Deployer, MoveIn, BeginWrite, FinishWrite, Delete,
      Rename, MakeDirectory, MoveDirectory, Edit, HandleEvent, WalkThrows, Terminate, EventThread, Leave, Sleep,
      WaitForEarliest, TakeDue, LookAgain, UseErased, Decide, HashSource,
      FinishReload, RemoveMissing, WorkDone, Tick, StartWatching, StartFails,
      StopBegin, Stopper, StopWatcher, StopNotify, StopJoin, sourceVars
<1>3. stopper = "no"
  BY <1>1 DEF Next, vars, Deployer, MoveIn, BeginWrite, FinishWrite, Delete,
      Rename, MakeDirectory, MoveDirectory, Edit, HandleEvent, WalkThrows, Terminate, EventThread, Leave, Sleep,
      WaitForEarliest, TakeDue, LookAgain, UseErased, Decide, HashSource,
      FinishReload, RemoveMissing, WorkDone, Tick, StartWatching, StartFails,
      StopBegin, Stopper, StopWatcher, StopNotify, StopJoin, stopVars
<1>4. at # "terminated"
  BY <1>1 DEF Next, vars, Deployer, MoveIn, BeginWrite, FinishWrite, Delete,
      Rename, MakeDirectory, MoveDirectory, Edit, HandleEvent, QueueFileEvent, WalkThrows,
      Terminate, EventThread, Leave, Sleep, WaitForEarliest, TakeDue, LookAgain,
      UseErased, Decide, HashSource, FinishReload, RemoveMissing, WorkDone, Tick,
      StartWatching, StartFails, StopBegin, Stopper, StopWatcher, StopNotify, StopJoin
<1> QED
  BY <1>2, <1>3, <1>4 DEF Following

LEMMA KernelGrows ==
  ASSUME NEW p \in Paths, disk'[p] = disk[p],
         UNCHANGED <<pending, at, key, kind, reloads, removals, hashed, active>>,
         \A x : Has(kernel, x) => Has(kernel', x),
         Has(kernel', Written(p)) => Has(kernel, Written(p)),
         EndsGone(kernel, p) => EndsGone(kernel', p)
  PROVE  (Withdrawn(p) => Withdrawn(p)') /\ (Deployed(p) => Deployed(p)')
<1>1. Rescanning => Rescanning'
  BY DEF Rescanning
<1>2. Withdrawing(p) => Withdrawing(p)'
  BY DEF Withdrawing
<1>3. Noted(p) => Noted(p)'
  BY DEF Noted
<1>4. /\ Exists(p)' <=> Exists(p)
      /\ Served(p)' <=> Served(p)
      /\ Loading(p)' <=> Loading(p)
  BY DEF Exists, Served, Loading, Plugin
<1> QED
  BY <1>1, <1>2, <1>3, <1>4 DEF Withdrawn, Deployed

\* Every edit of a watched path is told to the kernel.
LEMMA EditKeeps ==
  ASSUME Shape, Following', Deployer, NEW p \in Paths
  PROVE  (Withdrawn(p) => Withdrawn(p)') /\ (Deployed(p) => Deployed(p)')
<1>0. kernel \in Seq(KernelEvent) /\ disk \in [Paths -> Contents \cup {Absent}]
  BY DEF Shape
<1>a. ~missed'
  BY DEF Following
<1>c. \A q \in Paths : \A c \in Offers[q] : c # Absent
  BY EventsAssumption, CatalogAssumption DEF EventsAssumption, CatalogAssumption
<1>1. ASSUME NEW q \in Paths, NEW c \in Offers[q], MoveIn(q, c) \/ FinishWrite(q, c)
      PROVE  (Withdrawn(p) => Withdrawn(p)') /\ (Deployed(p) => Deployed(p)')
  <2>1. /\ disk' = [disk EXCEPT ![q] = c] /\ kernel' = Report(kernel, "written", q)
        /\ missed' = (missed \/ ~Watched(q))
        /\ UNCHANGED <<pending, at, key, kind, reloads, removals, hashed, active>>
    BY <1>1 DEF MoveIn, FinishWrite, Edit, workVars
  <2>2. Watched(q)
    BY <1>a, <2>1
  <2>3. kernel' = Enqueue(kernel, Written(q)) /\ Written(q) \in KernelEvent
    BY <2>1, <2>2, EventsTyped DEF Report, Written
  <2>4. CASE p = q
    <3>1. Exists(p)'
      BY <1>0, <1>c, <2>1, <2>4 DEF Exists
    <3>2. Has(kernel', Written(p)) \/ Has(kernel', Overflow)
      BY <1>0, <2>3, <2>4, EnqueueFacts
    <3>3. (Rescanning \/ Noted(p))'
      BY <3>2 DEF Rescanning, Noted
    <3> QED
      BY <3>1, <3>3 DEF Withdrawn, Deployed
  <2>5. CASE p # q
    <3>1. disk'[p] = disk[p]
      BY <1>0, <2>1, <2>5
    <3>2. Written(q) # Written(p)
      BY <2>5, EventsDiffer
    <3>3. /\ \A x : Has(kernel, x) => Has(kernel', x)
          /\ Has(kernel', Written(p)) => Has(kernel, Written(p))
          /\ EndsGone(kernel, p) => EndsGone(kernel', p)
      BY <1>0, <2>3, <3>2, EnqueueFacts
    <3> QED
      BY <2>1, <3>1, <3>3, KernelGrows
  <2> QED
    BY <2>4, <2>5
<1>2. ASSUME NEW q \in Paths, NEW c \in Offers[q], BeginWrite(q, c)
      PROVE  (Withdrawn(p) => Withdrawn(p)') /\ (Deployed(p) => Deployed(p)')
  <2>1. /\ disk' = [disk EXCEPT ![q] = c] /\ kernel' = kernel /\ ~Loads(c)
        /\ UNCHANGED <<pending, at, key, kind, reloads, removals, hashed, active>>
    BY <1>2 DEF BeginWrite, Edit, workVars
  <2>2. CASE p = q
    <3>1. disk'[p] = c
      BY <1>0, <2>1, <2>2
    <3>2. Exists(p)' /\ ~Loads(disk[p])'
      BY <1>c, <2>1, <3>1 DEF Exists, Loads
    <3> QED
      BY <3>2 DEF Withdrawn, Deployed
  <2>3. CASE p # q
    <3>1. disk'[p] = disk[p]
      BY <1>0, <2>1, <2>3
    <3> QED
      BY <2>1, <3>1, KernelGrows
  <2> QED
    BY <2>2, <2>3
<1>3. ASSUME NEW q \in Paths, Delete(q)
      PROVE  (Withdrawn(p) => Withdrawn(p)') /\ (Deployed(p) => Deployed(p)')
  <2>1. /\ disk' = [disk EXCEPT ![q] = Absent] /\ kernel' = Report(kernel, "gone", q)
        /\ missed' = (missed \/ ~Watched(q))
        /\ UNCHANGED <<pending, at, key, kind, reloads, removals, hashed, active>>
    BY <1>3 DEF Delete, Edit, workVars
  <2>2. Watched(q)
    BY <1>a, <2>1
  <2>3. kernel' = Enqueue(kernel, Removed(q)) /\ Removed(q) \in KernelEvent
    BY <2>1, <2>2, EventsTyped DEF Report, Removed
  <2>4. CASE p = q
    <3>1. ~Exists(p)'
      BY <1>0, <2>1, <2>4 DEF Exists
    <3>2. EndsGone(kernel', p) \/ Has(kernel', Overflow)
      BY <1>0, <2>3, <2>4, EnqueueFacts
    <3>3. (Rescanning \/ Withdrawing(p))'
      BY <3>2 DEF Rescanning, Withdrawing
    <3> QED
      BY <3>1, <3>3 DEF Withdrawn, Deployed
  <2>5. CASE p # q
    <3>1. disk'[p] = disk[p]
      BY <1>0, <2>1, <2>5
    <3>2. Removed(q) # Written(p)
      BY EventsDiffer
    <3>3. /\ \A x : Has(kernel, x) => Has(kernel', x)
          /\ Has(kernel', Written(p)) => Has(kernel, Written(p))
          /\ EndsGone(kernel, p) => EndsGone(kernel', p)
      BY <1>0, <2>3, <3>2, EnqueueFacts
    <3> QED
      BY <2>1, <3>1, <3>3, KernelGrows
  <2> QED
    BY <2>4, <2>5
<1>4. CASE MakeDirectory
  <2>1. /\ kernel' = Enqueue(kernel, <<"directory">>) \/ kernel' = kernel
        /\ disk'[p] = disk[p]
        /\ UNCHANGED <<pending, at, key, kind, reloads, removals, hashed, active>>
    BY <1>4 DEF MakeDirectory, workVars
  <2>2. <<"directory">> # Written(p)
    BY DEF Written
  <2>3. /\ \A x : Has(kernel, x) => Has(kernel', x)
        /\ Has(kernel', Written(p)) => Has(kernel, Written(p))
        /\ EndsGone(kernel, p) => EndsGone(kernel', p)
    BY <1>0, <2>1, <2>2, EnqueueFacts, EventsTyped
  <2> QED
    BY <2>1, <2>3, KernelGrows
<1>5. CASE MoveDirectory
  <2>1. /\ kernel' = Enqueue(kernel, <<"moved">>) \/ kernel' = kernel
        /\ UNCHANGED <<pending, at, key, kind, reloads, removals, hashed, active>>
        /\ disk' = [q \in Paths |-> IF q \in Nested THEN Absent ELSE disk[q]]
        /\ \A q \in Nested : ~Exists(q)
    BY <1>a, <1>5 DEF MoveDirectory, workVars
  <2>2. disk'[p] = disk[p]
    BY <2>1 DEF Exists
  <2>3. <<"moved">> # Written(p) /\ <<"moved">> \in KernelEvent
    BY EventsTyped DEF Written
  <2>4. /\ \A x : Has(kernel, x) => Has(kernel', x)
        /\ Has(kernel', Written(p)) => Has(kernel, Written(p))
        /\ EndsGone(kernel, p) => EndsGone(kernel', p)
    BY <1>0, <2>1, <2>3, EnqueueFacts
  <2> QED
    BY <2>1, <2>2, <2>4, KernelGrows
<1> QED
  BY <1>a, <1>1, <1>2, <1>3, <1>4, <1>5 DEF Deployer, Rename

LEMMA QueueFacts ==
  ASSUME running, NEW k, NEW eventKind, QueueFileEvent(k, eventKind)
  PROVE  /\ \E e \in pending' : e.key = k /\ e.kind = eventKind
         /\ \A e \in pending : e.key # k => e \in pending'
         /\ at = "decide" => at' = "decide"
         /\ at = "stage" => at' = "stage"
<1>1. /\ pending' = Merged([key |-> k, kind |-> eventKind, left |-> Delay(eventKind)])
      /\ at' = IF at = "asleep" THEN "select" ELSE at
  BY DEF QueueFileEvent, MayQueue
<1>2. \E e \in pending' : e.key = k /\ e.kind = eventKind
  <2> DEFINE new == [key |-> k, kind |-> eventKind, left |-> Delay(eventKind)]
  <2>1. new.key = k /\ new.kind = eventKind
    OBVIOUS
  <2>2. new \in pending'
    BY <1>1 DEF Merged
  <2> QED
    BY <2>1, <2>2
<1>3. \A e \in pending : e.key # k => e \in pending'
  BY <1>1 DEF Merged
<1>4. (at = "decide" => at' = "decide") /\ (at = "stage" => at' = "stage")
  BY <1>1
<1> QED
  BY <1>2, <1>3, <1>4

\* The watcher thread passes every event on.
LEMMA HandleKeeps ==
  ASSUME Shape, Phases, Following, HandleEvent, NEW p \in Paths
  PROVE  (Withdrawn(p) => Withdrawn(p)') /\ (Deployed(p) => Deployed(p)')
<1>0. running
  BY DEF Following, Phases, HandleEvent
<1>1. /\ kernel' = Tail(kernel) /\ kernel # <<>> /\ kernel \in Seq(KernelEvent)
      /\ UNCHANGED <<disk, key, kind, reloads, removals, hashed, active>>
  BY DEF HandleEvent, Shape, workVars
<1>2. Rescan \notin Paths
  BY EventsAssumption DEF EventsAssumption
<1> DEFINE head == Head(kernel)
<1>3. /\ \A x : Has(kernel, x) => head = x \/ Has(kernel', x)
      /\ \A x : Has(kernel', x) => Has(kernel, x)
      /\ Has(kernel, head)
      /\ EndsGone(kernel, p) => EndsGone(kernel', p) \/ (head = Removed(p) /\ ~Has(kernel', Written(p)))
  <2>1. Has(kernel, head)
    BY <1>1, HeadTailProperties, LenProperties, EmptySeq DEF Has
  <2> QED
    BY <1>1, <2>1, TailFacts
<1> HIDE DEF head
<1>4. ASSUME NEW q \in Paths, head = Written(q), QueueFileEvent(q, "modified")
      PROVE  (Withdrawn(p) => Withdrawn(p)') /\ (Deployed(p) => Deployed(p)')
  <2>1. /\ \E e \in pending' : e.key = q /\ e.kind = "modified"
        /\ \A e \in pending : e.key # q => e \in pending'
        /\ at = "decide" => at' = "decide"
        /\ at = "stage" => at' = "stage"
    BY <1>0, <1>4, QueueFacts
  <2>2. Rescanning => Rescanning'
    BY <1>1, <1>2, <1>3, <1>4, <2>1, EventsDiffer DEF Rescanning
  <2>3. Withdrawing(p) => Withdrawing(p)'
    <3>1. EndsGone(kernel, p) => EndsGone(kernel', p)
      BY <1>3, <1>4, EventsDiffer
    <3>2. ~Has(kernel, Written(p)) => p # q /\ ~Has(kernel', Written(p))
      BY <1>3, <1>4
    <3> QED
      BY <1>1, <2>1, <3>1, <3>2 DEF Withdrawing
  <2>4. Noted(p) => Noted(p)'
    BY <1>1, <1>3, <1>4, <2>1, EventsDiffer DEF Noted
  <2>5. Loading(p) => Loading(p)'
    BY <1>1, <2>1 DEF Loading
  <2> QED
    BY <1>1, <2>2, <2>3, <2>4, <2>5 DEF Withdrawn, Deployed, Exists, Served, Plugin
<1>5. ASSUME NEW q \in Paths, head = Removed(q), QueueFileEvent(q, "removed")
      PROVE  (Withdrawn(p) => Withdrawn(p)') /\ (Deployed(p) => Deployed(p)')
  <2>1. /\ \E e \in pending' : e.key = q /\ e.kind = "removed"
        /\ \A e \in pending : e.key # q => e \in pending'
        /\ at = "decide" => at' = "decide"
        /\ at = "stage" => at' = "stage"
    BY <1>0, <1>5, QueueFacts
  <2>2. Rescanning => Rescanning'
    BY <1>1, <1>2, <1>3, <1>5, <2>1, EventsDiffer DEF Rescanning
  <2>3. Withdrawing(p) => Withdrawing(p)'
    <3>1. EndsGone(kernel, p) =>
            EndsGone(kernel', p) \/ (p = q /\ ~Has(kernel', Written(p)))
      BY <1>3, <1>5, EventsDiffer
    <3>2. ~Has(kernel, Written(p)) => ~Has(kernel', Written(p))
      BY <1>3
    <3>3. ASSUME NEW e \in pending, e.key = p, e.kind = "removed"
          PROVE  \E f \in pending' : f.key = p /\ f.kind = "removed"
      BY <2>1, <3>3
    <3> QED
      BY <1>1, <2>1, <3>1, <3>2, <3>3 DEF Withdrawing
  <2>4. Noted(p) => Noted(p)'
    BY <1>1, <1>3, <1>5, <2>1, EventsDiffer DEF Noted
  <2>5. Loading(p) => Loading(p)'
    BY <1>1, <2>1 DEF Loading
  <2> QED
    BY <1>1, <2>2, <2>3, <2>4, <2>5 DEF Withdrawn, Deployed, Exists, Served, Plugin
<1>6. ASSUME head = Overflow, QueueFileEvent(Rescan, "rescan")
      PROVE  (Withdrawn(p) => Withdrawn(p)') /\ (Deployed(p) => Deployed(p)')
  <2>1. Rescanning'
    BY <1>0, <1>6, QueueFacts DEF Rescanning
  <2> QED
    BY <2>1 DEF Withdrawn, Deployed
<1>7. ASSUME head \in {<<"directory">>, <<"moved">>}, UNCHANGED <<pending, at, notified>>
      PROVE  (Withdrawn(p) => Withdrawn(p)') /\ (Deployed(p) => Deployed(p)')
  <2>1. head # Written(p) /\ head # Removed(p) /\ head # Overflow
    BY <1>7 DEF Written, Removed, Overflow
  <2>2. Rescanning => Rescanning'
    BY <1>1, <1>3, <1>7, <2>1 DEF Rescanning
  <2>3. Withdrawing(p) => Withdrawing(p)'
    BY <1>1, <1>3, <1>7, <2>1 DEF Withdrawing
  <2>4. Noted(p) => Noted(p)'
    BY <1>1, <1>3, <1>7, <2>1 DEF Noted
  <2>5. Loading(p) => Loading(p)'
    BY <1>1, <1>7 DEF Loading
  <2> QED
    BY <1>1, <2>2, <2>3, <2>4, <2>5 DEF Withdrawn, Deployed, Exists, Served, Plugin
<1> QED
  BY <1>4, <1>5, <1>6, <1>7, HandleCases DEF head
-----------------------------------------------------------------------------
(* The event thread handles what it takes *)

\* What is served when the plugins on disk do not compete.
Own ==
    /\ \A r \in active : /\ r = Plugin(r.path, r.lib) /\ r.path \in Paths
                         /\ r.lib \in Offers[r.path] /\ Loads(r.lib)
    /\ \A r, s \in active : r.path = s.path => r = s
    /\ \A p \in Paths : Exists(p) => disk[p] \in Offers[p]
    /\ at = "stage" => hashed \in Offers[key]

\* Then no candidate is refused for its name or its keys.
LEMMA OwnAccepted ==
  ASSUME OffersApart, Own, NEW p \in Paths, NEW c \in Offers[p], Loads(c)
  PROVE  Accepts(active, Plugin(p, c))
<1> DEFINE new == Plugin(p, c)
<1>1. new.path = p /\ new.lib = c
  BY DEF Plugin
<1>2. \A r \in Replacing(active, new) :
         /\ r.path \in Paths /\ r.lib \in Offers[r.path] /\ Loads(r.lib)
  BY <1>1 DEF Replacing, Own
<1>3. \A r, s \in Replacing(active, new) : r.path = s.path => r = s
  BY <1>1 DEF Replacing, Own
<1> HIDE DEF new
<1>4. \A r \in active : r.path = new.path <=> NameOf(r.lib) = NameOf(new.lib)
  BY <1>1 DEF Own, OffersApart
<1>5. \A r \in Replacing(active, new) : Library[r.lib].wellFormed
  BY <1>2 DEF OffersApart
<1>6. \A r, s \in Replacing(active, new) :
         r # s /\ Library[r.lib].kind = Library[s.lib].kind
           => Library[r.lib].keys \cap Library[s.lib].keys = {}
  BY <1>2, <1>3 DEF OffersApart
<1> QED
  BY <1>4, <1>5, <1>6 DEF Accepts, Builds, new

LEMMA WaitingKeeps ==
  ASSUME Leave \/ Sleep \/ WaitForEarliest \/ LookAgain \/ UseErased \/ StartFails,
         at' # "terminated", NEW p \in Paths
  PROVE  (Withdrawn(p) => Withdrawn(p)') /\ (Deployed(p) => Deployed(p)')
<1>1. /\ UNCHANGED <<kernel, pending, disk, reloads, removals, hashed, active>>
      /\ at \notin {"decide", "stage"}
  BY DEF Leave, Sleep, WaitForEarliest, LookAgain, UseErased, StartFails, Terminate,
         sourceVars, workVars
<1>2. (Rescanning => Rescanning') /\ (Noted(p) => Noted(p)')
  BY <1>1 DEF Rescanning, Noted
<1>3. (Withdrawing(p) => Withdrawing(p)') /\ (Loading(p) => Loading(p)')
  BY <1>1 DEF Withdrawing, Loading
<1> QED
  BY <1>1, <1>2, <1>3 DEF Withdrawn, Deployed, Exists, Served, Plugin

LEMMA TakeKeeps ==
  ASSUME TakeDue, NEW p \in Paths
  PROVE  (Withdrawn(p) => Withdrawn(p)') /\ (Deployed(p) => Deployed(p)')
<1>1. PICK e \in pending : e.key = key /\ kind' = e.kind /\ pending' = pending \ {e}
  BY DEF TakeDue
<1>2. /\ UNCHANGED <<kernel, key, disk, reloads, removals, hashed, active>>
      /\ at = "waiting" /\ at' = "decide"
  BY DEF TakeDue, sourceVars, workVars
<1>3. \A f \in pending : f \in pending' \/ (at' = "decide" /\ key' = f.key /\ kind' = f.kind)
  BY <1>1, <1>2
<1>4. Rescanning => Rescanning'
  BY <1>2, <1>3 DEF Rescanning
<1>5. Noted(p) => Noted(p)'
  BY <1>2, <1>3 DEF Noted
<1>6. Withdrawing(p) => Withdrawing(p)'
  BY <1>2, <1>3 DEF Withdrawing
<1>7. Loading(p) => Loading(p)'
  BY <1>2 DEF Loading
<1> QED
  BY <1>2, <1>4, <1>5, <1>6, <1>7 DEF Withdrawn, Deployed, Exists, Served, Plugin

LEMMA DecideKeeps ==
  ASSUME Shape, Following', Decide, NEW p \in Paths
  PROVE  (Withdrawn(p) => Withdrawn(p)') /\ (Deployed(p) => Deployed(p)')
<1>1. /\ UNCHANGED <<kernel, pending, key, disk, hashed, active>>
      /\ at = "decide" /\ at' = "work" /\ reloads = {} /\ removals = {}
  BY DEF Decide, Shape
<1>2. ~missed' /\ Rescan \notin Paths
  BY EventsAssumption DEF Following, EventsAssumption
<1>3. /\ Exists(p)' <=> Exists(p)
      /\ Served(p)' <=> Served(p)
      /\ disk'[p] = disk[p]
  BY <1>1 DEF Exists, Served, Plugin
<1> DEFINE stays == \/ Has(kernel, Overflow)
                    \/ \E e \in pending : e.key = Rescan
           noted == \/ Has(kernel, Written(p)) \/ Has(kernel, Removed(p))
                    \/ \E e \in pending : e.key = p
           going == \/ EndsGone(kernel, p)
                    \/ /\ ~Has(kernel, Written(p))
                       /\ \E e \in pending : e.key = p /\ e.kind = "removed"
<1>4. /\ Rescanning <=> stays \/ key = Rescan
      /\ stays => Rescanning'
      /\ Noted(p) <=> noted \/ key = p
      /\ noted => Noted(p)'
      /\ Withdrawing(p) <=> going \/ (key = p /\ kind = "removed")
      /\ going => Withdrawing(p)'
      /\ p \in removals' => Withdrawing(p)'
      /\ p \in reloads' => Loading(p)'
      /\ p \notin removals /\ ~Loading(p)
  BY <1>1 DEF Rescanning, Noted, Withdrawing, Loading
<1> HIDE DEF stays, noted, going
<1>5. CASE kind = "rescan"
  <2>1. /\ reloads' = {q \in Paths : Exists(q)}
        /\ removals' = Missing({q \in Paths : Exists(q)})
    BY <1>2, <1>5 DEF Decide
  <2>2. Exists(p) => p \in reloads' /\ p \notin removals'
    BY <2>1 DEF Missing
  <2>3. ~Exists(p) /\ (\E r \in active : r.path = p) => p \in removals'
    BY <2>1 DEF Missing
  <2>4. Withdrawn(p)'
    BY <1>1, <1>3, <1>4, <2>3 DEF Withdrawn
  <2>5. Deployed(p)'
    BY <1>3, <1>4, <2>2 DEF Deployed
  <2> QED
    BY <2>4, <2>5
<1>6. CASE kind # "rescan" /\ key # p
  <2>1. key # Rescan /\ p \notin reloads' /\ p \notin removals'
    BY <1>1, <1>6 DEF Shape, Decide
  <2>2. Withdrawn(p) => Withdrawn(p)'
    BY <1>1, <1>3, <1>4, <1>6, <2>1 DEF Withdrawn
  <2>3. Deployed(p) => Deployed(p)'
    BY <1>3, <1>4, <1>6, <2>1 DEF Deployed
  <2> QED
    BY <2>2, <2>3
<1>7. CASE kind # "rescan" /\ key = p
  <2>1. key # Rescan
    BY <1>1, <1>7 DEF Shape
  <2>2. /\ Exists(p) => p \in reloads' /\ p \notin removals'
        /\ ~Exists(p) /\ kind = "removed" => p \in removals'
    BY <1>1, <1>7 DEF Decide, Shape, EventKinds
  <2>3. Withdrawn(p) => Withdrawn(p)'
    BY <1>1, <1>3, <1>4, <1>7, <2>1, <2>2 DEF Withdrawn
  <2>4. Deployed(p)'
    BY <1>3, <1>4, <2>2 DEF Deployed
  <2> QED
    BY <2>3, <2>4
<1> QED
  BY <1>5, <1>6, <1>7

LEMMA HashKeeps ==
  ASSUME HashSource, NEW p \in Paths
  PROVE  (Withdrawn(p) => Withdrawn(p)') /\ (Deployed(p) => Deployed(p)')
<1>1. /\ UNCHANGED <<kernel, pending, disk, removals, active>>
      /\ at = "work"
  BY DEF HashSource, sourceVars
<1>2. PICK q \in reloads :
        /\ reloads' = reloads \ {q}
        /\ IF Exists(q) /\ Plugin(q, disk[q]) \notin active
           THEN at' = "stage" /\ key' = q /\ hashed' = disk[q]
           ELSE UNCHANGED <<at, key, hashed>>
  BY DEF HashSource
<1>3. (Rescanning => Rescanning') /\ (Noted(p) => Noted(p)')
  BY <1>1 DEF Rescanning, Noted
<1>4. Withdrawing(p) => Withdrawing(p)'
  BY <1>1 DEF Withdrawing
<1>5. Loading(p) /\ Exists(p) => Loading(p)' \/ Served(p)
  BY <1>1, <1>2 DEF Loading, Served, Exists, Plugin
<1> QED
  BY <1>1, <1>3, <1>4, <1>5 DEF Withdrawn, Deployed, Exists, Served, Plugin

LEMMA ReloadKeeps ==
  ASSUME Shape, FinishReload, NEW p \in Paths
  PROVE  (Withdrawn(p) => Withdrawn(p)') /\ (OffersApart /\ Own /\ Deployed(p) => Deployed(p)')
<1>1. /\ UNCHANGED <<kernel, pending, disk, key, reloads, removals>>
      /\ at = "stage" /\ at' = "work" /\ key \in Paths /\ hashed \in Contents
      /\ disk \in [Paths -> Contents \cup {Absent}]
  BY DEF FinishReload, sourceVars, Shape
<1>2. (Rescanning => Rescanning') /\ (Noted(p) => Noted(p)')
  BY <1>1 DEF Rescanning, Noted
<1>3. Withdrawing(p) => Withdrawing(p)'
  BY <1>1 DEF Withdrawing
<1>4. Absent \notin Contents
  BY CatalogAssumption DEF CatalogAssumption
<1>5. Plugin(key, hashed).path = key
  BY DEF Plugin
<1>6. \A r \in active' : r \in active \/ (r.path = key /\ disk[key] = hashed)
  BY <1>5 DEF FinishReload, Publishable, Replacing
<1>7. Withdrawn(p) => Withdrawn(p)'
  <2>1. (\A r \in active : r.path # p) /\ ~Exists(p) => \A r \in active' : r.path # p
    BY <1>1, <1>4, <1>6 DEF Exists
  <2> QED
    BY <1>1, <1>2, <1>3, <2>1 DEF Withdrawn, Exists
<1>8. ASSUME OffersApart, Own, Deployed(p) PROVE Deployed(p)'
  <2>1. Served(p) => Served(p)'
    <3>1. CASE key = p /\ active' # active
      BY <1>1, <3>1 DEF FinishReload, Publishable, Replacing, Served
    <3>2. CASE key # p
      <4>1. Plugin(p, disk[p]).path = p
        BY DEF Plugin
      <4> QED
        BY <1>1, <3>2, <4>1 DEF FinishReload, Replacing, Served, Plugin
    <3>3. CASE active' = active
      BY <1>1, <3>3 DEF Served, Plugin
    <3> QED
      BY <3>1, <3>2, <3>3
  <2>2. ASSUME key = p, hashed = disk[p], Loads(disk[p]) PROVE Served(p)'
    <3>1. hashed \in Offers[key] /\ Loads(hashed)
      BY <1>1, <1>8, <2>2 DEF Own
    <3>2. Publishable
      BY <1>1, <1>8, <2>2, <3>1, OwnAccepted DEF Publishable
    <3> QED
      BY <1>1, <2>2, <3>2 DEF FinishReload, Replacing, Served, Plugin
  <2>3. Loading(p) /\ Loads(disk[p]) => Loading(p)' \/ Served(p)'
    BY <1>1, <2>2 DEF Loading
  <2> QED
    BY <1>1, <1>2, <1>8, <2>1, <2>3 DEF Deployed, Exists, Loads
<1> QED
  BY <1>7, <1>8

LEMMA RemoveKeeps ==
  ASSUME RemoveMissing, NEW p \in Paths
  PROVE  (Withdrawn(p) => Withdrawn(p)') /\ (Deployed(p) => Deployed(p)')
<1>1. /\ UNCHANGED <<kernel, pending, disk, at, key, kind, reloads, hashed>>
  BY DEF RemoveMissing, sourceVars
<1>2. PICK q \in removals : /\ removals' = removals \ {q}
                            /\ active' = {r \in active : r.path # q}
  BY DEF RemoveMissing
<1>3. (Rescanning => Rescanning') /\ (Noted(p) => Noted(p)') /\ (Loading(p) => Loading(p)')
  BY <1>1 DEF Rescanning, Noted, Loading
<1>4. Withdrawing(p) => Withdrawing(p)' \/ p = q
  BY <1>1, <1>2 DEF Withdrawing
<1>5. p = q => \A r \in active' : r.path # p
  BY <1>2
<1>6. (\A r \in active : r.path # p) => \A r \in active' : r.path # p
  BY <1>2
<1>7. p \notin removals => p \notin removals' /\ (Served(p) => Served(p)')
  <2>1. Plugin(p, disk[p]).path = p
    BY DEF Plugin
  <2> QED
    BY <1>1, <1>2, <2>1 DEF Served, Plugin
<1>8. Withdrawn(p) => Withdrawn(p)'
  BY <1>1, <1>3, <1>4, <1>5, <1>6 DEF Withdrawn, Exists
<1>9. Deployed(p) => Deployed(p)'
  BY <1>1, <1>3, <1>7 DEF Deployed, Exists
<1> QED
  BY <1>8, <1>9

LEMMA IdleKeeps ==
  ASSUME WorkDone \/ StartWatching, NEW p \in Paths
  PROVE  (Withdrawn(p) => Withdrawn(p)') /\ (Deployed(p) => Deployed(p)')
<1>1. /\ UNCHANGED <<kernel, pending, disk, reloads, removals, hashed, active>>
      /\ at = "work" /\ reloads = {} /\ removals = {}
  BY DEF WorkDone, StartWatching, sourceVars, workVars
<1>2. (Rescanning => Rescanning') /\ (Noted(p) => Noted(p)')
  BY <1>1 DEF Rescanning, Noted
<1>3. (Withdrawing(p) => Withdrawing(p)') /\ ~Loading(p)
  BY <1>1 DEF Withdrawing, Loading
<1> QED
  BY <1>1, <1>2, <1>3 DEF Withdrawn, Deployed, Exists, Served, Plugin

LEMMA TickKeeps ==
  ASSUME Shape, Tick, NEW p \in Paths
  PROVE  (Withdrawn(p) => Withdrawn(p)') /\ (Deployed(p) => Deployed(p)')
<1>1. UNCHANGED <<kernel, at, key, kind, disk, reloads, removals, hashed, active>>
  BY DEF Tick, sourceVars, workVars
<1>2. \A e \in pending : \E f \in pending' : f.key = e.key /\ f.kind = e.kind
  BY TickFacts DEF Shape
<1>3. (Rescanning => Rescanning') /\ (Noted(p) => Noted(p)')
  BY <1>1, <1>2 DEF Rescanning, Noted
<1>4. (Withdrawing(p) => Withdrawing(p)') /\ (Loading(p) => Loading(p)')
  BY <1>1, <1>2 DEF Withdrawing, Loading
<1> QED
  BY <1>1, <1>3, <1>4 DEF Withdrawn, Deployed, Exists, Served, Plugin

LEMMA StepKeeps ==
  ASSUME Shape, Phases, [Next]_vars, Following, Following', NEW p \in Paths
  PROVE  /\ Withdrawn(p) => Withdrawn(p)'
         /\ OffersApart /\ Own /\ Deployed(p) => Deployed(p)'
<1>1. CASE UNCHANGED vars
  BY <1>1 DEF vars, workVars, Withdrawn, Deployed, Rescanning, Noted, Withdrawing,
              Loading, Exists, Served, Plugin
<1>2. ~StopBegin /\ ~Stopper /\ ~WalkThrows /\ at' # "terminated"
  BY DEF Following, StopBegin, Stopper, StopWatcher, StopNotify, StopJoin, WalkThrows,
         Terminate
<1> QED
  BY <1>1, <1>2, EditKeeps, HandleKeeps, WaitingKeeps, TakeKeeps, DecideKeeps,
     HashKeeps, ReloadKeeps, RemoveKeeps, IdleKeeps, TickKeeps
  DEF Next, EventThread

-----------------------------------------------------------------------------
(* The theorems *)

\* When every event has been handled, no plugin is served whose file is gone.
WithdrawnWhenQuiet ==
    Quiet /\ ~missed => \A p \in Paths : ~Exists(p) => \A r \in active : r.path # p

\* When nothing is left to do nothing is on its way.
LEMMA QuietFacts ==
  ASSUME Shape, Phases, Quiet, NEW p \in Paths
  PROVE  /\ stopper = "no" /\ removals = {}
         /\ ~Rescanning /\ ~Noted(p) /\ ~Withdrawing(p) /\ ~Loading(p)
<1>1. /\ stopper = "no" /\ kernel = <<>> /\ pending = {}
      /\ at \notin {"work", "stage", "decide", "terminated"}
  BY DEF Quiet, Phases
<1>2. reloads = {} /\ removals = {}
  BY <1>1 DEF Shape
<1>3. (\A x : ~Has(kernel, x)) /\ ~EndsGone(kernel, p)
  BY <1>1 DEF Has, EndsGone
<1> QED
  BY <1>1, <1>2, <1>3 DEF Rescanning, Noted, Withdrawing, Loading
LEMMA ShapeSafe == Spec => [](Shape /\ Phases)
BY ShapeInit, ShapeStep, PhasesStep, PTL DEF Spec

LEMMA WithdrawnInit == Init => WithdrawnInv
BY DEF Init, WithdrawnInv, Withdrawn

LEMMA WithdrawnStep == Shape /\ Phases /\ WithdrawnInv /\ [Next]_vars => WithdrawnInv'
<1> SUFFICES ASSUME Shape, Phases, WithdrawnInv, [Next]_vars, Following'
             PROVE  \A p \in Paths : Withdrawn(p)'
  BY DEF WithdrawnInv
<1>1. Following
  BY FollowingStep
<1> QED
  BY <1>1, StepKeeps DEF WithdrawnInv

\* Whatever the kernel merges or drops, however events of a path follow each
\* other, and whatever the deployer does while an update is made: once all is
\* handled, a deleted plugin is withdrawn (PluginRuntime.cpp, QueueFileEvent,
\* EventLoop and Reconcile).
THEOREM DeletedWithdrawn == Spec => []WithdrawnWhenQuiet
<1>1. Shape /\ Phases /\ WithdrawnInv => WithdrawnWhenQuiet
  <2> SUFFICES ASSUME Shape, Phases, WithdrawnInv, Quiet, ~missed,
                      NEW p \in Paths, ~Exists(p)
               PROVE  \A r \in active : r.path # p
    BY DEF WithdrawnWhenQuiet
  <2> QED
    BY QuietFacts DEF Quiet, WithdrawnInv, Following, Withdrawn
<1> QED
  BY <1>1, ShapeSafe, WithdrawnInit, WithdrawnStep, PTL DEF Spec

DeployedInv == Following => Own /\ \A p \in Paths : Deployed(p)

LEMMA DeployedInit == Init => DeployedInv
<1> SUFFICES ASSUME Init PROVE Own /\ \A p \in Paths : Deployed(p)
  BY DEF DeployedInv
<1>1. reloads = Paths /\ removals = {} /\ active = {} /\ at = "work"
  BY DEF Init
<1>2. \A p \in Paths : Exists(p) => disk[p] \in Offers[p]
  BY DEF Init, Exists
<1>3. \A p \in Paths : Deployed(p)
  BY <1>1 DEF Deployed, Loading
<1> QED
  BY <1>1, <1>2, <1>3 DEF Own

LEMMA OwnStep == Shape /\ Own /\ [Next]_vars /\ Following' => Own'
<1> SUFFICES ASSUME Shape, Own, [Next]_vars, ~missed' PROVE Own'
  BY DEF Following
<1>0. \A p \in Paths : Exists(p)' <=> disk'[p] # Absent
  BY DEF Exists
<1>1. ASSUME UNCHANGED <<disk, active>>,
             at' = "stage" => at = "stage" /\ UNCHANGED <<key, hashed>>
      PROVE  Own'
  BY <1>1 DEF Own, Exists, Plugin, Loads
<1>2. CASE Deployer
  <2>1. UNCHANGED <<active, at, key, hashed>>
    BY <1>2 DEF Deployer, MoveIn, BeginWrite, FinishWrite, Delete, Rename,
           MakeDirectory, MoveDirectory, Edit, workVars
  <2>2. \A p \in Paths : disk'[p] = disk[p] \/ disk'[p] = Absent \/ disk'[p] \in Offers[p]
    BY <1>2 DEF Shape, Deployer, MoveIn, BeginWrite, FinishWrite, Delete, Rename,
           MakeDirectory, MoveDirectory, Edit
  <2>3. \A p \in Paths : Exists(p)' => disk'[p] \in Offers[p]
    BY <1>0, <2>2 DEF Own, Exists
  <2> QED
    BY <2>1, <2>3 DEF Own, Plugin, Loads
<1>3. CASE HandleEvent
  <2>1. at' = at \/ at' = "select"
    BY <1>3 DEF HandleEvent, QueueFileEvent
  <2> QED
    BY <1>1, <1>3, <2>1 DEF HandleEvent, workVars
<1>4. CASE HashSource
  <2>1. PICK q \in reloads :
          IF Exists(q) /\ Plugin(q, disk[q]) \notin active
          THEN at' = "stage" /\ key' = q /\ hashed' = disk[q]
          ELSE UNCHANGED <<at, key, hashed>>
    BY <1>4 DEF HashSource
  <2>2. UNCHANGED <<disk, active>> /\ at = "work" /\ q \in Paths
    BY <1>4, <2>1 DEF HashSource, sourceVars, Shape
  <2>3. at' = "stage" => hashed' \in Offers[key']
    BY <2>1, <2>2 DEF Own
  <2> QED
    BY <2>2, <2>3 DEF Own, Exists, Plugin, Loads
<1>5. CASE FinishReload
  <2> DEFINE new == Plugin(key, hashed)
  <2>1. UNCHANGED disk /\ at = "stage" /\ at' # "stage" /\ key \in Paths
    BY <1>5 DEF FinishReload, sourceVars, Shape
  <2>2. new = Plugin(new.path, new.lib) /\ new.path = key /\ new.lib = hashed
    BY DEF Plugin
  <2> HIDE DEF new
  <2>3. CASE active' = active
    BY <1>1, <2>1, <2>3
  <2>4. CASE Loads(hashed) /\ active' = {r \in active : r.path # new.path} \cup {new}
    <3>1. hashed \in Offers[key]
      BY <2>1 DEF Own
    <3>2. \A r \in active' : /\ r = Plugin(r.path, r.lib) /\ r.path \in Paths
                             /\ r.lib \in Offers[r.path] /\ Loads(r.lib)
      BY <2>1, <2>2, <2>4, <3>1 DEF Own
    <3>3. \A r, s \in active' : r.path = s.path => r = s
      BY <2>4 DEF Own
    <3> QED
      BY <2>1, <3>2, <3>3 DEF Own, Exists, Plugin, Loads
  <2> QED
    BY <1>5, <2>3, <2>4 DEF FinishReload, Publishable, Replacing, new
<1>6. CASE RemoveMissing
  <2>1. UNCHANGED <<disk, at>> /\ at # "stage" /\ active' \subseteq active
    BY <1>6 DEF RemoveMissing, sourceVars
  <2> QED
    BY <2>1 DEF Own, Exists, Plugin, Loads
<1>7. CASE \/ Leave \/ Sleep \/ WaitForEarliest \/ TakeDue \/ LookAgain \/ UseErased
           \/ Decide \/ WorkDone \/ Tick \/ WalkThrows \/ StartWatching \/ StartFails
           \/ StopBegin \/ Stopper \/ UNCHANGED vars
  <2>1. UNCHANGED <<disk, active>>
    BY <1>7 DEF Leave, Sleep, WaitForEarliest, TakeDue, LookAgain, UseErased, Decide,
           WorkDone, Tick, WalkThrows, Terminate, StartWatching, StartFails, StopBegin,
           Stopper, StopWatcher, StopNotify, StopJoin, vars, sourceVars, workVars
  <2>2. at' = "stage" => at = "stage" /\ UNCHANGED <<key, hashed>>
    BY <1>7 DEF Leave, Sleep, WaitForEarliest, TakeDue, LookAgain, UseErased, Decide,
           WorkDone, Tick, WalkThrows, Terminate, StartWatching, StartFails, StopBegin,
           Stopper, StopWatcher, StopNotify, StopJoin, vars, workVars
  <2> QED
    BY <1>1, <2>1, <2>2
<1> QED
  BY <1>2, <1>3, <1>4, <1>5, <1>6, <1>7 DEF Next, EventThread

LEMMA DeployedStep ==
  ASSUME OffersApart
  PROVE  Shape /\ Phases /\ DeployedInv /\ [Next]_vars => DeployedInv'
<1> SUFFICES ASSUME Shape, Phases, DeployedInv, [Next]_vars, Following'
             PROVE  Own' /\ \A p \in Paths : Deployed(p)'
  BY DEF DeployedInv
<1>1. Following /\ Own /\ \A p \in Paths : Deployed(p)
  BY FollowingStep DEF DeployedInv
<1>2. Own'
  BY <1>1, OwnStep
<1>3. \A p \in Paths : Deployed(p)'
  BY <1>1, StepKeeps
<1> QED
  BY <1>2, <1>3

\* When the plugins deployed do not compete and none of the three excused
\* cases occurred, then once every event has been handled the plugins served
\* are those on disk, whatever the kernel queue dropped, however edits fell
\* between the hash and the publication of an update, and however late the
\* event thread was.
THEOREM UpToDate ==
  ASSUME OffersApart
  PROVE  Spec => []UpToDateWhenQuiet
<1>1. Shape /\ Phases /\ WithdrawnInv /\ DeployedInv => UpToDateWhenQuiet
  <2> SUFFICES ASSUME Shape, Phases, WithdrawnInv, DeployedInv, Quiet, ~missed,
                      NEW p \in Paths
               PROVE  Current(p)
    BY DEF UpToDateWhenQuiet, AllCurrent
  <2>1. Following
    BY QuietFacts DEF Quiet, Following
  <2>2. ~Exists(p) => \A r \in active : r.path # p
    BY <2>1, QuietFacts DEF WithdrawnInv, Withdrawn
  <2>3. Exists(p) /\ Loads(disk[p]) => Served(p)
    BY <2>1, QuietFacts DEF DeployedInv, Deployed
  <2> QED
    BY <2>2, <2>3 DEF Current
<1>2. Shape /\ Phases /\ DeployedInv /\ [Next]_vars => DeployedInv'
  BY DeployedStep
<1> QED
  BY <1>1, <1>2, ShapeSafe, WithdrawnInit, WithdrawnStep, DeployedInit, PTL DEF Spec

\* What StopWatching leaves.
StoppedInv ==
    /\ stopper # "no" => ~running /\ pending = {}
    /\ stopper \in {"notify", "join", "done"} => ~watching
    /\ stopper = "done" => at = "exited"

LEMMA StoppedStep == StoppedInv /\ [Next]_vars => StoppedInv'
<1> SUFFICES ASSUME StoppedInv, [Next]_vars PROVE StoppedInv'
  OBVIOUS
<1>1. CASE Deployer
  BY <1>1 DEF Deployer, MoveIn, BeginWrite, FinishWrite, Delete, Rename,
         MakeDirectory, MoveDirectory, Edit, stopVars, StoppedInv
<1>2. CASE HandleEvent
  <2>1. UNCHANGED <<stopper, running, watching>>
    BY <1>2 DEF HandleEvent, stopVars
  <2>2. ~running => pending' = pending /\ at' = at
    BY <1>2 DEF HandleEvent, QueueFileEvent, MayQueue
  <2> QED
    BY <2>1, <2>2 DEF StoppedInv
<1>3. CASE EventThread
  <2>1. UNCHANGED <<stopper, running, watching>> /\ at # "exited"
    BY <1>3 DEF EventThread, Leave, Sleep, WaitForEarliest, TakeDue, LookAgain,
           UseErased, Decide, HashSource, FinishReload, RemoveMissing, WorkDone, stopVars
  <2>2. pending = {} => pending' = {}
    BY <1>3 DEF EventThread, Leave, Sleep, WaitForEarliest, TakeDue, LookAgain,
           UseErased, Decide, HashSource, FinishReload, RemoveMissing, WorkDone
  <2> QED
    BY <2>1, <2>2 DEF StoppedInv
<1>4. CASE Tick
  BY <1>4 DEF Tick, stopVars, StoppedInv
<1>5. CASE StartWatching \/ StartFails \/ StopBegin \/ WalkThrows
  BY <1>5 DEF StartWatching, StartFails, StopBegin, WalkThrows, Terminate, stopVars,
         StoppedInv
<1>6. CASE Stopper
  BY <1>6 DEF Stopper, StopWatcher, StopNotify, StopJoin, StoppedInv
<1>7. CASE UNCHANGED vars
  BY <1>7 DEF vars, stopVars, StoppedInv
<1> QED
  BY <1>1, <1>2, <1>3, <1>4, <1>5, <1>6, <1>7 DEF Next

\* When StopWatching returns, the event thread has ended and no event is left,
\* whatever the watcher was handling (PluginRuntime.cpp, StopWatching).
THEOREM StopLeavesNothing == Spec => []StoppedIsQuiet
<1>1. Init => StoppedInv
  BY DEF Init, StoppedInv
<1>2. StoppedInv => StoppedIsQuiet
  BY DEF StoppedInv, StoppedIsQuiet
<1> QED
  BY <1>1, <1>2, StoppedStep, PTL DEF Spec

-----------------------------------------------------------------------------
(* The limits *)

\* The kernel queues no more than its capacity and, then, one overflow event.
Bounded(queue) ==
    \/ Len(queue) <= Capacity
    \/ Len(queue) = Capacity + 1 /\ Has(queue, Overflow)

LEMMA EnqueueBounded ==
  ASSUME NEW queue \in Seq(KernelEvent), NEW event \in KernelEvent, Bounded(queue)
  PROVE  Enqueue(queue, event) \in Seq(KernelEvent) /\ Bounded(Enqueue(queue, event))
<1>1. Enqueue(queue, event) \in Seq(KernelEvent)
  BY EnqueueFacts
<1>2. Capacity \in Nat /\ Len(queue) \in Nat /\ DOMAIN queue = 1 .. Len(queue)
  BY EventsAssumption, LenProperties
<1>3. CASE Enqueue(queue, event) = queue
  BY <1>3
<1>4. CASE Len(queue) < Capacity /\ Enqueue(queue, event) = Append(queue, event)
  <2>1. Len(Append(queue, event)) = Len(queue) + 1
    BY AppendProperties
  <2>2. Len(queue) < Capacity
    BY <1>4
  <2>3. Len(Append(queue, event)) <= Capacity
    BY <1>2, <2>1, <2>2
  <2> QED
    BY <1>1, <1>4, <2>3 DEF Bounded
<1>5. CASE /\ ~(Len(queue) < Capacity) /\ ~Has(queue, Overflow)
           /\ Enqueue(queue, event) = Append(queue, Overflow)
  <2>1. Len(queue) <= Capacity
    BY <1>5 DEF Bounded
  <2>2. ~(Len(queue) < Capacity)
    BY <1>5
  <2>3. Len(Append(queue, Overflow)) = Len(queue) + 1
    BY EventsTyped, AppendProperties
  <2>4. Len(Append(queue, Overflow)) = Capacity + 1
    BY <1>2, <2>1, <2>2, <2>3
  <2>5. Has(Append(queue, Overflow), Overflow)
    BY EventsTyped, AppendFacts
  <2> QED
    BY <1>1, <1>5, <2>4, <2>5 DEF Bounded
<1> QED
  BY <1>1, <1>2, <1>3, <1>4, <1>5 DEF Enqueue, Has, Overflow

LEMMA ReportBounded ==
  ASSUME NEW queue \in Seq(KernelEvent), NEW op \in {"written", "gone"}, NEW p \in Paths,
         Bounded(queue)
  PROVE  Report(queue, op, p) \in Seq(KernelEvent) /\ Bounded(Report(queue, op, p))
<1>1. <<op, p>> \in KernelEvent
  BY DEF KernelEvent
<1> QED
  BY <1>1, EnqueueBounded DEF Report

LEMMA TailBounded ==
  ASSUME NEW queue \in Seq(KernelEvent), queue # <<>>, Bounded(queue)
  PROVE  Bounded(Tail(queue))
<1>1. Len(Tail(queue)) = Len(queue) - 1 /\ Len(queue) \in Nat
  BY HeadTailProperties, LenProperties
<1>2. Capacity \in Nat
  BY EventsAssumption
<1>3. CASE Len(queue) <= Capacity
  <2>1. Len(Tail(queue)) <= Capacity
    BY <1>1, <1>2, <1>3
  <2> QED
    BY <2>1 DEF Bounded
<1>4. CASE Len(queue) = Capacity + 1
  <2>1. Len(Tail(queue)) <= Capacity
    BY <1>1, <1>2, <1>4
  <2> QED
    BY <2>1 DEF Bounded
<1> QED
  BY <1>3, <1>4 DEF Bounded

LEMMA BoundedStep ==
  ASSUME Shape, Bounded(kernel), [Next]_vars
  PROVE  Bounded(kernel')
<1>0. kernel \in Seq(KernelEvent)
  BY DEF Shape
<1>1. CASE Deployer
  <2>1. ASSUME NEW p \in Paths, NEW c \in Offers[p], MoveIn(p, c) \/ FinishWrite(p, c)
        PROVE  Bounded(kernel')
    BY <1>0, <2>1, ReportBounded DEF MoveIn, FinishWrite, Edit
  <2>2. ASSUME NEW p \in Paths, NEW c \in Offers[p], BeginWrite(p, c)
        PROVE  Bounded(kernel')
    BY <2>2 DEF BeginWrite, Edit
  <2>3. ASSUME NEW p \in Paths, Delete(p) PROVE Bounded(kernel')
    BY <1>0, <2>3, ReportBounded DEF Delete, Edit
  <2>4. ASSUME NEW p \in Paths, NEW q \in Paths, Rename(p, q) PROVE Bounded(kernel')
    <3>1. /\ Report(kernel, "gone", p) \in Seq(KernelEvent)
          /\ Bounded(Report(kernel, "gone", p))
      BY <1>0, ReportBounded
    <3> QED
      BY <2>4, <3>1, ReportBounded DEF Rename
  <2>5. CASE MakeDirectory
    <3>1. Bounded(Enqueue(kernel, <<"directory">>))
      BY <1>0, EnqueueBounded, EventsTyped
    <3> QED
      BY <2>5, <3>1 DEF MakeDirectory
  <2>6. CASE MoveDirectory
    <3>1. Bounded(Enqueue(kernel, <<"moved">>))
      BY <1>0, EnqueueBounded, EventsTyped
    <3> QED
      BY <2>6, <3>1 DEF MoveDirectory
  <2> QED
    BY <1>1, <2>1, <2>2, <2>3, <2>4, <2>5, <2>6 DEF Deployer
<1>2. CASE HandleEvent
  BY <1>0, <1>2, TailBounded DEF HandleEvent
<1>3. CASE Stopper \/ WalkThrows \/ StartFails
  <2>1. Len(<<>>) = 0 /\ Capacity \in Nat
    BY EventsAssumption
  <2>2. Bounded(<<>>)
    BY <2>1 DEF Bounded
  <2> QED
    BY <1>3, <2>2 DEF Stopper, StopWatcher, StopNotify, StopJoin, WalkThrows, StartFails,
       Terminate
<1>4. CASE EventThread \/ Tick \/ StartWatching \/ StopBegin \/ UNCHANGED vars
  <2>1. kernel' = kernel
    BY <1>4 DEF EventThread, Leave, Sleep, WaitForEarliest, TakeDue, LookAgain, UseErased,
       Decide, HashSource, FinishReload, RemoveMissing, WorkDone, Tick, StartWatching,
       StopBegin, vars
  <2> QED
    BY <2>1
<1> QED
  BY <1>1, <1>2, <1>3, <1>4 DEF Next

\* pending_events_ has one entry per key.
OneEach(entries) == \A e, f \in entries : e.key = f.key => e = f

LEMMA OneEachStep ==
  ASSUME Shape, OneEach(pending), [Next]_vars
  PROVE  OneEach(pending')
<1>1. ASSUME pending' \subseteq pending PROVE OneEach(pending')
  BY <1>1 DEF OneEach
<1>2. ASSUME NEW k, NEW eventKind, QueueFileEvent(k, eventKind) PROVE OneEach(pending')
  <2> DEFINE e == [key |-> k, kind |-> eventKind, left |-> Delay(eventKind)]
  <2>1. pending' = pending \/ pending' = {f \in pending : f.key # e.key} \cup {e}
    BY <1>2 DEF QueueFileEvent, Merged
  <2> HIDE DEF e
  <2> QED
    BY <2>1 DEF OneEach
<1>3. CASE HandleEvent
  <2>1. \/ \E k, eventKind : QueueFileEvent(k, eventKind)
        \/ pending' = pending
    BY <1>3 DEF HandleEvent
  <2> QED
    BY <1>1, <1>2, <2>1
<1>4. CASE Tick
  <2> DEFINE Later(e) == [e EXCEPT !.left = e.left - 1]
  <2>1. pending' = {Later(e) : e \in pending}
    BY <1>4 DEF Tick
  <2>2. \A e \in Entry : Later(e).key = e.key
    BY DEF Entry
  <2>3. pending \subseteq Entry
    BY DEF Shape
  <2> HIDE DEF Later
  <2>4. \A e \in pending : Later(e).key = e.key
    BY <2>2, <2>3
  <2> QED
    BY <2>1, <2>4 DEF OneEach
<1>5. CASE TakeDue
  BY <1>1, <1>5 DEF TakeDue
<1>6. CASE StopBegin
  BY <1>1, <1>6 DEF StopBegin
<1>7. CASE EventThread /\ ~TakeDue
  BY <1>1, <1>7 DEF EventThread, Leave, Sleep, WaitForEarliest, LookAgain, UseErased,
     Decide, HashSource, FinishReload, RemoveMissing, WorkDone
<1>8. CASE StartWatching \/ StartFails \/ WalkThrows \/ Stopper \/ UNCHANGED vars
  BY <1>1, <1>8 DEF StartWatching, StartFails, WalkThrows, Terminate, Stopper,
     StopWatcher, StopNotify, StopJoin, vars
<1>9. CASE Deployer
  BY <1>1, <1>9 DEF Deployer, MoveIn, BeginWrite, FinishWrite, Delete, Rename,
     MakeDirectory, MoveDirectory, Edit
<1> QED
  BY <1>3, <1>4, <1>5, <1>6, <1>7, <1>8, <1>9 DEF Next

\* Where the actors are and what they work on.
SourceOK ==
    /\ subdirectory \in {"none", "unwatched", "watched"}
    /\ writing \subseteq Paths
    /\ edits \in 0 .. MaxEdits
FlagsOK == {missed, watching, running, notified, erasedRead} \subseteq BOOLEAN
WorkOK ==
    /\ at \in {"select", "asleep", "waiting", "decide", "work", "stage",
               "exited", "undefined", "terminated"}
    /\ key \in Paths \cup {Rescan}
    /\ kind \in EventKinds
    /\ hashed \in Contents \cup {Absent}
    /\ active \subseteq [path : Paths, lib : Contents]
    /\ stopper \in {"no", "watcher", "notify", "join", "done"}

LEMMA SourceStep ==
  ASSUME SourceOK, [Next]_vars
  PROVE  SourceOK'
<1>1. CASE Deployer
  <2>1. edits + 1 \in 0 .. MaxEdits \/ ~(edits < MaxEdits)
    BY EventsAssumption DEF SourceOK
  <2> QED
    BY <1>1, <2>1 DEF SourceOK, Deployer, MoveIn, BeginWrite, FinishWrite, Delete, Rename,
       MakeDirectory, MoveDirectory, Edit, MayEdit
<1>2. CASE HandleEvent
  BY <1>2 DEF SourceOK, HandleEvent, WatchedIfThere
<1>3. CASE EventThread
  BY <1>3 DEF SourceOK, EventThread, Leave, Sleep, WaitForEarliest, TakeDue, LookAgain,
     UseErased, Decide, HashSource, FinishReload, RemoveMissing, WorkDone, sourceVars
<1>4. CASE \/ Tick \/ WalkThrows \/ StartWatching \/ StartFails \/ StopBegin
           \/ Stopper \/ UNCHANGED vars
  BY <1>4 DEF SourceOK, Tick, WalkThrows, Terminate, StartWatching, WatchedIfThere,
     StartFails, StopBegin, Stopper, StopWatcher, StopNotify, StopJoin, sourceVars, vars
<1> QED
  BY <1>1, <1>2, <1>3, <1>4 DEF Next

LEMMA WorkStep ==
  ASSUME Shape, WorkOK, [Next]_vars
  PROVE  WorkOK'
<1>1. CASE Deployer
  BY <1>1 DEF WorkOK, Deployer, MoveIn, BeginWrite, FinishWrite, Delete, Rename,
     MakeDirectory, MoveDirectory, Edit, workVars, stopVars
<1>2. CASE HandleEvent
  BY <1>2 DEF WorkOK, HandleEvent, QueueFileEvent, workVars, stopVars
<1>3. CASE Leave \/ Sleep \/ LookAgain \/ UseErased \/ WorkDone
  BY <1>3 DEF WorkOK, Leave, Sleep, LookAgain, UseErased, WorkDone, workVars, stopVars
<1>4. CASE WaitForEarliest \/ TakeDue
  <2>1. \A e \in pending : e.key \in Paths \cup {Rescan} /\ e.kind \in EventKinds
    BY DEF Shape, Entry
  <2> QED
    BY <1>4, <2>1 DEF WorkOK, WaitForEarliest, TakeDue, workVars, stopVars
<1>5. CASE Decide \/ RemoveMissing
  BY <1>5 DEF WorkOK, Decide, RemoveMissing, stopVars
<1>6. CASE HashSource
  <2>1. \A p \in reloads : p \in Paths /\ disk[p] \in Contents \cup {Absent}
    BY DEF Shape
  <2> QED
    BY <1>6, <2>1 DEF WorkOK, HashSource, stopVars
<1>7. CASE FinishReload
  <2>1. Plugin(key, hashed) \in [path : Paths, lib : Contents]
    BY <1>7 DEF Shape, FinishReload, Plugin
  <2> QED
    BY <1>7, <2>1 DEF WorkOK, FinishReload, Replacing, stopVars
<1>8. CASE \/ Tick \/ WalkThrows \/ StartWatching \/ StartFails \/ StopBegin
           \/ Stopper \/ UNCHANGED vars
  BY <1>8 DEF WorkOK, Tick, WalkThrows, Terminate, StartWatching, StartFails, StopBegin,
     Stopper, StopWatcher, StopNotify, StopJoin, workVars, stopVars, vars
<1> QED
  BY <1>1, <1>2, <1>3, <1>4, <1>5, <1>6, <1>7, <1>8 DEF Next, EventThread

LEMMA FlagsStep ==
  ASSUME FlagsOK, [Next]_vars
  PROVE  FlagsOK'
<1>1. missed' \in BOOLEAN
  BY DEF FlagsOK, Next, vars, Deployer, MoveIn, BeginWrite, FinishWrite, Delete, Rename,
     MakeDirectory, MoveDirectory, Edit, HandleEvent, WalkThrows, Terminate, EventThread, Leave, Sleep, WaitForEarliest, TakeDue,
     LookAgain, UseErased, Decide, HashSource, FinishReload, RemoveMissing, WorkDone, Tick,
     StartWatching, StartFails, StopBegin, Stopper, StopWatcher, StopNotify, StopJoin,
     sourceVars
<1>2. watching' \in BOOLEAN /\ running' \in BOOLEAN
  BY DEF FlagsOK, Next, vars, Deployer, MoveIn, BeginWrite, FinishWrite, Delete, Rename,
     MakeDirectory, MoveDirectory, Edit, HandleEvent, WalkThrows, Terminate, EventThread, Leave, Sleep, WaitForEarliest, TakeDue,
     LookAgain, UseErased, Decide, HashSource, FinishReload, RemoveMissing, WorkDone, Tick,
     StartWatching, StartFails, StopBegin, Stopper, StopWatcher, StopNotify, StopJoin
<1>3. notified' \in BOOLEAN
  BY DEF FlagsOK, Next, vars, Deployer, MoveIn, BeginWrite, FinishWrite, Delete, Rename,
     MakeDirectory, MoveDirectory, Edit, HandleEvent, QueueFileEvent, WalkThrows, Terminate,
     EventThread, Leave, Sleep, WaitForEarliest, TakeDue, LookAgain, UseErased, Decide, HashSource, FinishReload,
     RemoveMissing, WorkDone, Tick, StartWatching, StartFails, StopBegin, Stopper,
     StopWatcher, StopNotify, StopJoin
<1>4. erasedRead' \in BOOLEAN
  BY DEF FlagsOK, Next, vars, Deployer, MoveIn, BeginWrite, FinishWrite, Delete, Rename,
     MakeDirectory, MoveDirectory, Edit, HandleEvent, WalkThrows, Terminate, EventThread, Leave, Sleep, WaitForEarliest, TakeDue,
     LookAgain, UseErased, Decide, HashSource, FinishReload, RemoveMissing, WorkDone, Tick,
     StartWatching, StartFails, StopBegin, Stopper, StopWatcher, StopNotify, StopJoin,
     stopVars
<1> QED
  BY <1>1, <1>2, <1>3, <1>4 DEF FlagsOK

EventsInv ==
    Shape /\ Bounded(kernel) /\ OneEach(pending) /\ SourceOK /\ FlagsOK /\ WorkOK

\* However the deployer and the threads interleave, the kernel queues no more
\* than its capacity and one overflow event, pending_events_ has one entry per
\* key, and what is served comes from a path.
THEOREM EventsStayTyped == Spec => []TypeOK
<1>1. Init => EventsInv
  <2> SUFFICES ASSUME Init PROVE EventsInv
    OBVIOUS
  <2>1. Shape
    BY ShapeInit
  <2>2. Bounded(kernel)
    <3>1. Len(<<>>) = 0 /\ Capacity \in Nat
      BY EventsAssumption
    <3> QED
      BY <3>1 DEF Init, Bounded
  <2>3. OneEach(pending)
    BY DEF Init, OneEach
  <2>4. SourceOK /\ WorkOK
    BY EventsAssumption DEF Init, SourceOK, WorkOK, EventKinds
  <2>5. FlagsOK
    BY DEF Init, FlagsOK
  <2> QED
    BY <2>1, <2>2, <2>3, <2>4, <2>5 DEF EventsInv
<1>2. EventsInv /\ [Next]_vars => EventsInv'
  <2> SUFFICES ASSUME EventsInv, [Next]_vars PROVE EventsInv'
    OBVIOUS
  <2>1. Shape' /\ Bounded(kernel') /\ OneEach(pending')
    BY ShapeStep, BoundedStep, OneEachStep DEF EventsInv
  <2>2. Bounded(kernel)' /\ OneEach(pending)'
    BY <2>1 DEF Bounded, OneEach
  <2>3. SourceOK' /\ FlagsOK' /\ WorkOK'
    BY SourceStep, FlagsStep, WorkStep DEF EventsInv
  <2> QED
    BY <2>1, <2>2, <2>3 DEF EventsInv
<1>3. EventsInv => TypeOK
  <2> SUFFICES ASSUME EventsInv PROVE TypeOK
    OBVIOUS
  <2>1. Len(kernel) <= Capacity + 1
    <3>1. Len(kernel) \in Nat /\ Capacity \in Nat
      BY EventsAssumption, LenProperties DEF EventsInv, Shape
    <3> QED
      BY <3>1 DEF EventsInv, Bounded
  <2> QED
    BY <2>1 DEF EventsInv, Shape, OneEach, SourceOK, FlagsOK, WorkOK, TypeOK
<1> QED
  BY <1>1, <1>2, <1>3, PTL DEF Spec
=============================================================================
