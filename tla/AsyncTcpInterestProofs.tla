----------------------- MODULE AsyncTcpInterestProofs -----------------------
(***************************************************************************)
(* The proof that the worker of an AsyncTcpSocket loses no interest, for   *)
(* any sockets and tasks and any maximum of the queue's semaphore.         *)
(***************************************************************************)
EXTENDS AsyncTcpProofs

(* Steps that no prover is named for are given a minute of SMT. *)
USE SMTT(60)

(* The interest of a future that has met EAGAIN is in the queue, in the    *)
(* list of the worker, or has been answered by a wake.                     *)
Kept(t) ==
  LET h == task[t].h
      k == task[t].k
  IN  \/ worker[h].at = "dead"
      \/ In([task |-> t, interest |-> k], interests_queue[h].vals)
      \/ In(t, IF k = "Read" THEN worker[h].reads ELSE worker[h].writes)
      \/ wakes[t] > 0

(* No interest that was pushed is forgotten. *)
InterestKept ==
  \A t \in Tasks : task[t].at \in {"adding", "pending"} => Kept(t)

(* A queue that holds interests is being drained, has a permit, or is      *)
(* about to get one.                                                       *)
QueueSignalled ==
  \A h \in Sockets :
    interests_queue[h].vals # <<>>
      => \/ worker[h].at \in {"drain", "draining", "dead"}
         \/ Signalled(interests_queue[h])
         \/ \E u \in Tasks : task[u].at = "adding" /\ task[u].h = h

(* A step of a task that registers no interest. *)
GoesOn(t) ==
  /\ task'[t].at \in {"idle", "polling"} /\ task[t].at # "adding"
  /\ UNCHANGED interests_queue

(* The two halves of registering one. *)
SameFuture(t) ==
  /\ task[t] \in FutureType /\ task[t].h \in Sockets
  /\ task'[t].h = task[t].h /\ task'[t].k = task[t].k
  /\ UNCHANGED wakes
  /\ \A g \in Sockets \ {task[t].h} : interests_queue'[g] = interests_queue[g]

(* add()'s push ... *)
Pushes(t) ==
  /\ SameFuture(t)
  /\ task[t].at # "adding" /\ task'[t].at = "adding"
  /\ interests_queue'[task[t].h].vals =
       Append(interests_queue[task[t].h].vals,
              [task |-> t, interest |-> task[t].k])

(* ... and its release. *)
Releases(t) ==
  /\ SameFuture(t)
  /\ task[t].at = "adding" /\ task'[t].at = "pending"
  /\ interests_queue'[task[t].h].vals = interests_queue[task[t].h].vals
  /\ Signalled(interests_queue'[task[t].h])

(* Every step of a task does one of these three. *)
LEMMA TaskSideFacts ==
  ASSUME WorkTypes, TaskTypes, NEW t \in Tasks, TaskSide(t)
  PROVE  /\ \A u \in Tasks \ {t} : task'[u] = task[u] /\ wakes'[u] = wakes[u]
         /\ GoesOn(t) \/ Pushes(t) \/ Releases(t)
  <1> DEFINE Goal ==
        /\ \A u \in Tasks \ {t} : task'[u] = task[u] /\ wakes'[u] = wakes[u]
        /\ GoesOn(t) \/ Pushes(t) \/ Releases(t)
             h == task[t].h
             item == [task |-> t, interest |-> task[t].k]
  <1>1. /\ task \in [Tasks -> [at : {"idle"}] \cup FutureType]
        /\ wakes \in [Tasks -> Nat]
        /\ interests_queue \in [Sockets -> QueueOf(ItemType)]
    BY DEF WorkTypes, TaskTypes
  <1>2. ASSUME Woken(t) PROVE Goal
    BY <1>1, <1>2, FutureOf DEF Woken, Idle, GoesOn, workVars, FutureType
  <1>3. ASSUME PollReady(t) PROVE Goal
    <2>1. /\ task' = [task EXCEPT ![t] = [at |-> "idle"]]
          /\ task[t].at = "polling"
          /\ UNCHANGED <<interests_queue, wakes>>
      BY <1>3, ZenonT(60) DEF PollReady
    <2> QED
      BY <1>1, <2>1 DEF GoesOn
  <1>4. ASSUME NEW r \in Replies, PollFails(t, r) PROVE Goal
    <2>1. /\ task' = [task EXCEPT ![t] = [at |-> "idle"]]
          /\ task[t].at = "polling"
          /\ UNCHANGED <<interests_queue, wakes>>
      BY <1>4, ZenonT(60) DEF PollFails, workVars
    <2> QED
      BY <1>1, <2>1 DEF GoesOn
  <1>5. ASSUME Cancel(t) PROVE Goal
    BY <1>1, <1>5 DEF Cancel, GoesOn, workVars
  <1>6. ASSUME NEW g \in Sockets, NEW k \in Interests, Start(t, g, k)
        PROVE  Goal
    BY <1>1, <1>6 DEF Start, GoesOn, workVars
  <1>7. ASSUME PollAgain(t) PROVE Goal
    <2>1. /\ task' = [task EXCEPT ![t].at = "adding"]
          /\ task[t].at = "polling"
          /\ interests_queue' = [interests_queue EXCEPT
                                   ![h] = PushBack(interests_queue[h], item)]
          /\ UNCHANGED wakes
      BY <1>7, ZenonT(60) DEF PollAgain
    <2>2. task[t] \in FutureType
      BY <2>1, FutureOf
    <2>3. /\ task'[t].at = "adding" /\ task'[t].h = h
          /\ task'[t].k = task[t].k
          /\ \A u \in Tasks \ {t} : task'[u] = task[u]
      BY <1>1, <2>1, <2>2 DEF FutureType
    <2>4. h \in Sockets
      BY <2>2 DEF FutureType
    <2>5. PushBack(interests_queue[h], item).vals =
            Append(interests_queue[h].vals, item)
      <3>1. interests_queue[h] \in QueueOf(ItemType)
        BY <1>1, <2>4, ZenonT(60)
      <3> HIDE DEF item
      <3> QED
        BY <3>1, ZenonT(60) DEF PushBack, QueueOf
    <2>6. /\ interests_queue'[h].vals = Append(interests_queue[h].vals, item)
          /\ \A g \in Sockets \ {h} : interests_queue'[g] = interests_queue[g]
      BY <1>1, <2>1, <2>4, <2>5, ZenonT(60)
    <2> QED
      BY <2>1, <2>2, <2>3, <2>4, <2>6, ZenonT(60) DEF Pushes, SameFuture
  <1>8. ASSUME PollPending(t) PROVE Goal
    <2>1. /\ task' = [task EXCEPT ![t].at = "pending"]
          /\ task[t].at = "adding"
          /\ interests_queue' = [interests_queue EXCEPT
                                   ![h] = ReleasePermit(interests_queue[h])]
          /\ UNCHANGED wakes
      BY <1>8, ZenonT(60) DEF PollPending
    <2>2. task[t] \in FutureType
      BY <2>1, FutureOf
    <2>3. /\ task'[t].at = "pending" /\ task'[t].h = h
          /\ task'[t].k = task[t].k
          /\ \A u \in Tasks \ {t} : task'[u] = task[u]
      BY <1>1, <2>1, <2>2 DEF FutureType
    <2>4. h \in Sockets
      BY <2>2 DEF FutureType
    <2>5. /\ interests_queue'[h] = ReleasePermit(interests_queue[h])
          /\ \A g \in Sockets \ {h} : interests_queue'[g] = interests_queue[g]
      BY <1>1, <2>1, <2>4
    <2>6. /\ interests_queue'[h].vals = interests_queue[h].vals
          /\ Signalled(interests_queue'[h])
      BY <1>1, <2>4, <2>5, ReleaseFacts
    <2> QED
      BY <2>1, <2>2, <2>3, <2>4, <2>5, <2>6, ZenonT(60)
      DEF Releases, SameFuture
  <1> HIDE DEF Goal
  <1>9. Goal
    BY <1>2, <1>3, <1>4, <1>5, <1>6, <1>7, <1>8 DEF TaskSide, PollStep
  <1> QED
    BY <1>9 DEF Goal

(* What is in a sequence after an item was put at its end, and after its   *)
(* first item was taken.                                                   *)
LEMMA InAppend ==
  ASSUME NEW S, NEW s \in Seq(S), NEW v
  PROVE  /\ In(v, Append(s, v))
         /\ \A x : In(x, s) => In(x, Append(s, v))
  BY DEF In

(* What is not taken stays. *)
LEMMA InTail ==
  ASSUME NEW S, NEW s \in Seq(S), s # <<>>, NEW x, In(x, s), x # Head(s)
  PROVE  In(x, Tail(s))
  <1>1. PICK n \in 1..Len(s) : s[n] = x
    BY DEF In
  <1>2. n # 1 /\ Len(s) \in Nat
    BY <1>1
  <1>3. Tail(s)[n - 1] = s[n] /\ n - 1 \in 1..Len(Tail(s))
    BY <1>1, <1>2
  <1> QED
    BY <1>1, <1>3 DEF In

(* A step of a worker keeps the interests. *)
LEMMA WorkerKeeps ==
  ASSUME WorkTypes, TaskTypes, NEW h \in Sockets, WorkerStep(h),
         NEW t \in Tasks, task[t].at # "idle", Kept(t)
  PROVE  Kept(t)'
  <1> DEFINE k == task[t].k
             item == [task |-> t, interest |-> k]
             vals == interests_queue[h].vals
  <1>1. /\ worker[h].at \notin {"none", "dead"}
        /\ \A g \in Sockets \ {h} : /\ worker'[g] = worker[g]
                                    /\ interests_queue'[g] = interests_queue[g]
        /\ UNCHANGED task
        /\ KeepsLists(h) \/ Registers(h) \/ WakesFirst(h)
    BY WorkerStepFacts
  <1>2. /\ task[t].h \in Sockets /\ k \in {"Read", "Write"}
    BY FutureOf DEF FutureType, Interests
  <1>3. \A u \in Tasks : wakes[u] > 0 => wakes'[u] > 0
    <2>1. UNCHANGED wakes \/ \E u \in Tasks : Wake(u)
      BY <1>1, WorkerFields, TailFacts, ZenonT(60)
      DEF KeepsLists, Registers, WakesFirst
    <2> QED
      BY <2>1 DEF Wake, TaskTypes
  <1>4. CASE task[t].h # h
    BY <1>1, <1>2, <1>3, <1>4 DEF Kept
  <1>5. CASE task[t].h = h
    <2>1. CASE KeepsLists(h)
      BY <1>1, <1>5, <2>1 DEF Kept, KeepsLists
    <2>2. CASE Registers(h)
      <3>1. vals \in Seq(ItemType) /\ vals # <<>>
        BY <2>2 DEF WorkTypes, QueueOf, Registers
      <3>2. Head(vals) \in ItemType
        BY <3>1, TailFacts
      <3>3. /\ worker'[h].reads =
                 IF Head(vals).interest = "Read"
                 THEN Append(worker[h].reads, Head(vals).task)
                 ELSE worker[h].reads
            /\ worker'[h].writes =
                 IF Head(vals).interest = "Write"
                 THEN Append(worker[h].writes, Head(vals).task)
                 ELSE worker[h].writes
            /\ interests_queue'[h].vals = Tail(vals)
            /\ UNCHANGED wakes
        BY <2>2, <3>2, RegisterFacts, ZenonT(60) DEF Registers
      <3>4. CASE item = Head(vals)
        <4>1. Head(vals).task = t /\ Head(vals).interest = k
          BY <3>4
        <4>2. In(t, IF k = "Read" THEN worker'[h].reads ELSE worker'[h].writes)
          BY <1>2, <3>3, <4>1, WorkerFields, InAppend
        <4> QED
          BY <1>1, <1>5, <4>2 DEF Kept
      <3>5. CASE item # Head(vals)
        <4>1. In(item, vals) => In(item, Tail(vals))
          BY <3>1, <3>5, InTail, ZenonT(60)
        <4>2. /\ In(t, worker[h].reads) => In(t, worker'[h].reads)
              /\ In(t, worker[h].writes) => In(t, worker'[h].writes)
          BY <3>3, WorkerFields, InAppend
        <4> QED
          BY <1>1, <1>5, <3>3, <4>1, <4>2 DEF Kept
      <3> QED
        BY <3>4, <3>5
    <2>3. CASE WakesFirst(h)
      <3>1. \/ /\ worker[h].writes # <<>> /\ Wake(Head(worker[h].writes))
               /\ worker'[h].writes = Tail(worker[h].writes)
               /\ worker'[h].reads = worker[h].reads
            \/ /\ worker[h].reads # <<>> /\ Wake(Head(worker[h].reads))
               /\ worker'[h].reads = Tail(worker[h].reads)
               /\ worker'[h].writes = worker[h].writes
        BY <2>3 DEF WakesFirst
      <3>2. Wake(t) => wakes'[t] > 0
        BY DEF Wake, TaskTypes
      <3>3. \/ wakes'[t] > 0
            \/ /\ In(t, worker[h].reads) => In(t, worker'[h].reads)
               /\ In(t, worker[h].writes) => In(t, worker'[h].writes)
        BY <3>1, <3>2, WorkerFields, InTail
      <3> QED
        BY <1>1, <1>3, <1>5, <2>3, <3>3 DEF Kept, WakesFirst
    <2> QED
      BY <1>1, <2>1, <2>2, <2>3
  <1> QED
    BY <1>4, <1>5

(* Wrapping a socket and the end of a worker touch no interest but those   *)
(* of a worker that ends.                                                  *)
LEMMA WorkerChanges ==
  ASSUME WorkTypes, NEW h \in Sockets,
         WorkerDies(h) \/ \E r \in Replies : Wrap(h, r)
  PROVE  /\ UNCHANGED <<interests_queue, task, wakes>>
         /\ \A g \in Sockets \ {h} : worker'[g] = worker[g]
         /\ \/ worker'[h].at = "dead"
            \/ /\ worker[h].at = "none" \/ UNCHANGED worker
               /\ worker'[h].reads = worker[h].reads
               /\ worker'[h].writes = worker[h].writes
  <1>1. UNCHANGED <<interests_queue, task, wakes>>
    BY ZenonT(60) DEF WorkerDies, Wrap, taskVars
  <1>2. CASE WorkerDies(h)
    <2>1. worker' = [worker EXCEPT ![h] = [NoWorker EXCEPT !.at = "dead"]]
      BY <1>2, ZenonT(60) DEF WorkerDies
    <2>2. [NoWorker EXCEPT !.at = "dead"].at = "dead"
      BY DEF NoWorker
    <2> QED
      BY <1>1, <2>1, <2>2 DEF WorkTypes
  <1>3. CASE \E r \in Replies : Wrap(h, r)
    <2>1. /\ worker[h].at = "none"
          /\ \/ worker' =
                  [worker EXCEPT ![h] = [worker[h] EXCEPT !.at = "loop"]]
             \/ UNCHANGED worker
      BY <1>3, ZenonT(60) DEF Wrap, SetNonblock
    <2>2. /\ [worker[h] EXCEPT !.at = "loop"].reads = worker[h].reads
          /\ [worker[h] EXCEPT !.at = "loop"].writes = worker[h].writes
      BY WorkerFields, ZenonT(60)
    <2>3. CASE UNCHANGED worker
      BY <1>1, <2>3
    <2>4. ASSUME NEW w, worker' = [worker EXCEPT ![h] = w]
          PROVE  /\ worker'[h] = w
                 /\ \A g \in Sockets \ {h} : worker'[g] = worker[g]
      BY <2>4 DEF WorkTypes
    <2> QED
      BY <1>1, <2>1, <2>2, <2>3, <2>4, ZenonT(60)
  <1> QED
    BY <1>2, <1>3

(* A step of a task keeps the interests. *)
LEMMA TaskKeeps ==
  ASSUME WorkTypes, TaskTypes, UNCHANGED worker, InterestKept,
         NEW t \in Tasks, TaskSide(t)
  PROVE  InterestKept'
  <1>1. /\ \A u \in Tasks \ {t} : task'[u] = task[u] /\ wakes'[u] = wakes[u]
        /\ GoesOn(t) \/ Pushes(t) \/ Releases(t)
    BY TaskSideFacts
  <1>2. ASSUME NEW g \in Sockets, NEW x, In(x, interests_queue[g].vals)
        PROVE  In(x, interests_queue'[g].vals)
    <2>1. CASE GoesOn(t)
      BY <1>2, <2>1 DEF GoesOn
    <2>2. CASE Releases(t)
      <3>1. interests_queue'[g].vals = interests_queue[g].vals
        BY <2>2, ZenonT(60) DEF Releases, SameFuture
      <3> QED
        BY <1>2, <3>1
    <2>3. CASE Pushes(t)
      <3>1. \/ interests_queue'[g].vals = interests_queue[g].vals
            \/ \E v : interests_queue'[g].vals =
                        Append(interests_queue[g].vals, v)
        BY <2>3, ZenonT(60) DEF Pushes, SameFuture
      <3>2. interests_queue[g].vals \in Seq(ItemType)
        BY DEF WorkTypes, QueueOf
      <3> QED
        BY <1>2, <3>1, <3>2, InAppend, ZenonT(60)
    <2> QED
      BY <1>1, <2>1, <2>2, <2>3
  <1>3. ASSUME NEW u \in Tasks, u # t, task'[u].at \in {"adding", "pending"}
        PROVE  Kept(u)'
    <2>1. Kept(u) /\ task'[u] = task[u] /\ wakes'[u] = wakes[u]
      BY <1>1, <1>3 DEF InterestKept
    <2>2. task[u].h \in Sockets
      BY <1>3, <2>1, FutureOf DEF FutureType
    <2> QED
      BY <1>2, <2>1, <2>2 DEF Kept
  <1>4. ASSUME task'[t].at \in {"adding", "pending"}
        PROVE  Kept(t)'
    <2>1. CASE Pushes(t)
      <3> DEFINE vals == interests_queue[task[t].h].vals
                 item == [task |-> t, interest |-> task[t].k]
      <3>1. /\ task'[t].h = task[t].h /\ task'[t].k = task[t].k
            /\ interests_queue'[task[t].h].vals = Append(vals, item)
            /\ task[t].h \in Sockets
        BY <2>1, ZenonT(60) DEF Pushes, SameFuture
      <3>2. vals \in Seq(ItemType)
        BY ZenonT(60), <3>1 DEF WorkTypes, QueueOf
      <3>3. In(item, Append(vals, item))
        BY <3>2, InAppend, ZenonT(60)
      <3> QED
        BY <3>1, <3>3, ZenonT(60) DEF Kept
    <2>2. CASE Releases(t)
      <3>1. /\ task'[t].h = task[t].h /\ task'[t].k = task[t].k
            /\ UNCHANGED wakes
            /\ task[t].h \in Sockets /\ task[t].at = "adding"
        BY <2>2, ZenonT(60) DEF Releases, SameFuture
      <3>2. Kept(t)
        BY <3>1 DEF InterestKept
      <3> QED
        BY <1>2, <3>1, <3>2 DEF Kept
    <2> QED
      BY <1>1, <1>4, <2>1, <2>2 DEF GoesOn
  <1> QED
    BY <1>3, <1>4 DEF InterestKept

(* Every step keeps every interest. *)
LEMMA KeptStep ==
  ASSUME TypeOK, InterestKept, [Next]_vars
  PROVE  InterestKept'
  <1>1. WorkTypes /\ TaskTypes
    BY TypeParts
  <1>2. \A t \in Tasks : task[t].at # "idle" => task[t].h \in Sockets
    BY <1>1, FutureOf DEF FutureType
  <1>3. ASSUME UNCHANGED <<interests_queue, worker, task, wakes>>
        PROVE  InterestKept'
    BY <1>3 DEF InterestKept, Kept
  <1>4. ASSUME NEW h \in Sockets, DropAsync(h) PROVE InterestKept'
    BY <1>3, <1>4, ZenonT(60) DEF DropAsync, taskVars
  <1>5. ASSUME NEW h \in Sockets,
               WorkerDies(h) \/ \E r \in Replies : Wrap(h, r)
        PROVE  InterestKept'
    <2>1. /\ UNCHANGED <<interests_queue, task, wakes>>
          /\ \A g \in Sockets \ {h} : worker'[g] = worker[g]
          /\ \/ worker'[h].at = "dead"
             \/ /\ worker[h].at = "none" \/ UNCHANGED worker
                /\ worker'[h].reads = worker[h].reads
                /\ worker'[h].writes = worker[h].writes
      BY <1>1, <1>5, WorkerChanges
    <2>2. ASSUME NEW t \in Tasks, task[t].at \in {"adding", "pending"}
          PROVE  Kept(t)'
      <3>1. Kept(t) /\ task[t].h \in Sockets
        BY <1>2, <2>2 DEF InterestKept
      <3> QED
        BY <2>1, <3>1 DEF Kept
    <2> QED
      BY <2>1, <2>2 DEF InterestKept
  <1>6. ASSUME NEW h \in Sockets, WorkerStep(h) PROVE InterestKept'
    <2>1. UNCHANGED task
      BY <1>1, <1>6, WorkerStepFacts
    <2>2. ASSUME NEW t \in Tasks, task[t].at \in {"adding", "pending"}
          PROVE  Kept(t)'
      BY <1>1, <1>6, <2>2, WorkerKeeps DEF InterestKept
    <2> QED
      BY <2>1, <2>2 DEF InterestKept
  <1>7. ASSUME NEW t \in Tasks, TaskSide(t), UNCHANGED worker
        PROVE  InterestKept'
    BY <1>1, <1>7, TaskKeeps
  <1>8. WorkQuiet => UNCHANGED <<interests_queue, worker, task, wakes>>
    BY DEF WorkQuiet
  <1> QED
    BY <1>3, <1>4, <1>5, <1>6, <1>7, <1>8, StepCases, ZenonT(60)

(* Every step keeps the queues signalled. *)
LEMMA SignalledStep ==
  ASSUME TypeOK, QueueSignalled, [Next]_vars
  PROVE  QueueSignalled'
  <1>1. WorkTypes /\ TaskTypes
    BY TypeParts
  <1>2. ASSUME UNCHANGED <<interests_queue, worker, task>>
        PROVE  QueueSignalled'
    BY <1>2 DEF QueueSignalled, Signalled
  <1>3. ASSUME NEW h \in Sockets, DropAsync(h) PROVE QueueSignalled'
    BY <1>2, <1>3, ZenonT(60) DEF DropAsync, taskVars
  <1>4. ASSUME NEW h \in Sockets,
               WorkerDies(h) \/ \E r \in Replies : Wrap(h, r)
        PROVE  QueueSignalled'
    <2>1. /\ UNCHANGED <<interests_queue, task, wakes>>
          /\ \A g \in Sockets \ {h} : worker'[g] = worker[g]
          /\ \/ worker'[h].at = "dead"
             \/ /\ worker[h].at = "none" \/ UNCHANGED worker
                /\ worker'[h].reads = worker[h].reads
                /\ worker'[h].writes = worker[h].writes
      BY <1>1, <1>4, WorkerChanges
    <2> QED
      BY <2>1 DEF QueueSignalled, Signalled
  <1>5. ASSUME NEW h \in Sockets, WorkerStep(h) PROVE QueueSignalled'
    <2>1. /\ \A g \in Sockets \ {h} :
               /\ worker'[g] = worker[g]
               /\ interests_queue'[g] = interests_queue[g]
          /\ UNCHANGED task
          /\ worker[h].at # "dead"
          /\ KeepsLists(h) \/ Registers(h) \/ WakesFirst(h)
      BY <1>1, <1>5, WorkerStepFacts
    <2>2. \/ interests_queue'[h].vals = <<>>
          \/ worker'[h].at \in {"drain", "draining"}
          \/ /\ worker[h].at \notin {"drain", "draining", "dead"}
             /\ UNCHANGED interests_queue
      <3>1. CASE KeepsLists(h)
        BY <2>1, <3>1 DEF KeepsLists
      <3>2. CASE Registers(h)
        <4>1. /\ interests_queue[h].vals # <<>>
              /\ worker'[h] =
                   Register(worker[h], Head(interests_queue[h].vals))
          BY <3>2, ZenonT(60) DEF Registers
        <4>2. interests_queue[h].vals \in Seq(ItemType)
          BY <1>1 DEF WorkTypes, QueueOf
        <4>3. Head(interests_queue[h].vals) \in ItemType
          BY <4>1, <4>2, TailFacts
        <4> QED
          BY <1>1, <4>1, <4>3, RegisterFacts, ZenonT(60)
      <3>3. CASE WakesFirst(h)
        BY <2>1, <3>3 DEF WakesFirst
      <3> QED
        BY <2>1, <3>1, <3>2, <3>3
    <2> QED
      BY <2>1, <2>2 DEF QueueSignalled, Signalled
  <1>6. ASSUME NEW t \in Tasks, TaskSide(t), UNCHANGED worker
        PROVE  QueueSignalled'
    <2>1. /\ \A u \in Tasks \ {t} : task'[u] = task[u]
          /\ GoesOn(t) \/ Pushes(t) \/ Releases(t)
      BY <1>1, <1>6, TaskSideFacts
    <2>2. CASE GoesOn(t)
      BY <1>6, <2>1, <2>2 DEF GoesOn, QueueSignalled, Signalled
    <2>3. CASE Pushes(t)
      <3>1. /\ task[t].at # "adding" /\ task'[t].at = "adding"
            /\ task'[t].h = task[t].h
            /\ \A g \in Sockets \ {task[t].h} :
                 interests_queue'[g] = interests_queue[g]
        BY <2>3, ZenonT(60) DEF Pushes, SameFuture
      <3> QED
        BY <1>6, <2>1, <3>1 DEF QueueSignalled, Signalled
    <2>4. CASE Releases(t)
      <3>1. /\ Signalled(interests_queue'[task[t].h])
            /\ \A g \in Sockets \ {task[t].h} :
                 interests_queue'[g] = interests_queue[g]
        BY <2>4, ZenonT(60) DEF Releases, SameFuture
      <3> QED
        BY <1>6, <2>1, <3>1 DEF QueueSignalled, Signalled
    <2> QED
      BY <2>1, <2>2, <2>3, <2>4
  <1>7. WorkQuiet => UNCHANGED <<interests_queue, worker, task>>
    BY DEF WorkQuiet
  <1> QED
    BY <1>2, <1>3, <1>4, <1>5, <1>6, <1>7, StepCases, ZenonT(60)
-----------------------------------------------------------------------------
(* The inductive invariant of the interests. *)
IInv == InterestKept /\ QueueSignalled

(* No future has registered anything at the start. *)
LEMMA InitIInv == Init => IInv
  BY DEF Init, IInv, InterestKept, QueueSignalled, NewQueue

(* The invariant is inductive, given the types. *)
LEMMA NextIInv == TypeOK /\ IInv /\ [Next]_vars => IInv'
  BY KeptStep, SignalledStep DEF IInv

(* What AsyncTcpSocket's futures push is kept by WorkQueue or the worker's *)
(* lists until a wake answers it, and a queue that holds something is      *)
(* drained, or its worker is about to be let go by wait().                 *)
THEOREM InterestInvariance == Spec => []IInv
  BY InitIInv, NextIInv, TypeCorrectness, PTL DEF Spec

(* No interest that a future registers is lost while its worker lives,     *)
(* whatever the worker is doing when it is pushed, however many permits    *)
(* drain(..) left behind and whatever releases the kernel refused.         *)
THEOREM InterestsSafe == Spec => []NoInterestLost
  <1>1. TypeOK /\ IInv => NoInterestLost
    <2> SUFFICES ASSUME TypeOK, IInv, NEW t \in Tasks, task[t].at = "pending"
                 PROVE  LET h == task[t].h
                            k == task[t].k
                            w == worker[h]
                        IN  \/ w.at = "dead"
                            \/ /\ In([task |-> t, interest |-> k],
                                     interests_queue[h].vals)
                               /\ \/ w.at # "loop" \/ ~NoInterests(w)
                                  \/ Signalled(interests_queue[h])
                                  \/ \E u \in Tasks : /\ task[u].at = "adding"
                                                      /\ task[u].h = h
                            \/ In(t, IF k = "Read" THEN w.reads ELSE w.writes)
                            \/ wakes[t] > 0
      BY DEF NoInterestLost
    <2>1. task[t].h \in Sockets
      BY TypeParts, FutureOf DEF FutureType
    <2>2. Kept(t)
      BY DEF IInv, InterestKept
    <2>3. ASSUME NEW v, In(v, interests_queue[task[t].h].vals)
          PROVE  \/ worker[task[t].h].at # "loop"
                 \/ Signalled(interests_queue[task[t].h])
                 \/ \E u \in Tasks : /\ task[u].at = "adding"
                                     /\ task[u].h = task[t].h
      <3>1. interests_queue[task[t].h].vals # <<>>
        BY <2>3 DEF In
      <3> QED
        BY <2>1, <3>1 DEF IInv, QueueSignalled
    <2> QED
      BY <2>2, <2>3, ZenonT(60) DEF Kept
  <1> QED
    BY <1>1, TypeCorrectness, InterestInvariance, PTL
=============================================================================
