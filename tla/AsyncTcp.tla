------------------------------ MODULE AsyncTcp ------------------------------
(***************************************************************************)
(* The asynchronous sockets of src/net.rs on top of SocketService: each    *)
(* AsyncTcpSocket has a worker thread that waits for readiness on behalf   *)
(* of the tasks whose Recv or SendFuture met EAGAIN.                       *)
(*                                                                         *)
(* connect() and accept() run on threads of their own and hand the socket  *)
(* over through a oneshot channel (see Oneshot); here they are the steps   *)
(* of SocketService, and Wrap is what the awaiting task does with it.      *)
(*                                                                         *)
(* The worker's thread and each AsyncTcpSocket hold the TcpSocket in an    *)
(* Arc; its handle is dropped with the last of them.                       *)
(***************************************************************************)
EXTENDS SocketService, SyncQueueOps

CONSTANTS Tasks,        \* the tasks that use the sockets, by number
          MaxOps,       \* bound: how many recv() and send() they call
          MaxRx         \* bound: pieces of data waiting to be read

ASSUME AsyncTcpAssumption ==
  Tasks \subseteq Nat /\ MaxOps \in Nat /\ MaxRx \in Nat

VARIABLES interests_queue,  \* of each socket: tasks and their interest
          worker,           \* the socket's worker thread
          held,             \* sockets of which an AsyncTcpSocket exists
          rx,               \* external: data waiting to be read
          space,            \* external: sockets that can be written to
          task,             \* the future each task is at
          exec,             \* whether the executor's thread is alive
          wakes,            \* wakes of each task in WAKE_QUEUE
          ops

workVars == <<interests_queue, worker, held, rx, space>>
taskVars == <<task, exec, wakes, ops>>
vars == <<socketVars, workVars, taskVars>>

NoWorker == [at |-> "none", reads |-> <<>>, writes |-> <<>>, out |-> {}]
Interests == {"Read", "Write"}

Init ==
  /\ SocketInit
  /\ interests_queue = [h \in Sockets |-> NewQueue]
  /\ worker = [h \in Sockets |-> NoWorker]
  /\ held = {}
  /\ rx = [h \in Sockets |-> 0]
  /\ space = {}
  /\ task = [t \in Tasks |-> [at |-> "idle"]]
  /\ exec = "running"
  /\ wakes = [t \in Tasks |-> 0]
  /\ ops = 0

(* The executor's thread is not inside a poll. *)
Idle == exec = "running" /\ \A t \in Tasks : task[t].at \in {"idle", "pending"}
-----------------------------------------------------------------------------
(* Life of an AsyncTcpSocket.                                              *)

DropHandle(h) ==
  /\ sock' = [sock EXCEPT ![h] = "dropping"]
  /\ UNCHANGED <<up, open, wire, fd, addr, panicked, lost, refused>>

(* set_nonblock(), on the socket that connect() or accept() returned. *)
SetNonblock(h, r) ==
  /\ sock[h] = "stream" /\ worker[h].at = "none"
  /\ Reply(h, r, "stream")

(* wrap() and run() in the task that awaited connect() or accept().        *)
(* set_nonblock().unwrap() panics on the executor's thread.                *)
Wrap(h, r) ==
  /\ Idle
  /\ SetNonblock(h, r)
  /\ IF Checked(r) = "ok"
     THEN /\ worker' = [worker EXCEPT ![h].at = "loop"]
          /\ held' = held \cup {h}
          /\ UNCHANGED exec
     ELSE /\ exec' = "dead"
          /\ UNCHANGED <<worker, held>>
  /\ UNCHANGED <<wire, addr, interests_queue, rx, space, task, wakes, ops>>

(* run() when make_session() or the spawn fails: both are unwrapped. *)
RunPanics(h) ==
  /\ Idle
  /\ sock[h] = "stream" /\ worker[h].at = "none"
  /\ Fault("err")
  /\ DropHandle(h)
  /\ exec' = "dead"
  /\ UNCHANGED <<workVars, task, wakes, ops>>

(* oneshot_rx.map(|v| v.unwrap()) when the opening thread panicked; bind() *)
(* is called by the task itself, which may also be the one that drops a    *)
(* handle whose close panics.                                              *)
AwaitPanics(h) ==
  /\ Idle
  /\ h \in panicked
  /\ exec' = "dead"
  /\ UNCHANGED <<socketVars, workVars, task, wakes, ops>>

(* A listener, or a socket that was never wrapped, is dropped. *)
DropTcp(h) ==
  /\ sock[h] \in {"stream", "listening"} /\ worker[h].at = "none"
  /\ DropHandle(h)
  /\ UNCHANGED <<faults, workVars, taskVars>>

Uses(t, h) == task[t].at # "idle" /\ task[t].h = h

(* A faulty socket that closes its handle, although its worker runs. *)
DropAsyncCloses(h) ==
  /\ h \in held
  /\ \A t \in Tasks : ~Uses(t, h)
  /\ held' = held \ {h}
  /\ DropHandle(h)
  /\ UNCHANGED <<faults, interests_queue, worker, rx, space, taskVars>>

(* A faulty one that leaves it to the worker, although that may have ended. *)
DropAsyncKeeps(h) ==
  /\ h \in held
  /\ \A t \in Tasks : ~Uses(t, h)
  /\ held' = held \ {h}
  /\ UNCHANGED <<socketVars, interests_queue, worker, rx, space, taskVars>>

(* The last AsyncTcpSocket is dropped; futures borrow it. *)
DropAsync(h) ==
  /\ h \in held
  /\ \A t \in Tasks : ~Uses(t, h)
  /\ held' = held \ {h}
  /\ IF worker[h].at = "dead" THEN DropHandle(h) /\ UNCHANGED faults
                              ELSE UNCHANGED socketVars
  /\ UNCHANGED <<interests_queue, worker, rx, space, taskVars>>

(* The service: data arrives, or room for more to send.  It may do so at   *)
(* any time, but shows only while a task or the worker looks for it.       *)
Looked(h) == worker[h].at = "polling" \/ \E t \in Tasks : Uses(t, h)

Arrive(h) ==
  /\ sock[h] = "stream" /\ Looked(h)
  /\ rx[h] < MaxRx
  /\ rx' = [rx EXCEPT ![h] = @ + 1]
  /\ UNCHANGED <<socketVars, interests_queue, worker, held, space, taskVars>>

MakeSpace(h) ==
  /\ sock[h] = "stream" /\ Looked(h)
  /\ h \notin space
  /\ space' = space \cup {h}
  /\ UNCHANGED <<socketVars, interests_queue, worker, held, rx, taskVars>>
-----------------------------------------------------------------------------
(* Recv and SendFuture, on the executor's thread.                          *)

Ready(h, k) == IF k = "Read" THEN rx[h] > 0 ELSE h \in space

(* The task awaits a new future, and polls it.  The first task to do so    *)
(* has the lowest number.                                                  *)
Start(t, h, k) ==
  /\ Idle
  /\ task[t].at = "idle" /\ h \in held
  /\ ops < MaxOps /\ (ops = 0 => \A u \in Tasks : t <= u)
  /\ ops' = ops + 1
  /\ task' = [task EXCEPT ![t] = [at |-> "polling", h |-> h, k |-> k]]
  /\ UNCHANGED <<socketVars, workVars, exec, wakes>>

Woken(t) ==
  /\ Idle
  /\ wakes[t] > 0
  /\ wakes' = [wakes EXCEPT ![t] = @ - 1]
  /\ task' = IF task[t].at = "idle" THEN task
             ELSE [task EXCEPT ![t].at = "polling"]
  /\ UNCHANGED <<socketVars, workVars, exec, ops>>

(* The task drops a pending future; its interest stays registered, and its *)
(* wake will poll whatever the task awaits by then.                        *)
Cancel(t) ==
  /\ Idle
  /\ task[t].at = "pending"
  /\ task' = [task EXCEPT ![t] = [at |-> "idle"]]
  /\ UNCHANGED <<socketVars, workVars, exec, wakes, ops>>

(* The posix code of a recvfrom or send_to that is not at fault. *)
Posix(h, k) == IF Ready(h, k) THEN 0 ELSE -EAGAIN

(* TcpSocket::recv or send, down to the net_try of its reply. *)
Call(h, k) == Checked([sent |-> TRUE, res |-> 0, posix |-> Posix(h, k)])

(* A faulty poll() that does not look at the posix code. *)
PollReadyBlind(t) ==
  /\ task[t].at = "polling"
  /\ rx' = [rx EXCEPT ![task[t].h] = @ - 1]
  /\ task' = [task EXCEPT ![t] = [at |-> "idle"]]
  /\ UNCHANGED <<socketVars, interests_queue, worker, held, space, exec, wakes,
                 ops>>

(* poll() returns Ready(Ok). *)
PollReady(t) ==
  /\ task[t].at = "polling"
  /\ LET h == task[t].h
         k == task[t].k
     IN  /\ Call(h, k) = "ok"
         /\ rx' = IF k = "Read" THEN [rx EXCEPT ![h] = @ - 1] ELSE rx
         /\ IF k = "Write" THEN space' \in {space, space \ {h}}
                           ELSE UNCHANGED space
  /\ task' = [task EXCEPT ![t] = [at |-> "idle"]]
  /\ UNCHANGED <<socketVars, interests_queue, worker, held, exec, wakes, ops>>

(* EAGAIN: interests_queue.add((token, interest)), its push, for which the *)
(* queue's mutex must be free ...                                          *)
PollAgain(t) ==
  /\ task[t].at = "polling"
  /\ LET h == task[t].h
         k == task[t].k
     IN  /\ Call(h, k) = "again"
         /\ worker[h].at # "draining"
         /\ interests_queue' = [interests_queue EXCEPT
              ![h] = PushBack(@, [task |-> t, interest |-> k])]
  /\ task' = [task EXCEPT ![t].at = "adding"]
  /\ UNCHANGED <<socketVars, worker, held, rx, space, exec, wakes, ops>>

(* ... and its release, then Pending. *)
PollPending(t) ==
  /\ task[t].at = "adding"
  /\ interests_queue' =
       [interests_queue EXCEPT ![task[t].h] = ReleasePermit(@)]
  /\ task' = [task EXCEPT ![t].at = "pending"]
  /\ UNCHANGED <<socketVars, worker, held, rx, space, exec, wakes, ops>>

(* Any other error is returned; one that net_try does not know panics. *)
PollFails(t, r) ==
  /\ task[t].at = "polling"
  /\ Checked(r) \in {"err", "panic"}
  /\ Fault(Checked(r))
  /\ task' = [task EXCEPT ![t] = [at |-> "idle"]]
  /\ exec' = IF Checked(r) = "panic" THEN "dead" ELSE exec
  /\ UNCHANGED <<up, open, wire, sock, fd, addr, panicked, lost, refused,
                 workVars, wakes, ops>>
-----------------------------------------------------------------------------
(* The worker's thread.                                                    *)

NoInterests(w) == w.reads = <<>> /\ w.writes = <<>>

(* Without interests it waits on the queue. *)
WorkerWait(h) ==
  /\ worker[h].at = "loop"
  /\ NoInterests(worker[h])
  /\ Signalled(interests_queue[h])
  /\ interests_queue' = [interests_queue EXCEPT ![h] = TakePermit(@)]
  /\ worker' = [worker EXCEPT ![h].at = "drain"]
  /\ UNCHANGED <<socketVars, held, rx, space, taskVars>>

(* The match on an item's interest. *)
Register(w, item) ==
  [w EXCEPT !.at = "draining",
            !.reads = IF item.interest = "Read"
                      THEN Append(@, item.task) ELSE @,
            !.writes = IF item.interest = "Write"
                       THEN Append(@, item.task) ELSE @]

(* for (task, interest) in interests_queue.vals.lock().drain(..): an item  *)
(* a step, the queue's mutex held from the first to the last.  The permits *)
(* stay as they are.                                                       *)
WorkerDrain(h) ==
  /\ \/ worker[h].at \in {"drain", "draining"}
     \/ worker[h].at = "loop" /\ ~NoInterests(worker[h])
  /\ LET vals == interests_queue[h].vals
     IN  \/ /\ vals = <<>>
            /\ worker' = [worker EXCEPT ![h].at = "polling"]
            /\ UNCHANGED interests_queue
         \/ /\ vals # <<>>
            /\ worker' = [worker EXCEPT ![h] = Register(@, Head(vals))]
            /\ interests_queue' = [interests_queue EXCEPT ![h].vals = Tail(@)]
  /\ UNCHANGED <<socketVars, held, rx, space, taskVars>>

HasWrite(h) == worker[h].writes # <<>>

(* A faulty worker that asks for one kind of readiness at a time. *)
PollOutEither(h) ==
  IF HasWrite(h) THEN IF h \in space THEN {"POLLOUT"} ELSE {}
  ELSE IF rx[h] > 0 THEN {"POLLIN"} ELSE {}

(* What poll(flags) answers: POLLIN is always asked for, POLLOUT when a    *)
(* writer waits.                                                           *)
PollOut(h) ==
  (IF rx[h] > 0 THEN {"POLLIN"} ELSE {})
    \cup (IF HasWrite(h) /\ h \in space THEN {"POLLOUT"} ELSE {})

WorkerPolled(h) ==
  /\ worker[h].at = "polling"
  /\ PollOut(h) # {}
  /\ worker' = [worker EXCEPT
                  ![h] = [@ EXCEPT !.at = "waking", !.out = PollOut(h)]]
  /\ UNCHANGED <<socketVars, interests_queue, held, rx, space, taskVars>>

(* SOCKET_POLL_TIMEOUT, only while no writer waits. *)
WorkerTimeout(h) ==
  /\ worker[h].at = "polling"
  /\ PollOut(h) = {} /\ ~HasWrite(h)
  /\ worker' = [worker EXCEPT ![h].at = "loop"]
  /\ UNCHANGED <<socketVars, interests_queue, held, rx, space, taskVars>>

(* poll().unwrap(): the thread ends and drops its TcpSocket. *)
WorkerDies(h) ==
  /\ worker[h].at = "polling"
  /\ Fault("err")
  /\ worker' = [worker EXCEPT ![h] = [NoWorker EXCEPT !.at = "dead"]]
  /\ IF h \in held THEN UNCHANGED <<up, open, wire, sock, fd, addr, panicked,
                                    lost, refused>>
                   ELSE DropHandle(h)
  /\ UNCHANGED <<interests_queue, held, rx, space, taskVars>>

WakesWriter(h) == "POLLOUT" \in worker[h].out /\ worker[h].writes # <<>>
WakesReader(h) == "POLLIN" \in worker[h].out /\ worker[h].reads # <<>>

Wake(t) == wakes' = [wakes EXCEPT ![t] = @ + 1]

(* executor.wake(waker) for the writers, then for the readers. *)
WorkerWakes(h) ==
  /\ worker[h].at = "waking"
  /\ \/ /\ WakesWriter(h)
        /\ Wake(Head(worker[h].writes))
        /\ worker' = [worker EXCEPT ![h].writes = Tail(@)]
     \/ /\ ~WakesWriter(h) /\ WakesReader(h)
        /\ Wake(Head(worker[h].reads))
        /\ worker' = [worker EXCEPT ![h].reads = Tail(@)]
  /\ UNCHANGED <<socketVars, interests_queue, held, rx, space, task, exec,
                 ops>>

(* A faulty worker that forgets whom the poll did not concern. *)
WorkerLoopsClears(h) ==
  /\ worker[h].at = "waking"
  /\ ~WakesWriter(h) /\ ~WakesReader(h)
  /\ worker' = [worker EXCEPT ![h] = [NoWorker EXCEPT !.at = "loop"]]
  /\ UNCHANGED <<socketVars, interests_queue, held, rx, space, taskVars>>

WorkerLoops(h) ==
  /\ worker[h].at = "waking"
  /\ ~WakesWriter(h) /\ ~WakesReader(h)
  /\ worker' = [worker EXCEPT ![h] = [@ EXCEPT !.at = "loop", !.out = {}]]
  /\ UNCHANGED <<socketVars, interests_queue, held, rx, space, taskVars>>
-----------------------------------------------------------------------------
WorkerStep(h) ==
  \/ WorkerWait(h) \/ WorkerDrain(h) \/ WorkerPolled(h) \/ WorkerTimeout(h)
  \/ WorkerWakes(h) \/ WorkerLoops(h)

PollStep(t) == Woken(t) \/ PollReady(t) \/ PollAgain(t) \/ PollPending(t)

Next ==
  \/ (InitService \/ \E h \in Sockets : SocketStep(h))
     /\ UNCHANGED <<workVars, taskVars>>
  \/ \E h \in Sockets :
       \/ \E r \in Replies : Wrap(h, r)
       \/ RunPanics(h) \/ AwaitPanics(h) \/ DropTcp(h) \/ DropAsync(h)
       \/ Arrive(h) \/ MakeSpace(h)
       \/ WorkerStep(h) \/ WorkerDies(h)
       \/ \E t \in Tasks, k \in Interests : Start(t, h, k)
  \/ \E t \in Tasks :
       \/ PollStep(t) \/ Cancel(t)
       \/ \E r \in Replies : PollFails(t, r)

Spec == Init /\ [][Next]_vars

(* Worker threads run and their polls return as the service says; the      *)
(* executor polls what is woken.                                           *)
Fairness ==
  /\ \A h \in Sockets : WF_vars(WorkerStep(h))
  /\ \A t \in Tasks : WF_vars(PollStep(t))

FairSpec == Spec /\ Fairness
-----------------------------------------------------------------------------
(* Type invariant. *)
TypeOK ==
  /\ SocketTypeOK
  /\ interests_queue \in
       [Sockets -> QueueOf([task : Tasks, interest : Interests])]
  /\ worker \in
       [Sockets ->
          [at : {"none", "loop", "drain", "draining", "polling", "waking",
                "dead"},
           reads : Seq(Tasks), writes : Seq(Tasks),
           out : SUBSET {"POLLIN", "POLLOUT"}]]
  /\ held \subseteq Sockets
  /\ rx \in [Sockets -> 0..MaxRx]
  /\ space \subseteq Sockets
  /\ task \in [Tasks -> [at : {"idle"}] \cup
                        [at : {"polling", "adding", "pending"}, h : Sockets,
                         k : Interests]]
  /\ exec \in {"running", "dead"}
  /\ wakes \in [Tasks -> Nat]
  /\ ops \in 0..MaxOps

Running(h) == worker[h].at \notin {"none", "dead"}

In(v, seq) == \E n \in 1..Len(seq) : seq[n] = v

(* The interest of a pending future is not lost while its worker lives: it *)
(* is in the queue, and then the worker is not asleep without a permit, or *)
(* in the worker's list for its kind, or the task's wake is on its way.    *)
(* Permits that drain(..) left behind, and releases refused at the         *)
(* maximum, do no harm.                                                    *)
NoInterestLost ==
  \A t \in Tasks :
    task[t].at = "pending" =>
      LET h == task[t].h
          k == task[t].k
          w == worker[h]
      IN  \/ w.at = "dead"
          \/ /\ In([task |-> t, interest |-> k], interests_queue[h].vals)
             /\ \/ w.at # "loop" \/ ~NoInterests(w)
                \/ Signalled(interests_queue[h])
                \/ \E u \in Tasks : task[u].at = "adding" /\ task[u].h = h
          \/ In(t, IF k = "Read" THEN w.reads ELSE w.writes)
          \/ wakes[t] > 0

(* A worker polls a descriptor that is open and its own: the socket is not *)
(* closed before its worker has ended, whoever drops it.                   *)
WorkerHasItsFd ==
  \A h \in Sockets :
    Running(h) /\ ~refused => sock[h] = "stream" /\ fd[h] \in open

(* A future whose socket is ready completes, whatever other interests are  *)
(* registered while the worker is in its poll, unless another task takes   *)
(* the readiness, or a panic ends the worker or the executor.              *)
ReadinessServed ==
  \A t \in Tasks :
    (task[t].at # "idle" /\ Ready(task[t].h, task[t].k))
      ~> \/ task[t].at = "idle" \/ ~Ready(task[t].h, task[t].k)
         \/ worker[task[t].h].at = "dead" \/ exec = "dead"

(* A socket without owner is closed: when the worker has ended and the     *)
(* last AsyncTcpSocket is dropped, in either order and with a future of    *)
(* the socket still pending at the first of them, the handle goes too.     *)
ClosedWithLastOwner ==
  \A h \in Sockets :
    worker[h].at = "dead" /\ h \notin held => sock[h] \in {"dropping", "gone"}
=============================================================================
