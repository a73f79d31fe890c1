------------------------------ MODULE Executor ------------------------------
(***************************************************************************)
(* The executor of src/executor.rs: the thread that polls every task, the  *)
(* spawn queue and the wake queue it drains, wakers, JoinHandles and       *)
(* spawn_and_block.                                                        *)
(*                                                                         *)
(* A job is one future handed to spawn() or spawn_and_block().  What it    *)
(* computes is left out; what it does to the executor is kept.  While it   *)
(* is polled it may await an event, spawn another job, await a JoinHandle  *)
(* or finish.  An event stands for a leaf future of the crate (file I/O,   *)
(* socket readiness, timer, oneshot): the poll leaves its token with a     *)
(* source thread, and that thread later makes the event ready and adds the *)
(* token to WAKE_QUEUE.  Oneshots differ from other leaves in two ways:    *)
(* the poll looks at the flag after it has left its token, and the sender  *)
(* wakes in send() and may wake again in its drop().                       *)
(***************************************************************************)
EXTENDS SyncQueueOps, FiniteSets, Functions

CONSTANTS Jobs,        \* the futures of the program
          Root,        \* the one given to Runtime::block_on
          Joinable,    \* jobs whose JoinHandle the spawning job may await
          MaxEvents,   \* bound: events that one job awaits in its life
          TotalEvents, \* bound: events that all jobs await between them
          Oneshots,    \* jobs whose events are oneshots
          TokenSpace   \* values of a u32 task token: 2^32 in the code

ASSUME ExecutorAssumption ==
  /\ Root \in Jobs
  /\ Joinable \subseteq Jobs \ {Root}
  /\ Oneshots \subseteq Jobs
  /\ "none" \notin Jobs /\ "event" \notin Jobs
  /\ MaxEvents \in Nat /\ TotalEvents \in Nat
  /\ TokenSpace \in Nat \ {0}

Tokens == 0..(TokenSpace - 1)
None == -1                        \* no token yet
Events == 1..MaxEvents

VARIABLES
  taskQ,         \* TASK_QUEUE
  wakeQ,         \* WAKE_QUEUE
  task_counter,  \* ExecutorHandler.task_counter
  tasks,         \* ExecutorHandler.tasks: token -> job
  exec,          \* the executor thread: where it is, and the job it polls
  status,        \* of each job: "new", "queued", "started", "done"
  token,         \* the token a job's wakers carry
  await,         \* what a job is suspended on: "none", "event" or a job
  events,        \* how many events a job has awaited so far
  source,        \* the thread behind each of these events
  parent,        \* the job that holds a job's JoinHandle
  join,          \* JoinState of each job
  joinWaker,     \* the token in JoinState::Awaited
  main,          \* the thread in spawn_and_block
  signal         \* its WaitSignal

execVars == <<taskQ, wakeQ, task_counter, tasks, exec>>
jobVars  == <<status, token, await, events, source>>
joinVars == <<parent, join, joinWaker>>
mainVars == <<main, signal>>
vars == <<execVars, jobVars, joinVars, mainVars>>

Init ==
  /\ taskQ = NewQueue
  /\ wakeQ = NewQueue
  /\ task_counter = 0
  /\ tasks = << >>
  /\ exec = [at |-> "wait", job |-> Root, token |-> None, fresh |-> FALSE]
  /\ status = [j \in Jobs |-> "new"]
  /\ token = [j \in Jobs |-> None]
  /\ await = [j \in Jobs |-> "none"]
  /\ events = [j \in Jobs |-> 0]
  /\ source = [j \in Jobs |-> [e \in Events |-> "none"]]
  /\ parent = [j \in Jobs |-> j]
  /\ join = [j \in Jobs |-> "Unawaited"]
  /\ joinWaker = [j \in Jobs |-> None]
  /\ main = "start"
  /\ signal = FALSE

-----------------------------------------------------------------------------
(* spawn_and_block, on the thread that called Runtime::block_on            *)

(* TASK_QUEUE.add(task), its push. *)
BlockOnPush ==
  /\ main = "start"
  /\ taskQ' = PushBack(taskQ, Root)
  /\ status' = [status EXCEPT ![Root] = "queued"]
  /\ main' = "pushed"
  /\ UNCHANGED <<wakeQ, task_counter, tasks, exec, token, await, events,
                 source, joinVars, signal>>

(* TASK_QUEUE.add(task), its release. *)
BlockOnRelease ==
  /\ main = "pushed"
  /\ taskQ' = ReleasePermit(taskQ)
  /\ main' = "waiting"
  /\ UNCHANGED <<wakeQ, task_counter, tasks, exec, jobVars, joinVars, signal>>

(* signal.wait(): a one-shot event, reset by the wait. *)
BlockOnWait ==
  /\ main = "waiting"
  /\ signal
  /\ signal' = FALSE
  /\ main' = "signalled"
  /\ UNCHANGED <<execVars, jobVars, joinVars>>

(* The join state's mutex is held while its job is being resolved. *)
JoinLocked(j) == exec.at \in {"resolve", "return"} /\ exec.job = j

(* The match after the wait: the value, or a panic. *)
BlockOnTake ==
  /\ main = "signalled"
  /\ ~JoinLocked(Root)
  /\ join' = [join EXCEPT ![Root] = "Done"]
  /\ main' = IF join[Root] = "Ready" THEN "returned" ELSE "panicked"
  /\ UNCHANGED <<execVars, jobVars, parent, joinWaker, signal>>

-----------------------------------------------------------------------------
(* ExecutorHandler::run                                                    *)

(* svcWaitSynchronizationN returns the index of a semaphore it took a      *)
(* permit from: 0 for TASK_QUEUE ...                                       *)
WaitTasks ==
  /\ exec.at = "wait"
  /\ Signalled(taskQ)
  /\ taskQ' = TakePermit(taskQ)
  /\ exec' = [exec EXCEPT !.at = "drainTasks"]
  /\ UNCHANGED <<wakeQ, task_counter, tasks, jobVars, joinVars, mainVars>>

(* ... or 1 for WAKE_QUEUE. *)
WaitWakes ==
  /\ exec.at = "wait"
  /\ Signalled(wakeQ)
  /\ wakeQ' = TakePermit(wakeQ)
  /\ exec' = [exec EXCEPT !.at = "drainWakes"]
  /\ UNCHANGED <<taskQ, task_counter, tasks, jobVars, joinVars, mainVars>>

(* A faulty drain that may stop before the queue is empty. *)
DrainedEarly ==
  /\ exec.at \in {"drainTasks", "drainWakes"}
  /\ exec' = [exec EXCEPT !.at = "wait"]
  /\ UNCHANGED <<taskQ, wakeQ, task_counter, tasks, jobVars, joinVars,
                 mainVars>>

(* remove() on the queue being drained returned None: wait again. *)
Drained ==
  /\ \/ exec.at = "drainTasks" /\ IsEmpty(taskQ)
     \/ exec.at = "drainWakes" /\ IsEmpty(wakeQ)
  /\ exec' = [exec EXCEPT !.at = "wait"]
  /\ UNCHANGED <<taskQ, wakeQ, task_counter, tasks, jobVars, joinVars,
                 mainVars>>

(* A faulty spawn() that does not advance the counter. *)
SpawnSameToken ==
  /\ exec.at = "drainTasks"
  /\ ~IsEmpty(taskQ)
  /\ LET j == Popped(taskQ)
     IN  /\ exec' = [at |-> "poll", job |-> j, token |-> task_counter,
                     fresh |-> TRUE]
         /\ token' = [token EXCEPT ![j] = task_counter]
         /\ status' = [status EXCEPT ![j] = "started"]
  /\ taskQ' = PopBack(taskQ)
  /\ UNCHANGED <<wakeQ, task_counter, tasks, await, events, source, joinVars,
                 mainVars>>

(* spawn(): takes the next token and polls the job once before the task    *)
(* is entered in `tasks`.                                                  *)
SpawnTask ==
  /\ exec.at = "drainTasks"
  /\ ~IsEmpty(taskQ)
  /\ LET j == Popped(taskQ)
     IN  /\ exec' = [at |-> "poll", job |-> j, token |-> task_counter,
                     fresh |-> TRUE]
         /\ token' = [token EXCEPT ![j] = task_counter]
         /\ status' = [status EXCEPT ![j] = "started"]
  /\ taskQ' = PopBack(taskQ)
  /\ task_counter' = (task_counter + 1) % TokenSpace
  /\ UNCHANGED <<wakeQ, tasks, await, events, source, joinVars, mainVars>>

(* wake(): the token names a task; poll it. *)
WakeTask ==
  /\ exec.at = "drainWakes"
  /\ ~IsEmpty(wakeQ)
  /\ LET t == Popped(wakeQ)
     IN  /\ t \in DOMAIN tasks
         /\ exec' = [at |-> "poll", job |-> tasks[t], token |-> t,
                     fresh |-> FALSE]
  /\ wakeQ' = PopBack(wakeQ)
  /\ UNCHANGED <<taskQ, task_counter, tasks, jobVars, joinVars, mainVars>>

(* wake(): no task has the token; the wake is dropped. *)
WakeGone ==
  /\ exec.at = "drainWakes"
  /\ ~IsEmpty(wakeQ)
  /\ Popped(wakeQ) \notin DOMAIN tasks
  /\ wakeQ' = PopBack(wakeQ)
  /\ UNCHANGED <<taskQ, task_counter, tasks, exec, jobVars, joinVars,
                 mainVars>>

-----------------------------------------------------------------------------
(* One poll of a job.  It runs on the executor's thread; the source        *)
(* threads and the thread in spawn_and_block run in between.               *)

Polled(j) == exec.at = "poll" /\ exec.job = j

(* Where the executor goes on after poll() has returned. *)
BackToDrain == IF exec.fresh THEN "drainTasks" ELSE "drainWakes"

(* poll() is about to return Pending: every waker is registered, and from  *)
(* here on a source may call it before spawn() has entered the task.       *)
Suspend == exec' = [exec EXCEPT !.at = "pending"]

(* A faulty spawn() that forgets the task after its first poll. *)
ReturnPendingForgets ==
  /\ exec.at = "pending"
  /\ exec' = [exec EXCEPT !.at = BackToDrain]
  /\ UNCHANGED <<taskQ, wakeQ, task_counter, tasks, jobVars, joinVars,
                 mainVars>>

(* poll() returned Pending.  spawn() now enters the task in the map; in    *)
(* wake() it is there already.                                             *)
ReturnPending ==
  /\ exec.at = "pending"
  /\ exec' = [exec EXCEPT !.at = BackToDrain]
  /\ tasks' = IF exec.fresh
              THEN [t \in DOMAIN tasks \cup {exec.token} |->
                      IF t = exec.token THEN exec.job ELSE tasks[t]]
              ELSE tasks
  /\ UNCHANGED <<taskQ, wakeQ, task_counter, jobVars, joinVars, mainVars>>

(* Whether the event that job j awaits, its latest, has happened. *)
EventReady(j) == source[j][events[j]] \notin {"none", "armed"}

(* How many events the jobs have awaited so far. *)
Awaited ==
  Cardinality({x \in Jobs \X Events : source[x[1]][x[2]] # "none"})

(* The job reaches a leaf future that is not ready: the leaf keeps the     *)
(* token for its source, which may fire from now on, and returns Pending;  *)
(* a oneshot first looks once more whether it is ready.                    *)
AwaitEvent(j) ==
  /\ Polled(j)
  /\ await[j] = "none"
  /\ events[j] < MaxEvents
  /\ Awaited < TotalEvents
  /\ await' = [await EXCEPT ![j] = "event"]
  /\ events' = [events EXCEPT ![j] = @ + 1]
  /\ source' = [source EXCEPT ![j][events[j] + 1] = "armed"]
  /\ IF j \in Oneshots THEN UNCHANGED exec ELSE Suspend
  /\ UNCHANGED <<taskQ, wakeQ, task_counter, tasks, status, token, joinVars,
                 mainVars>>

(* A poll that finds the awaited event not ready. *)
EventPending(j) ==
  /\ Polled(j)
  /\ await[j] = "event"
  /\ ~EventReady(j)
  /\ Suspend
  /\ UNCHANGED <<taskQ, wakeQ, task_counter, tasks, jobVars, joinVars,
                 mainVars>>

(* A poll that finds it ready: the job goes on. *)
EventResume(j) ==
  /\ Polled(j)
  /\ await[j] = "event"
  /\ EventReady(j)
  /\ await' = [await EXCEPT ![j] = "none"]
  /\ UNCHANGED <<execVars, status, token, events, source, joinVars, mainVars>>

(* The job calls spawn(): a new join state, and TASK_QUEUE.add.  The       *)
(* executor's thread is the caller, so nothing is removed in between.      *)
SpawnJob(j, k) ==
  /\ Polled(j)
  /\ await[j] = "none"
  /\ k # Root
  /\ status[k] = "new"
  /\ taskQ' = Add(taskQ, k)
  /\ status' = [status EXCEPT ![k] = "queued"]
  /\ parent' = [parent EXCEPT ![k] = j]
  /\ UNCHANGED <<wakeQ, task_counter, tasks, exec, token, await, events,
                 source, join, joinWaker, mainVars>>

(* The job polls the JoinHandle of a job it has spawned, for the first     *)
(* time or again.  A handle that has returned Ready was consumed by its    *)
(* await: the panic of JoinHandle::poll on Done is for a program that      *)
(* polls one by hand, and is left out.                                     *)
PollsHandle(j, k) ==
  /\ Polled(j)
  /\ k \in Joinable
  /\ parent[k] = j
  /\ join[k] # "Done"
  /\ await[j] \in {"none", k}

(* JoinHandle::poll on Ready: the value is moved out. *)
JoinReady(j, k) ==
  /\ PollsHandle(j, k)
  /\ join[k] = "Ready"
  /\ join' = [join EXCEPT ![k] = "Done"]
  /\ await' = [await EXCEPT ![j] = "none"]
  /\ UNCHANGED <<execVars, status, token, events, source, parent, joinWaker,
                 mainVars>>

(* JoinHandle::poll on Unawaited or Awaited: the waker is left behind. *)
JoinPending(j, k) ==
  /\ PollsHandle(j, k)
  /\ join[k] \in {"Unawaited", "Awaited"}
  /\ join' = [join EXCEPT ![k] = "Awaited"]
  /\ joinWaker' = [joinWaker EXCEPT ![k] = exec.token]
  /\ await' = [await EXCEPT ![j] = k]
  /\ Suspend
  /\ UNCHANGED <<taskQ, wakeQ, task_counter, tasks, status, token, events,
                 source, parent, mainVars>>

(* A faulty wrapper that signals before it stores the value. *)
SignalFirst(j) ==
  /\ Polled(j)
  /\ await[j] = "none"
  /\ signal' = (signal \/ j = Root)
  /\ UNCHANGED <<execVars, jobVars, joinVars, main>>

(* wrap_with_join_state once the job's own future is ready: lock the join  *)
(* state and store the value.                                              *)
Finish(j) ==
  /\ Polled(j)
  /\ await[j] = "none"
  /\ join' = [join EXCEPT ![j] = "Ready"]
  /\ exec' = [exec EXCEPT !.at = "resolve"]
  /\ UNCHANGED <<taskQ, wakeQ, task_counter, tasks, jobVars, parent, joinWaker,
                 mainVars>>

(* A faulty end of a job that does not signal the blocked spawner. *)
ResolveSilently(j) ==
  /\ exec.at = "resolve"
  /\ exec.job = j
  /\ exec' = [exec EXCEPT !.at = "return"]
  /\ UNCHANGED <<taskQ, wakeQ, task_counter, tasks, jobVars, joinVars,
                 mainVars>>

(* The rest of wrap_with_join_state under the same lock: wake the awaiting *)
(* task if the state is Awaited, and signal a blocked spawner.             *)
Resolve(j) ==
  /\ exec.at = "resolve"
  /\ exec.job = j
  /\ wakeQ' = IF join[j] = "Awaited" THEN Add(wakeQ, joinWaker[j]) ELSE wakeQ
  /\ signal' = (signal \/ j = Root)
  /\ exec' = [exec EXCEPT !.at = "return"]
  /\ UNCHANGED <<taskQ, task_counter, tasks, jobVars, joinVars, main>>

(* A faulty end of a task that leaves it in the map. *)
ReturnReadyKeepsTask(j) ==
  /\ exec.at = "return"
  /\ exec.job = j
  /\ status' = [status EXCEPT ![j] = "done"]
  /\ exec' = [exec EXCEPT !.at = BackToDrain]
  /\ UNCHANGED <<taskQ, wakeQ, task_counter, tasks, token, await, events,
                 source, joinVars, mainVars>>

(* The guard is dropped and poll() returns Ready.  wake() removes the      *)
(* task; spawn() never entered it.                                         *)
ReturnReady(j) ==
  /\ exec.at = "return"
  /\ exec.job = j
  /\ status' = [status EXCEPT ![j] = "done"]
  /\ tasks' = IF exec.fresh THEN tasks
              ELSE Restrict(tasks, DOMAIN tasks \ {exec.token})
  /\ exec' = [exec EXCEPT !.at = BackToDrain]
  /\ UNCHANGED <<taskQ, wakeQ, task_counter, token, await, events, source,
                 joinVars, mainVars>>

-----------------------------------------------------------------------------
(* The source threads.                                                     *)

SourceStep(j, e, from, to) ==
  /\ source[j][e] = from
  /\ source' = [source EXCEPT ![j][e] = to]

(* The event happens. *)
Fire(j, e) ==
  /\ SourceStep(j, e, "armed", "fired")
  /\ UNCHANGED <<execVars, status, token, await, events, joinVars, mainVars>>

(* WAKE_QUEUE.add(token), its push. *)
PushWake(j, e) ==
  /\ \/ SourceStep(j, e, "fired", "pushed")
     \/ j \in Oneshots /\ SourceStep(j, e, "woken", "pushedAgain")
  /\ wakeQ' = PushBack(wakeQ, token[j])
  /\ UNCHANGED <<taskQ, task_counter, tasks, exec, status, token, await,
                 events, joinVars, mainVars>>

(* WAKE_QUEUE.add(token), its release. *)
ReleaseWake(j, e) ==
  /\ \/ SourceStep(j, e, "pushed", "woken")
     \/ SourceStep(j, e, "pushedAgain", "over")
  /\ wakeQ' = ReleasePermit(wakeQ)
  /\ UNCHANGED <<taskQ, task_counter, tasks, exec, status, token, await,
                 events, joinVars, mainVars>>
-----------------------------------------------------------------------------
MainStep == BlockOnPush \/ BlockOnRelease \/ BlockOnWait \/ BlockOnTake

LoopStep == \/ WaitTasks \/ WaitWakes \/ Drained
            \/ SpawnTask \/ WakeTask \/ WakeGone \/ ReturnPending

PollStep(j) ==
  \/ AwaitEvent(j) \/ EventPending(j) \/ EventResume(j)
  \/ Finish(j) \/ Resolve(j) \/ ReturnReady(j)
  \/ \E k \in Jobs : SpawnJob(j, k) \/ JoinReady(j, k) \/ JoinPending(j, k)

ExecutorStep == LoopStep \/ \E j \in Jobs : PollStep(j)

Next ==
  \/ MainStep
  \/ LoopStep
  \/ \E j \in Jobs : PollStep(j)
  \/ \E j \in Jobs, e \in Events : Fire(j, e) \/ PushWake(j, e)
                                               \/ ReleaseWake(j, e)

Spec == Init /\ [][Next]_vars

(* The threads run whenever they can, and events happen.  A source need    *)
(* not wake a second time.                                                 *)
Fairness ==
  /\ WF_vars(MainStep)
  /\ WF_vars(ExecutorStep)
  /\ \A j \in Jobs, e \in Events :
       /\ WF_vars(Fire(j, e))
       /\ WF_vars(source[j][e] = "fired" /\ PushWake(j, e))
       /\ WF_vars(ReleaseWake(j, e))

FairSpec == Spec /\ Fairness
-----------------------------------------------------------------------------
(* Where the executor's thread is inside spawn() or wake(). *)
InPoll == {"poll", "pending", "resolve", "return"}

Places == {"wait", "drainTasks", "drainWakes"} \cup InPoll

SourceStates ==
  {"none", "armed", "fired", "pushed", "woken", "pushedAgain", "over"}

(* Type invariant of the executor, its two queues, the jobs, their join    *)
(* states and the thread in spawn_and_block.                               *)
TypeOK ==
  /\ taskQ \in QueueOf(Jobs)
  /\ wakeQ \in QueueOf(Tokens)
  /\ task_counter \in Tokens
  /\ DOMAIN tasks \subseteq Tokens
  /\ \A t \in DOMAIN tasks : tasks[t] \in Jobs
  /\ exec \in [at : Places, job : Jobs, token : Tokens \cup {None},
               fresh : BOOLEAN]
  /\ status \in [Jobs -> {"new", "queued", "started", "done"}]
  /\ token \in [Jobs -> Tokens \cup {None}]
  /\ await \in [Jobs -> Jobs \cup {"none", "event"}]
  /\ events \in [Jobs -> 0..MaxEvents]
  /\ source \in [Jobs -> [Events -> SourceStates]]
  /\ parent \in [Jobs -> Jobs]
  /\ join \in [Jobs -> {"Unawaited", "Awaited", "Ready", "Done"}]
  /\ joinWaker \in [Jobs -> Tokens \cup {None}]
  /\ main \in {"start", "pushed", "waiting", "signalled", "returned",
               "panicked"}
  /\ signal \in BOOLEAN

Running(j) == exec.job = j /\ exec.at \in InPoll

(* A task token names one live task: the job that is running carries its   *)
(* own token and has not finished, the map holds exactly the started jobs, *)
(* each under the token its wakers carry, and the job in its first poll is *)
(* the only one not entered yet.  A wake that is out on a token therefore  *)
(* polls the job it was meant for, and no future is polled after it        *)
(* returned Ready.                                                         *)
TokenNamesTask ==
  /\ \A j \in Jobs :
       Running(j) => status[j] = "started" /\ exec.token = token[j]
  /\ \A j \in Jobs :
       status[j] = "started" =>
         \/ token[j] \in DOMAIN tasks /\ tasks[token[j]] = j
         \/ Running(j) /\ exec.fresh
  /\ \A t \in DOMAIN tasks : status[tasks[t]] = "started"

InWakeQ(j) == \E k \in 1..Len(wakeQ.vals) : wakeQ.vals[k] = token[j]

(* No wake is lost: when a job is suspended on an event that has happened  *)
(* and whose source has called its waker, the token is still in WAKE_QUEUE *)
(* or the job is being polled and has yet to return.  This includes a      *)
(* source that wakes while the first poll is still running, or after it    *)
(* and before spawn() has entered the task in the map.                     *)
NoLostWake ==
  \A j \in Jobs :
    (await[j] = "event" /\ EventReady(j) /\ source[j][events[j]] # "fired")
      => InWakeQ(j) \/ Polled(j)

(* Nothing is stranded in either queue while the executor sleeps on their  *)
(* semaphores or is busy with the other queue: an item there has a permit, *)
(* or the add() that pushed it has yet to release one, or that queue is    *)
(* the one being drained.                                                  *)
QueuesServed ==
  /\ ~IsEmpty(wakeQ) =>
       \/ Signalled(wakeQ)
       \/ \E j \in Jobs, e \in Events :
            source[j][e] \in {"pushed", "pushedAgain"}
       \/ exec.at = "drainWakes"
       \/ \E j \in Jobs : Running(j) /\ ~exec.fresh
  /\ ~IsEmpty(taskQ) =>
       \/ Signalled(taskQ)
       \/ main = "pushed"
       \/ exec.at = "drainTasks"
       \/ \E j \in Jobs : Running(j) /\ exec.fresh

(* spawn_and_block never reaches its panic "got ready signal, but future   *)
(* wasn't actually ready".                                                 *)
BlockOnNeverPanics == main # "panicked"

(* Every future handed to the executor is run to its end, unless it comes  *)
(* to await another one's JoinHandle (see JoinerResumes).                  *)
JobsFinish ==
  \A j \in Jobs :
    (status[j] # "new") ~> (status[j] = "done" \/ await[j] \in Jobs)

(* Runtime::block_on returns, unless its future comes to await a           *)
(* JoinHandle.                                                             *)
BlockOnReturns == <>(main = "returned" \/ await[Root] \in Jobs)

(* The task that awaits a JoinHandle goes on once the joined task is       *)
(* ready.  wrap_with_join_state means to wake it: "if let                  *)
(* JoinState::Awaited(waker) = &*guard" (src/executor.rs:262).             *)
JoinerResumes ==
  \A k \in Joinable :
    (join[k] = "Ready" /\ await[parent[k]] = k) ~> (await[parent[k]] # k)

(* The refinement mapping to the contract of wakers: the phase of a job,   *)
(* and the places in WAKE_QUEUE that hold its token.                       *)
PhaseOf(j) ==
  CASE status[j] \in {"new", "queued"} -> "idle"
    [] status[j] = "done" -> "done"
    [] status[j] = "started" -> IF Running(j) THEN "running" ELSE "pending"

WakesOf(j) == {k \in 1..Len(wakeQ.vals) : wakeQ.vals[k] = token[j]}

phaseBar == [j \in Jobs |-> PhaseOf(j)]
wakesBar == [j \in Jobs |-> WakesOf(j)]

W == INSTANCE Waker WITH phase <- phaseBar, wakes <- wakesBar

(* The executor keeps the contract of std::task::Waker: every call of a    *)
(* task's waker, from any thread and at any time, is answered by a poll of *)
(* that task, and is dropped only once the task is done.                   *)
ImplementsWaker == W!Spec
=============================================================================
