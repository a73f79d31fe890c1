# A TLA+ model of bunnyds

bunnyds is a small async runtime for the Nintendo 3DS: one executor thread that
polls tasks, a few helper threads that do blocking work, and the primitives that
tie them together. This directory holds TLA+ modules of that runtime, TLC
configurations that check them on small instances, and TLAPS proofs of their main
invariants. Source paths below are relative to the repository's `src/` directory.

## The system

| part | source | what it does | module |
|---|---|---|---|
| SyncQueue | `ctru_utils.rs` | a deque under a mutex beside an OS semaphore | `SyncQueueOps`, `SyncQueue` |
| Executor | `executor.rs` | drains a spawn queue and a wake queue, polls tasks; `spawn`, `JoinHandle`, `spawn_and_block` | `Executor`, contract in `Waker` |
| WaitSignal | `ctru_utils.rs` | one-shot event that `spawn_and_block` sleeps on | part of `Executor` |
| DSMutex | `sync.rs` | a lock for tasks and threads kept in one signed integer | `DSMutex` |
| oneshot | `sync.rs` | one value from any thread to a task | `Oneshot` |
| notification | `sync.rs` | one atomic word: UNINIT, READY or a task token | `Notification` |
| file pool | `fs/async_pool.rs` | futures hand operations to worker threads through a SyncQueue | `AsyncFs` |
| spawn_blocking, threads | `executor.rs`, `ctru_thread.rs` | native threads with a result packet; one that answers through a oneshot | `SpawnBlocking` on top of `Oneshot` |
| Reactor, Sleep | `reactor.rs` | wakes tasks when OS handles (timers) fire | `Reactor` |
| start-up | `lib.rs`, `fs/mod.rs` | order in which the parts are created | the part `Reactor` depends on |
| sockets | `net.rs` | one worker thread per socket polls for the tasks interested | `AsyncTcp` on top of `SocketService` |
| socket service | `net_sync/`, `err.rs` | IPC requests to `soc:U`, handles, addresses, errno mapping | `SocketService` |
| Semaphore | `ctru_utils.rs` | wrapper that nothing uses | not modelled |
| synchronous fs, types | `fs/` | stateless IPC and declarations | not modelled |
| ARM intrinsics | `arm_intrinsics.rs` | unused assembly | not modelled |

Everything that waits does so through the executor. A leaf future leaves its task's
token (the pointer of the `Waker` is the token) somewhere; another thread, or another
task, later adds that token to `WAKE_QUEUE`; the executor drains the queue and polls the
task of each token. `Executor` models this with an abstract source thread behind each
awaited event. The modules of the primitives model the other side, with `wakes` standing
for the tokens on their way through `WAKE_QUEUE`. That every such wake leads to a poll is
what `Executor` shows by implementing `Waker`.

## The modules

**SyncQueueOps** is the queue as a value, `[vals, permits]`. `add()` updates the deque and
the semaphore apart, so it is `PushBack` followed by `ReleasePermit`; a release at
`MaxPermits` (255 in the code) is refused and the refusal ignored.

**SyncQueue** puts producers and consumers around one queue. A consumer in `takers` (all
or none, chosen in `Init`) consumes as a file worker does (wait once, remove once), the
others as the executor does (wait once, remove until None). `taken` and `refused` are
history variables.

**Executor** follows the executor thread through `ExecutorHandler::run`: `exec.at` is
`wait`, `drainTasks`, `drainWakes`, or inside a poll `poll`, `pending` (wakers registered,
about to return Pending), `resolve` (the join state is locked, Ready stored) and `return`.
`exec.fresh` tells the first poll, made by `spawn()` before the task is in the map, from one
made by `wake()`. A leaf future that leaves its token and the `tasks.insert` of `spawn()` are
two steps, `AwaitEvent` and `ReturnPending`: between them a source may fire and push its wake
for a task that is not in the map yet. A job awaits events, spawns jobs, awaits a `JoinHandle`
and finishes, in any order. An event's source is `armed`, `fired`, `pushed`, `woken`. The
events of the jobs in `Oneshots` are oneshots: their poll looks at the flag after it has left
the token, and may find the event ready that it has just registered for; and their sender may
wake once more (`pushedAgain`, `over`), as it does in `send()` and in `drop()`. `main` is the
thread in `spawn_and_block`. Tokens are taken modulo `TokenSpace`.

**Waker** is the abstract specification: a task is polled when spawned and once per wake;
a wake is dropped only for a task that is done (`Safety`); a wake is answered in the end
(the fairness in `Spec`). `wakes` is the set of a task's unanswered wakes. The refinement
mapping reads a job's phase from `status` and `exec`, and takes for its wakes the places
of its token in `wakeQ`.

**DSMutex** splits every method of `DsLock` at each access to the shared word. `MayRun`
says who may run while another user is inside a method: nobody if `Interruptible` is
FALSE, otherwise anyone but a task while a task is inside (tasks share a thread). A task
may be polled spuriously, and may drop a registered `LockFut`.

**Oneshot** and **Notification** have one action per access to their shared cells.
Acquire and Release accesses are taken as sequentially consistent. In `Oneshot` the
receiver may be moved to another task.

**AsyncFs** has the futures' polls, the pool and the workers, each access to the two
atomics a step. What the FS service answers is any member of `Outcomes`. A worker that
meets `todo!()` or a panic dies. The `Close` future is left out: nothing constructs it.

**SpawnBlocking** extends `Oneshot` with the two threads of `spawn_blocking`: the caller
in `RawThread::new` (create, `forget(p)`, then detach by drop or `join()`), and the new
thread (`_start_thread`, the closure with the channel's sender, the packet, the exit).
`box_frees` and `handle_frees` count how often the closure's Box and libctru's thread are
freed. The future is polled by `Oneshot`'s own actions once `spawn_blocking` has returned.

**Reactor** has the reactor's thread (`AddHandle`, `TimerSignalled`), the kernel's timers,
and `Sleep::poll` split where the clock or another thread can get in: reading `Instant`,
`svcSetTimer`, the request to the reactor, its reply. A timer runs on another clock than
`Instant` and may be up to `Early` ticks ahead of it. The start of the runtime is there
because it decides whether `REACTOR_PORT` is set when the first Sleep needs it. It
rests on threads of equal priority taking turns in the order they became ready (the
repository's README calls the system "cooperatively multi-tasked"): `run()` spawns the reactor and then makes
a request in `init_sdmc`, and the reactor's thread runs before the reply does.

**SocketService** is `net_sync/mod.rs` against the descriptors the service has open. Each
call is one request and its reply: the request may fail, the result code may be negative,
the posix code may be an error that `ERROR_MAP` knows or does not know (a `todo!()`).
`sock` follows a `SocketHandle` from `create_socket` to its drop, through every `?` and
panic, the one of `close()` in the drop included. Without `init()` (`enable_soc` is off) the
`unwrap()` in `connect` and `bind` panics (`ServiceMissing`). `sockaddr_as_bytes` and `read_sockaddr` are translated byte by byte.

**AsyncTcp** adds `net.rs`: `wrap` and `run`, the worker's loop (wait for a permit if it
has no interests, empty the deque item by item with its mutex held, `poll()`, wake the readers, the writers or both, go
round), `Recv` and `SendFuture` with `add()` split into push and release, cancellation of
a future, the worker's death by `unwrap()`, and the executor's. `held` and `worker` are
the owners of the socket's `Arc`. A panic of the thread that opens a socket reaches the
awaiting task as a `None`, whose `unwrap()` ends the executor.

Definitions introduced by "A faulty ..." are not part of the specification. Each is a
plausible mistake in the definition that follows it, and replacing that definition makes
the property it is listed with in `PROJECT.json` fail.

## What the runs check

| run | instance | shows |
|---|---|---|
| SyncQueue | 3 producers x 2 items, 2 consumers, 2 permits | nothing stranded when drained, permits account for items when taken singly, exactly once, all removed unless a taker's release was refused |
| Executor | 3 jobs, 2 events, 1 joinable, 1 with oneshots, 1 permit | tokens, lost wakes (stale second wakes and wakes before the task is entered included), queues, no panic in `spawn_and_block`; jobs finish, `block_on` returns, `Waker` is implemented |
| ExecutorJoin | 2 jobs, 1 joinable | **violated**: `JoinerResumes` |
| DSMutexUndisturbed | 2 tasks, 1 thread, 2 rounds | exclusion, exact lock word |
| DSMutexDisturbed | 1 task, 1 thread, interruptible | **violated**: `MutualExclusion` |
| DSMutexGranted | 1 task, 1 thread | **violated**: `LockGranted` |
| SpawnBlocking | 2 tasks, 2 moves, 2 spurious polls | the channel: no race, delivery, no lost wake; closure and thread freed once, `join()` finds its result, the future completes |
| Notification | 2 pairs, spurious polls | a registered waiter completes; READY is final |
| NotificationEarly | 1 pair | **violated**: `NotifyArrives` |
| AsyncFs | 2 files, 3 operations, 2 workers, 1 death | one place, right outcome, cursor, completion |
| Reactor | 2 Sleeps of up to 2 ticks, 2 tasks, timers 1 tick ahead | no `unwrap()` panics, timers due no earlier than the deadline, no lost wake, every Sleep ends |
| AsyncTcp | 2 sockets, 2 tasks, 2 operations, 1 fault, 1 permit | handles match descriptors on every error path, with and without a running service, addresses survive, interests are not lost, a worker keeps its descriptor, readiness is served, a socket without owners is closed |

### Disagreements between code and documentation

* `wrap_with_join_state` stores `Ready` and then asks whether the state is `Awaited`. It
  never is, so a task that awaits a `JoinHandle` early sleeps until something else wakes it.
* `DsLock` loads and stores its word in separate accesses. On one core with cooperative
  threads that is enough; with a thread of another core or of a higher priority, both
  of which `spawn_blocking` offers, two guards can exist.
* `unlock()` removes a waiter's token when it wakes it. If the lock is taken before the
  waiter is polled, `LockFut` returns Pending without a token in the list. The
  counterexample needs no interference: a thread takes the lock between wake and poll.
* `notify()` before the first poll of the waiter, or between that poll's load and its store,
  is dropped.

### Conditions under which properties hold

Some properties carry a condition that the code needs and does not ensure.

* `SleepEnds` and `NoLostWake` of `Reactor` exempt a Sleep whose timer fired before the
  deadline: the poll that follows returns Pending, and as `timer` is `Some` no other timer
  is set. `DueAtDeadline` shows that only a difference between the two clocks can do this,
  never the time that `poll()` itself takes. They also exempt a Sleep that was moved to
  another task after its first poll; so does `BlockingCompletes` for a oneshot.
* `HandlesMatchFds` and `WorkerHasItsFd` stop at the first `accept()` whose result code is
  negative. `accept()` looks at the posix code only if the result code is 0, and makes a
  handle from it otherwise.
* `ReadinessServed` exempts a socket whose worker panicked: its interests stay in a list
  that nobody reads. `ClosedWithLastOwner` is about that case; while a worker lives it
  holds the `Arc`, so a dropped `AsyncTcpSocket` is not closed.
* `RemovedInTheEnd` exempts takers whose queue refused a release. The file pool is such a
  queue, and would need 255 operations that are waiting at once.

## Bounds

`MaxPermits` is 1 or 2 so that saturation, which in the code needs 255 pending releases,
happens. `remove()` pops the newest item, so `RemovedInTheEnd` rests on the producers
stopping after `MaxAdds` items: behind an unbounded stream the oldest item may wait for
ever. One job's events are oneshots and the others' are not, which gives every leaf to some
job and both kinds to a schedule. `TokenSpace` is larger than the number of jobs: tokens do not wrap in the runs, as
in a program with fewer than 2^32 spawns. Two items, jobs, files or users of each kind
let any two of them interfere; the third job gives a spawned job a sibling. Events (`TotalEvents`)
and file operations (`MaxOps`) are bounded in total, so that one job or file may have
them all: two events of one job let a stale wake meet a new wait, and two operations on
one file let a wake of the first reach the second, while the other file has one in the
pool. One spurious poll is enough because a poll without a wake leaves nothing behind
that a second would change. `MaxRounds` 2 lets a user
come back to a lock while the other still waits. Workers that die are limited to one of
two, so that the pool is never empty.

`MaxLag` 1 lets the clock go on between `Instant::now` and `svcSetTimer`, `MaxDelay` 2
lets a timer that is one tick ahead fire before or after its deadline, and `MaxTime` 4 is
the last instant at which a Sleep begun at time 1 can still end with every lag used.
Two sockets are two streams, or a listener and what it accepts; two operations let a
reader and a writer wait on one socket at once, which is where one's poll can starve the
other. One fault reaches every error path from every state; a failing call on a handle
that is no descriptor is the consequence of an earlier fault and is not counted.
`ERROR_MAP_LEN` has its value in the code, and the one address has six different bytes,
so that any shift of the copy shows.

Deadlock is not checked: every program of these models is finite, and the system then
rests in its waits.

## Fairness

Liveness assumes weak fairness of each thread's own steps: the executor, the file workers
and the thread in `spawn_and_block` are infinite or straight-line loops that the OS
schedules when they are ready. The 3DS schedules cooperatively, and all of these block in
the kernel when idle, which lets the others run. Events are assumed to fire, guards to be
dropped and senders to finish a call they began. Time passes and timers fire; a socket's
worker runs, and its `poll()` returns when the socket is ready or its timeout has passed. No fairness is assumed for starting an
operation, sending, moving a receiver, a second wake, a spurious poll, a death, data
arriving, room for writing or a socket's drop.
`NotificationEarly` assumes in addition that `notify()` is called, which its
counterexample uses.

## Proofs

| module | theorem | for every |
|---|---|---|
| ChannelProofs | `QueueTypeCorrect`, `DrainStrandsNothing`, `PermitsAccount`, `QueueKeepsItems` | finite set of threads, number of adds, maximum of permits |
| ChannelProofs | `OneshotTypeCorrect`, `OneshotHasNoDataRace`, `OneshotDelivers`, `OneshotLosesNoWake` | set of tasks, number of moves and spurious polls |
| ChannelProofs | `SpawnBlockingUsesOneshot`, `ClosureIsFreedOnce`, `HandleIsFreedOnce`, `JoinFindsResult` | the same |
| ExecutorProofs | `ExecutorTypeCorrect`, `ExecutorServesQueues` | set of jobs, number of events, token space, maximum of permits |
| ExecutorProofs | `ExecutorNamesTasks`, `ExecutorBlockOnNeverPanics` | set of jobs smaller than the token space, number of events |
| ExecutorWakeProofs | `ExecutorKeepsWakerContract`, `ExecutorLosesNoWake` | the same |
| SyncProofs | `MutexTypeCorrect`, `UndisturbedExclusion`, `LockWordCorrect` | finite set of tasks and threads, number of rounds |
| SyncProofs | `NotificationTypeCorrect`, `NotificationReadyIsFinal`, `NotificationWakes` | set of pairs, number of spurious polls |
| AsyncFsProofs | `FsTypeCorrect`, `FsOpsInOnePlace`, `FsReturnsOutcome`, `FsCursorFollows`, `FsLosesNoWake` | sets of files and workers, numbers of operations, bytes, spurious polls and deaths |
| AsyncTcpProofs | `TypeCorrectness`, `HandlesMatch`, `AddressSurvives`, `WorkerPollsItsOwn`, `LastOwnerCloses` | sets of sockets, descriptors, addresses and tasks, numbers of operations and faults |
| AsyncTcpInterestProofs | `InterestsSafe` | the same |
| ReactorProofs | `ReactorTypeCorrect`, `ReactorNeverPanics`, `TimersAreDueInTime`, `ReactorLosesNoWake` | sets of Sleeps and tasks, delays, lags, lead of the timers |

`ChannelProofs` is about the two channels of `sync.rs` and `spawn_blocking`, which uses one of
them; `SyncProofs` is about its mutex and its notification. Neither pair shares state. So that
both modules of a pair can be extended at once, the specification of `SyncQueue` is called
`SQSpec` (`SQInit`, `SQNext`, `SQTypeOK`) and that of `Notification` `NfSpec`.

*SyncQueue.* `NothingStranded` is inductive with `SQTypeOK`: the only step that makes a
release disappear needs a full semaphore, which is itself a permit. `PermitAccounting` is
an equation that each step keeps by moving one unit between its terms; the proof needs
the cardinality facts of finite sets and that a taker who is removing finds an item.
`ExactlyOnce` is proved from the places an item has in the deque before and after a push
or a pop.

*Executor.* The types need `TokensKnown` (whoever can wake a job has its token).
`QueuesServed` is then kept by each step, with `SourcesInTurn`: a job that awaits its next
event must not overwrite a source that has yet to release. The other theorems assume
`TokensSuffice`, that the jobs are fewer than the tokens: no function maps the tokens one
to one into the jobs. `TokenNamesTask` is not inductive:
that spawn() hands out a new token needs that the counter is the number of jobs spawned so
far (`TokensDistinct`), that a job is spawned once needs that the spawn queue holds each
queued job once (`QueuedOnce`), and that removing a task removes no other needs that the
map is keyed by the jobs' own tokens (`MapKeyed`). Given these names, `NoLostWake` is kept
because a popped token is in the map of an executor that polls nobody: a wake that came
before `ReturnPending` waits in `wakeQ` until the task is entered, as the executor pops
nothing in `InPoll`. It needs `AwaitTells` (only a started job awaits). `BlockOnNeverPanics` needs `RootResolved`, which ties the
signal to the join state and says that the root is resolved once.

`ExecutorKeepsWakerContract` is the refinement of `Waker`: initial states map to initial
states, and each step to a step of `Waker` or to none. A step of the executor can change
the mapped state in three ways, which have lemmas of their own. `Becomes` is a job that
changes its phase, `PushWakes` a token added to `WAKE_QUEUE`, `PopAnswers` one removed from
it. Besides `Named` the steps need `IssuedInTurn`: a job that is not spawned has no token
(`Unissued`) and `WAKE_QUEUE` holds only tokens that were given out (`WakesIssued`), or a
token given out by `spawn()` would find wakes that nobody called; and a join state is Ready
when the waker in it is looked for (`ResolvesReady`), so that `Resolve` wakes nobody.

*DSMutex.* Exclusion alone is not inductive: a method decides on the value it loaded. The
strengthening says that at most one user is inside a method (`OneInMethod`), that what it
loaded is still the word (`LoadedIsFresh`), and that the word is the signed count of
waiters (`Word`). `UndisturbedExclusion` assumes `~Interruptible`; without it the
run DSMutexDisturbed refutes the property. `LockWordCounts` carries that condition itself.

*Oneshot.* The invariant ties the sender's place to flag and value (the flag is set only
after the write; the value is in the cell from the write to the take), and the
receiver's place to `rx_task`. `SpawnBlockingUsesOneshot` shows that every step of
`SpawnBlocking` is one of `Oneshot` or leaves its variables alone, so the channel's
theorems carry over. What is freed once follows from `ThreadsAgree`, which ties the places
of the two threads to each other and to `detached`, and `JoinFindsResult` from
`PacketHolds`: between the thread's store and the take the packet has the result.

*Notification.* `ReadyIsFinal` needs `NotifyInv`: `notify()` is past its load only if a token
was there, and a poll past its load still has UNINIT to overwrite, as `notify()` leaves
UNINIT alone. `NotificationWakes` proves `NotifiedIsWoken`, the safety under the
liveness property `RegisteredIsNotified`: a pending waiter whose word is READY has its wake,
or `notify()` is about to send it.

*AsyncFs.* The invariant is `FsInv`. `Placed` says place by place what `OpInOnePlace` says of
the set of places, so that a push, a pop and a worker's step each disturb one clause of it.
`Published` follows an outcome from the worker's call through the two stores: the code is
there before the result, and a result that is set comes with the code of the same call.
`AtCursor` says that a stream operation's offset stays the cursor until it completes, which
makes the cursor's new value the old one plus the bytes.
`FsLosesNoWake` proves `ResolvedIsWoken`, the safety under `OpsComplete`: a future that is
pending with its result set has a wake, or its worker is about to send one. It is inductive
with `TypeOK` and `Published`, which says that a new future has no result yet.

*AsyncTcp.* The invariant is `HandleInv`. A socket that was never opened has
no descriptor (`FreshHasNoFd`), what a worker or a task owns is a stream with
a descriptor (`OwnedIsStream`), and what a task holds had a worker started for it
(`HeldHasWorker`). `HandlesMatchFds` is then kept by each request and each of its failures.
`AddressSurvives` computes both conversions on an arbitrary address. `NoInterestLost` is not
inductive: it speaks of a pending future, and the push comes before the future is pending. `InterestKept`
says the same from the push on, without the permit, and `QueueSignalled` says of the queue,
whoever pushed, that it is being drained, has a permit or is about to get one.

*Reactor.* The invariant is a conjunction per Sleep: `Stages` relates its phase, its timer,
the step of the poll that the executor is at and the reactor's list, where its handle has
exactly one token until it has fired; `Clocks` relates `now`, the instant that was read,
`expiry` and `deadline`; `Wakes` says where the wake of a timer that has fired is. `Started` is needed for the port, and `OneEach` because a wake is
only consumed by a task that awaits one Sleep at a time: a count of wakes could otherwise
be used up for another Sleep of the same task.

Type correctness of the queue, the lock, the channel and the reactor is proved and not
checked by a run; that of the other modules is both proved and checked.

The assumptions on constants are the named `ASSUME`s of the modules; TLC evaluates them
in every run.

Only model-checked: the liveness properties, and of the refinement of `Waker` its fairness
(that a wake is answered in the end). Both need ENABLED and temporal reasoning about
fairness, which the prover does not do. Every safety invariant and action property that a
passing run checks is also proved.

## Not modelled

Besides the parts marked above:

* `SocketService::shutdown` and `shutdown_service`: no code calls them, and the static
  that would be dropped never is. That `init()` is not called twice at a time is taken
  from `run()`, its only caller.
* The number of bytes that `send_to` drops, and the data of sockets and files.
* A `poll()` that answers neither POLLIN nor POLLOUT, and threads that share the session
  of `soc:U`: what the service does then cannot be read from this repository. Likewise
  what happens when `svcCreateTimer` fails, whose result `Sleep` ignores.
* The panic of a `JoinHandle` that is polled again after it was ready: `await` consumes the
  handle, so only a hand-written future can do this.
* `PopHandle`, a `todo!()` that nothing sends, and the `Close` future, which nothing
  constructs.
* The order of the initialisations in `run()` beyond the reactor's: they are made by one
  thread before any task runs.
* The polls of user-written futures beyond what they do to the executor; weak memory
  orders; logging and formatting.
* Dropping a pending file future, for which the code has no provision (its addresses stay
  with the pool).
* Tokens that wrap around or reach the two values that `sync.rs` reserves.
