------------------------------ MODULE AsyncFs ------------------------------
(***************************************************************************)
(* The file pool of src/fs/async_pool.rs: AsyncFile, the Read, Write and   *)
(* Flush futures, the pool's SyncQueue and the IoWorker threads.           *)
(*                                                                         *)
(* A future passes the addresses of its two atomics (result code and       *)
(* result) and of its buffer to a worker, which writes through them while  *)
(* the future may be polled.  Every access to them is a step.  AsyncFile's *)
(* methods borrow it mutably, so a file has one future at a time; it is    *)
(* awaited to its end.  The FS service behind FileHandle is external: it   *)
(* transfers any number of bytes up to MaxLen, or fails.                   *)
(***************************************************************************)
EXTENDS SyncQueueOps, FiniteSets

CONSTANTS Files,        \* open AsyncFiles, each used by a task of its own
          Workers,      \* IoWorker threads
          MaxOps,       \* bound: operations on all files together
          MaxLen,       \* bound: length of a buffer
          MaxSpurious,  \* bound: polls of pending futures without their wake
          MaxDeaths     \* bound: workers that may panic

ASSUME AsyncFsAssumption ==
  /\ MaxOps \in Nat /\ MaxLen \in Nat
  /\ MaxSpurious \in Nat /\ MaxDeaths \in Nat

(* A stream operation, embedded_io_async's read() or write(), starts at    *)
(* the cursor and moves it; read_at() and write_at() are given an offset,  *)
(* here 0; flush() has none.                                               *)
Kinds == {"read", "write", "readAt", "writeAt", "flush"}
Stream == {"read", "write"}

Bytes == 0..MaxLen
Offsets == 0..(MaxOps * MaxLen)
Unset == -1                    \* bytes_read = u32::MAX, done = false
OsErr == -2                    \* an Os error's result code; success is 0

(* What FileHandle's read(), write() and flush() can return. *)
Outcomes(kind) ==
  {[code |-> OsErr, bytes |-> 0]}
    \cup [code : {0}, bytes : IF kind = "flush" THEN {0} ELSE Bytes]

VARIABLES pool,       \* ASYNC_FS_POOL
          fut,        \* each file's future: "none", "new", "adding", "pending"
          op,         \* its operation
          state,      \* its result code, an AtomicI32
          result,     \* its bytes_read, bytes_written or done atomic
          cursor,     \* AsyncFile.cursor
          returned,   \* what the last awaited future returned
          ops,        \* how many operations were begun
          worker,     \* the workers: where they are, for which file
          outcome,    \* what the worker's call for a file returned
          wakes,      \* wakes of each file's task in WAKE_QUEUE
          spurious    \* how many polls came without a wake

futVars == <<fut, op, state, result, cursor, returned, ops>>
vars == <<pool, futVars, worker, outcome, wakes, spurious>>

NoOutcome == [code |-> 0, bytes |-> Unset]

Init ==
  /\ pool = NewQueue
  /\ fut = [f \in Files |-> "none"]
  /\ op = [f \in Files |-> [kind |-> "flush", offset |-> 0]]
  /\ state = [f \in Files |-> 0]
  /\ result = [f \in Files |-> Unset]
  /\ cursor = [f \in Files |-> 0]
  /\ returned = [f \in Files |-> NoOutcome]
  /\ ops = 0
  /\ worker = [w \in Workers |-> [at |-> "wait"]]
  /\ outcome = [f \in Files |-> NoOutcome]
  /\ wakes = [f \in Files |-> 0]
  /\ spurious = 0
-----------------------------------------------------------------------------
(* The task of file f calls read(), write(), read_at(), ... *)
Begin(f, kind) ==
  /\ fut[f] = "none"
  /\ ops < MaxOps
  /\ fut' = [fut EXCEPT ![f] = "new"]
  /\ op' = [op EXCEPT ![f] = [kind |-> kind,
                              offset |-> IF kind \in Stream THEN cursor[f]
                                         ELSE 0]]
  /\ state' = [state EXCEPT ![f] = 0]
  /\ result' = [result EXCEPT ![f] = Unset]
  /\ ops' = ops + 1
  /\ outcome' = [outcome EXCEPT ![f] = NoOutcome]
  /\ UNCHANGED <<pool, cursor, returned, worker, wakes, spurious>>

(* The first poll adds the operation to the pool: its push ... *)
PollPush(f) ==
  /\ fut[f] = "new"
  /\ fut' = [fut EXCEPT ![f] = "adding"]
  /\ pool' = PushBack(pool, f)
  /\ UNCHANGED <<op, state, result, cursor, returned, ops, worker, outcome,
                 wakes, spurious>>

(* ... and its release; then registered = true, and Pending. *)
PollRelease(f) ==
  /\ fut[f] = "adding"
  /\ fut' = [fut EXCEPT ![f] = "pending"]
  /\ pool' = ReleasePermit(pool)
  /\ UNCHANGED <<op, state, result, cursor, returned, ops, worker, outcome,
                 wakes, spurious>>

(* state_resolve: a result code other than success is the error. *)
StateResolve(f) ==
  IF state[f] = 0 THEN [code |-> 0, bytes |-> result[f]]
  ELSE [code |-> state[f], bytes |-> 0]

(* A faulty completion that moves the cursor after a failure as well. *)
CompleteAlwaysMoves(f) ==
  /\ returned' = [returned EXCEPT ![f] = StateResolve(f)]
  /\ cursor' = [cursor EXCEPT ![f] = IF op[f].kind \in Stream
                                     THEN @ + MaxLen ELSE @]

(* What read() and write() do with the result: on success the cursor moves *)
(* by the bytes transferred.                                               *)
Complete(f) ==
  /\ returned' = [returned EXCEPT ![f] = StateResolve(f)]
  /\ cursor' = [cursor EXCEPT ![f] =
                  IF op[f].kind \in Stream /\ StateResolve(f).code = 0
                  THEN @ + StateResolve(f).bytes ELSE @]

(* A faulty poll that returns Ready whether or not the result is set. *)
PollAlwaysReady(f) ==
  /\ fut[f] = "pending"
  /\ Complete(f)
  /\ fut' = [fut EXCEPT ![f] = "none"]
  /\ UNCHANGED <<pool, op, state, result, ops, worker, outcome>>

(* A later poll: Ready once the result is set, and the future is gone. *)
PollAgain(f) ==
  /\ fut[f] = "pending"
  /\ IF result[f] # Unset
     THEN Complete(f) /\ fut' = [fut EXCEPT ![f] = "none"]
     ELSE UNCHANGED <<returned, cursor, fut>>
  /\ UNCHANGED <<pool, op, state, result, ops, worker, outcome>>

PollWoken(f) ==
  /\ PollAgain(f)
  /\ wakes[f] > 0
  /\ wakes' = [wakes EXCEPT ![f] = @ - 1]
  /\ UNCHANGED spurious

PollSpurious(f) ==
  /\ PollAgain(f)
  /\ spurious < MaxSpurious
  /\ spurious' = spurious + 1
  /\ UNCHANGED wakes

(* A wake that comes after the future it was meant for has completed. *)
StrayWake(f) ==
  /\ fut[f] = "none"
  /\ wakes[f] > 0
  /\ wakes' = [wakes EXCEPT ![f] = @ - 1]
  /\ UNCHANGED <<pool, futVars, worker, outcome, spurious>>
-----------------------------------------------------------------------------
(* IoWorker::run *)

Worker(w, from, to) == worker[w] = from /\ worker' = [worker EXCEPT ![w] = to]

At(place, f) == [at |-> place, file |-> f]

Wait(w) ==
  /\ Signalled(pool)
  /\ Worker(w, [at |-> "wait"], [at |-> "remove"])
  /\ pool' = TakePermit(pool)
  /\ UNCHANGED <<futVars, outcome, wakes, spurious>>

(* A faulty worker that leaves the operation in the pool. *)
RemoveKeeps(w) ==
  /\ Worker(w, [at |-> "remove"], IF IsEmpty(pool) THEN [at |-> "wait"]
                                  ELSE At("perform", Popped(pool)))
  /\ UNCHANGED <<pool, futVars, outcome, wakes, spurious>>

(* remove(): None sends the worker back to its wait. *)
RemoveOp(w) ==
  /\ Worker(w, [at |-> "remove"], IF IsEmpty(pool) THEN [at |-> "wait"]
                                  ELSE At("perform", Popped(pool)))
  /\ pool' = IF IsEmpty(pool) THEN pool ELSE PopBack(pool)
  /\ UNCHANGED <<futVars, outcome, wakes, spurious>>

(* The file call; it uses the future's buffer. *)
Perform(w, f) ==
  /\ Worker(w, At("perform", f), At("storeState", f))
  /\ outcome' \in {[outcome EXCEPT ![f] = o] : o \in Outcomes(op[f].kind)}
  /\ UNCHANGED <<pool, futVars, wakes, spurious>>

(* The call fails in another way, Err(_) => todo!(), or panics itself: the *)
(* thread ends and nobody resolves the operation.                          *)
Panic(w, f) ==
  /\ Cardinality({v \in Workers : worker[v].at = "dead"}) < MaxDeaths
  /\ Worker(w, At("perform", f), At("dead", f))
  /\ UNCHANGED <<pool, futVars, outcome, wakes, spurious>>

(* A faulty resolve() that publishes the result before the result code. *)
StoreResultFirst(w, f) ==
  /\ Worker(w, At("storeState", f), At("storeStateLate", f))
  /\ result' = [result EXCEPT ![f] = outcome[f].bytes]
  /\ UNCHANGED <<pool, fut, op, state, cursor, returned, ops, outcome, wakes,
                 spurious>>

(* resolve(): the result code first ... *)
StoreState(w, f) ==
  /\ Worker(w, At("storeState", f), At("storeResult", f))
  /\ state' = [state EXCEPT ![f] = outcome[f].code]
  /\ UNCHANGED <<pool, fut, op, result, cursor, returned, ops, outcome, wakes,
                 spurious>>

(* ... then the result, which is what the future looks at first. *)
StoreResult(w, f) ==
  /\ Worker(w, At("storeResult", f), At("wake", f))
  /\ result' = [result EXCEPT ![f] = outcome[f].bytes]
  /\ UNCHANGED <<pool, fut, op, state, cursor, returned, ops, outcome, wakes,
                 spurious>>

(* A faulty worker that does not wake the task. *)
WakeNobody(w, f) ==
  /\ Worker(w, At("wake", f), [at |-> "wait"])
  /\ UNCHANGED <<pool, futVars, outcome, wakes, spurious>>

(* self.executor.wake(op.task) *)
Wake(w, f) ==
  /\ Worker(w, At("wake", f), [at |-> "wait"])
  /\ wakes' = [wakes EXCEPT ![f] = @ + 1]
  /\ UNCHANGED <<pool, futVars, outcome, spurious>>
-----------------------------------------------------------------------------
PollStep(f) == PollPush(f) \/ PollRelease(f) \/ PollWoken(f)

WorkerStep(w) ==
  \/ Wait(w) \/ RemoveOp(w)
  \/ \E f \in Files : \/ Perform(w, f) \/ StoreState(w, f)
                      \/ StoreResult(w, f) \/ Wake(w, f)

Next ==
  \/ \E f \in Files, kind \in Kinds : Begin(f, kind)
  \/ \E f \in Files : PollStep(f) \/ PollSpurious(f) \/ StrayWake(f)
  \/ \E w \in Workers : WorkerStep(w) \/ \E f \in Files : Panic(w, f)

Spec == Init /\ [][Next]_vars

(* The executor polls what it should, and the workers keep running. *)
Fairness ==
  /\ \A f \in Files : WF_vars(PollStep(f))
  /\ \A w \in Workers : WF_vars(WorkerStep(w))

FairSpec == Spec /\ Fairness
-----------------------------------------------------------------------------
Results == [code : {0, OsErr}, bytes : Bytes \cup {Unset}]

(* A worker has an operation that it has not resolved. *)
Holding == {"perform", "storeState", "storeResult", "dead"}

(* Type invariant. *)
TypeOK ==
  /\ pool \in QueueOf(Files)
  /\ fut \in [Files -> {"none", "new", "adding", "pending"}]
  /\ op \in [Files -> [kind : Kinds, offset : Offsets]]
  /\ state \in [Files -> {0, OsErr}]
  /\ result \in [Files -> Bytes \cup {Unset}]
  /\ cursor \in [Files -> Offsets]
  /\ returned \in [Files -> Results]
  /\ ops \in 0..MaxOps
  /\ worker \in [Workers ->
       [at : {"wait", "remove"}]
         \cup [at : Holding \cup {"wake"}, file : Files]]
  /\ outcome \in [Files -> Results]
  /\ wakes \in [Files -> Nat]
  /\ spurious \in 0..MaxSpurious

(* Where the operation of file f is: in the pool, or with a worker that    *)
(* has yet to write through the addresses in it or died before it could.   *)
Where(f) ==
  {<<"pool", k>> : k \in {i \in 1..Len(pool.vals) : pool.vals[i] = f}}
    \cup {<<"worker", w>> :
            w \in {v \in Workers : /\ worker[v].at \in Holding
                                   /\ worker[v].file = f}}

(* An operation is in one place until it is resolved: in the pool, with    *)
(* one worker, or lost with a worker that died.  So a worker that is about *)
(* to write through the future's addresses finds the future still there,   *)
(* and no two workers write through the same ones.                         *)
OpInOnePlace ==
  \A f \in Files :
    IF fut[f] \in {"adding", "pending"} /\ result[f] = Unset
    THEN \E p \in Where(f) : Where(f) = {p}
    ELSE Where(f) = {}

(* The future returns what the worker's call for it returned, with its     *)
(* result code, although code and result are published apart.              *)
ReturnsOutcome == \A f \in Files : fut[f] = "none" => returned[f] = outcome[f]

(* The cursor moves only by what a stream operation transferred, when it   *)
(* completes, and a failed operation leaves it alone.                      *)
CursorFollowsTransfer ==
  [][\A f \in Files :
       cursor'[f] # cursor[f] =>
         /\ op[f].kind \in Stream
         /\ outcome[f].code = 0
         /\ cursor'[f] = op[f].offset + outcome[f].bytes]_vars

(* Every operation completes, unless the worker that took it died: one     *)
(* worker that dies does not take other operations with it, as long as     *)
(* another is left.                                                        *)
OpsComplete ==
  \A f \in Files :
    (fut[f] # "none") ~> \/ fut[f] = "none"
                         \/ \E w \in Workers : worker[w] = At("dead", f)
=============================================================================
