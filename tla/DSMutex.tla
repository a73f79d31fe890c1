------------------------------ MODULE DSMutex ------------------------------
(***************************************************************************)
(* DSMutex of src/sync.rs: the lock that tasks take with lock().await and  *)
(* threads with lock_sync().                                               *)
(*                                                                         *)
(* DsLock keeps everything in one integer: its sign says whether the lock  *)
(* is free (positive) or held (negative), its magnitude is one more than   *)
(* the number of registered waiters.  Every method loads it, decides, and  *)
(* stores it back; the load and the store are separate steps here.  With   *)
(* Interruptible = FALSE a method is not disturbed between them, as on the *)
(* one core of a machine on which "threads will hog the cpu until they     *)
(* explicitly yield" (README.md).  With Interruptible = TRUE a thread of   *)
(* another core or of a higher priority, which spawn_blocking can start,   *)
(* may run in between.  Tasks share the executor's thread and never        *)
(* disturb one another.                                                    *)
(***************************************************************************)
EXTENDS Integers, Sequences, FiniteSets

CONSTANTS Tasks,          \* users of lock()
          Threads,        \* users of lock_sync()
          Interruptible,  \* whether a DsLock method can be disturbed
          MaxRounds,      \* bound: how often each of them takes the lock
          MaxSpurious     \* bound: polls of waiting tasks without their wake

ASSUME DSMutexAssumption ==
  /\ IsFiniteSet(Tasks) /\ IsFiniteSet(Threads)
  /\ Tasks \cap Threads = {}
  /\ Interruptible \in BOOLEAN
  /\ MaxRounds \in Nat
  /\ MaxSpurious \in Nat

Users == Tasks \cup Threads

VARIABLES arb,        \* DsLock.arb
          waiters,    \* DsLock.waiters: who pushed the token
          pc,         \* where each user is
          loaded,     \* the value of arb that each user has loaded
          wakes,      \* wakes of each task that wait in WAKE_QUEUE
          rounds,     \* how often each user has called lock
          abandoned,  \* history: LockFuts dropped while registered
          spurious    \* how many polls came without a wake of the lock

vars == <<arb, waiters, pc, loaded, wakes, rounds, abandoned, spurious>>

Init ==
  /\ arb = 1
  /\ waiters = << >>
  /\ pc = [p \in Users |-> "out"]
  /\ loaded = [p \in Users |-> 0]
  /\ wakes = [t \in Tasks |-> 0]
  /\ rounds = [p \in Users |-> 0]
  /\ abandoned = 0
  /\ spurious = 0

(* Inside a method of DsLock. *)
InMethod == {"trying", "pushing", "retrying", "unlocking", "handing"}

(* p may take a step: nobody else is in the middle of a method that p      *)
(* cannot disturb.                                                         *)
MayRun(p) ==
  \A o \in Users \ {p} :
    pc[o] \in InMethod => Interruptible /\ ~(o \in Tasks /\ p \in Tasks)

Goto(p, from, to) ==
  /\ MayRun(p)
  /\ pc[p] = from
  /\ pc' = [pc EXCEPT ![p] = to]

(* self.arb.0.load(..) *)
Load(p) == loaded' = [loaded EXCEPT ![p] = arb]

-----------------------------------------------------------------------------
(* try_lock_and_register, from lock_sync() or the first poll of a LockFut  *)

TryLock(p) ==
  /\ Goto(p, "out", "trying")
  /\ rounds[p] < MaxRounds
  /\ Load(p)
  /\ rounds' = [rounds EXCEPT ![p] = @ + 1]
  /\ UNCHANGED <<arb, waiters, wakes, abandoned, spurious>>

(* A faulty first attempt that takes the lock whatever it loaded. *)
TakeAlways(p) ==
  /\ Goto(p, "trying", "holding")
  /\ arb' = -loaded[p]
  /\ UNCHANGED <<waiters, loaded, wakes, rounds, abandoned, spurious>>

(* state > 0: store -state and return the guard. *)
TryLockTakes(p) ==
  /\ Goto(p, "trying", "holding")
  /\ loaded[p] > 0
  /\ arb' = -loaded[p]
  /\ UNCHANGED <<waiters, loaded, wakes, rounds, abandoned, spurious>>

(* Otherwise store state - 1 ... *)
TryLockRegisters(p) ==
  /\ Goto(p, "trying", "pushing")
  /\ loaded[p] <= 0
  /\ arb' = loaded[p] - 1
  /\ UNCHANGED <<waiters, loaded, wakes, rounds, abandoned, spurious>>

(* ... push the token, and return false. *)
PushWaiter(p) ==
  /\ Goto(p, "pushing", "registered")
  /\ waiters' = Append(waiters, p)
  /\ UNCHANGED <<arb, loaded, wakes, rounds, abandoned, spurious>>

-----------------------------------------------------------------------------
(* Waiting, and try_lock_release_waiter                                    *)

(* lock_sync(): wait_less_than(0) sleeps if arb < 0, or returns at once. *)
WaitLessThan(h) ==
  /\ \/ Goto(h, "registered", "asleep") /\ arb < 0
     \/ Goto(h, "registered", "awake") /\ arb >= 0
  /\ UNCHANGED <<arb, waiters, loaded, wakes, rounds, abandoned, spurious>>

RetryThread(h) ==
  /\ Goto(h, "awake", "retrying")
  /\ Load(h)
  /\ UNCHANGED <<arb, waiters, wakes, rounds, abandoned, spurious>>

(* The task of a registered LockFut is polled because of a wake. *)
RetryTask(t) ==
  /\ Goto(t, "registered", "retrying")
  /\ wakes[t] > 0
  /\ Load(t)
  /\ wakes' = [wakes EXCEPT ![t] = @ - 1]
  /\ UNCHANGED <<arb, waiters, rounds, abandoned, spurious>>

(* It is polled for another reason: a second wake of something it awaited  *)
(* before, or of another future it awaits together with this one.          *)
RetryTaskSpuriously(t) ==
  /\ Goto(t, "registered", "retrying")
  /\ spurious < MaxSpurious
  /\ Load(t)
  /\ spurious' = spurious + 1
  /\ UNCHANGED <<arb, waiters, wakes, rounds, abandoned>>

(* A faulty retry that leaves itself counted among the waiters. *)
RetryStaysCounted(p) ==
  /\ Goto(p, "retrying", "holding")
  /\ loaded[p] > 0
  /\ arb' = -loaded[p]
  /\ UNCHANGED <<waiters, loaded, wakes, rounds, abandoned, spurious>>

(* lock_state > 0: store -(lock_state - 1), one waiter less, and locked. *)
RetryTakes(p) ==
  /\ Goto(p, "retrying", "holding")
  /\ loaded[p] > 0
  /\ arb' = -(loaded[p] - 1)
  /\ UNCHANGED <<waiters, loaded, wakes, rounds, abandoned, spurious>>

(* Otherwise the thread loops and the task returns Pending; neither pushes *)
(* its token again.                                                        *)
RetryFails(p) ==
  /\ Goto(p, "retrying", "registered")
  /\ loaded[p] <= 0
  /\ UNCHANGED <<arb, waiters, loaded, wakes, rounds, abandoned, spurious>>

(* A registered LockFut is dropped.  It has no Drop of its own. *)
DropFut(t) ==
  /\ Goto(t, "registered", "out")
  /\ abandoned' = abandoned + 1
  /\ UNCHANGED <<arb, waiters, loaded, wakes, rounds, spurious>>

(* A wake that finds its task not waiting for the lock. *)
StrayWake(t) ==
  /\ MayRun(t)
  /\ pc[t] \in {"out", "holding"}
  /\ wakes[t] > 0
  /\ wakes' = [wakes EXCEPT ![t] = @ - 1]
  /\ UNCHANGED <<arb, waiters, pc, loaded, rounds, abandoned, spurious>>

-----------------------------------------------------------------------------
(* unlock, from the guard's drop                                           *)

Unlock(p) ==
  /\ Goto(p, "holding", "unlocking")
  /\ Load(p)
  /\ UNCHANGED <<arb, waiters, wakes, rounds, abandoned, spurious>>

(* lock_state < 0: store -lock_state.  Otherwise unlock does nothing. *)
UnlockStores(p) ==
  LET held == loaded[p] < 0
  IN  /\ Goto(p, "unlocking", IF held THEN "handing" ELSE "out")
      /\ arb' = IF held THEN -loaded[p] ELSE arb
      /\ UNCHANGED <<waiters, loaded, wakes, rounds, abandoned, spurious>>

(* No token in waiters: return. *)
HandOverNone(p) ==
  /\ Goto(p, "handing", "out")
  /\ waiters = << >>
  /\ UNCHANGED <<arb, waiters, loaded, wakes, rounds, abandoned, spurious>>

(* The first token is a task's: WAKE_QUEUE.add(task). *)
HandOverToTask(p) ==
  /\ Goto(p, "handing", "out")
  /\ waiters # << >>
  /\ Head(waiters) \in Tasks
  /\ waiters' = Tail(waiters)
  /\ wakes' = [wakes EXCEPT ![Head(waiters)] = @ + 1]
  /\ UNCHANGED <<arb, loaded, rounds, abandoned, spurious>>

(* It is u32::MAX, a thread's: signal_one() wakes one sleeping thread, or  *)
(* nobody if none sleeps.                                                  *)
HandOverToThread(p) ==
  /\ MayRun(p)
  /\ pc[p] = "handing"
  /\ waiters # << >>
  /\ Head(waiters) \in Threads
  /\ waiters' = Tail(waiters)
  /\ LET asleep == {h \in Threads : pc[h] = "asleep"}
     IN  IF asleep = {}
         THEN pc' = [pc EXCEPT ![p] = "out"]
         ELSE \E h \in asleep :
                pc' = [pc EXCEPT ![p] = "out", ![h] = "awake"]
  /\ UNCHANGED <<arb, loaded, wakes, rounds, abandoned, spurious>>

-----------------------------------------------------------------------------
(* What a user does next without choosing to: everything but to begin a    *)
(* lock(), to drop a future and to be polled spuriously.                   *)
Proceed(p) ==
  \/ TryLockTakes(p) \/ TryLockRegisters(p) \/ PushWaiter(p)
  \/ RetryTakes(p) \/ RetryFails(p)
  \/ Unlock(p) \/ UnlockStores(p)
  \/ HandOverNone(p) \/ HandOverToTask(p) \/ HandOverToThread(p)

Next ==
  \/ \E p \in Users : TryLock(p) \/ Proceed(p)
  \/ \E h \in Threads : WaitLessThan(h) \/ RetryThread(h)
  \/ \E t \in Tasks : \/ RetryTask(t) \/ RetryTaskSpuriously(t)
                      \/ DropFut(t) \/ StrayWake(t)

Spec == Init /\ [][Next]_vars

(* Threads go on running, wakes are served, and guards are dropped. *)
Fairness ==
  /\ \A p \in Users : WF_vars(Proceed(p))
  /\ \A h \in Threads : WF_vars(WaitLessThan(h) \/ RetryThread(h))
  /\ \A t \in Tasks : WF_vars(RetryTask(t) \/ StrayWake(t))

FairSpec == Spec /\ Fairness
-----------------------------------------------------------------------------
Places == InMethod \cup {"out", "registered", "asleep", "awake", "holding"}

(* Type invariant. *)
TypeOK ==
  /\ arb \in Int
  /\ waiters \in Seq(Users)
  /\ pc \in [Users -> Places]
  /\ loaded \in [Users -> Int]
  /\ wakes \in [Tasks -> Nat]
  /\ rounds \in [Users -> Nat]
  /\ abandoned \in Nat
  /\ spurious \in 0..MaxSpurious

(* Users that have a guard, or are about to give it back. *)
Holders == {p \in Users : pc[p] \in {"holding", "unlocking"}}

(* Users that count as waiters in arb. *)
Waiting ==
  {p \in Users : pc[p] \in {"pushing", "registered", "asleep", "awake",
                            "retrying"}}

(* The data is never handed to two guards at once. *)
MutualExclusion == \A p, o \in Holders : p = o

(* The lock word tells the truth while no method is disturbed: it is       *)
(* negative exactly while somebody holds the lock, and its magnitude       *)
(* counts the waiters.  So the lock is never left held by nobody, and it   *)
(* never becomes 0, the value that unlock() would leave alone for ever.    *)
LockWordCounts ==
  ~Interruptible =>
    LET n == 1 + Cardinality(Waiting) + abandoned
    IN  arb = IF Holders = {} THEN n ELSE -n

(* A task that waits in lock().await gets the lock, unless it gives up:    *)
(* "mutexes ... works with tasks, too!" (README.md:94-99).                 *)
LockGranted ==
  \A t \in Tasks : (pc[t] = "registered") ~> (pc[t] \in {"holding", "out"})
=============================================================================
