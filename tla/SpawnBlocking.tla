--------------------------- MODULE SpawnBlocking ---------------------------
(***************************************************************************)
(* spawn_blocking of src/executor.rs: a thread of src/ctru_thread.rs runs  *)
(* the function and sends its result through a oneshot channel (Oneshot).  *)
(*                                                                         *)
(* The thread's main closure is a Box that RawThread::new lends to libctru *)
(* as a raw pointer and _start_thread takes back.  The libctru thread      *)
(* (external) is freed by whoever comes last: a detached one at its exit,  *)
(* one that has exited when it is detached or joined.                      *)
(*                                                                         *)
(* spawn_blocking drops the RawJoin, which detaches the thread; the other  *)
(* use of a RawJoin, join(), is modelled too.                              *)
(***************************************************************************)
EXTENDS Oneshot

VARIABLES spawner,      \* where the caller of spawn_thread is
          thread,       \* where the new thread is
          box_frees,    \* how often the closure's Box was freed
          packet,       \* Packet: what the thread's closure came to
          detached,     \* external: threadDetach was called
          handle_frees, \* external: how often the libctru thread was freed
          joined        \* what join() returned

threadVars ==
  <<spawner, thread, box_frees, packet, detached, handle_frees, joined>>
sbVars == <<vars, threadVars>>

SBInit ==
  /\ Init
  /\ spawner = "new"
  /\ thread = "none"
  /\ box_frees = 0
  /\ packet = "None"
  /\ detached = FALSE
  /\ handle_frees = 0
  /\ joined = "None"

Spawner(from, to) == spawner = from /\ spawner' = to
Thread(from, to)  == thread = from /\ thread' = to
-----------------------------------------------------------------------------
(* RawThread::new on the caller's thread.                                  *)

ThreadCreate ==
  /\ Spawner("new", "created")
  /\ thread' = "ready"
  /\ UNCHANGED <<vars, box_frees, packet, detached, handle_frees, joined>>

(* handle.is_null(): the panic drops p, and with it the oneshot's sender. *)
CreateFails ==
  /\ Spawner("new", "panicked")
  /\ box_frees' = box_frees + 1
  /\ UNCHANGED <<vars, thread, packet, detached, handle_frees, joined>>

Unwind ==
  /\ spawner = "panicked"
  /\ DropStore \/ DropWake
  /\ UNCHANGED threadVars

(* A faulty one that drops p, which the thread owns by now. *)
ForgetNothing ==
  /\ Spawner("created", "spawned")
  /\ box_frees' = box_frees + 1
  /\ UNCHANGED <<vars, thread, packet, detached, handle_frees, joined>>

(* std::mem::forget(p); the thread may be through with it already. *)
Forget ==
  /\ Spawner("created", "spawned")
  /\ UNCHANGED <<vars, thread, box_frees, packet, detached, handle_frees,
                 joined>>

(* spawn_blocking returns: RawThread::drop, threadDetach. *)
Detach ==
  /\ Spawner("spawned", "returned")
  /\ IF thread = "exited"
     THEN handle_frees' = handle_frees + 1 /\ UNCHANGED detached
     ELSE detached' = TRUE /\ UNCHANGED handle_frees
  /\ UNCHANGED <<vars, thread, box_frees, packet, joined>>

(* A faulty join() whose threadJoin may time out. *)
JoinTimesOut ==
  /\ Spawner("spawned", "taking")
  /\ handle_frees' = handle_frees + 1
  /\ UNCHANGED <<vars, thread, box_frees, packet, detached, joined>>

(* A faulty join() without forget(self), so that drop() follows it. *)
JoinAndDrop ==
  /\ Spawner("spawned", "taking")
  /\ thread = "exited"
  /\ handle_frees' = handle_frees + 2
  /\ UNCHANGED <<vars, thread, box_frees, packet, detached, joined>>

(* RawThread::join: threadJoin(u64::MAX), threadFree, forget(self). *)
Join ==
  /\ Spawner("spawned", "taking")
  /\ thread = "exited"
  /\ handle_frees' = handle_frees + 1
  /\ UNCHANGED <<vars, thread, box_frees, packet, detached, joined>>

(* RawJoin::join: the packet's take().unwrap() *)
JoinTake ==
  /\ Spawner("taking", "joined")
  /\ joined' = packet
  /\ packet' = "None"
  /\ UNCHANGED <<vars, thread, box_frees, detached, handle_frees>>
-----------------------------------------------------------------------------
(* The new thread.                                                         *)

(* _start_thread: Box::from_raw(main) *)
ThreadStart ==
  /\ Thread("ready", "running")
  /\ UNCHANGED <<vars, spawner, box_frees, packet, detached, handle_frees,
                 joined>>

(* The closure: func(), then oneshot_tx.send(res), which consumes the      *)
(* sender; a panic of func drops it.                                       *)
ThreadRun ==
  /\ thread = "running"
  /\ SenderStep
  /\ UNCHANGED threadVars

(* *their_packet.0.get() = Some(try_result) *)
ThreadStore ==
  /\ Thread("running", "stored")
  /\ sender = "gone"
  /\ packet' = IF sent THEN "Ok" ELSE "Err"
  /\ UNCHANGED <<vars, spawner, box_frees, detached, handle_frees, joined>>

(* The Box, consumed by the call, is freed, and the thread ends. *)
ThreadExit ==
  /\ Thread("stored", "exited")
  /\ box_frees' = box_frees + 1
  /\ handle_frees' = handle_frees + (IF detached THEN 1 ELSE 0)
  /\ UNCHANGED <<vars, spawner, packet, detached, joined>>
-----------------------------------------------------------------------------
(* The receiver exists for others once spawn_blocking has returned it. *)
Await ==
  /\ spawner \in {"returned", "joined"}
  /\ \/ PollStep \/ PollSpurious
     \/ \E t \in Tasks : Move(t) \/ StrayWake(t)
  /\ UNCHANGED threadVars

SpawnerStep == ThreadCreate \/ Forget \/ JoinTake
ThreadStep == ThreadStart \/ ThreadRun \/ ThreadStore \/ ThreadExit

SBNext ==
  \/ SpawnerStep \/ CreateFails \/ Unwind \/ Detach \/ Join
  \/ ThreadStep
  \/ Await

SBSpec == SBInit /\ [][SBNext]_sbVars

(* The thread is scheduled and its function returns or panics; the         *)
(* executor polls the awaiting task when it is spawned or woken.           *)
SBFairness ==
  /\ WF_sbVars(ThreadStep)
  /\ WF_sbVars(/\ spawner \in {"returned", "joined"}
               /\ PollStep
               /\ UNCHANGED threadVars)

SBFairSpec == SBSpec /\ SBFairness
-----------------------------------------------------------------------------
(* The closure is freed exactly once, whichever of the two threads is      *)
(* ahead: not before it has run, although the caller still has p in scope  *)
(* then, and also when the thread could not be created.                    *)
ClosureFreedOnce ==
  box_frees = IF thread = "exited" \/ spawner = "panicked" THEN 1 ELSE 0

(* The libctru thread is freed exactly once, and not while the RawThread   *)
(* can still hand it to threadDetach or threadJoin.                        *)
HandleFreedOnce ==
  handle_frees =
    IF thread = "exited" /\ spawner \in {"returned", "taking", "joined"}
    THEN 1 ELSE 0

(* join() finds the result in the packet, which the thread writes without  *)
(* a lock: its unwrap() does not panic, and it tells a panic of the        *)
(* function from a result.                                                 *)
JoinGetsResult ==
  spawner = "joined" => joined = IF sent THEN "Ok" ELSE "Err"

(* The future of spawn_blocking completes, whether the function returns or *)
(* panics and however far the thread is when it is first polled, unless it *)
(* was handed to a task other than the one that polled it first, whose     *)
(* token rx_task keeps.                                                    *)
BlockingCompletes ==
  (spawner = "returned")
    ~> (receiver = "ready" \/ rx_task \notin {owner, NoTask})
=============================================================================
