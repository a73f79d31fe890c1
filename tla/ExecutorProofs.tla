--------------------------- MODULE ExecutorProofs ---------------------------
(***************************************************************************)
(* Proofs about Executor, for any jobs, events, tokens and maximum of the  *)
(* semaphores: its types, what each token names, that spawn_and_block is   *)
(* let go only when the root's value is there, and that neither of its     *)
(* queues is stranded.                                                     *)
(***************************************************************************)
EXTENDS Executor, TLAPS

(* Steps that no prover is named for are given a minute of SMT, and the    *)
(* places of a poll are known by name everywhere.                          *)
USE SMTT(60) DEF InPoll

(* What the halves of SyncQueue's add(), wait() and remove() do to queues  *)
(* like TASK_QUEUE and WAKE_QUEUE, of elements of any set S.               *)

(* add()'s push keeps the type of a queue and puts one item at its end. *)
LEMMA PushBackFacts ==
  ASSUME NEW S, NEW v \in S, NEW x \in QueueOf(S)
  PROVE  /\ PushBack(x, v) \in QueueOf(S)
         /\ Len(PushBack(x, v).vals) = Len(x.vals) + 1
         /\ PushBack(x, v).permits = x.permits
         /\ PushBack(x, v).vals[Len(x.vals) + 1] = v
         /\ \A k \in 1..Len(x.vals) : PushBack(x, v).vals[k] = x.vals[k]
  BY DEF QueueOf, PushBack

(* add()'s release keeps the items; there is a permit after it, even when  *)
(* the kernel refused it at the maximum.                                   *)
LEMMA ReleaseFacts ==
  ASSUME NEW S, NEW x \in QueueOf(S)
  PROVE  /\ ReleasePermit(x) \in QueueOf(S)
         /\ ReleasePermit(x).vals = x.vals
         /\ ReleasePermit(x).permits =
              IF Saturated(x) THEN x.permits ELSE x.permits + 1
         /\ Signalled(ReleasePermit(x))
  BY MaxPermitsAssumption DEF QueueOf, ReleasePermit, Saturated, Signalled

(* The whole of add() leaves a permit, and the item at the end. *)
LEMMA AddFacts ==
  ASSUME NEW S, NEW v \in S, NEW x \in QueueOf(S)
  PROVE  /\ Add(x, v) \in QueueOf(S)
         /\ Signalled(Add(x, v))
         /\ Len(Add(x, v).vals) = Len(x.vals) + 1
         /\ Add(x, v).vals[Len(x.vals) + 1] = v
         /\ \A k \in 1..Len(x.vals) : Add(x, v).vals[k] = x.vals[k]
  <1>1. PushBack(x, v) \in QueueOf(S)
    BY ZenonT(60), PushBackFacts
  <1>2. /\ Add(x, v) \in QueueOf(S)
        /\ Signalled(Add(x, v))
        /\ Add(x, v).vals = PushBack(x, v).vals
    BY ZenonT(60), <1>1, ReleaseFacts DEF Add
  <1> QED
    BY <1>2, PushBackFacts

(* A wait() that returns has taken one permit. *)
LEMMA TakePermitFacts ==
  ASSUME NEW S, NEW x \in QueueOf(S), Signalled(x)
  PROVE  /\ TakePermit(x) \in QueueOf(S)
         /\ TakePermit(x).vals = x.vals
         /\ TakePermit(x).permits = x.permits - 1
  BY MaxPermitsAssumption DEF QueueOf, TakePermit, Signalled

(* remove() on a queue that is not empty takes the last item, and no       *)
(* permit.                                                                 *)
LEMMA PopBackFacts ==
  ASSUME NEW S, NEW x \in QueueOf(S), ~IsEmpty(x)
  PROVE  /\ PopBack(x) \in QueueOf(S)
         /\ Popped(x) \in S
         /\ Len(x.vals) \in Nat \ {0}
         /\ Popped(x) = x.vals[Len(x.vals)]
         /\ Len(PopBack(x).vals) = Len(x.vals) - 1
         /\ PopBack(x).permits = x.permits
         /\ \A k \in 1..(Len(x.vals) - 1) : PopBack(x).vals[k] = x.vals[k]
  <1>1. /\ x.vals \in Seq(S)
        /\ Len(x.vals) \in Nat \ {0}
    BY DEF QueueOf, IsEmpty
  <1>2. Popped(x) \in S /\ Popped(x) = x.vals[Len(x.vals)]
    BY <1>1 DEF Popped
  <1>3. /\ SubSeq(x.vals, 1, Len(x.vals) - 1) \in Seq(S)
        /\ Len(SubSeq(x.vals, 1, Len(x.vals) - 1)) = Len(x.vals) - 1
        /\ \A k \in 1..(Len(x.vals) - 1) :
             SubSeq(x.vals, 1, Len(x.vals) - 1)[k] = x.vals[k]
    BY <1>1
  <1> QED
    BY ZenonT(60), <1>1, <1>2, <1>3 DEF PopBack, QueueOf
-----------------------------------------------------------------------------
(* A poll is in progress. *)
Busy == exec.at \in InPoll

(* Whoever can wake a job has its token: sources, the map, the running     *)
(* poll and an Awaited join state.                                         *)
TokensKnown ==
  /\ \A j \in Jobs, e \in Events : source[j][e] # "none" => token[j] \in Tokens
  /\ \A t \in DOMAIN tasks : token[tasks[t]] \in Tokens
  /\ Busy => exec.token \in Tokens /\ token[exec.job] \in Tokens
  /\ \A j \in Jobs : join[j] = "Awaited" => joinWaker[j] \in Tokens

TInv == TypeOK /\ TokensKnown
-----------------------------------------------------------------------------
(* A poll that goes on, or is about to return Pending, stays a poll of the *)
(* same task.                                                              *)
LEMMA SuspendFacts ==
  ASSUME TInv, exec.at = "poll", Suspend \/ UNCHANGED exec
  PROVE  /\ exec' \in [at : Places, job : Jobs, token : Tokens \cup {None},
                       fresh : BOOLEAN]
         /\ exec'.at \in {"poll", "pending"}
         /\ exec'.job = exec.job /\ exec'.token = exec.token
         /\ exec'.fresh = exec.fresh
  <1>1. exec \in [at : Places, job : Jobs, token : Tokens \cup {None},
                 fresh : BOOLEAN]
    BY ZenonT(60) DEF TInv, TypeOK
  <1> QED
    BY ZenonT(60), <1>1 DEF Suspend, Places

(* What poll() returning Pending does to the executor's record and map. *)
LEMMA ReturnPendingFacts ==
  ASSUME TInv, ReturnPending
  PROVE  /\ exec' \in [at : Places, job : Jobs, token : Tokens \cup {None},
                       fresh : BOOLEAN]
         /\ exec'.at \in {"drainTasks", "drainWakes"}
         /\ exec'.at = BackToDrain
         /\ exec'.job = exec.job /\ exec'.token = exec.token
         /\ exec'.fresh = exec.fresh
         /\ DOMAIN tasks' = IF exec.fresh THEN DOMAIN tasks \cup {exec.token}
                            ELSE DOMAIN tasks
         /\ \A t \in DOMAIN tasks' :
              tasks'[t] = IF exec.fresh /\ t = exec.token THEN exec.job
                          ELSE tasks[t]
  <1> USE DEF TInv, TypeOK, ReturnPending, BackToDrain, Places
  <1>1. /\ exec' = [exec EXCEPT !.at = BackToDrain]
        /\ BackToDrain \in {"drainTasks", "drainWakes"}
    BY ZenonT(60)
  <1>2. CASE exec.fresh
    <2>1. /\ DOMAIN tasks' = DOMAIN tasks \cup {exec.token}
          /\ \A t \in DOMAIN tasks' :
               tasks'[t] = IF t = exec.token THEN exec.job ELSE tasks[t]
      BY ZenonT(60), <1>2
    <2> QED
      BY ZenonT(60), <1>1, <1>2, <2>1
  <1>3. CASE ~exec.fresh
    BY ZenonT(60), <1>1, <1>3
  <1> QED
    BY ZenonT(60), <1>2, <1>3

(* So the record and the map keep their types, and no poll is in progress. *)
LEMMA PendingTypes ==
  ASSUME TInv, ReturnPending
  PROVE  /\ exec' \in [at : Places, job : Jobs, token : Tokens \cup {None},
                       fresh : BOOLEAN]
         /\ exec'.at \notin InPoll
         /\ DOMAIN tasks' \subseteq Tokens
         /\ \A t \in DOMAIN tasks' : /\ tasks'[t] \in Jobs
                                    /\ token[tasks'[t]] \in Tokens
  <1>1. /\ exec.job \in Jobs
        /\ exec.token \in Tokens /\ token[exec.job] \in Tokens
        /\ DOMAIN tasks \subseteq Tokens
        /\ \A t \in DOMAIN tasks : /\ tasks[t] \in Jobs
                                  /\ token[tasks[t]] \in Tokens
    BY ZenonT(60) DEF TInv, TypeOK, TokensKnown, ReturnPending, Busy
  <1> QED
    BY <1>1, ReturnPendingFacts

(* A source that moves on was armed before. *)
LEMMA SourceFacts ==
  ASSUME TInv, NEW j \in Jobs, NEW e \in Events,
         NEW from \in SourceStates \ {"none"}, NEW to \in SourceStates,
         SourceStep(j, e, from, to)
  PROVE  /\ source[j][e] = from
         /\ source'[j][e] = to
         /\ source' \in [Jobs -> [Events -> SourceStates]]
         /\ \A i \in Jobs, f \in Events :
              (i # j \/ f # e) => source'[i][f] = source[i][f]
         /\ \A i \in Jobs, f \in Events :
              source'[i][f] # "none" => source[i][f] # "none"
  BY ZenonT(60) DEF TInv, TypeOK, SourceStep

(* The same of each step that a source takes. *)
LEMMA SourceMoves ==
  ASSUME TInv, NEW j \in Jobs, NEW e \in Events,
         Fire(j, e) \/ PushWake(j, e) \/ ReleaseWake(j, e)
  PROVE  /\ source[j][e] # "none"
         /\ source' \in [Jobs -> [Events -> SourceStates]]
         /\ source'[j][e] \notin {"none", "armed"}
         /\ \A i \in Jobs, f \in Events :
              (i # j \/ f # e) => source'[i][f] = source[i][f]
         /\ \A i \in Jobs, f \in Events :
              source'[i][f] # "none" => source[i][f] # "none"
  <1> USE DEF SourceStates
  <1>1. CASE SourceStep(j, e, "armed", "fired")
    BY <1>1, SourceFacts
  <1>2. CASE SourceStep(j, e, "fired", "pushed")
    BY <1>2, SourceFacts
  <1>3. CASE SourceStep(j, e, "woken", "pushedAgain")
    BY <1>3, SourceFacts
  <1>4. CASE SourceStep(j, e, "pushed", "woken")
    BY <1>4, SourceFacts
  <1>5. CASE SourceStep(j, e, "pushedAgain", "over")
    BY <1>5, SourceFacts
  <1> QED
    BY ZenonT(60), <1>1, <1>2, <1>3, <1>4, <1>5 DEF Fire, PushWake, ReleaseWake

(* The types, and who knows which token, are kept by every step of the     *)
(* executor, of the jobs it polls, of the sources and of spawn_and_block.  *)
LEMMA TypeStep == TInv /\ [Next]_vars => TInv'
  <1> SUFFICES ASSUME TInv, [Next]_vars PROVE TInv'
    BY ZenonT(60)
  <1> USE ExecutorAssumption DEF TInv, TypeOK, TokensKnown, Busy, Places,
                                 SourceStates, execVars, jobVars, joinVars,
                                 mainVars
  <1>1. CASE BlockOnPush
    <2>1. taskQ' \in QueueOf(Jobs)
      BY ZenonT(60), <1>1, PushBackFacts DEF BlockOnPush
    <2> QED
      BY ZenonT(60), <1>1, <2>1 DEF BlockOnPush
  <1>2. CASE BlockOnRelease
    <2>1. taskQ' \in QueueOf(Jobs)
      BY ZenonT(60), <1>2, ReleaseFacts DEF BlockOnRelease
    <2> QED
      BY ZenonT(60), <1>2, <2>1 DEF BlockOnRelease
  <1>3. CASE BlockOnWait
    BY ZenonT(60), <1>3 DEF BlockOnWait
  <1>4. CASE BlockOnTake
    BY ZenonT(60), <1>4 DEF BlockOnTake
  <1>5. CASE WaitTasks
    <2>1. taskQ' \in QueueOf(Jobs)
      BY ZenonT(60), <1>5, TakePermitFacts DEF WaitTasks
    <2> QED
      BY ZenonT(60), <1>5, <2>1 DEF WaitTasks
  <1>6. CASE WaitWakes
    <2>1. wakeQ' \in QueueOf(Tokens)
      BY ZenonT(60), <1>6, TakePermitFacts DEF WaitWakes
    <2> QED
      BY ZenonT(60), <1>6, <2>1 DEF WaitWakes
  <1>7. CASE Drained
    BY ZenonT(60), <1>7 DEF Drained
  <1>8. CASE SpawnTask
    <2>1. taskQ' \in QueueOf(Jobs) /\ Popped(taskQ) \in Jobs
      BY ZenonT(60), <1>8, PopBackFacts DEF SpawnTask
    <2>2. task_counter' \in Tokens
      BY <1>8 DEF SpawnTask, Tokens
    <2> QED
      BY ZenonT(60), <1>8, <2>1, <2>2 DEF SpawnTask
  <1>9. CASE WakeTask
    <2>1. wakeQ' \in QueueOf(Tokens) /\ Popped(wakeQ) \in Tokens
      BY ZenonT(60), <1>9, PopBackFacts DEF WakeTask
    <2> QED
      BY ZenonT(60), <1>9, <2>1 DEF WakeTask
  <1>10. CASE WakeGone
    <2>1. wakeQ' \in QueueOf(Tokens)
      BY ZenonT(60), <1>10, PopBackFacts DEF WakeGone
    <2> QED
      BY ZenonT(60), <1>10, <2>1 DEF WakeGone
  <1>11. ASSUME NEW j \in Jobs, AwaitEvent(j) PROVE TInv'
    <2>1. exec.at = "poll" /\ exec.job = j
      BY ZenonT(60), <1>11 DEF AwaitEvent, Polled
    <2>2. events[j] + 1 \in Events
      BY <1>11 DEF AwaitEvent, Events
    <2>3. /\ exec' \in [at : Places, job : Jobs, token : Tokens \cup {None},
                       fresh : BOOLEAN]
          /\ exec'.job = exec.job /\ exec'.token = exec.token
      BY ZenonT(60), <1>11, <2>1, SuspendFacts DEF AwaitEvent
    <2> QED
      BY <1>11, <2>1, <2>2, <2>3 DEF AwaitEvent, Events
  <1>12. ASSUME NEW j \in Jobs, EventPending(j) PROVE TInv'
    <2>1. exec.at = "poll"
      BY ZenonT(60), <1>12 DEF EventPending, Polled
    <2>2. /\ exec' \in [at : Places, job : Jobs, token : Tokens \cup {None},
                       fresh : BOOLEAN]
          /\ exec'.job = exec.job /\ exec'.token = exec.token
      BY ZenonT(60), <1>12, <2>1, SuspendFacts DEF EventPending
    <2> QED
      BY ZenonT(60), <1>12, <2>1, <2>2 DEF EventPending
  <1>13. ASSUME NEW j \in Jobs, EventResume(j) PROVE TInv'
    BY ZenonT(60), <1>13 DEF EventResume
  <1>14. ASSUME NEW j \in Jobs, Finish(j) PROVE TInv'
    BY ZenonT(60), <1>14 DEF Finish, Polled
  <1>15. ASSUME NEW j \in Jobs, Resolve(j) PROVE TInv'
    <2>1. wakeQ' \in QueueOf(Tokens)
      BY ZenonT(60), <1>15, AddFacts DEF Resolve
    <2> QED
      BY ZenonT(60), <1>15, <2>1 DEF Resolve
  <1>16. ASSUME NEW j \in Jobs, ReturnReady(j) PROVE TInv'
    <2>1. /\ DOMAIN tasks' \subseteq DOMAIN tasks
          /\ \A t \in DOMAIN tasks' : tasks'[t] = tasks[t]
      BY ZenonT(60), <1>16 DEF ReturnReady, Restrict
    <2> QED
      BY ZenonT(60), <1>16, <2>1 DEF ReturnReady, BackToDrain
  <1>17. ASSUME NEW j \in Jobs, NEW k \in Jobs, SpawnJob(j, k) PROVE TInv'
    <2>1. taskQ' \in QueueOf(Jobs)
      BY ZenonT(60), <1>17, AddFacts DEF SpawnJob
    <2> QED
      BY ZenonT(60), <1>17, <2>1 DEF SpawnJob
  <1>18. ASSUME NEW j \in Jobs, NEW k \in Jobs, JoinReady(j, k) PROVE TInv'
    BY <1>18 DEF JoinReady
  <1>19. ASSUME NEW j \in Jobs, NEW k \in Jobs, JoinPending(j, k) PROVE TInv'
    <2>1. exec.at = "poll"
      BY ZenonT(60), <1>19 DEF JoinPending, PollsHandle, Polled
    <2>2. /\ exec' \in [at : Places, job : Jobs, token : Tokens \cup {None},
                       fresh : BOOLEAN]
          /\ exec'.job = exec.job /\ exec'.token = exec.token
      BY ZenonT(60), <1>19, <2>1, SuspendFacts DEF JoinPending
    <2> QED
      BY ZenonT(60), <1>19, <2>1, <2>2 DEF JoinPending
  <1>20. ASSUME NEW j \in Jobs, NEW e \in Events, Fire(j, e) PROVE TInv'
    <2>1. /\ source' \in [Jobs -> [Events -> SourceStates]]
          /\ \A i \in Jobs, f \in Events :
               source'[i][f] # "none" => source[i][f] # "none"
      BY ZenonT(60), <1>20, SourceMoves
    <2> QED
      BY <1>20, <2>1 DEF Fire
  <1>21. ASSUME NEW j \in Jobs, NEW e \in Events, PushWake(j, e) PROVE TInv'
    <2>1. source[j][e] # "none"
      BY ZenonT(60), <1>21, SourceMoves
    <2>2. wakeQ' \in QueueOf(Tokens)
      BY ZenonT(60), <1>21, <2>1, PushBackFacts DEF PushWake
    <2>3. /\ source' \in [Jobs -> [Events -> SourceStates]]
          /\ \A i \in Jobs, f \in Events :
               source'[i][f] # "none" => source[i][f] # "none"
      BY ZenonT(60), <1>21, SourceMoves
    <2> QED
      BY <1>21, <2>1, <2>2, <2>3 DEF PushWake
  <1>22. ASSUME NEW j \in Jobs, NEW e \in Events, ReleaseWake(j, e) PROVE TInv'
    <2>1. wakeQ' \in QueueOf(Tokens)
      BY ZenonT(60), <1>22, ReleaseFacts DEF ReleaseWake
    <2>2. /\ source' \in [Jobs -> [Events -> SourceStates]]
          /\ \A i \in Jobs, f \in Events :
               source'[i][f] # "none" => source[i][f] # "none"
      BY ZenonT(60), <1>22, SourceMoves
    <2> QED
      BY <1>22, <2>1, <2>2 DEF ReleaseWake
  <1>23. CASE UNCHANGED vars
    BY ZenonT(60), <1>23 DEF vars
  <1>24. CASE ReturnPending
    <2>1. /\ exec' \in [at : Places, job : Jobs, token : Tokens \cup {None},
                       fresh : BOOLEAN]
          /\ exec'.at \notin InPoll
          /\ DOMAIN tasks' \subseteq Tokens
          /\ \A t \in DOMAIN tasks' : /\ tasks'[t] \in Jobs
                                     /\ token[tasks'[t]] \in Tokens
      BY ZenonT(60), <1>24, PendingTypes
    <2> QED
      BY ZenonT(60), <1>24, <2>1 DEF ReturnPending
  <1> QED
    BY ZenonT(60), <1>1, <1>2, <1>3, <1>4, <1>5, <1>6, <1>7, <1>8, <1>9, <1>10,
       <1>11,
       <1>12, <1>13, <1>14, <1>15, <1>16, <1>17, <1>18, <1>19, <1>20,
       <1>21, <1>22, <1>23, <1>24
       DEF Next, MainStep, LoopStep, PollStep

(* Nothing is queued, started or known at the start. *)
LEMMA InitTInv == Init => TInv
  <1> SUFFICES ASSUME Init PROVE TInv
    BY ZenonT(60)
  <1> USE ExecutorAssumption DEF Init
  <1>1. NewQueue \in QueueOf(Jobs) /\ NewQueue \in QueueOf(Tokens)
    BY MaxPermitsAssumption DEF NewQueue, QueueOf
  <1>2. 0 \in Tokens /\ DOMAIN tasks = {}
    BY DEF Tokens
  <1>3. /\ exec \in [at : Places, job : Jobs, token : Tokens \cup {None},
                     fresh : BOOLEAN]
        /\ status \in [Jobs -> {"new", "queued", "started", "done"}]
        /\ token \in [Jobs -> Tokens \cup {None}]
        /\ await \in [Jobs -> Jobs \cup {"none", "event"}]
    BY ZenonT(60) DEF Places
  <1>4. /\ events \in [Jobs -> 0..MaxEvents]
        /\ source \in [Jobs -> [Events -> SourceStates]]
    BY DEF SourceStates
  <1>5. /\ parent \in [Jobs -> Jobs]
        /\ join \in [Jobs -> {"Unawaited", "Awaited", "Ready", "Done"}]
        /\ joinWaker \in [Jobs -> Tokens \cup {None}]
        /\ main = "start"
    BY ZenonT(60)
  <1>6. signal \in BOOLEAN
    BY ZenonT(60)
  <1>7. TypeOK
    BY ZenonT(60), <1>1, <1>2, <1>3, <1>4, <1>5, <1>6 DEF TypeOK
  <1>8. TokensKnown
    BY ZenonT(60), <1>2 DEF TokensKnown, Busy
  <1> QED
    BY ZenonT(60), <1>7, <1>8 DEF TInv

(* The types hold in every state the threads can reach. *)
LEMMA AlwaysTInv == Spec => []TInv
  BY InitTInv, TypeStep, PTL DEF Spec

(* Type correctness of the executor and everything around it, for any      *)
(* jobs: only tokens reach WAKE_QUEUE, only jobs reach TASK_QUEUE, and the *)
(* map of tasks stays a map from tokens to jobs.                           *)
THEOREM ExecutorTypeCorrect == Spec => []TypeOK
  BY AlwaysTInv, PTL DEF TInv
-----------------------------------------------------------------------------
(* The spawn queue holds each queued job once, and nothing else. *)
QueuedOnce ==
  /\ \A k \in 1..Len(taskQ.vals) : status[taskQ.vals[k]] = "queued"
  /\ \A k, l \in 1..Len(taskQ.vals) : taskQ.vals[k] = taskQ.vals[l] => k = l
  /\ main = "start" => status[Root] = "new"

(* Jobs that spawn() has given a token. *)
Spawned == {j \in Jobs : status[j] \in {"started", "done"}}

(* Tokens are given out in turn, each to a job, and never twice. *)
TokensDistinct ==
  /\ \A t \in 0..(task_counter - 1) : \E j \in Spawned : token[j] = t
  /\ \A j \in Spawned : token[j] \in 0..(task_counter - 1)
  /\ \A j, k \in Spawned : token[j] = token[k] => j = k

(* What the map holds under a token is the job that carries it, and a job  *)
(* in its first poll is not entered yet.                                   *)
MapKeyed ==
  /\ \A t \in DOMAIN tasks : token[tasks[t]] = t
  /\ Busy /\ exec.fresh => exec.token \notin DOMAIN tasks

Named == QueuedOnce /\ TokensDistinct /\ MapKeyed /\ TokenNamesTask

NInv == TInv /\ Named
-----------------------------------------------------------------------------
(* A step that starts, ends and enters no task. *)
LEMMA SameTasks ==
  ASSUME TInv, Named,
         UNCHANGED <<status, token, tasks, task_counter>>,
         taskQ'.vals = taskQ.vals,
         main' = "start" => main = "start",
         exec'.job = exec.job, exec'.token = exec.token,
         exec'.fresh = exec.fresh, Busy' <=> Busy
  PROVE  Named'
  <1>1. QueuedOnce'
    BY ZenonT(60) DEF Named, QueuedOnce
  <1>2. TokensDistinct'
    BY ZenonT(60) DEF Named, TokensDistinct, Spawned
  <1>3. MapKeyed'
    BY ZenonT(60) DEF Named, MapKeyed
  <1>4. TokenNamesTask'
    BY ZenonT(60) DEF Named, TokenNamesTask, Running, Busy
  <1> QED
    BY ZenonT(60), <1>1, <1>2, <1>3, <1>4 DEF Named

(* A poll that returns Pending: a job polled for the first time is entered *)
(* under its own token.                                                    *)
LEMMA PendingNames ==
  ASSUME TInv, Named, ReturnPending PROVE Named'
  <1>0. /\ exec.at = "pending"
        /\ UNCHANGED <<status, token, task_counter, taskQ, main>>
    BY ZenonT(60) DEF ReturnPending, jobVars, mainVars
  <1>1. QueuedOnce'
    BY ZenonT(60), <1>0 DEF Named, QueuedOnce
  <1>2. TokensDistinct'
    BY ZenonT(60), <1>0 DEF Named, TokensDistinct, Spawned
  <1>3. /\ exec'.at \in {"drainTasks", "drainWakes"}
        /\ DOMAIN tasks' = IF exec.fresh THEN DOMAIN tasks \cup {exec.token}
                           ELSE DOMAIN tasks
        /\ \A t \in DOMAIN tasks' :
             tasks'[t] = IF exec.fresh /\ t = exec.token THEN exec.job
                         ELSE tasks[t]
    BY ZenonT(60), ReturnPendingFacts
  <1>4. exec.job \in Jobs /\ exec.fresh \in BOOLEAN
    BY ZenonT(60) DEF TInv, TypeOK
  <1>5. /\ status[exec.job] = "started"
        /\ exec.token = token[exec.job]
    BY ZenonT(60), <1>0, <1>4 DEF Named, TokenNamesTask, Running
  <1>6. MapKeyed'
    BY <1>0, <1>3, <1>5 DEF Named, MapKeyed, Busy
  <1>7. TokenNamesTask'
    <2>1. ASSUME NEW j \in Jobs, status[j] = "started"
          PROVE  token[j] \in DOMAIN tasks' /\ tasks'[token[j]] = j
      <3>1. CASE exec.fresh /\ exec.job = j
        BY ZenonT(60), <1>3, <1>5, <3>1
      <3>2. CASE token[j] \in DOMAIN tasks /\ tasks[token[j]] = j
        BY <1>0, <1>3, <1>5, <3>2 DEF Named, MapKeyed, Busy
      <3> QED
        BY ZenonT(60), <2>1, <3>1, <3>2 DEF Named, TokenNamesTask, Running
    <2>2. \A t \in DOMAIN tasks' : status[tasks'[t]] = "started"
      BY <1>3, <1>5 DEF Named, TokenNamesTask
    <2> QED
      BY ZenonT(60), <1>0, <1>3, <2>1, <2>2 DEF TokenNamesTask, Running
  <1> QED
    BY ZenonT(60), <1>1, <1>2, <1>6, <1>7 DEF Named

(* A new job k is put at the end of TASK_QUEUE. *)
Enqueues(k) ==
  /\ status[k] = "new"
  /\ Len(taskQ'.vals) = Len(taskQ.vals) + 1
  /\ taskQ'.vals[Len(taskQ.vals) + 1] = k
  /\ \A i \in 1..Len(taskQ.vals) : taskQ'.vals[i] = taskQ.vals[i]
  /\ status' = [status EXCEPT ![k] = "queued"]
  /\ main' = "start" => main = "start" /\ k # Root
  /\ UNCHANGED <<token, tasks, task_counter, exec>>

(* spawn() of a new job, by a running job or by spawn_and_block. *)
LEMMA EnqueueNames ==
  ASSUME TInv, Named, NEW k \in Jobs, Enqueues(k)
  PROVE  Named'
  <1> USE DEF Enqueues
  <1>1. /\ Len(taskQ.vals) \in Nat
        /\ \A i \in 1..Len(taskQ.vals) : taskQ.vals[i] \in Jobs
        /\ status \in [Jobs -> {"new", "queued", "started", "done"}]
    BY DEF TInv, TypeOK, QueueOf
  <1>2. \A i \in 1..Len(taskQ.vals) :
          status[taskQ.vals[i]] = "queued" /\ taskQ.vals[i] # k
    BY ZenonT(60) DEF Named, QueuedOnce
  <1>3. \A i \in 1..Len(taskQ'.vals) :
          i \in 1..Len(taskQ.vals) \/ i = Len(taskQ.vals) + 1
    BY <1>1
  <1>4. QueuedOnce'
    <2>1. \A i \in 1..Len(taskQ'.vals) : status'[taskQ'.vals[i]] = "queued"
      BY ZenonT(60), <1>1, <1>2, <1>3
    <2>2. \A i, l \in 1..Len(taskQ'.vals) :
            taskQ'.vals[i] = taskQ'.vals[l] => i = l
      BY <1>2, <1>3 DEF Named, QueuedOnce
    <2>3. main' = "start" => status'[Root] = "new"
      BY ZenonT(60), <1>1, ExecutorAssumption DEF Named, QueuedOnce
    <2> QED
      BY ZenonT(60), <2>1, <2>2, <2>3 DEF QueuedOnce
  <1>5. \A j \in Jobs : status'[j] = "started" <=> status[j] = "started"
    BY ZenonT(60), <1>1
  <1>6. TokensDistinct'
    <2>1. Spawned' = Spawned
      BY ZenonT(60), <1>1 DEF Spawned
    <2> QED
      BY ZenonT(60), <2>1 DEF Named, TokensDistinct
  <1>7. MapKeyed'
    BY ZenonT(60) DEF Named, MapKeyed, Busy
  <1>8. TokenNamesTask'
    BY <1>5 DEF Named, TokenNamesTask, Running, TInv, TypeOK
  <1> QED
    BY ZenonT(60), <1>4, <1>6, <1>7, <1>8 DEF Named

(* ExecutorHandler::wake polls the job that the map holds. *)
LEMMA WakeNames ==
  ASSUME TInv, Named, WakeTask PROVE Named'
  <1>1. /\ exec.at = "drainWakes"
        /\ Popped(wakeQ) \in DOMAIN tasks
        /\ exec' = [at |-> "poll", job |-> tasks[Popped(wakeQ)],
                    token |-> Popped(wakeQ), fresh |-> FALSE]
        /\ UNCHANGED <<status, token, tasks, task_counter, taskQ, main>>
    BY ZenonT(60) DEF WakeTask, jobVars, mainVars
  <1>2. QueuedOnce'
    BY ZenonT(60), <1>1 DEF Named, QueuedOnce
  <1>3. TokensDistinct'
    BY ZenonT(60), <1>1 DEF Named, TokensDistinct, Spawned
  <1>4. MapKeyed'
    BY ZenonT(60), <1>1 DEF Named, MapKeyed
  <1>5. TokenNamesTask'
    BY ZenonT(60), <1>1 DEF Named, MapKeyed, TokenNamesTask, Running
  <1> QED
    BY <1>2, <1>3, <1>4, <1>5 DEF Named

(* A task that returns Ready leaves the map, and no other does. *)
LEMMA ReadyNames ==
  ASSUME TInv, Named, NEW j \in Jobs, ReturnReady(j) PROVE Named'
  <1>1. /\ exec.at = "return" /\ exec.job = j
        /\ status' = [status EXCEPT ![j] = "done"]
        /\ exec' = [exec EXCEPT !.at = BackToDrain]
        /\ UNCHANGED <<token, task_counter, taskQ, main>>
    BY ZenonT(60) DEF ReturnReady, mainVars
  <1>2. /\ DOMAIN tasks' = IF exec.fresh THEN DOMAIN tasks
                           ELSE DOMAIN tasks \ {exec.token}
        /\ \A t \in DOMAIN tasks' : tasks'[t] = tasks[t]
    BY ZenonT(60) DEF ReturnReady, Restrict
  <1>3. /\ status \in [Jobs -> {"new", "queued", "started", "done"}]
        /\ \A t \in DOMAIN tasks : tasks[t] \in Jobs
        /\ \A i \in 1..Len(taskQ.vals) : taskQ.vals[i] \in Jobs
        /\ exec.fresh \in BOOLEAN
    BY DEF TInv, TypeOK, QueueOf
  <1>4. exec'.at \notin InPoll
    BY ZenonT(60), <1>1 DEF BackToDrain, TInv, TypeOK
  <1>5. status[j] = "started" /\ exec.token = token[j]
    BY ZenonT(60), <1>1 DEF Named, TokenNamesTask, Running
  <1>6. QueuedOnce'
    <2>1. \A i \in 1..Len(taskQ.vals) :
            status[taskQ.vals[i]] = "queued" /\ taskQ.vals[i] # j
      BY ZenonT(60), <1>5 DEF Named, QueuedOnce
    <2>2. main = "start" => status[Root] = "new" /\ Root # j
      BY ZenonT(60), <1>5 DEF Named, QueuedOnce
    <2>3. \A i \in 1..Len(taskQ.vals) : status'[taskQ.vals[i]] = "queued"
      BY ZenonT(60), <1>1, <1>3, <2>1
    <2>4. main = "start" => status'[Root] = "new"
      BY ZenonT(60), <1>1, <1>3, <2>2, ExecutorAssumption
    <2> QED
      BY ZenonT(60), <1>1, <2>3, <2>4 DEF Named, QueuedOnce
  <1>7. TokensDistinct'
    <2>1. Spawned' = Spawned
      BY ZenonT(60), <1>1, <1>3, <1>5 DEF Spawned
    <2> QED
      BY ZenonT(60), <1>1, <2>1 DEF Named, TokensDistinct
  <1>8. MapKeyed'
    BY ZenonT(60), <1>1, <1>2, <1>4 DEF Named, MapKeyed, Busy
  <1>9. \A t \in DOMAIN tasks' : tasks[t] # j /\ status[tasks[t]] = "started"
    BY <1>1, <1>2, <1>3, <1>5 DEF Named, MapKeyed, TokenNamesTask, Busy
  <1>10. ASSUME NEW i \in Jobs, status'[i] = "started"
         PROVE  token[i] \in DOMAIN tasks' /\ tasks'[token[i]] = i
    <2>1. i # j /\ status[i] = "started"
      BY ZenonT(60), <1>1, <1>3, <1>10
    <2>2. token[i] \in DOMAIN tasks /\ tasks[token[i]] = i
      BY ZenonT(60), <1>1, <2>1 DEF Named, TokenNamesTask, Running
    <2>3. token[i] # exec.token
      BY <1>5, <2>1 DEF Named, TokensDistinct, Spawned
    <2> QED
      BY ZenonT(60), <1>2, <2>2, <2>3
  <1>11. \A t \in DOMAIN tasks' : status'[tasks'[t]] = "started"
    BY ZenonT(60), <1>1, <1>2, <1>3, <1>9
  <1>12. TokenNamesTask'
    BY ZenonT(60), <1>1, <1>4, <1>10, <1>11 DEF TokenNamesTask, Running
  <1> QED
    BY ZenonT(60), <1>6, <1>7, <1>8, <1>12 DEF Named

(* There are fewer jobs than tokens. *)
TokensSuffice == ~ExistsInjection(Tokens, Jobs)

(* When each of the tokens below n has a job of its own and so has n, then *)
(* n is not the last token.                                                *)
LEMMA TokenLeft ==
  ASSUME TokensSuffice, NEW n \in Tokens, NEW S \in SUBSET Jobs,
         NEW j \in Jobs, j \notin S,
         \A t \in 0..(n - 1) : \E i \in S : token[i] = t
  PROVE  n + 1 < TokenSpace
  <1> SUFFICES ASSUME n + 1 = TokenSpace PROVE FALSE
    BY ExecutorAssumption DEF Tokens
  <1> DEFINE f == [t \in Tokens |-> IF t = n THEN j
                                    ELSE CHOOSE i \in S : token[i] = t]
  <1>1. \A t \in Tokens : t # n => t \in 0..(n - 1)
    BY ExecutorAssumption DEF Tokens
  <1>2. \A t \in Tokens : t # n => f[t] \in S /\ token[f[t]] = t
    BY ZenonT(60), <1>1
  <1>3. f[n] = j /\ f \in [Tokens -> Jobs]
    BY ZenonT(60), <1>2
  <1> HIDE DEF f
  <1>4. IsInjective(f)
    BY ZenonT(60), <1>2, <1>3 DEF IsInjective
  <1> QED
    BY ZenonT(60), <1>3, <1>4 DEF TokensSuffice, ExistsInjection, Injection

(* ExecutorHandler::spawn gives a job a token that no other job has. *)
LEMMA SpawnNames ==
  ASSUME TokensSuffice, TInv, Named, SpawnTask PROVE Named'
  <1> DEFINE j == Popped(taskQ)
             n == Len(taskQ.vals)
  <1>1. /\ taskQ \in QueueOf(Jobs)
        /\ status \in [Jobs -> {"new", "queued", "started", "done"}]
        /\ token \in [Jobs -> Tokens \cup {None}]
        /\ \A t \in DOMAIN tasks : tasks[t] \in Jobs
        /\ \A i \in 1..n : taskQ.vals[i] \in Jobs
    BY DEF TInv, TypeOK, QueueOf
  <1>2. /\ j \in Jobs
        /\ n \in Nat \ {0}
        /\ j = taskQ.vals[n]
        /\ Len(taskQ'.vals) = n - 1
        /\ \A i \in 1..(n - 1) : taskQ'.vals[i] = taskQ.vals[i]
    BY ZenonT(60), <1>1, PopBackFacts DEF SpawnTask
  <1>3. /\ exec' = [at |-> "poll", job |-> j, token |-> task_counter,
                    fresh |-> TRUE]
        /\ token' = [token EXCEPT ![j] = task_counter]
        /\ status' = [status EXCEPT ![j] = "started"]
        /\ task_counter' = (task_counter + 1) % TokenSpace
        /\ tasks' = tasks /\ main' = main
        /\ exec.at = "drainTasks"
    BY ZenonT(60) DEF SpawnTask, mainVars
  <1> HIDE DEF j, n
  <1>4. status[j] = "queued"
    BY <1>2 DEF Named, QueuedOnce, n
  <1>5. QueuedOnce'
    <2>1. \A i \in 1..(n - 1) :
            i \in 1..n /\ taskQ.vals[i] # j /\ status[taskQ.vals[i]] = "queued"
      BY <1>2 DEF Named, QueuedOnce, n
    <2>2. \A i \in 1..(n - 1) : status'[taskQ'.vals[i]] = "queued"
      BY ZenonT(60), <1>1, <1>2, <1>3, <2>1
    <2>3. \A i, l \in 1..(n - 1) : taskQ'.vals[i] = taskQ'.vals[l] => i = l
      <3>1. \A i, l \in 1..n : taskQ.vals[i] = taskQ.vals[l] => i = l
        BY ZenonT(60) DEF Named, QueuedOnce, n
      <3>2. \A i \in 1..(n - 1) : i \in 1..n
        BY <1>2
      <3> QED
        BY ZenonT(60), <1>2, <3>1, <3>2
    <2>4. main' = "start" => status'[Root] = "new"
      BY ZenonT(60), <1>1, <1>3, <1>4, ExecutorAssumption DEF Named, QueuedOnce
    <2> QED
      BY ZenonT(60), <1>2, <2>2, <2>3, <2>4 DEF QueuedOnce
  <1>6. Spawned' = Spawned \cup {j} /\ j \notin Spawned
    BY ZenonT(60), <1>1, <1>2, <1>3, <1>4 DEF Spawned
  <1>7. task_counter \in Nat /\ task_counter' = task_counter + 1
    <2>1. task_counter \in Tokens /\ Spawned \in SUBSET Jobs
      BY ZenonT(60) DEF TInv, TypeOK, Spawned
    <2>2. \A t \in 0..(task_counter - 1) : \E i \in Spawned : token[i] = t
      BY ZenonT(60) DEF Named, TokensDistinct
    <2>3. task_counter + 1 < TokenSpace
      BY ZenonT(60), <1>2, <1>6, <2>1, <2>2, TokenLeft
    <2> QED
      BY <1>3, <2>1, <2>3, ExecutorAssumption DEF Tokens
  <1>8. \A i \in Spawned : i # j /\ token'[i] = token[i]
                            /\ token[i] \in 0..(task_counter - 1)
    BY <1>1, <1>3, <1>6 DEF Named, TokensDistinct, Spawned
  <1>9. token'[j] = task_counter
    BY ZenonT(60), <1>1, <1>2, <1>3
  <1>10. TokensDistinct'
    <2>1. \A i \in Spawned' : token'[i] \in 0..(task_counter' - 1)
      BY <1>6, <1>7, <1>8, <1>9
    <2>2. \A i \in Spawned : token'[i] # token'[j]
      BY <1>7, <1>8, <1>9
    <2>3. \A i, k \in Spawned : token'[i] = token'[k] => i = k
      BY ZenonT(60), <1>8 DEF Named, TokensDistinct
    <2>4. \A i, k \in Spawned' : token'[i] = token'[k] => i = k
      BY ZenonT(60), <1>6, <2>2, <2>3
    <2>5. \A t \in 0..(task_counter' - 1) :
            \E i \in Spawned' : token'[i] = t
      <3>1. \A t \in 0..(task_counter - 1) :
              \E i \in Spawned' : token'[i] = t
        BY ZenonT(60), <1>6, <1>8 DEF Named, TokensDistinct
      <3> QED
        BY <1>6, <1>7, <1>9, <3>1
    <2> QED
      BY ZenonT(60), <2>1, <2>4, <2>5 DEF TokensDistinct
  <1>11. \A t \in DOMAIN tasks : tasks[t] \in Spawned
    BY ZenonT(60), <1>1 DEF Named, TokenNamesTask, Spawned
  <1>12. MapKeyed'
    <2>1. \A t \in DOMAIN tasks : token'[tasks[t]] = t
      BY ZenonT(60), <1>8, <1>11 DEF Named, MapKeyed
    <2>2. task_counter \notin DOMAIN tasks
      BY <1>7, <1>8, <1>9, <1>11, <2>1
    <2> QED
      BY ZenonT(60), <1>3, <2>1, <2>2 DEF MapKeyed, Busy
  <1>13. TokenNamesTask'
    <2>1. exec'.job = j /\ exec'.at = "poll" /\ exec'.fresh
          /\ exec'.token = token'[j] /\ status'[j] = "started"
      BY ZenonT(60), <1>1, <1>2, <1>3, <1>9
    <2>2. \A i \in Jobs : status'[i] = "started" /\ i # j =>
            i \in Spawned /\ status[i] = "started"
      BY ZenonT(60), <1>1, <1>3 DEF Spawned
    <2>3. \A i \in Jobs : status'[i] = "started" /\ i # j =>
            token'[i] \in DOMAIN tasks' /\ tasks'[token'[i]] = i
      BY ZenonT(60), <1>3, <1>8, <2>2 DEF Named, TokenNamesTask, Running
    <2>4. \A t \in DOMAIN tasks' : status'[tasks'[t]] = "started"
      BY ZenonT(60), <1>1, <1>3 DEF Named, TokenNamesTask
    <2> QED
      BY ZenonT(60), <2>1, <2>3, <2>4 DEF TokenNamesTask, Running
  <1> QED
    BY ZenonT(60), <1>5, <1>10, <1>12, <1>13 DEF Named

(* Every step keeps the names. *)
LEMMA NamedStep == TokensSuffice /\ TInv /\ Named /\ [Next]_vars => Named'
  <1> SUFFICES ASSUME TokensSuffice, TInv, Named, [Next]_vars PROVE Named'
    BY ZenonT(60)
  <1>t. /\ taskQ \in QueueOf(Jobs)
        /\ exec \in [at : Places, job : Jobs, token : Tokens \cup {None},
                     fresh : BOOLEAN]
    BY ZenonT(60) DEF TInv, TypeOK
  <1>1. CASE BlockOnPush
    <2>1. status[Root] = "new" /\ Root \in Jobs
      BY ZenonT(60), <1>1, ExecutorAssumption
         DEF BlockOnPush, Named, QueuedOnce
    <2>2. /\ Len(taskQ'.vals) = Len(taskQ.vals) + 1
          /\ taskQ'.vals[Len(taskQ.vals) + 1] = Root
          /\ \A i \in 1..Len(taskQ.vals) : taskQ'.vals[i] = taskQ.vals[i]
      BY <1>1, <1>t, <2>1, PushBackFacts DEF BlockOnPush
    <2>3. /\ status' = [status EXCEPT ![Root] = "queued"]
          /\ main' # "start"
          /\ UNCHANGED <<token, tasks, task_counter, exec>>
      BY ZenonT(60), <1>1 DEF BlockOnPush
    <2>4. Enqueues(Root)
      BY ZenonT(60), <2>1, <2>2, <2>3 DEF Enqueues
    <2> QED
      BY ZenonT(60), <2>1, <2>4, EnqueueNames
  <1>2. CASE BlockOnRelease
    <2>1. taskQ'.vals = taskQ.vals
      BY ZenonT(60), <1>2, <1>t, ReleaseFacts DEF BlockOnRelease
    <2> QED
      BY ZenonT(60), <1>2, <2>1, SameTasks DEF BlockOnRelease, Busy, jobVars
  <1>3. CASE BlockOnWait \/ BlockOnTake
    BY ZenonT(60), <1>3, SameTasks
       DEF BlockOnWait, BlockOnTake, Busy, execVars, jobVars
  <1>4. CASE WaitTasks
    <2>1. taskQ'.vals = taskQ.vals
      BY ZenonT(60), <1>4, <1>t, TakePermitFacts DEF WaitTasks
    <2> QED
      BY ZenonT(60), <1>4, <1>t, <2>1, SameTasks
         DEF WaitTasks, Busy, jobVars, mainVars
  <1>5. CASE WaitWakes \/ Drained \/ WakeGone
    BY ZenonT(60), <1>5, <1>t, SameTasks
       DEF WaitWakes, Drained, WakeGone, Busy, jobVars, mainVars
  <1>6. CASE SpawnTask
    BY ZenonT(60), <1>6, SpawnNames
  <1>7. CASE WakeTask
    BY ZenonT(60), <1>7, WakeNames
  <1>8. ASSUME NEW j \in Jobs, NEW k \in Jobs,
               AwaitEvent(j) \/ EventPending(j) \/ JoinPending(j, k)
        PROVE  Named'
    <2>1. exec.at = "poll" /\ (Suspend \/ UNCHANGED exec)
      BY ZenonT(60), <1>8
         DEF AwaitEvent, EventPending, JoinPending, PollsHandle, Polled
    <2>2. UNCHANGED <<status, token, tasks, task_counter, taskQ, main>>
      BY ZenonT(60), <1>8
         DEF AwaitEvent, EventPending, JoinPending, jobVars, mainVars
    <2>3. /\ exec'.job = exec.job /\ exec'.token = exec.token
          /\ exec'.fresh = exec.fresh /\ Busy' /\ Busy
      BY ZenonT(60), <2>1, SuspendFacts DEF Busy
    <2> QED
      BY ZenonT(60), <2>2, <2>3, SameTasks
  <1>9. ASSUME NEW j \in Jobs, NEW k \in Jobs,
               EventResume(j) \/ JoinReady(j, k)
        PROVE  Named'
    BY ZenonT(60), <1>9, SameTasks
       DEF EventResume, JoinReady, Busy, execVars, mainVars
  <1>10. ASSUME NEW j \in Jobs, Finish(j) \/ Resolve(j) PROVE Named'
    BY ZenonT(60), <1>10, <1>t, SameTasks
       DEF Finish, Polled, Resolve, Busy, jobVars, mainVars
  <1>11. ASSUME NEW j \in Jobs, ReturnReady(j) PROVE Named'
    BY ZenonT(60), <1>11, ReadyNames
  <1>12. ASSUME NEW j \in Jobs, NEW k \in Jobs, SpawnJob(j, k) PROVE Named'
    <2>1. /\ Len(taskQ'.vals) = Len(taskQ.vals) + 1
          /\ taskQ'.vals[Len(taskQ.vals) + 1] = k
          /\ \A i \in 1..Len(taskQ.vals) : taskQ'.vals[i] = taskQ.vals[i]
      BY <1>12, <1>t, AddFacts DEF SpawnJob
    <2>2. /\ status[k] = "new" /\ k # Root
          /\ status' = [status EXCEPT ![k] = "queued"]
          /\ main' = main
          /\ UNCHANGED <<token, tasks, task_counter, exec>>
      BY ZenonT(60), <1>12 DEF SpawnJob, mainVars
    <2>3. Enqueues(k)
      BY ZenonT(60), <2>1, <2>2 DEF Enqueues
    <2> QED
      BY ZenonT(60), <2>3, EnqueueNames
  <1>13. ASSUME NEW j \in Jobs, NEW e \in Events,
                Fire(j, e) \/ PushWake(j, e) \/ ReleaseWake(j, e)
         PROVE  Named'
    BY ZenonT(60), <1>13, SameTasks
       DEF Fire, PushWake, ReleaseWake, Busy, execVars, mainVars
  <1>14. CASE UNCHANGED vars
    BY ZenonT(60), <1>14, SameTasks DEF vars, Busy, execVars, jobVars, mainVars
  <1>15. CASE ReturnPending
    BY ZenonT(60), <1>15, PendingNames
  <1> QED
    BY ZenonT(60), <1>1, <1>2, <1>3, <1>4, <1>5, <1>6, <1>7, <1>8, <1>9,
       <1>10, <1>11, <1>12, <1>13, <1>14, <1>15
       DEF Next, MainStep, LoopStep, PollStep

(* No job has a token at the start. *)
LEMMA InitNamed == Init => Named
  <1> SUFFICES ASSUME Init PROVE Named
    OBVIOUS
  <1>1. Len(taskQ.vals) = 0 /\ DOMAIN tasks = {}
    BY DEF Init, NewQueue
  <1>2. Spawned = {} /\ task_counter = 0
    BY ZenonT(60) DEF Init, Spawned
  <1>3. QueuedOnce
    BY <1>1, ExecutorAssumption DEF Init, QueuedOnce
  <1>4. TokensDistinct
    BY <1>2 DEF TokensDistinct
  <1>5. MapKeyed /\ TokenNamesTask
    BY ZenonT(60), <1>1 DEF Init, MapKeyed, TokenNamesTask, Busy, Running
  <1> QED
    BY ZenonT(60), <1>3, <1>4, <1>5 DEF Named

(* The names hold in every state, while spawn() has tokens left. *)
LEMMA AlwaysNInv == ASSUME TokensSuffice PROVE Spec => []NInv
  <1>1. Init => NInv
    BY ZenonT(60), InitTInv, InitNamed DEF NInv
  <1>2. NInv /\ [Next]_vars => NInv'
    BY ZenonT(60), TypeStep, NamedStep DEF NInv
  <1> QED
    BY <1>1, <1>2, PTL DEF Spec

(* A wake reaches the job it was meant for and no finished future is       *)
(* polled again, for any jobs, as long as ExecutorHandler::spawn does not  *)
(* hand out all values of the u32 counter.                                 *)
THEOREM ExecutorNamesTasks ==
  ASSUME TokensSuffice PROVE Spec => []TokenNamesTask
  <1>1. NInv => TokenNamesTask
    BY ZenonT(60) DEF NInv, Named
  <1> QED
    BY <1>1, AlwaysNInv, PTL
-----------------------------------------------------------------------------
(* A job that awaits something is started and not about to end, and an     *)
(* awaited event is one of its events.                                     *)
AwaitTells ==
  \A j \in Jobs :
    /\ await[j] # "none" => status[j] = "started"
    /\ await[j] = "event" => events[j] \in Events
    /\ exec.job = j /\ exec.at \in {"resolve", "return"} => await[j] = "none"

(* Only a started job awaits anything, and it does not end while it does. *)
LEMMA AwaitStep == NInv /\ AwaitTells /\ [Next]_vars => AwaitTells'
  <1> SUFFICES ASSUME NInv, AwaitTells, [Next]_vars,
                      NEW i \in Jobs
               PROVE  /\ await'[i] # "none" => status'[i] = "started"
                      /\ await'[i] = "event" => events'[i] \in Events
                      /\ exec'.job = i /\ exec'.at \in {"resolve", "return"}
                           => await'[i] = "none"
    BY ZenonT(60) DEF AwaitTells
  <1> DEFINE Goal == /\ await'[i] # "none" => status'[i] = "started"
                     /\ await'[i] = "event" => events'[i] \in Events
                     /\ exec'.job = i /\ exec'.at \in {"resolve", "return"}
                          => await'[i] = "none"
  <1>t. /\ await \in [Jobs -> Jobs \cup {"none", "event"}]
        /\ events \in [Jobs -> 0..MaxEvents]
        /\ status \in [Jobs -> {"new", "queued", "started", "done"}]
        /\ exec \in [at : Places, job : Jobs, token : Tokens \cup {None},
                     fresh : BOOLEAN]
        /\ taskQ \in QueueOf(Jobs)
    BY ZenonT(60) DEF NInv, TInv, TypeOK
  <1>a. /\ await[i] # "none" => status[i] = "started"
        /\ await[i] = "event" => events[i] \in Events
        /\ exec.job = i /\ exec.at \in {"resolve", "return"}
             => await[i] = "none"
    BY ZenonT(60) DEF AwaitTells
  <1>r. Busy => status[exec.job] = "started"
    BY ZenonT(60), <1>t DEF NInv, Named, TokenNamesTask, Running, Busy
  <1>1. CASE BlockOnPush
    <2>1. status[Root] = "new"
      BY ZenonT(60), <1>1 DEF BlockOnPush, NInv, Named, QueuedOnce
    <2> QED
      BY ZenonT(60), <1>1, <1>t, <1>a, <2>1 DEF BlockOnPush
  <1>2. CASE BlockOnRelease \/ BlockOnWait \/ BlockOnTake
    BY ZenonT(60), <1>2, <1>a
       DEF BlockOnRelease, BlockOnWait, BlockOnTake, execVars, jobVars
  <1>3. CASE WaitTasks \/ WaitWakes \/ Drained \/ WakeTask \/ WakeGone
    BY <1>3, <1>t, <1>a DEF WaitTasks, WaitWakes, Drained, WakeTask, WakeGone,
                            jobVars
  <1>4. CASE SpawnTask
    BY ZenonT(60), <1>4, <1>t, <1>a DEF SpawnTask
  <1>5. ASSUME NEW j \in Jobs, NEW k \in Jobs,
               AwaitEvent(j) \/ EventPending(j) \/ JoinPending(j, k)
        PROVE  Goal
    <2>0. /\ exec.at = "poll" /\ exec.job = j /\ status' = status
          /\ Suspend \/ UNCHANGED exec
      BY ZenonT(60), <1>5
         DEF AwaitEvent, EventPending, JoinPending, PollsHandle, Polled,
             jobVars
    <2>1. /\ exec'.at \in {"poll", "pending"}
          /\ status[j] = "started" /\ status' = status
      BY ZenonT(60), <1>r, <2>0, SuspendFacts DEF Busy, NInv
    <2>2. CASE AwaitEvent(j)
      <3>1. /\ await' = [await EXCEPT ![j] = "event"]
            /\ events' = [events EXCEPT ![j] = @ + 1]
            /\ events[j] + 1 \in Events
        BY <1>t, <2>2, ExecutorAssumption DEF AwaitEvent, Events
      <3> QED
        BY ZenonT(60), <1>t, <1>a, <2>1, <3>1
    <2>3. CASE EventPending(j)
      BY ZenonT(60), <1>a, <2>1, <2>3 DEF EventPending, jobVars
    <2>4. CASE JoinPending(j, k)
      <3>1. await' = [await EXCEPT ![j] = k] /\ events' = events /\ k # "event"
        BY ZenonT(60), <2>4, ExecutorAssumption DEF JoinPending
      <3> QED
        BY ZenonT(60), <1>t, <1>a, <2>1, <3>1
    <2> QED
      BY ZenonT(60), <1>5, <2>2, <2>3, <2>4
  <1>6. ASSUME NEW j \in Jobs, NEW k \in Jobs,
               EventResume(j) \/ JoinReady(j, k)
        PROVE  Goal
    <2>1. /\ await' = [await EXCEPT ![j] = "none"]
          /\ UNCHANGED <<events, status, exec>>
      BY ZenonT(60), <1>6 DEF EventResume, JoinReady, execVars
    <2> QED
      BY ZenonT(60), <1>t, <1>a, <2>1
  <1>7. ASSUME NEW j \in Jobs, Finish(j) PROVE Goal
    BY ZenonT(60), <1>7, <1>t, <1>a DEF Finish, Polled, jobVars
  <1>8. ASSUME NEW j \in Jobs, Resolve(j) PROVE Goal
    BY ZenonT(60), <1>8, <1>t, <1>a DEF Resolve, jobVars
  <1>9. ASSUME NEW j \in Jobs, ReturnReady(j) PROVE Goal
    BY ZenonT(60), <1>9, <1>t, <1>a DEF ReturnReady, BackToDrain
  <1>10. ASSUME NEW j \in Jobs, NEW k \in Jobs, SpawnJob(j, k) PROVE Goal
    BY ZenonT(60), <1>10, <1>t, <1>a DEF SpawnJob
  <1>11. ASSUME NEW j \in Jobs, NEW e \in Events,
                Fire(j, e) \/ PushWake(j, e) \/ ReleaseWake(j, e)
         PROVE  Goal
    BY ZenonT(60), <1>11, <1>a DEF Fire, PushWake, ReleaseWake, execVars
  <1>12. CASE UNCHANGED vars
    BY ZenonT(60), <1>12, <1>a DEF vars, execVars, jobVars
  <1>13. CASE ReturnPending
    <2>1. exec'.at \in {"drainTasks", "drainWakes"}
      BY ZenonT(60), <1>13, ReturnPendingFacts DEF NInv
    <2> QED
      BY ZenonT(60), <1>13, <1>a, <2>1 DEF ReturnPending, jobVars
  <1> QED
    BY ZenonT(60), <1>1, <1>2, <1>3, <1>4, <1>5, <1>6, <1>7, <1>8, <1>9,
       <1>10, <1>11, <1>12, <1>13
       DEF Next, MainStep, LoopStep, PollStep
-----------------------------------------------------------------------------
(* Root is resolved once, its value is stored by then, and the thread in   *)
(* spawn_and_block goes on only after that.                                *)
RootResolved ==
  /\ exec.at \in {"resolve", "return"} => join[exec.job] = "Ready"
  /\ signal \/ main = "signalled" => join[Root] = "Ready"
  /\ signal \/ main \in {"signalled", "returned"} =>
       status[Root] = "done" \/ (exec.at = "return" /\ exec.job = Root)
  /\ main = "signalled" => ~signal

RInv == NInv /\ RootResolved /\ BlockOnNeverPanics
-----------------------------------------------------------------------------
(* The root's join state and its signal tell the truth after every step.   *)
LEMMA RootStep == RInv /\ [Next]_vars => RootResolved' /\ BlockOnNeverPanics'
  <1> SUFFICES ASSUME RInv, [Next]_vars
               PROVE  RootResolved' /\ BlockOnNeverPanics'
    BY ZenonT(60)
  <1> USE DEF RootResolved, BlockOnNeverPanics
  <1>t. /\ RootResolved /\ BlockOnNeverPanics
        /\ status \in [Jobs -> {"new", "queued", "started", "done"}]
        /\ join \in [Jobs -> {"Unawaited", "Awaited", "Ready", "Done"}]
        /\ exec \in [at : Places, job : Jobs, token : Tokens \cup {None},
                     fresh : BOOLEAN]
        /\ signal \in BOOLEAN
        /\ Root \in Jobs /\ Root \notin Joinable
    BY ZenonT(60), ExecutorAssumption DEF RInv, NInv, TInv, TypeOK
  <1>r. Busy => status[exec.job] = "started"
    BY ZenonT(60), <1>t DEF RInv, NInv, Named, TokenNamesTask, Running, Busy
  <1>1. CASE BlockOnPush
    <2>1. status[Root] = "new"
      BY ZenonT(60), <1>1 DEF BlockOnPush, RInv, NInv, Named, QueuedOnce
    <2>2. ~signal
      BY ZenonT(60), <1>t, <1>r, <2>1 DEF Busy
    <2> QED
      BY ZenonT(60), <1>1, <1>t, <2>2 DEF BlockOnPush, joinVars
  <1>2. CASE BlockOnRelease
    BY ZenonT(60), <1>2, <1>t DEF BlockOnRelease, jobVars, joinVars
  <1>3. CASE BlockOnWait
    BY ZenonT(60), <1>3, <1>t DEF BlockOnWait, execVars, jobVars, joinVars
  <1>4. CASE BlockOnTake
    <2>1. join[Root] = "Ready" /\ ~signal
      BY ZenonT(60), <1>4, <1>t DEF BlockOnTake
    <2> QED
      BY ZenonT(60), <1>4, <1>t, <2>1
         DEF BlockOnTake, JoinLocked, execVars, jobVars
  <1>5. CASE WaitTasks \/ WaitWakes \/ Drained \/ WakeTask \/ WakeGone
    BY <1>5, <1>t DEF WaitTasks, WaitWakes, Drained, WakeTask, WakeGone,
                      jobVars, joinVars, mainVars
  <1>6. CASE SpawnTask
    <2>1. status[Popped(taskQ)] = "queued"
      <3>1. taskQ \in QueueOf(Jobs)
        BY ZenonT(60) DEF RInv, NInv, TInv, TypeOK
      <3>2. /\ Len(taskQ.vals) \in Nat \ {0}
            /\ Popped(taskQ) = taskQ.vals[Len(taskQ.vals)]
        BY ZenonT(60), <1>6, <3>1, PopBackFacts DEF SpawnTask
      <3> QED
        BY <3>2 DEF RInv, NInv, Named, QueuedOnce
    <2> QED
      BY ZenonT(60), <1>6, <1>t, <2>1 DEF SpawnTask, joinVars, mainVars
  <1>7. ASSUME NEW j \in Jobs, NEW k \in Jobs,
               AwaitEvent(j) \/ EventPending(j) \/ JoinPending(j, k)
        PROVE  RootResolved' /\ BlockOnNeverPanics'
    <2>0. exec.at = "poll" /\ (Suspend \/ UNCHANGED exec)
      BY ZenonT(60), <1>7
         DEF AwaitEvent, EventPending, JoinPending, PollsHandle, Polled
    <2>1. exec.at = "poll" /\ exec'.at \in {"poll", "pending"}
      BY ZenonT(60), <2>0, SuspendFacts DEF RInv, NInv
    <2>2. join'[Root] = join[Root]
      BY ZenonT(60), <1>7, <1>t
         DEF AwaitEvent, EventPending, JoinPending, PollsHandle, joinVars
    <2>3. status' = status /\ main' = main /\ signal' = signal
      BY ZenonT(60), <1>7
         DEF AwaitEvent, EventPending, JoinPending, jobVars, mainVars
    <2> QED
      BY ZenonT(60), <1>t, <2>1, <2>2, <2>3
  <1>8. ASSUME NEW j \in Jobs, NEW k \in Jobs,
               EventResume(j) \/ JoinReady(j, k)
        PROVE  RootResolved' /\ BlockOnNeverPanics'
    <2>1. exec.at = "poll" /\ exec' = exec
      BY ZenonT(60), <1>8
         DEF EventResume, JoinReady, PollsHandle, Polled, execVars
    <2>2. join'[Root] = join[Root]
      BY ZenonT(60), <1>8, <1>t
         DEF EventResume, JoinReady, PollsHandle, joinVars
    <2>3. status' = status /\ main' = main /\ signal' = signal
      BY ZenonT(60), <1>8 DEF EventResume, JoinReady, mainVars
    <2> QED
      BY ZenonT(60), <1>t, <2>1, <2>2, <2>3
  <1>9. ASSUME NEW j \in Jobs, Finish(j)
        PROVE  RootResolved' /\ BlockOnNeverPanics'
    BY ZenonT(60), <1>9, <1>t DEF Finish, Polled, jobVars, mainVars
  <1>10. ASSUME NEW j \in Jobs, Resolve(j)
         PROVE  RootResolved' /\ BlockOnNeverPanics'
    <2>1. /\ exec.at = "resolve" /\ exec.job = j /\ join[j] = "Ready"
          /\ exec'.at = "return" /\ exec'.job = j
          /\ join' = join /\ status' = status /\ main' = main
      BY ZenonT(60), <1>10, <1>t DEF Resolve, jobVars, joinVars
    <2>2. CASE j = Root
      <3>1. main # "signalled" /\ main # "returned"
        BY ZenonT(60), <1>t, <1>r, <2>1, <2>2 DEF Busy
      <3> QED
        BY ZenonT(60), <1>t, <2>1, <2>2, <3>1
    <2>3. CASE j # Root
      <3>1. signal' = signal
        BY ZenonT(60), <1>10, <1>t, <2>3 DEF Resolve
      <3> QED
        BY ZenonT(60), <1>t, <2>1, <2>3, <3>1
    <2> QED
      BY ZenonT(60), <2>2, <2>3
  <1>11. ASSUME NEW j \in Jobs, ReturnReady(j)
         PROVE  RootResolved' /\ BlockOnNeverPanics'
    BY ZenonT(60), <1>11, <1>t DEF ReturnReady, BackToDrain, joinVars, mainVars
  <1>12. ASSUME NEW j \in Jobs, NEW k \in Jobs, SpawnJob(j, k)
         PROVE  RootResolved' /\ BlockOnNeverPanics'
    BY ZenonT(60), <1>12, <1>t DEF SpawnJob, mainVars
  <1>13. ASSUME NEW j \in Jobs, NEW e \in Events,
                Fire(j, e) \/ PushWake(j, e) \/ ReleaseWake(j, e)
         PROVE  RootResolved' /\ BlockOnNeverPanics'
    BY <1>13, <1>t
    DEF Fire, PushWake, ReleaseWake, execVars, joinVars, mainVars
  <1>14. CASE UNCHANGED vars
    BY ZenonT(60), <1>14, <1>t DEF vars, execVars, jobVars, joinVars, mainVars
  <1>15. CASE ReturnPending
    <2>1. exec.at = "pending" /\ exec'.at \in {"drainTasks", "drainWakes"}
      BY ZenonT(60), <1>15, ReturnPendingFacts DEF RInv, NInv, ReturnPending
    <2> QED
      BY ZenonT(60), <1>15, <1>t, <2>1
         DEF ReturnPending, jobVars, joinVars, mainVars
  <1> QED
    BY ZenonT(60), <1>1, <1>2, <1>3, <1>4, <1>5, <1>6, <1>7, <1>8, <1>9,
       <1>10, <1>11, <1>12, <1>13, <1>14, <1>15
       DEF Next, MainStep, LoopStep, PollStep

(* Runtime::block_on never hits its panic: when the WaitSignal lets the    *)
(* thread go, the root's value is in its join state.                       *)
THEOREM ExecutorBlockOnNeverPanics ==
  ASSUME TokensSuffice PROVE Spec => []BlockOnNeverPanics
  <1>1. Init => RInv
    BY InitTInv, InitNamed
       DEF Init, RInv, NInv, RootResolved, BlockOnNeverPanics
  <1>2. RInv /\ [Next]_vars => RInv'
    BY ZenonT(60), TypeStep, NamedStep, RootStep DEF RInv, NInv
  <1>3. RInv => BlockOnNeverPanics
    BY ZenonT(60) DEF RInv
  <1> QED
    BY <1>1, <1>2, <1>3, PTL DEF Spec
-----------------------------------------------------------------------------
(* A source is between the push and the release of its add(). *)
Releasing ==
  \E j \in Jobs, e \in Events : source[j][e] \in {"pushed", "pushedAgain"}

WakesServed ==
  \/ IsEmpty(wakeQ) \/ Signalled(wakeQ) \/ Releasing
  \/ exec.at = "drainWakes"
  \/ Busy /\ ~exec.fresh

TasksServed ==
  \/ IsEmpty(taskQ) \/ Signalled(taskQ) \/ main = "pushed"
  \/ exec.at = "drainTasks"
  \/ Busy /\ exec.fresh

(* QueuesServed, said of the executor's place alone. *)
LEMMA ServedTwice ==
  ASSUME TypeOK PROVE QueuesServed <=> WakesServed /\ TasksServed
  <1>1. exec.job \in Jobs
    BY ZenonT(60) DEF TypeOK
  <1>2. Busy <=> \E j \in Jobs : Running(j)
    BY ZenonT(60), <1>1 DEF Busy, Running
  <1> QED
    BY ZenonT(60), <1>2 DEF QueuesServed, WakesServed, TasksServed, Releasing

(* Events are awaited in turn: a source past the latest is untouched. *)
SourcesInTurn ==
  \A j \in Jobs, e \in Events : e > events[j] => source[j][e] = "none"

SInv == TInv /\ SourcesInTurn /\ WakesServed /\ TasksServed

(* Only a job that awaits a new event touches the next source. *)
LEMMA InTurnStep == TInv /\ SourcesInTurn /\ [Next]_vars => SourcesInTurn'
  <1> SUFFICES ASSUME TInv, SourcesInTurn, [Next]_vars PROVE SourcesInTurn'
    BY ZenonT(60)
  <1>1. CASE events' = events /\ source' = source
    BY ZenonT(60), <1>1 DEF SourcesInTurn
  <1>2. ASSUME NEW j \in Jobs, AwaitEvent(j) PROVE SourcesInTurn'
    <2>1. /\ events \in [Jobs -> 0..MaxEvents] /\ MaxEvents \in Nat
          /\ source \in [Jobs -> [Events -> SourceStates]]
      BY ZenonT(60), ExecutorAssumption DEF TInv, TypeOK
    <2>2. /\ events' = [events EXCEPT ![j] = @ + 1]
          /\ source' = [source EXCEPT ![j][events[j] + 1] = "armed"]
      BY ZenonT(60), <1>2 DEF AwaitEvent
    <2> QED
      BY <2>1, <2>2 DEF SourcesInTurn, Events
  <1>3. ASSUME NEW j \in Jobs, NEW e \in Events,
               Fire(j, e) \/ PushWake(j, e) \/ ReleaseWake(j, e)
        PROVE  SourcesInTurn'
    <2>1. \A i \in Jobs, f \in Events :
            source'[i][f] # "none" => source[i][f] # "none"
      BY ZenonT(60), <1>3, SourceMoves
    <2>2. events' = events
      BY ZenonT(60), <1>3 DEF Fire, PushWake, ReleaseWake
    <2> QED
      BY ZenonT(60), <2>1, <2>2 DEF SourcesInTurn
  <1>4. CASE MainStep \/ LoopStep \/ UNCHANGED vars
    BY ZenonT(60), <1>1, <1>4
       DEF MainStep, BlockOnPush, BlockOnRelease, BlockOnWait, BlockOnTake,
           LoopStep, WaitTasks, WaitWakes, Drained, SpawnTask, WakeTask,
           WakeGone, ReturnPending, vars, jobVars
  <1>5. ASSUME NEW j \in Jobs, PollStep(j), ~AwaitEvent(j)
        PROVE  SourcesInTurn'
    BY ZenonT(60), <1>1, <1>5
       DEF PollStep, EventPending, EventResume, Finish, Resolve, ReturnReady,
           SpawnJob, JoinReady, JoinPending, jobVars
  <1> QED
    BY ZenonT(60), <1>2, <1>3, <1>4, <1>5 DEF Next

(* A poll that goes on or is about to return, and its return, leave a      *)
(* drained queue being drained.                                            *)
LEMMA PollServes ==
  ASSUME WakesServed, TasksServed, Busy, exec'.fresh = exec.fresh,
         Busy' \/ exec'.at = BackToDrain,
         wakeQ' = wakeQ, taskQ' = taskQ, main' = main, Releasing => Releasing'
  PROVE  WakesServed' /\ TasksServed'
  BY ZenonT(60)
     DEF WakesServed, TasksServed, Busy, BackToDrain, IsEmpty, Signalled

(* Every step leaves both queues empty, signalled or about to be served.   *)
LEMMA ServedStep == SInv /\ [Next]_vars => WakesServed' /\ TasksServed'
  <1> SUFFICES ASSUME TInv, SourcesInTurn, WakesServed, TasksServed,
                      [Next]_vars
               PROVE  WakesServed' /\ TasksServed'
    BY ZenonT(60) DEF SInv
  <1>t. /\ taskQ \in QueueOf(Jobs) /\ wakeQ \in QueueOf(Tokens)
        /\ exec \in [at : Places, job : Jobs, token : Tokens \cup {None},
                     fresh : BOOLEAN]
        /\ source \in [Jobs -> [Events -> SourceStates]]
    BY ZenonT(60) DEF TInv, TypeOK
  <1>1. CASE BlockOnPush
    BY ZenonT(60), <1>1
       DEF BlockOnPush, WakesServed, TasksServed, Busy, Releasing
  <1>2. CASE BlockOnRelease
    <2>1. Signalled(taskQ')
      BY ZenonT(60), <1>2, <1>t, ReleaseFacts DEF BlockOnRelease
    <2> QED
      BY ZenonT(60), <1>2, <2>1
         DEF BlockOnRelease, WakesServed, TasksServed, Busy, Releasing, jobVars
  <1>3. CASE BlockOnWait \/ BlockOnTake
    BY ZenonT(60), <1>3 DEF BlockOnWait, BlockOnTake, WakesServed,
                            TasksServed, Busy, Releasing, execVars, jobVars
  <1>4. CASE WaitTasks
    BY ZenonT(60), <1>4, <1>t
       DEF WaitTasks, WakesServed, TasksServed, Busy, Releasing, jobVars,
           mainVars
  <1>5. CASE WaitWakes
    BY ZenonT(60), <1>5, <1>t
       DEF WaitWakes, WakesServed, TasksServed, Busy, Releasing, jobVars,
           mainVars
  <1>6. CASE Drained
    BY ZenonT(60), <1>6, <1>t
       DEF Drained, WakesServed, TasksServed, Busy, Releasing, jobVars,
           mainVars
  <1>7. CASE SpawnTask
    BY ZenonT(60), <1>7, <1>t
       DEF SpawnTask, WakesServed, TasksServed, Busy, Releasing, mainVars
  <1>8. CASE WakeTask
    BY ZenonT(60), <1>8, <1>t
       DEF WakeTask, WakesServed, TasksServed, Busy, Releasing, jobVars,
           mainVars
  <1>9. CASE WakeGone
    BY ZenonT(60), <1>9
       DEF WakeGone, WakesServed, TasksServed, Busy, Releasing, jobVars,
           mainVars
  <1>10. ASSUME NEW j \in Jobs, AwaitEvent(j)
         PROVE  WakesServed' /\ TasksServed'
    <2>1. /\ exec.at = "poll" /\ (Suspend \/ UNCHANGED exec)
          /\ wakeQ' = wakeQ /\ taskQ' = taskQ /\ main' = main
      BY ZenonT(60), <1>10 DEF AwaitEvent, Polled, mainVars
    <2>2. /\ events[j] + 1 \in Events
          /\ source[j][events[j] + 1] = "none"
      BY <1>10, ExecutorAssumption
         DEF AwaitEvent, TInv, TypeOK, SourcesInTurn, Events
    <2>3. source' = [source EXCEPT ![j][events[j] + 1] = "armed"]
      BY ZenonT(60), <1>10 DEF AwaitEvent
    <2>4. Releasing => Releasing'
      BY ZenonT(60), <1>t, <2>2, <2>3 DEF Releasing
    <2> QED
      BY ZenonT(60), <2>1, <2>4, SuspendFacts, PollServes DEF Busy
  <1>11. ASSUME NEW j \in Jobs, NEW k \in Jobs,
                EventPending(j) \/ JoinPending(j, k)
         PROVE  WakesServed' /\ TasksServed'
    <2>1. /\ exec.at = "poll" /\ (Suspend \/ UNCHANGED exec)
          /\ wakeQ' = wakeQ /\ taskQ' = taskQ /\ main' = main
      BY ZenonT(60), <1>11
         DEF EventPending, JoinPending, PollsHandle, Polled, mainVars
    <2>2. Releasing => Releasing'
      BY ZenonT(60), <1>11 DEF EventPending, JoinPending, Releasing, jobVars
    <2> QED
      BY ZenonT(60), <2>1, <2>2, SuspendFacts, PollServes DEF Busy
  <1>12. ASSUME NEW j \in Jobs, NEW k \in Jobs,
                EventResume(j) \/ JoinReady(j, k)
         PROVE  WakesServed' /\ TasksServed'
    BY ZenonT(60), <1>12 DEF EventResume, JoinReady, WakesServed,
                             TasksServed, Busy, Releasing, execVars, mainVars
  <1>13. ASSUME NEW j \in Jobs, Finish(j)
         PROVE  WakesServed' /\ TasksServed'
    BY ZenonT(60), <1>13, <1>t
       DEF Finish, Polled, WakesServed, TasksServed, Busy, Releasing, jobVars,
           mainVars
  <1>14. ASSUME NEW j \in Jobs, Resolve(j)
         PROVE  WakesServed' /\ TasksServed'
    <2>1. wakeQ' = wakeQ \/ Signalled(wakeQ')
      BY ZenonT(60), <1>14, <1>t, AddFacts DEF Resolve, TInv, TokensKnown
    <2> QED
      BY ZenonT(60), <1>14, <1>t, <2>1
         DEF Resolve, WakesServed, TasksServed, Busy, Releasing, jobVars
  <1>15. ASSUME NEW j \in Jobs, ReturnReady(j)
         PROVE  WakesServed' /\ TasksServed'
    BY ZenonT(60), <1>15, <1>t
       DEF ReturnReady, BackToDrain, WakesServed, TasksServed, Busy, Releasing,
           mainVars
  <1>16. ASSUME NEW j \in Jobs, NEW k \in Jobs, SpawnJob(j, k)
         PROVE  WakesServed' /\ TasksServed'
    <2>1. Signalled(taskQ')
      BY ZenonT(60), <1>16, <1>t, AddFacts DEF SpawnJob
    <2> QED
      BY ZenonT(60), <1>16, <2>1
         DEF SpawnJob, WakesServed, TasksServed, Busy, Releasing
  <1>17. ASSUME NEW j \in Jobs, NEW e \in Events, Fire(j, e)
         PROVE  WakesServed' /\ TasksServed'
    <2>1. Releasing => Releasing'
      BY ZenonT(60), <1>17, <1>t DEF Fire, SourceStep, Releasing
    <2> QED
      BY ZenonT(60), <1>17, <2>1
         DEF Fire, WakesServed, TasksServed, Busy, execVars, mainVars
  <1>18. ASSUME NEW j \in Jobs, NEW e \in Events, PushWake(j, e)
         PROVE  WakesServed' /\ TasksServed'
    <2>1. Releasing'
      BY <1>18, <1>t DEF PushWake, SourceStep, Releasing
    <2> QED
      BY ZenonT(60), <1>18, <2>1
         DEF PushWake, WakesServed, TasksServed, Busy, mainVars
  <1>19. ASSUME NEW j \in Jobs, NEW e \in Events, ReleaseWake(j, e)
         PROVE  WakesServed' /\ TasksServed'
    <2>1. Signalled(wakeQ')
      BY ZenonT(60), <1>19, <1>t, ReleaseFacts DEF ReleaseWake
    <2> QED
      BY ZenonT(60), <1>19, <2>1
         DEF ReleaseWake, WakesServed, TasksServed, Busy, mainVars
  <1>20. CASE UNCHANGED vars
    BY ZenonT(60), <1>20
       DEF vars, execVars, jobVars, mainVars, WakesServed, TasksServed, Busy,
           Releasing
  <1>21. CASE ReturnPending
    <2>1. /\ exec.at = "pending" /\ source' = source
          /\ wakeQ' = wakeQ /\ taskQ' = taskQ /\ main' = main
      BY ZenonT(60), <1>21 DEF ReturnPending, jobVars, mainVars
    <2>2. exec'.at = BackToDrain /\ exec'.fresh = exec.fresh
      BY ZenonT(60), <1>21, ReturnPendingFacts
    <2> QED
      BY ZenonT(60), <2>1, <2>2, PollServes DEF Busy, Releasing
  <1> QED
    BY ZenonT(60), <1>1, <1>2, <1>3, <1>4, <1>5, <1>6, <1>7, <1>8, <1>9,
       <1>10, <1>11, <1>12, <1>13, <1>14, <1>15, <1>16, <1>17, <1>18, <1>19,
       <1>20, <1>21
       DEF Next, MainStep, LoopStep, PollStep

(* No item is ever stranded in TASK_QUEUE or WAKE_QUEUE, whatever the      *)
(* number of jobs, of events and of permits: the release that is refused   *)
(* at the semaphore's maximum, and the permits left over by a drain, do no *)
(* harm.                                                                   *)
THEOREM ExecutorServesQueues == Spec => []QueuesServed
  <1>1. Init => SInv
    BY InitTInv DEF Init, SInv, SourcesInTurn, WakesServed, TasksServed,
                    NewQueue, IsEmpty
  <1>2. SInv /\ [Next]_vars => SInv'
    BY ZenonT(60), TypeStep, InTurnStep, ServedStep DEF SInv
  <1>3. SInv => QueuesServed
    BY ZenonT(60), ServedTwice DEF SInv, TInv
  <1> QED
    BY <1>1, <1>2, <1>3, PTL DEF Spec
=============================================================================
