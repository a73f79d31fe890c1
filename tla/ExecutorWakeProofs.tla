------------------------- MODULE ExecutorWakeProofs -------------------------
(***************************************************************************)
(* Proofs that Executor wakes whoever sleeps for a reason: every step of   *)
(* it is a step that the contract of wakers allows (Waker), and no wake of *)
(* a task is lost.  They hold for any jobs as long as task_counter, a u32, *)
(* does not wrap, and rest on what each token names.                       *)
(***************************************************************************)
EXTENDS ExecutorProofs

(* Steps that no prover is named for are given a minute of SMT, and the    *)
(* places of a poll are known by name everywhere.                          *)
USE SMTT(60) DEF InPoll

(* The executor keeps the contract of wakers, step by step.  The mapping   *)
(* needs to know more about the tokens than Named: a job has none before   *)
(* spawn() gives it one, and WAKE_QUEUE holds none that spawn() has yet to *)
(* give out.  wrap_with_join_state overwrites an Awaited join state with   *)
(* Ready before it looks for a waker there, so that Resolve adds nothing.  *)
Unissued == \A j \in Jobs : status[j] \in {"new", "queued"} => token[j] = None

WakesIssued ==
  \A k \in 1..Len(wakeQ.vals) : wakeQ.vals[k] \in 0..(task_counter - 1)

ResolvesReady == exec.at = "resolve" => join[exec.job] = "Ready"

IssuedInTurn == Unissued /\ WakesIssued /\ ResolvesReady

KInv == NInv /\ IssuedInTurn

(* A token that was given out is below the counter. *)
LEMMA BelowCount == \A m, n \in Nat : m \in 0..(n - 1) => m < n
  OBVIOUS

(* A step of the contract, or none. *)
Simulates == [W!Next]_(W!vars)

SamePhases == \A i \in Jobs : PhaseOf(i)' = PhaseOf(i)
SameWakes  == \A i \in Jobs : WakesOf(i)' = WakesOf(i)

(* Job j changes its phase, and no other does. *)
Moves(j, from, to) ==
  /\ PhaseOf(j) = from /\ PhaseOf(j)' = to
  /\ \A i \in Jobs : i # j => PhaseOf(i)' = PhaseOf(i)

(* How the mapping takes steps of jobs and queues to steps of Waker. *)
LEMMA Mapped ==
  /\ SamePhases => phaseBar' = phaseBar
  /\ SameWakes => wakesBar' = wakesBar
  /\ \A j \in Jobs : phaseBar[j] = PhaseOf(j) /\ wakesBar[j] = WakesOf(j)
  BY ZenonT(60) DEF SamePhases, SameWakes, phaseBar, wakesBar

(* A job that changes its phase does so in the contract. *)
LEMMA Becomes ==
  ASSUME NEW j \in Jobs, NEW from, NEW to, Moves(j, from, to)
  PROVE  W!Become(j, from, to)
  <1>1. /\ phaseBar = [i \in Jobs |-> PhaseOf(i)]
        /\ phaseBar' = [i \in Jobs |-> PhaseOf(i)']
    BY ZenonT(60) DEF phaseBar
  <1> QED
    BY ZenonT(60), <1>1 DEF Moves, W!Become

(* What a phase says about a job. *)
LEMMA PhaseFacts ==
  ASSUME NEW j \in Jobs
  PROVE  /\ status[j] \in {"new", "queued"} => PhaseOf(j) = "idle"
         /\ status[j] = "done" => PhaseOf(j) = "done"
         /\ status[j] = "started" /\ Running(j) => PhaseOf(j) = "running"
         /\ status[j] = "started" /\ ~Running(j) => PhaseOf(j) = "pending"
  BY ZenonT(60) DEF PhaseOf

(* Only the status of a job and whether it runs matter to its phase. *)
LEMMA PhaseKept ==
  ASSUME NEW j \in Jobs, status'[j] = status[j], Running(j)' <=> Running(j)
  PROVE  PhaseOf(j)' = PhaseOf(j)
  BY ZenonT(60) DEF PhaseOf

(* A token that is out belongs to one job, which has been spawned. *)
LEMMA TokenOwner ==
  ASSUME KInv, NEW j \in Jobs, token[j] \in Tokens
  PROVE  /\ j \in Spawned
         /\ token[j] \in 0..(task_counter - 1)
         /\ \A i \in Jobs : token[i] = token[j] => i = j
  <1>1. /\ status \in [Jobs -> {"new", "queued", "started", "done"}]
        /\ None \notin Tokens
    BY DEF KInv, NInv, TInv, TypeOK, None, Tokens
  <1>2. \A i \in Jobs : token[i] = token[j] => i \in Spawned
    BY ZenonT(60), <1>1 DEF KInv, IssuedInTurn, Unissued, Spawned
  <1> QED
    BY ZenonT(60), <1>2 DEF KInv, NInv, Named, TokensDistinct

(* remove() on WAKE_QUEUE answers a wake of the job that has the token. *)
LEMMA PopAnswers ==
  ASSUME KInv, ~IsEmpty(wakeQ), wakeQ' = PopBack(wakeQ), token' = token,
         NEW j \in Jobs, token[j] = Popped(wakeQ)
  PROVE  W!Answer(j)
  <1> DEFINE n == Len(wakeQ.vals)
  <1>1. wakeQ \in QueueOf(Tokens)
    BY ZenonT(60) DEF KInv, NInv, TInv, TypeOK
  <1>2. /\ Popped(wakeQ) \in Tokens
        /\ n \in Nat \ {0}
        /\ Popped(wakeQ) = wakeQ.vals[n]
        /\ Len(wakeQ'.vals) = n - 1
        /\ \A k \in 1..(n - 1) : wakeQ'.vals[k] = wakeQ.vals[k]
    BY ZenonT(60), <1>1, PopBackFacts
  <1>3. \A i \in Jobs : token[i] = token[j] => i = j
    BY ZenonT(60), <1>2, TokenOwner
  <1>4. n \in WakesOf(j)
    BY <1>2 DEF WakesOf
  <1>5. \A i \in Jobs : WakesOf(i)' = WakesOf(i) \ {n}
    BY <1>2 DEF WakesOf
  <1>6. \A i \in Jobs : i # j => n \notin WakesOf(i)
    BY ZenonT(60), <1>2, <1>3 DEF WakesOf
  <1> HIDE DEF n
  <1>7. wakesBar' = [wakesBar EXCEPT ![j] = @ \ {n}]
    <2>1. /\ wakesBar = [i \in Jobs |-> WakesOf(i)]
          /\ wakesBar' = [i \in Jobs |-> WakesOf(i)']
      BY ZenonT(60) DEF wakesBar
    <2>2. \A i \in Jobs : i # j => WakesOf(i)' = WakesOf(i)
      BY ZenonT(60), <1>5, <1>6
    <2> QED
      BY ZenonT(60), <1>5, <2>1, <2>2
  <1>8. n \in wakesBar[j]
    BY ZenonT(60), <1>4 DEF wakesBar
  <1> QED
    BY ZenonT(60), <1>7, <1>8 DEF W!Answer

(* A source that calls a job's waker gives it a wake that it did not have, *)
(* and no other job.                                                       *)
LEMMA PushWakes ==
  ASSUME KInv, NEW j \in Jobs, NEW e \in Events, PushWake(j, e)
  PROVE  W!Wake(j)
  <1> DEFINE n == Len(wakeQ.vals) + 1
  <1>1. wakeQ \in QueueOf(Tokens) /\ Len(wakeQ.vals) \in Nat
    BY DEF KInv, NInv, TInv, TypeOK, QueueOf
  <1>2. token[j] \in Tokens
    BY ZenonT(60), SourceMoves DEF KInv, NInv, TInv, TokensKnown
  <1>3. /\ wakeQ' = PushBack(wakeQ, token[j])
        /\ UNCHANGED <<token, status, exec>>
    BY ZenonT(60) DEF PushWake
  <1>4. /\ Len(wakeQ'.vals) = n
        /\ wakeQ'.vals[n] = token[j]
        /\ \A k \in 1..Len(wakeQ.vals) : wakeQ'.vals[k] = wakeQ.vals[k]
    BY <1>1, <1>2, <1>3, PushBackFacts
  <1>5. j \in Spawned /\ \A i \in Jobs : token[i] = token[j] => i = j
    BY ZenonT(60), <1>2, TokenOwner
  <1>6. n \in Nat /\ n \notin WakesOf(j)
    BY <1>1 DEF WakesOf
  <1>7. WakesOf(j)' = WakesOf(j) \cup {n}
    BY <1>1, <1>3, <1>4 DEF WakesOf
  <1>8. \A i \in Jobs : i # j => WakesOf(i)' = WakesOf(i)
    BY <1>1, <1>3, <1>4, <1>5 DEF WakesOf
  <1> HIDE DEF n
  <1>9. /\ wakesBar = [i \in Jobs |-> WakesOf(i)]
        /\ wakesBar' = [i \in Jobs |-> WakesOf(i)']
    BY ZenonT(60) DEF wakesBar
  <1>10. wakesBar' = [wakesBar EXCEPT ![j] = @ \cup {n}]
    BY ZenonT(60), <1>7, <1>8, <1>9
  <1>11. n \in wakesBar'[j] \ wakesBar[j]
    BY ZenonT(60), <1>6, <1>7, <1>9
  <1>12. PhaseOf(j) # "idle"
    BY ZenonT(60), <1>5, PhaseFacts DEF Spawned, Running
  <1>13. SamePhases
    BY ZenonT(60), <1>3, PhaseKept DEF SamePhases, Running
  <1>14. phaseBar' = phaseBar /\ phaseBar[j] # "idle"
    BY ZenonT(60), <1>12, <1>13, Mapped
  <1> QED
    BY ZenonT(60), <1>6, <1>10, <1>11, <1>14 DEF W!Wake

(* Steps of the contract that a step of the executor may be. *)
LEMMA Simulation ==
  ASSUME NEW j \in Jobs,
         \/ W!Start(j) \/ W!Poll(j) \/ W!Suspend(j) \/ W!Finish(j)
         \/ W!Wake(j) \/ W!Discard(j)
         \/ SamePhases /\ SameWakes
  PROVE  Simulates
  <1>1. CASE SamePhases /\ SameWakes
    BY ZenonT(60), <1>1, Mapped DEF Simulates, W!vars
  <1> QED
    BY ZenonT(60), <1>1 DEF Simulates, W!Next

(* Nothing happens to WAKE_QUEUE's tokens and no token is given out. *)
Still ==
  token' = token /\ task_counter' = task_counter /\ wakeQ'.vals = wakeQ.vals

LEMMA StillWakes ==
  ASSUME Still PROVE SameWakes /\ (WakesIssued => WakesIssued')
  BY ZenonT(60) DEF Still, SameWakes, WakesOf, WakesIssued

(* Steps that neither start nor end a poll, nor a job. *)
LEMMA QuietStep ==
  ASSUME KInv, Still, status' = status, exec'.job = exec.job, Busy' <=> Busy,
         ResolvesReady'
  PROVE  IssuedInTurn' /\ Simulates
  <1>1. SamePhases
    BY ZenonT(60), PhaseKept DEF SamePhases, Running, Busy
  <1>2. Unissued'
    BY ZenonT(60) DEF KInv, IssuedInTurn, Unissued, Still
  <1>3. SameWakes /\ WakesIssued'
    BY ZenonT(60), StillWakes DEF KInv, IssuedInTurn
  <1> QED
    BY ZenonT(60), <1>1, <1>2, <1>3, ExecutorAssumption, Simulation
    DEF IssuedInTurn

(* TASK_QUEUE.add of a new job. *)
LEMMA EnqueueStep ==
  ASSUME KInv, Still, NEW k \in Jobs, status[k] = "new",
         status' = [status EXCEPT ![k] = "queued"],
         exec' = exec, join' = join
  PROVE  IssuedInTurn' /\ Simulates
  <1>1. status \in [Jobs -> {"new", "queued", "started", "done"}]
    BY ZenonT(60) DEF KInv, NInv, TInv, TypeOK
  <1>2. ASSUME NEW i \in Jobs, i # k PROVE PhaseOf(i)' = PhaseOf(i)
    BY ZenonT(60), <1>1, <1>2, PhaseKept DEF Running
  <1>3. PhaseOf(k) = "idle" /\ PhaseOf(k)' = "idle"
    BY ZenonT(60), <1>1 DEF PhaseOf
  <1>4. SamePhases
    BY ZenonT(60), <1>2, <1>3 DEF SamePhases
  <1>5. Unissued' /\ ResolvesReady'
    BY ZenonT(60), <1>1 DEF KInv, IssuedInTurn, Unissued, ResolvesReady, Still
  <1>6. SameWakes /\ WakesIssued'
    BY ZenonT(60), StillWakes DEF KInv, IssuedInTurn
  <1> QED
    BY ZenonT(60), <1>4, <1>5, <1>6, Simulation DEF IssuedInTurn

(* A poll of j returns: the job is suspended or has ended. *)
LEMMA ReturnStep ==
  ASSUME KInv, Still, NEW j \in Jobs, exec.job = j, Busy,
         exec'.at \in {"drainTasks", "drainWakes"},
         \/ status' = status
         \/ status' = [status EXCEPT ![j] = "done"]
  PROVE  IssuedInTurn' /\ Simulates
  <1>1. status \in [Jobs -> {"new", "queued", "started", "done"}]
    BY ZenonT(60) DEF KInv, NInv, TInv, TypeOK
  <1>2. Running(j) /\ status[j] = "started"
    BY ZenonT(60) DEF KInv, NInv, Named, TokenNamesTask, Running, Busy
  <1>3. ASSUME NEW i \in Jobs, i # j PROVE PhaseOf(i)' = PhaseOf(i)
    BY ZenonT(60), <1>1, <1>3, PhaseKept DEF Running
  <1>4. PhaseOf(j) = "running"
    BY ZenonT(60), <1>2, PhaseFacts
  <1>5. SameWakes /\ WakesIssued'
    BY ZenonT(60), StillWakes DEF KInv, IssuedInTurn
  <1>6. Unissued' /\ ResolvesReady'
    BY ZenonT(60), <1>1 DEF KInv, IssuedInTurn, Unissued, ResolvesReady, Still
  <1>7. CASE status' = status
    <2>1. PhaseOf(j)' = "pending"
      BY ZenonT(60), <1>2, <1>7 DEF PhaseOf, Running
    <2>2. W!Become(j, "running", "pending")
      BY ZenonT(60), <1>3, <1>4, <2>1, Becomes DEF Moves
    <2>3. W!Suspend(j)
      BY ZenonT(60), <1>5, <2>2, Mapped DEF W!Suspend
    <2> QED
      BY ZenonT(60), <1>5, <1>6, <2>3, Simulation DEF IssuedInTurn
  <1>8. CASE status' = [status EXCEPT ![j] = "done"]
    <2>1. PhaseOf(j)' = "done"
      BY ZenonT(60), <1>1, <1>8 DEF PhaseOf
    <2>2. W!Become(j, "running", "done")
      BY ZenonT(60), <1>3, <1>4, <2>1, Becomes DEF Moves
    <2>3. wakesBar' = wakesBar /\ wakesBar \in [Jobs -> SUBSET Nat]
      BY <1>5, Mapped DEF wakesBar, WakesOf
    <2>4. W!Finish(j)
      BY ZenonT(60), <2>2, <2>3 DEF W!Finish
    <2> QED
      BY ZenonT(60), <1>5, <1>6, <2>4, Simulation DEF IssuedInTurn
  <1> QED
    BY ZenonT(60), <1>7, <1>8

(* spawn() starts a job whose token nobody has used yet. *)
LEMMA SpawnStep ==
  ASSUME TokensSuffice, KInv, SpawnTask PROVE IssuedInTurn' /\ Simulates
  <1>1. /\ taskQ \in QueueOf(Jobs)
        /\ status \in [Jobs -> {"new", "queued", "started", "done"}]
        /\ token \in [Jobs -> Tokens \cup {None}]
        /\ task_counter \in Nat
        /\ TInv /\ Named
    BY DEF KInv, NInv, TInv, TypeOK, Tokens
  <1>2. PICK j \in Jobs : j = Popped(taskQ)
    BY ZenonT(60), <1>1, PopBackFacts DEF SpawnTask
  <1>3. status[j] = "queued"
    <2>1. /\ Len(taskQ.vals) \in Nat \ {0}
          /\ j = taskQ.vals[Len(taskQ.vals)]
      BY ZenonT(60), <1>1, <1>2, PopBackFacts DEF SpawnTask
    <2> QED
      BY <1>1, <2>1 DEF Named, QueuedOnce
  <1>4. /\ exec.at = "drainTasks"
        /\ exec' = [at |-> "poll", job |-> j, token |-> task_counter,
                    fresh |-> TRUE]
        /\ token' = [token EXCEPT ![j] = task_counter]
        /\ status' = [status EXCEPT ![j] = "started"]
        /\ wakeQ' = wakeQ
    BY ZenonT(60), <1>2 DEF SpawnTask
  <1>5. task_counter' \in Nat /\ task_counter < task_counter'
    <2>1. token'[j] = task_counter /\ j \in Spawned'
      BY ZenonT(60), <1>1, <1>2, <1>4 DEF Spawned
    <2>2. token'[j] \in 0..(task_counter' - 1) /\ task_counter' \in Tokens
      BY ZenonT(60), <1>1, <2>1, SpawnNames, TypeStep
         DEF Named, TokensDistinct, TInv, TypeOK, Next, LoopStep
    <2>3. task_counter' \in Nat
      BY <2>2, ExecutorAssumption DEF Tokens
    <2>4. task_counter \in 0..(task_counter' - 1) /\ task_counter \in Nat
      BY ZenonT(60), <1>1, <2>1, <2>2
    <2> QED
      BY ZenonT(60), <2>3, <2>4, BelowCount
  <1>6. WakesIssued /\ Unissued
    BY ZenonT(60) DEF KInv, IssuedInTurn
  <1>7. WakesIssued'
    BY <1>1, <1>4, <1>5, <1>6 DEF WakesIssued
  <1>8. Unissued' /\ ResolvesReady'
    BY ZenonT(60), <1>1, <1>4, <1>6 DEF Unissued, ResolvesReady
  <1>9. SameWakes
    <2>1. \A i \in Jobs : i # j => WakesOf(i)' = WakesOf(i)
      BY ZenonT(60), <1>1, <1>4 DEF WakesOf
    <2>2. token[j] = None /\ token'[j] = task_counter
      BY ZenonT(60), <1>1, <1>2, <1>3, <1>4, <1>6 DEF Unissued
    <2>3. WakesOf(j) = {} /\ WakesOf(j)' = {}
      BY <1>1, <1>4, <1>6, <2>2 DEF WakesOf, WakesIssued, None
    <2> QED
      BY ZenonT(60), <2>1, <2>3 DEF SameWakes
  <1>10. Moves(j, "idle", "running")
    <2>1. PhaseOf(j) = "idle"
      BY ZenonT(60), <1>2, <1>3, PhaseFacts
    <2>2. PhaseOf(j)' = "running"
      BY ZenonT(60), <1>1, <1>2, <1>4 DEF PhaseOf, Running
    <2>3. \A i \in Jobs : i # j => PhaseOf(i)' = PhaseOf(i)
      BY ZenonT(60), <1>1, <1>4, PhaseKept DEF Running
    <2> QED
      BY ZenonT(60), <2>1, <2>2, <2>3 DEF Moves
  <1>11. W!Start(j)
    BY ZenonT(60), <1>2, <1>9, <1>10, Mapped, Becomes DEF W!Start
  <1> QED
    BY ZenonT(60), <1>2, <1>7, <1>8, <1>11, Simulation DEF IssuedInTurn

(* wake() answers a wake of the task it finds, and drops one only of a     *)
(* task that is done.                                                      *)
LEMMA WakesAnswered ==
  ASSUME KInv, WakeTask \/ WakeGone PROVE IssuedInTurn' /\ Simulates
  <1> DEFINE t == Popped(wakeQ)
  <1>1. /\ wakeQ \in QueueOf(Tokens)
        /\ \A x \in DOMAIN tasks : tasks[x] \in Jobs
        /\ status \in [Jobs -> {"new", "queued", "started", "done"}]
    BY ZenonT(60) DEF KInv, NInv, TInv, TypeOK
  <1>2. /\ exec.at = "drainWakes"
        /\ ~IsEmpty(wakeQ) /\ wakeQ' = PopBack(wakeQ)
        /\ UNCHANGED <<status, token, task_counter, join>>
    BY ZenonT(60) DEF WakeTask, WakeGone, jobVars, joinVars
  <1>3. /\ t \in Tokens
        /\ Len(wakeQ.vals) \in Nat \ {0}
        /\ t = wakeQ.vals[Len(wakeQ.vals)]
        /\ Len(wakeQ'.vals) = Len(wakeQ.vals) - 1
        /\ \A k \in 1..(Len(wakeQ.vals) - 1) : wakeQ'.vals[k] = wakeQ.vals[k]
    BY ZenonT(60), <1>1, <1>2, PopBackFacts
  <1> HIDE DEF t
  <1>4. WakesIssued'
    BY <1>2, <1>3 DEF KInv, IssuedInTurn, WakesIssued
  <1>5. Unissued'
    BY ZenonT(60), <1>2 DEF KInv, IssuedInTurn, Unissued
  <1>6. exec' = exec \/ exec'.at = "poll"
    BY DEF WakeTask, WakeGone
  <1>7. ResolvesReady'
    BY ZenonT(60), <1>2, <1>6 DEF ResolvesReady
  <1>8. PICK j \in Jobs : j \in Spawned /\ token[j] = t
    <2>1. t \in 0..(task_counter - 1)
      BY <1>3 DEF KInv, IssuedInTurn, WakesIssued
    <2> QED
      BY ZenonT(60), <2>1 DEF KInv, NInv, Named, TokensDistinct, Spawned
  <1>9. W!Answer(j)
    BY ZenonT(60), <1>2, <1>8, PopAnswers DEF t
  <1>10. ~Running(j)
    BY ZenonT(60), <1>2 DEF Running
  <1>11. CASE WakeTask
    <2>1. /\ t \in DOMAIN tasks
          /\ exec' = [at |-> "poll", job |-> tasks[t], token |-> t,
                      fresh |-> FALSE]
      BY ZenonT(60), <1>11 DEF WakeTask, t
    <2>2. tasks[t] = j /\ status[j] = "started"
      <3>1. token[tasks[t]] = t /\ status[tasks[t]] = "started"
        BY ZenonT(60), <2>1 DEF KInv, NInv, Named, MapKeyed, TokenNamesTask
      <3>2. tasks[t] \in Spawned
        BY ZenonT(60), <1>1, <2>1, <3>1 DEF Spawned
      <3> QED
        BY ZenonT(60), <1>8, <3>1, <3>2 DEF KInv, NInv, Named, TokensDistinct
    <2>3. PhaseOf(j) = "pending"
      BY ZenonT(60), <1>10, <2>2, PhaseFacts
    <2>4. PhaseOf(j)' = "running"
      BY ZenonT(60), <1>2, <2>1, <2>2 DEF PhaseOf, Running
    <2>5. \A i \in Jobs : i # j => PhaseOf(i)' = PhaseOf(i)
      BY ZenonT(60), <1>2, <2>1, <2>2, PhaseKept DEF Running
    <2>6. W!Become(j, "pending", "running")
      BY ZenonT(60), <2>3, <2>4, <2>5, Becomes DEF Moves
    <2>7. W!Poll(j)
      BY ZenonT(60), <1>9, <2>6 DEF W!Poll
    <2> QED
      BY ZenonT(60), <1>4, <1>5, <1>7, <2>7, Simulation DEF IssuedInTurn
  <1>12. CASE WakeGone
    <2>1. t \notin DOMAIN tasks /\ exec' = exec
      BY ZenonT(60), <1>12 DEF WakeGone, t
    <2>2. status[j] = "done"
      BY ZenonT(60), <1>8, <1>10, <2>1
         DEF Spawned, KInv, NInv, Named, TokenNamesTask
    <2>3. PhaseOf(j) = "done"
      BY ZenonT(60), <2>2, PhaseFacts
    <2>4. SamePhases
      BY ZenonT(60), <1>2, <2>1, PhaseKept DEF SamePhases, Running
    <2>5. W!Discard(j)
      BY ZenonT(60), <1>9, <2>3, <2>4, Mapped DEF W!Discard
    <2> QED
      BY ZenonT(60), <1>4, <1>5, <1>7, <2>5, Simulation DEF IssuedInTurn
  <1> QED
    BY ZenonT(60), <1>11, <1>12

(* A call of a waker adds a token that spawn() has given out. *)
LEMMA PushStep ==
  ASSUME KInv, NEW j \in Jobs, NEW e \in Events, PushWake(j, e)
  PROVE  IssuedInTurn' /\ Simulates
  <1>1. /\ wakeQ' = PushBack(wakeQ, token[j])
        /\ UNCHANGED <<token, status, exec, join, task_counter>>
    BY ZenonT(60) DEF PushWake, joinVars
  <1>2. wakeQ \in QueueOf(Tokens) /\ Len(wakeQ.vals) \in Nat
    BY DEF KInv, NInv, TInv, TypeOK, QueueOf
  <1>3. token[j] \in Tokens
    BY SourceMoves DEF KInv, NInv, TInv, TokensKnown
  <1>4. token[j] \in 0..(task_counter - 1)
    BY ZenonT(60), <1>3, TokenOwner
  <1>5. /\ Len(wakeQ'.vals) = Len(wakeQ.vals) + 1
        /\ wakeQ'.vals[Len(wakeQ.vals) + 1] = token[j]
        /\ \A k \in 1..Len(wakeQ.vals) : wakeQ'.vals[k] = wakeQ.vals[k]
    BY <1>1, <1>2, <1>3, PushBackFacts
  <1>6. WakesIssued'
    BY <1>1, <1>2, <1>4, <1>5 DEF KInv, IssuedInTurn, WakesIssued
  <1>7. Unissued' /\ ResolvesReady'
    BY ZenonT(60), <1>1 DEF KInv, IssuedInTurn, Unissued, ResolvesReady
  <1> QED
    BY ZenonT(60), <1>6, <1>7, PushWakes, Simulation DEF IssuedInTurn

(* Every step of the executor, its sources and the thread in               *)
(* spawn_and_block is a step of the contract or leaves it alone.           *)
LEMMA ContractStep ==
  TokensSuffice /\ KInv /\ [Next]_vars => IssuedInTurn' /\ Simulates
  <1> SUFFICES ASSUME TokensSuffice, KInv, [Next]_vars
               PROVE  IssuedInTurn' /\ Simulates
    BY ZenonT(60)
  <1> DEFINE Goal == IssuedInTurn' /\ Simulates
  <1>t. /\ exec \in [at : Places, job : Jobs, token : Tokens \cup {None},
                     fresh : BOOLEAN]
        /\ wakeQ \in QueueOf(Tokens)
        /\ join \in [Jobs -> {"Unawaited", "Awaited", "Ready", "Done"}]
        /\ ResolvesReady
    BY ZenonT(60) DEF KInv, IssuedInTurn, NInv, TInv, TypeOK
  <1>1. CASE BlockOnPush
    <2>1. /\ Still /\ exec' = exec /\ join' = join
          /\ status' = [status EXCEPT ![Root] = "queued"]
      BY ZenonT(60), <1>1 DEF BlockOnPush, Still, joinVars
    <2>2. status[Root] = "new" /\ Root \in Jobs
      BY ZenonT(60), <1>1, ExecutorAssumption
         DEF BlockOnPush, KInv, NInv, Named, QueuedOnce
    <2> QED
      BY ZenonT(60), <2>1, <2>2, EnqueueStep
  <1>2. ASSUME NEW j \in Jobs, NEW k \in Jobs, SpawnJob(j, k) PROVE Goal
    <2>1. /\ Still /\ exec' = exec /\ join' = join
          /\ status[k] = "new"
          /\ status' = [status EXCEPT ![k] = "queued"]
      BY ZenonT(60), <1>2 DEF SpawnJob, Still
    <2> QED
      BY ZenonT(60), <2>1, EnqueueStep
  <1>3. CASE BlockOnTake
    <2>1. /\ Still /\ exec' = exec /\ status' = status
          /\ ~JoinLocked(Root)
          /\ join' = [join EXCEPT ![Root] = "Done"]
      BY ZenonT(60), <1>3 DEF BlockOnTake, Still, execVars, jobVars
    <2>2. ResolvesReady'
      BY ZenonT(60), <1>t, <2>1 DEF ResolvesReady, JoinLocked
    <2> QED
      BY ZenonT(60), <2>1, <2>2, QuietStep DEF Busy
  <1>4. ASSUME NEW j \in Jobs, NEW k \in Jobs,
               EventResume(j) \/ JoinReady(j, k)
        PROVE  Goal
    <2>1. Still /\ exec' = exec /\ status' = status /\ exec.at = "poll"
      BY ZenonT(60), <1>4
         DEF EventResume, JoinReady, PollsHandle, Polled, Still, execVars
    <2> QED
      BY ZenonT(60), <2>1, QuietStep DEF Busy, ResolvesReady
  <1>5. CASE BlockOnRelease \/ BlockOnWait \/ UNCHANGED vars
    <2>1. Still /\ exec' = exec /\ status' = status /\ join' = join
      BY ZenonT(60), <1>5
         DEF BlockOnRelease, BlockOnWait, Still, vars, execVars, jobVars,
             joinVars
    <2> QED
      BY ZenonT(60), <1>t, <2>1, QuietStep DEF Busy, ResolvesReady
  <1>6. ASSUME NEW j \in Jobs, NEW e \in Events,
               Fire(j, e) \/ ReleaseWake(j, e)
        PROVE  Goal
    <2>1. /\ exec' = exec /\ status' = status /\ join' = join
          /\ token' = token /\ task_counter' = task_counter
          /\ wakeQ' = wakeQ \/ wakeQ' = ReleasePermit(wakeQ)
      BY ZenonT(60), <1>6 DEF Fire, ReleaseWake, execVars, joinVars
    <2>2. Still
      BY ZenonT(60), <1>t, <2>1, ReleaseFacts DEF Still
    <2> QED
      BY ZenonT(60), <1>t, <2>1, <2>2, QuietStep DEF Busy, ResolvesReady
  <1>7. CASE WaitTasks \/ WaitWakes \/ Drained
    <2>1. /\ status' = status
          /\ exec.at \in {"wait", "drainTasks", "drainWakes"}
          /\ token' = token /\ task_counter' = task_counter
          /\ \/ wakeQ' = wakeQ
             \/ Signalled(wakeQ) /\ wakeQ' = TakePermit(wakeQ)
      BY ZenonT(60), <1>7 DEF WaitTasks, WaitWakes, Drained, jobVars
    <2>2. Still
      BY ZenonT(60), <1>t, <2>1, TakePermitFacts DEF Still
    <2>3. /\ exec'.job = exec.job
          /\ exec'.at \in {"wait", "drainTasks", "drainWakes"}
      BY ZenonT(60), <1>7, <1>t DEF WaitTasks, WaitWakes, Drained
    <2> QED
      BY ZenonT(60), <2>1, <2>2, <2>3, QuietStep DEF Busy, ResolvesReady
  <1>8. ASSUME NEW j \in Jobs, Finish(j) PROVE Goal
    <2>1. /\ Still /\ status' = status /\ Polled(j)
          /\ join' = [join EXCEPT ![j] = "Ready"]
          /\ exec' = [exec EXCEPT !.at = "resolve"]
      BY ZenonT(60), <1>8 DEF Finish, Still, jobVars
    <2>2. exec'.job = exec.job /\ Busy /\ Busy' /\ ResolvesReady'
      BY ZenonT(60), <1>t, <2>1 DEF Busy, ResolvesReady, Polled
    <2> QED
      BY ZenonT(60), <2>1, <2>2, QuietStep
  <1>9. ASSUME NEW j \in Jobs, Resolve(j) PROVE Goal
    <2>1. /\ exec.at = "resolve" /\ exec.job = j
          /\ exec' = [exec EXCEPT !.at = "return"]
          /\ UNCHANGED <<task_counter, token, status>>
          /\ join[j] # "Awaited" => wakeQ' = wakeQ
      BY ZenonT(60), <1>9 DEF Resolve, jobVars
    <2>2. Still
      BY ZenonT(60), <1>t, <2>1 DEF Still, ResolvesReady
    <2>3. exec'.job = exec.job /\ Busy /\ Busy' /\ ResolvesReady'
      BY ZenonT(60), <1>t, <2>1 DEF Busy, ResolvesReady
    <2> QED
      BY ZenonT(60), <2>1, <2>2, <2>3, QuietStep
  <1>10. ASSUME NEW j \in Jobs, NEW k \in Jobs,
                AwaitEvent(j) \/ EventPending(j) \/ JoinPending(j, k)
         PROVE  Goal
    <2>1. /\ Still /\ status' = status /\ exec.at = "poll"
          /\ Suspend \/ UNCHANGED exec
      BY ZenonT(60), <1>10
         DEF AwaitEvent, EventPending, JoinPending, PollsHandle, Polled,
             Still, jobVars
    <2>2. exec'.at \in {"poll", "pending"} /\ exec'.job = exec.job
      BY ZenonT(60), <2>1, SuspendFacts DEF KInv, NInv
    <2> QED
      BY ZenonT(60), <2>1, <2>2, QuietStep DEF Busy, ResolvesReady
  <1>11. ASSUME NEW j \in Jobs, ReturnReady(j) PROVE Goal
    <2>1. /\ Still /\ exec.job = j /\ exec.at = "return"
          /\ status' = [status EXCEPT ![j] = "done"]
          /\ exec' = [exec EXCEPT !.at = BackToDrain]
      BY ZenonT(60), <1>11 DEF ReturnReady, Still
    <2>2. exec'.at \in {"drainTasks", "drainWakes"} /\ Busy
      BY ZenonT(60), <1>t, <2>1 DEF BackToDrain, Busy
    <2> QED
      BY ZenonT(60), <2>1, <2>2, ReturnStep
  <1>12. ASSUME NEW j \in Jobs, NEW e \in Events, PushWake(j, e) PROVE Goal
    BY ZenonT(60), <1>12, PushStep
  <1>13. CASE SpawnTask
    BY ZenonT(60), <1>13, SpawnStep
  <1>14. CASE WakeTask \/ WakeGone
    BY ZenonT(60), <1>14, WakesAnswered
  <1>15. CASE ReturnPending
    <2>1. Still /\ status' = status /\ exec.at = "pending"
      BY ZenonT(60), <1>15 DEF ReturnPending, Still, jobVars
    <2>2. exec'.at \in {"drainTasks", "drainWakes"}
      BY ZenonT(60), <1>15, ReturnPendingFacts DEF KInv, NInv
    <2> QED
      BY ZenonT(60), <1>t, <2>1, <2>2, ReturnStep DEF Busy
  <1> QED
    BY ZenonT(60), <1>1, <1>2, <1>3, <1>4, <1>5, <1>6, <1>7, <1>8, <1>9,
       <1>10, <1>11, <1>12, <1>13, <1>14, <1>15
       DEF Next, MainStep, LoopStep, PollStep

(* The executor implements the contract of std::task::Waker, for any jobs  *)
(* and events, as long as ExecutorHandler::spawn does not hand out all     *)
(* values of the u32 counter: a task is polled when it is spawned and then *)
(* once for each call of its waker, by whatever thread and at any time,    *)
(* and a call goes unanswered only when the task is done.                  *)
THEOREM ExecutorKeepsWakerContract ==
  ASSUME TokensSuffice PROVE Spec => W!Safety
  <1>1. Init => KInv /\ W!Init
    <2> SUFFICES ASSUME Init PROVE KInv /\ W!Init
      BY ZenonT(60)
    <2>1. NInv
      BY ZenonT(60), InitTInv, InitNamed DEF NInv
    <2>2. Len(wakeQ.vals) = 0
      BY ZenonT(60) DEF Init, NewQueue
    <2>3. IssuedInTurn
      BY <2>2 DEF Init, IssuedInTurn, Unissued, WakesIssued, ResolvesReady
    <2>4. phaseBar = [j \in Jobs |-> "idle"]
      BY ZenonT(60) DEF Init, phaseBar, PhaseOf
    <2>5. wakesBar = [j \in Jobs |-> {}]
      BY <2>2 DEF wakesBar, WakesOf
    <2> QED
      BY ZenonT(60), <2>1, <2>3, <2>4, <2>5 DEF KInv, W!Init
  <1>2. KInv /\ [Next]_vars => KInv' /\ [W!Next]_(W!vars)
    BY ZenonT(60), TypeStep, NamedStep, ContractStep
       DEF KInv, NInv, Simulates
  <1> QED
    BY <1>1, <1>2, PTL DEF Spec, W!Safety
-----------------------------------------------------------------------------
WInv == NInv /\ AwaitTells /\ NoLostWake

(* A job's waker has been called for the event it awaits. *)
Called(i) ==
  await[i] = "event" /\ source[i][events[i]] \notin {"none", "armed", "fired"}

(* WAKE_QUEUE loses no token. *)
WakesKept ==
  /\ Len(wakeQ.vals) \in Nat /\ Len(wakeQ'.vals) \in Nat
  /\ Len(wakeQ'.vals) >= Len(wakeQ.vals)
  /\ \A n \in 1..Len(wakeQ.vals) : wakeQ'.vals[n] = wakeQ.vals[n]

(* A job that is queued for a wake stays queued when none is taken. *)
LEMMA KeptInQueue ==
  ASSUME WakesKept, token' = token, NEW i, InWakeQ(i) PROVE InWakeQ(i)'
  <1>1. PICK n \in 1..Len(wakeQ.vals) : wakeQ.vals[n] = token[i]
    BY ZenonT(60) DEF InWakeQ
  <1>2. n \in 1..Len(wakeQ'.vals) /\ wakeQ'.vals[n] = token'[i]
    BY <1>1 DEF WakesKept
  <1> QED
    BY ZenonT(60), <1>2 DEF InWakeQ

(* The steps that take nothing from WAKE_QUEUE. *)
LEMMA KeepsWakes ==
  ASSUME TInv, [Next]_vars, ~WakeTask, ~WakeGone PROVE WakesKept
  <1>t. wakeQ \in QueueOf(Tokens) /\ Len(wakeQ.vals) \in Nat
    BY DEF TInv, TypeOK, QueueOf
  <1>1. CASE wakeQ' = wakeQ
    BY <1>1, <1>t DEF WakesKept
  <1>2. CASE WaitWakes
    <2>1. wakeQ'.vals = wakeQ.vals
      BY ZenonT(60), <1>2, <1>t, TakePermitFacts DEF WaitWakes
    <2> QED
      BY <1>t, <2>1 DEF WakesKept
  <1>3. ASSUME NEW j \in Jobs, Resolve(j) PROVE WakesKept
    <2>1. CASE join[j] = "Awaited"
      <3>1. joinWaker[j] \in Tokens /\ wakeQ' = Add(wakeQ, joinWaker[j])
        BY ZenonT(60), <1>3, <2>1 DEF Resolve, TInv, TokensKnown
      <3>2. /\ Len(wakeQ'.vals) = Len(wakeQ.vals) + 1
            /\ \A n \in 1..Len(wakeQ.vals) : wakeQ'.vals[n] = wakeQ.vals[n]
        BY <1>t, <3>1, AddFacts
      <3> QED
        BY <1>t, <3>2 DEF WakesKept
    <2> QED
      BY ZenonT(60), <1>1, <1>3, <2>1 DEF Resolve
  <1>4. ASSUME NEW j \in Jobs, NEW e \in Events, PushWake(j, e)
        PROVE  WakesKept
    <2>1. token[j] \in Tokens
      BY ZenonT(60), <1>4, SourceMoves DEF TInv, TokensKnown
    <2>2. /\ Len(wakeQ'.vals) = Len(wakeQ.vals) + 1
          /\ \A n \in 1..Len(wakeQ.vals) : wakeQ'.vals[n] = wakeQ.vals[n]
      BY <1>4, <1>t, <2>1, PushBackFacts DEF PushWake
    <2> QED
      BY <1>t, <2>2 DEF WakesKept
  <1>5. ASSUME NEW j \in Jobs, NEW e \in Events, ReleaseWake(j, e)
        PROVE  WakesKept
    <2>1. wakeQ'.vals = wakeQ.vals
      BY ZenonT(60), <1>5, <1>t, ReleaseFacts DEF ReleaseWake
    <2> QED
      BY <1>t, <2>1 DEF WakesKept
  <1>6. CASE \/ MainStep \/ WaitTasks \/ Drained \/ SpawnTask
             \/ ReturnPending \/ UNCHANGED vars
    BY ZenonT(60), <1>1, <1>6
       DEF MainStep, BlockOnPush, BlockOnRelease, BlockOnWait, BlockOnTake,
           WaitTasks, Drained, SpawnTask, ReturnPending, vars, execVars
  <1>7. ASSUME NEW j \in Jobs, PollStep(j), ~Resolve(j) PROVE WakesKept
    BY ZenonT(60), <1>1, <1>7
    DEF PollStep, AwaitEvent, EventPending, EventResume, Finish,
         ReturnReady, SpawnJob, JoinReady, JoinPending, execVars
  <1>8. ASSUME NEW j \in Jobs, NEW e \in Events, Fire(j, e) PROVE WakesKept
    BY ZenonT(60), <1>1, <1>8 DEF Fire, execVars
  <1> QED
    BY ZenonT(60), <1>2, <1>3, <1>4, <1>5, <1>6, <1>7, <1>8 DEF Next, LoopStep

(* The token on top of WAKE_QUEUE is popped: the others stay. *)
LEMMA PoppedOrKept ==
  ASSUME TInv, ~IsEmpty(wakeQ), wakeQ' = PopBack(wakeQ), token' = token,
         NEW i, InWakeQ(i)
  PROVE  InWakeQ(i)' \/ Popped(wakeQ) = token[i]
  <1>1. PICK n \in 1..Len(wakeQ.vals) : wakeQ.vals[n] = token[i]
    BY ZenonT(60) DEF InWakeQ
  <1>2. wakeQ \in QueueOf(Tokens)
    BY ZenonT(60) DEF TInv, TypeOK
  <1>3. /\ Len(wakeQ.vals) \in Nat \ {0}
        /\ Popped(wakeQ) = wakeQ.vals[Len(wakeQ.vals)]
        /\ Len(wakeQ'.vals) = Len(wakeQ.vals) - 1
        /\ \A m \in 1..(Len(wakeQ.vals) - 1) : wakeQ'.vals[m] = wakeQ.vals[m]
    BY ZenonT(60), <1>2, PopBackFacts
  <1>4. CASE n = Len(wakeQ.vals)
    BY ZenonT(60), <1>1, <1>3, <1>4
  <1>5. CASE n # Len(wakeQ.vals)
    <2>1. n \in 1..Len(wakeQ'.vals) /\ wakeQ'.vals[n] = token'[i]
      BY <1>1, <1>3, <1>5
    <2> QED
      BY ZenonT(60), <2>1 DEF InWakeQ
  <1> QED
    BY ZenonT(60), <1>4, <1>5

(* A source that calls a waker puts the job in WAKE_QUEUE. *)
LEMMA PushQueues ==
  ASSUME TInv, NEW j \in Jobs, NEW e \in Events, PushWake(j, e)
  PROVE  InWakeQ(j)'
  <1>1. token[j] \in Tokens
    BY ZenonT(60), SourceMoves DEF TInv, TokensKnown
  <1>2. wakeQ \in QueueOf(Tokens) /\ Len(wakeQ.vals) \in Nat
    BY DEF TInv, TypeOK, QueueOf
  <1>3. wakeQ' = PushBack(wakeQ, token[j]) /\ token' = token
    BY ZenonT(60) DEF PushWake
  <1>4. /\ Len(wakeQ'.vals) = Len(wakeQ.vals) + 1
        /\ wakeQ'.vals[Len(wakeQ.vals) + 1] = token[j]
    BY <1>1, <1>2, <1>3, PushBackFacts
  <1> QED
    BY <1>2, <1>3, <1>4 DEF InWakeQ

(* No other step of a source calls the waker for an awaited event. *)
LEMMA OnlyPushCalls ==
  ASSUME TInv, NEW j \in Jobs, NEW e \in Events, NEW i \in Jobs,
         Fire(j, e) \/ PushWake(j, e) \/ ReleaseWake(j, e),
         events[i] \in Events, Called(i)', ~Called(i)
  PROVE  PushWake(j, e) /\ i = j
  <1>1. await' = await /\ events' = events
    BY ZenonT(60) DEF Fire, PushWake, ReleaseWake
  <1>2. /\ source'[i][events[i]] \notin {"none", "armed", "fired"}
        /\ source[i][events[i]] \in {"none", "armed", "fired"}
    BY ZenonT(60), <1>1 DEF Called
  <1>3. i = j /\ events[i] = e
    BY <1>2, SourceMoves
  <1>4. CASE Fire(j, e)
    <2>1. source'[j][e] = "fired"
      BY ZenonT(60), <1>4, SourceFacts DEF Fire, SourceStates
    <2> QED
      BY ZenonT(60), <1>2, <1>3, <2>1
  <1>5. CASE ReleaseWake(j, e)
    <2>1. source[j][e] \in {"pushed", "pushedAgain"}
      BY ZenonT(60), <1>5 DEF ReleaseWake, SourceStep
    <2> QED
      BY ZenonT(60), <1>2, <1>3, <2>1
  <1> QED
    BY ZenonT(60), <1>3, <1>4, <1>5

(* A job whose waker has been called is queued or polled after every step. *)
LEMMA WakeStep == WInv /\ [Next]_vars => NoLostWake'
  <1> SUFFICES ASSUME WInv, [Next]_vars, NEW i \in Jobs, Called(i)'
               PROVE  InWakeQ(i)' \/ Polled(i)'
    BY ZenonT(60) DEF NoLostWake, Called, EventReady
  <1> DEFINE Goal == InWakeQ(i)' \/ Polled(i)'
  <1>t. /\ TInv
        /\ await \in [Jobs -> Jobs \cup {"none", "event"}]
        /\ events \in [Jobs -> 0..MaxEvents]
        /\ source \in [Jobs -> [Events -> SourceStates]]
        /\ exec \in [at : Places, job : Jobs, token : Tokens \cup {None},
                     fresh : BOOLEAN]
        /\ wakeQ \in QueueOf(Tokens)
    BY ZenonT(60) DEF WInv, NInv, TInv, TypeOK
  <1>a. /\ await[i] # "none" => status[i] = "started"
        /\ await[i] = "event" => events[i] \in Events
        /\ exec.job = i /\ exec.at \in {"resolve", "return"}
             => await[i] = "none"
    BY ZenonT(60) DEF WInv, AwaitTells
  <1>n. Called(i) => InWakeQ(i) \/ Polled(i)
    BY ZenonT(60) DEF WInv, NoLostWake, Called, EventReady
  <1>k. ~WakeTask /\ ~WakeGone => WakesKept
    BY ZenonT(60), <1>t, KeepsWakes
  <1>s. ASSUME Called(i), WakesKept, token' = token, Polled(i) => Polled(i)'
        PROVE  Goal
    BY ZenonT(60), <1>n, <1>s, KeptInQueue
  <1>u. ASSUME UNCHANGED <<await, events, source>> PROVE Called(i)
    BY ZenonT(60), <1>u DEF Called
  <1>1. CASE BlockOnPush \/ BlockOnRelease \/ BlockOnWait \/ BlockOnTake
    <2>1. /\ UNCHANGED <<await, events, source, token, exec>>
          /\ ~WakeTask /\ ~WakeGone
      BY ZenonT(60), <1>1
         DEF BlockOnPush, BlockOnRelease, BlockOnWait, BlockOnTake, execVars,
             jobVars, WakeTask, WakeGone, mainVars
    <2> QED
      BY ZenonT(60), <2>1, <1>k, <1>s, <1>u DEF Polled
  <1>2. CASE WaitTasks \/ WaitWakes \/ Drained \/ ReturnPending
    <2>1. /\ UNCHANGED <<await, events, source, token>>
          /\ exec.at # "poll"
      BY ZenonT(60), <1>2
         DEF WaitTasks, WaitWakes, Drained, ReturnPending, jobVars
    <2>2. Called(i) /\ ~Polled(i)
      BY ZenonT(60), <1>u, <2>1 DEF Polled
    <2>3. exec'.at # "poll" /\ exec' # exec
      <3>1. CASE ReturnPending
        BY ZenonT(60), <1>t, <3>1, ReturnPendingFacts DEF ReturnPending
      <3> QED
        BY ZenonT(60), <1>2, <1>t, <3>1 DEF WaitTasks, WaitWakes, Drained
    <2>4. CASE WakesKept
      BY ZenonT(60), <2>1, <2>2, <2>4, <1>s
    <2>5. ~WakeGone /\ ~WakeTask
      BY <2>3 DEF WakeGone, WakeTask
    <2> QED
      BY ZenonT(60), <2>4, <2>5, <1>k
  <1>3. CASE SpawnTask
    <2>1. /\ UNCHANGED <<await, events, source>>
          /\ exec.at = "drainTasks"
          /\ token' = [token EXCEPT ![Popped(taskQ)] = task_counter]
      BY ZenonT(60), <1>3 DEF SpawnTask
    <2>2. Called(i) /\ ~Polled(i)
      BY ZenonT(60), <1>u, <2>1 DEF Polled
    <2>3. status[i] = "started"
      BY ZenonT(60), <1>a, <2>2 DEF Called
    <2>4. status[Popped(taskQ)] = "queued"
      <3>1. taskQ \in QueueOf(Jobs)
        BY ZenonT(60), <1>t DEF TInv, TypeOK
      <3>2. /\ Len(taskQ.vals) \in Nat \ {0}
            /\ Popped(taskQ) = taskQ.vals[Len(taskQ.vals)]
        BY ZenonT(60), <1>3, <3>1, PopBackFacts DEF SpawnTask
      <3> QED
        BY <3>2 DEF WInv, NInv, Named, QueuedOnce
    <2>5. token'[i] = token[i] /\ wakeQ' = wakeQ
      BY ZenonT(60), <1>3, <1>t, <2>1, <2>3, <2>4 DEF SpawnTask, TInv, TypeOK
    <2> QED
      BY ZenonT(60), <1>n, <2>2, <2>5 DEF InWakeQ
  <1>4. CASE WakeTask \/ WakeGone
    <2>1. /\ UNCHANGED <<await, events, source, token>>
          /\ exec.at = "drainWakes"
          /\ ~IsEmpty(wakeQ) /\ wakeQ' = PopBack(wakeQ)
      BY ZenonT(60), <1>4 DEF WakeTask, WakeGone, jobVars
    <2>2. Called(i) /\ InWakeQ(i)
      BY ZenonT(60), <1>n, <1>u, <2>1 DEF Polled
    <2>3. InWakeQ(i)' \/ Popped(wakeQ) = token[i]
      BY ZenonT(60), <1>t, <2>1, <2>2, PoppedOrKept
    <2>4. token[i] \in DOMAIN tasks /\ tasks[token[i]] = i
      <3>1. status[i] = "started"
        BY ZenonT(60), <1>a, <2>2 DEF Called
      <3> QED
        BY ZenonT(60), <2>1, <3>1
           DEF WInv, NInv, Named, TokenNamesTask, Running
    <2>5. CASE Popped(wakeQ) = token[i]
      BY <1>4, <2>4, <2>5 DEF WakeTask, WakeGone, Polled
    <2> QED
      BY ZenonT(60), <2>3, <2>5
  <1>5. ASSUME NEW j \in Jobs,
               \/ AwaitEvent(j) \/ EventPending(j) \/ EventResume(j)
               \/ \E k \in Jobs : JoinReady(j, k) \/ JoinPending(j, k)
        PROVE  Goal
    <2>1. /\ Polled(j) /\ token' = token /\ WakesKept
          /\ ~WakeTask /\ ~WakeGone
      BY ZenonT(60), <1>5, <1>k
      DEF AwaitEvent, EventPending, EventResume, JoinReady,
           JoinPending, PollsHandle, Polled, jobVars, WakeTask, WakeGone
    <2>2. i # j
      <3>1. SUFFICES ASSUME i = j PROVE FALSE
        BY ZenonT(60)
      <3>2. CASE AwaitEvent(j)
        <4>1. /\ events' = [events EXCEPT ![j] = @ + 1]
              /\ source' = [source EXCEPT ![j][events[j] + 1] = "armed"]
              /\ events[j] + 1 \in Events
          BY <1>t, <3>2, ExecutorAssumption DEF AwaitEvent, Events
        <4>2. source'[i][events'[i]] = "armed"
          BY <1>t, <3>1, <4>1
        <4> QED
          BY ZenonT(60), <4>2 DEF Called
      <3>3. CASE EventPending(j)
        BY ZenonT(60), <3>1, <3>3 DEF EventPending, EventReady, Called, jobVars
      <3>4. ASSUME NEW k \in Jobs, JoinPending(j, k) PROVE FALSE
        <4>1. await'[i] = k /\ k # "event"
          BY ZenonT(60), <1>t, <3>1, <3>4, ExecutorAssumption DEF JoinPending
        <4> QED
          BY ZenonT(60), <4>1 DEF Called
      <3>5. ASSUME NEW k \in Jobs, EventResume(j) \/ JoinReady(j, k)
            PROVE  FALSE
        <4>1. await'[i] = "none"
          BY ZenonT(60), <1>t, <3>1, <3>5 DEF EventResume, JoinReady
        <4> QED
          BY ZenonT(60), <4>1 DEF Called
      <3> QED
        BY ZenonT(60), <1>5, <3>2, <3>3, <3>4, <3>5
    <2>3. /\ await'[i] = await[i] /\ events'[i] = events[i]
          /\ source'[i] = source[i]
      BY ZenonT(60), <1>5, <1>t, <2>2
      DEF AwaitEvent, EventPending, EventResume, JoinReady,
           JoinPending, jobVars
    <2>4. Called(i) /\ ~Polled(i)
      BY ZenonT(60), <2>1, <2>2, <2>3 DEF Called, Polled
    <2> QED
      BY ZenonT(60), <1>s, <2>1, <2>4
  <1>6. ASSUME NEW j \in Jobs, NEW k \in Jobs,
               Finish(j) \/ Resolve(j) \/ ReturnReady(j) \/ SpawnJob(j, k)
        PROVE  Goal
    <2>1. /\ UNCHANGED <<await, events, source, token>>
          /\ exec.at # "drainWakes"
      BY ZenonT(60), <1>6
      DEF Finish, Resolve, ReturnReady, SpawnJob, Polled, jobVars
    <2>2. WakesKept /\ Called(i)
      BY ZenonT(60), <1>k, <1>u, <2>1 DEF WakeTask, WakeGone
    <2>3. Polled(i) => Polled(i)'
      BY ZenonT(60), <1>6, <2>2
      DEF Finish, Resolve, ReturnReady, SpawnJob, Polled, Called
    <2> QED
      BY ZenonT(60), <1>s, <2>1, <2>2, <2>3
  <1>7. ASSUME NEW j \in Jobs, NEW e \in Events,
               Fire(j, e) \/ PushWake(j, e) \/ ReleaseWake(j, e)
        PROVE  Goal
    <2>1. /\ UNCHANGED <<await, events, token, exec>>
          /\ source' # source
      BY <1>7, <1>t DEF Fire, PushWake, ReleaseWake, SourceStep, execVars
    <2>2. WakesKept /\ (Polled(i) => Polled(i)')
      BY ZenonT(60), <1>k, <2>1 DEF WakeTask, WakeGone, jobVars, Polled
    <2>3. CASE Called(i)
      BY ZenonT(60), <1>s, <2>1, <2>2, <2>3
    <2>4. CASE ~Called(i)
      <3>1. PushWake(j, e) /\ i = j
        BY ZenonT(60), <1>7, <1>t, <1>a, <2>1, <2>4, OnlyPushCalls DEF Called
      <3> QED
        BY ZenonT(60), <1>t, <3>1, PushQueues
    <2> QED
      BY ZenonT(60), <2>3, <2>4
  <1>8. CASE UNCHANGED vars
    <2>1. UNCHANGED <<await, events, source, token, exec, wakeQ>>
      BY ZenonT(60), <1>8 DEF vars, execVars, jobVars
    <2> QED
      BY ZenonT(60), <1>n, <1>u, <2>1 DEF InWakeQ, Polled
  <1> QED
    BY ZenonT(60), <1>1, <1>2, <1>3, <1>4, <1>5, <1>6, <1>7, <1>8
       DEF Next, MainStep, LoopStep, PollStep

(* No wake is lost, for any jobs and events: a source that wakes before    *)
(* spawn() enters the task, while the task is polled, or twice, never      *)
(* leaves the task suspended on an event that has happened with no wake    *)
(* under way.                                                              *)
THEOREM ExecutorLosesNoWake == ASSUME TokensSuffice PROVE Spec => []NoLostWake
  <1>1. Init => WInv
    BY ZenonT(60), InitTInv, InitNamed
    DEF Init, WInv, NInv, AwaitTells, NoLostWake
  <1>2. WInv /\ [Next]_vars => WInv'
    BY ZenonT(60), TypeStep, NamedStep, AwaitStep, WakeStep DEF WInv, NInv
  <1>3. WInv => NoLostWake
    BY ZenonT(60) DEF WInv
  <1> QED
    BY <1>1, <1>2, <1>3, PTL DEF Spec
=============================================================================
