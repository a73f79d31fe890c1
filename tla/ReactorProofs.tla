--------------------------- MODULE ReactorProofs ---------------------------
(***************************************************************************)
(* Proofs about Reactor, for any Sleeps, tasks, delays, lags and clocks:   *)
(* no unwrap panics, timers are due at their deadlines, no wake is lost.   *)
(***************************************************************************)
EXTENDS Reactor, FiniteSetTheorems, TLAPS

(* Steps that no prover is named for are given a minute of SMT. *)
USE SMTT(60)

(* The start of the runtime: tasks run only when the port is set. *)
Started ==
  /\ main = "new" <=> reactor = "none"
  /\ main = "running" => reactor = "waiting"
  /\ reactor = "waiting" => port
  /\ exec # Idle => main = "running"
  /\ \A s \in Sleeps : phase[s] # "none" => main = "running"
  /\ NothingPanics

(* The executor's thread is past svcSetTimer in a poll of s. *)
Busy(s) == exec.at \in {"armed", "request", "reply"} /\ exec.s = s

(* How far a Sleep's timer has come: not created; set but not known to the *)
(* reactor; in its list, with one token until it has fired.                *)
Stages(s) ==
  /\ Busy(s) \/ Arming(s, "arming") => phase[s] = "new" /\ ~timer[s]
  /\ phase[s] = "none" => ~timer[s]
  /\ phase[s] = "pending" => timer[s]
  /\ ~timer[s] /\ ~Busy(s) =>
       kernel[s] = "none" /\ s \notin list /\ wait_tokens[s] = <<>>
  /\ Arming(s, "armed") \/ Arming(s, "request") =>
       /\ kernel[s] \in {"armed", "signalled"}
       /\ s \notin list /\ wait_tokens[s] = <<>>
  /\ Arming(s, "request") \/ Arming(s, "reply") => token[s] = owner[s]
  /\ timer[s] \/ Arming(s, "reply") =>
       /\ kernel[s] \in {"armed", "signalled", "spent"}
       /\ s \in list
       /\ wait_tokens[s] = IF kernel[s] = "spent" THEN <<>> ELSE <<token[s]>>

(* How the clock relates to what was read of it. *)
Clocks(s) ==
  /\ Arming(s, "arming") => exec.cur <= now /\ exec.cur < deadline[s]
  /\ kernel[s] # "none" => expiry[s] >= deadline[s]
  /\ ahead[s] <= Early
  /\ kernel[s] \in {"signalled", "spent"} /\ ahead[s] = 0 => now >= deadline[s]

(* Where the wake of a timer that has fired is. *)
Wakes(s) ==
  /\ Arming(s, "reply") /\ kernel[s] = "spent" => wakes[token[s]] > 0
  /\ /\ phase[s] = "pending" /\ token[s] = owner[s]
     /\ ahead[s] = 0 /\ kernel[s] = "spent"
     => wakes[owner[s]] > 0

(* A task awaits one Sleep at a time, so nobody else consumes its wake. *)
OneEach ==
  \A t \in Tasks : \A x, y \in Sleeps :
    x \in Awaited(t) /\ y \in Awaited(t) => x = y

IInv ==
  /\ TypeOK
  /\ Started
  /\ \A s \in Sleeps : Stages(s) /\ Clocks(s) /\ Wakes(s)
  /\ OneEach

(* All but the threads' start is as before. *)
SameRest ==
  UNCHANGED <<wait_tokens, list, now, expiry, kernel, ahead, phase, deadline,
              timer, token, owner, exec, wakes, moves, spurious>>

(* The start of the runtime touches no Sleep. *)
LEMMA StartFacts ==
  ASSUME StartStep \/ UNCHANGED vars PROVE SameRest
  <1> USE DEF SameRest, handlerVars, timerVars, sleepVars, boundVars
  <1>1. CASE RunThreads
    BY ZenonT(60), <1>1 DEF RunThreads
  <1>2. CASE ArchiveOpened
    BY ZenonT(60), <1>2 DEF ArchiveOpened
  <1>3. CASE ReactorRun
    BY ZenonT(60), <1>3 DEF ReactorRun
  <1> QED
    BY ZenonT(60), <1>1, <1>2, <1>3 DEF StartStep, vars

(* What the three kinds of polls have in common, but for the wakes. *)
Polls(s) ==
  /\ phase[s] \in {"new", "pending"}
  /\ Poll(s)
  /\ TypeOK => wakes' \in [Tasks -> Nat] /\ spurious' \in Nat

(* A poll that is the first one, was woken, or came unasked. *)
LEMMA PollsFacts ==
  ASSUME NEW s \in Sleeps, PollFirst(s) \/ PollWoken(s) \/ PollSpurious(s)
  PROVE  Polls(s)
  BY DEF PollFirst, PollWoken, PollSpurious, Polls, TypeOK

(* A wake count stays a number when a timer's tokens are woken; the task   *)
(* whose token is the only one is woken once.                              *)
LEMMA RegisteredFacts ==
  ASSUME TypeOK, NEW s \in Sleeps, NEW t \in Tasks
  PROVE  /\ Cardinality(Registered(s, t)) \in Nat
         /\ wait_tokens[s] = <<t>> => Cardinality(Registered(s, t)) = 1
  <1>1. wait_tokens[s] \in Seq(Tasks)
    BY ZenonT(60) DEF TypeOK
  <1>2. IsFiniteSet(1..Len(wait_tokens[s]))
    BY <1>1, FS_Interval
  <1>3. IsFiniteSet(Registered(s, t))
    BY <1>1, <1>2, FS_Subset DEF Registered
  <1>4. ASSUME wait_tokens[s] = <<t>>
        PROVE  Registered(s, t) = {1}
    BY <1>4 DEF Registered
  <1> QED
    BY <1>3, <1>4, FS_CardinalityType, FS_Singleton, ZenonT(60)

(* Waking the tokens of a timer takes no wake from any task, and gives one *)
(* to the task whose token is there.                                       *)
LEMMA WakesType ==
  ASSUME TypeOK, NEW s \in Sleeps, HandleTimer(s)
  PROVE  /\ wakes' \in [Tasks -> Nat]
         /\ \A t \in Tasks : wakes[t] > 0 => wakes'[t] > 0
         /\ wait_tokens[s] = <<token[s]>> => wakes'[token[s]] > 0
  <1>1. wakes \in [Tasks -> Nat] /\ token[s] \in Tasks
    BY ZenonT(60) DEF TypeOK
  <1>2. /\ \A t \in Tasks : Cardinality(Registered(s, t)) \in Nat
        /\ wait_tokens[s] = <<token[s]>> =>
             Cardinality(Registered(s, token[s])) = 1
    BY ZenonT(60), <1>1, RegisteredFacts
  <1>3. wakes' = [t \in Tasks |-> wakes[t] + Cardinality(Registered(s, t))]
    BY ZenonT(60) DEF HandleTimer
  <1> QED
    BY <1>1, <1>2, <1>3

(* Every step of the start, the clock, the Sleeps and the reactor keeps    *)
(* the types; that svcSetTimer gets no negative time needs Clocks.         *)
LEMMA TypeStep ==
  TypeOK /\ (\A s \in Sleeps : Clocks(s)) /\ [Next]_vars => TypeOK'
  <1> SUFFICES ASSUME TypeOK, \A s \in Sleeps : Clocks(s), [Next]_vars
               PROVE  TypeOK'
    BY ZenonT(60)
  <1>0. ASSUME NEW s \in Sleeps, HandleTimer(s)
        PROVE  wakes' \in [Tasks -> Nat]
    BY ZenonT(60), <1>0, WakesType
  <1> USE ReactorAssumption
  <1> USE DEF TypeOK, Idle, Arming
  <1> USE DEF startVars, handlerVars, timerVars, sleepVars, boundVars
  <1>1. CASE StartStep
    BY <1>1, ZenonT(60) DEF StartStep, RunThreads, ArchiveOpened, ReactorRun
  <1>2. CASE Tick
    BY <1>2 DEF Tick
  <1>3. ASSUME NEW s \in Sleeps, TimerFires(s) PROVE TypeOK'
    <2>1. now < deadline[s] => deadline[s] - now \in Nat
      OBVIOUS
    <2>2. ahead' \in [Sleeps -> Nat]
      BY ZenonT(60), <1>3, <2>1 DEF TimerFires
    <2> QED
      BY <1>3, <2>2, ZenonT(60) DEF TimerFires
  <1>4. ASSUME NEW s \in Sleeps, AddHandle(s) PROVE TypeOK'
    <2>1. Append(wait_tokens[s], token[s]) \in Seq(Tasks)
      OBVIOUS
    <2>2. wait_tokens' \in [Sleeps -> Seq(Tasks)]
      BY ZenonT(60), <1>4, <2>1 DEF AddHandle
    <2>3. exec' \in [at : {"armed", "request", "reply"}, s : Sleeps]
      BY ZenonT(60), <1>4 DEF AddHandle
    <2> QED
      BY <1>4, <2>2, <2>3, ZenonT(60) DEF AddHandle
  <1>5. ASSUME NEW s \in Sleeps, TimerSignalled(s) PROVE TypeOK'
    <2>1. wakes' \in [Tasks -> Nat]
      BY ZenonT(60), <1>0, <1>5 DEF TimerSignalled
    <2>2. wait_tokens' \in [Sleeps -> Seq(Tasks)]
      BY <1>5 DEF TimerSignalled, HandleTimer
    <2>3. reactor' \in {"none", "spawned", "waiting", "panicked"}
      BY ZenonT(60), <1>5 DEF TimerSignalled, HandleTimer
    <2> QED
      BY ZenonT(60), <1>5, <2>1, <2>2, <2>3 DEF TimerSignalled, HandleTimer
  <1>6. ASSUME NEW s \in Sleeps, SetTimer(s) PROVE TypeOK'
    <2>1. now + (deadline[s] - exec.cur) \in Nat
      BY <1>6 DEF SetTimer, Clocks
    <2>2. expiry' \in [Sleeps -> Nat]
      BY ZenonT(60), <1>6, <2>1 DEF SetTimer
    <2> QED
      BY <1>6, <2>2, ZenonT(60) DEF SetTimer
  <1>7. ASSUME NEW s \in Sleeps, Request(s) PROVE TypeOK'
    BY <1>7, ZenonT(60) DEF Request
  <1>8. ASSUME NEW s \in Sleeps, Reply(s) PROVE TypeOK'
    BY ZenonT(60), <1>8 DEF Reply
  <1>9. ASSUME NEW s \in Sleeps, Polls(s) PROVE TypeOK'
    BY <1>9, ZenonT(60) DEF Polls, Poll
  <1>10. ASSUME NEW s \in Sleeps, NEW d \in 0..MaxDelay, NewSleep(s, d)
        PROVE  TypeOK'
    <2>1. now + d \in Nat
      BY <1>10
    <2>2. deadline' \in [Sleeps -> Nat]
      BY ZenonT(60), <1>10, <2>1 DEF NewSleep
    <2> QED
      BY <1>10, <2>2, ZenonT(60) DEF NewSleep
  <1>11. ASSUME NEW s \in Sleeps, NEW t \in Tasks, Move(s, t) PROVE TypeOK'
    <2>1. /\ owner' \in [Sleeps -> Tasks]
          /\ phase' \in [Sleeps -> {"none", "new", "pending", "ready"}]
      BY ZenonT(60), <1>11 DEF Move
    <2>2. moves' \in Nat
      BY <1>11 DEF Move
    <2> QED
      BY ZenonT(60), <1>11, <2>1, <2>2 DEF Move
  <1>12. ASSUME NEW t \in Tasks, StrayWake(t) PROVE TypeOK'
    BY <1>12 DEF StrayWake
  <1>13. CASE UNCHANGED vars
    BY ZenonT(60), <1>13 DEF vars
  <1> QED
    BY <1>1, <1>2, <1>3, <1>4, <1>5, <1>6, <1>7, <1>8, <1>9, <1>10,
       <1>11, <1>12, <1>13, PollsFacts, ZenonT(60)
    DEF Next, PollStep, ReactorStep

(* The runtime's start, and a timer's stages, keep both unwraps from       *)
(* panicking: the reactor's own thread sets the port, and a timer in the   *)
(* list has its token until it was handled.                                *)
LEMMA StartedStep ==
  TypeOK /\ Started /\ (\A s \in Sleeps : Stages(s)) /\ [Next]_vars => Started'
  <1> SUFFICES ASSUME TypeOK, Started, \A s \in Sleeps : Stages(s), [Next]_vars
               PROVE  Started'
    BY ZenonT(60)
  <1> USE DEF TypeOK, Started, NothingPanics, Idle, Arming
  <1> USE DEF startVars, handlerVars, timerVars, sleepVars, boundVars
  <1>1. CASE StartStep
    BY ZenonT(60), <1>1 DEF StartStep, RunThreads, ArchiveOpened, ReactorRun
  <1>2. CASE Tick
    BY ZenonT(60), <1>2 DEF Tick
  <1>3. ASSUME NEW s \in Sleeps, TimerFires(s) PROVE Started'
    BY ZenonT(60), <1>3 DEF TimerFires
  <1>4. ASSUME NEW s \in Sleeps, AddHandle(s) PROVE Started'
    BY <1>4 DEF AddHandle
  <1>5. ASSUME NEW s \in Sleeps, TimerSignalled(s) PROVE Started'
    <2>1. wait_tokens[s] = <<token[s]>>
      BY <1>5, ZenonT(60) DEF TimerSignalled, Stages, Busy
    <2>2. wait_tokens[s] # <<>>
      BY <2>1
    <2> QED
      BY ZenonT(60), <1>5, <2>2 DEF TimerSignalled, HandleTimer
  <1>6. ASSUME NEW s \in Sleeps, SetTimer(s) PROVE Started'
    BY <1>6 DEF SetTimer
  <1>7. ASSUME NEW s \in Sleeps, Request(s) PROVE Started'
    BY <1>7 DEF Request
  <1>8. ASSUME NEW s \in Sleeps, Reply(s) PROVE Started'
    BY <1>8 DEF Reply
  <1>9. ASSUME NEW s \in Sleeps, Polls(s) PROVE Started'
    BY ZenonT(60), <1>9 DEF Polls, Poll
  <1>10. ASSUME NEW s \in Sleeps, NEW d \in 0..MaxDelay, NewSleep(s, d)
        PROVE  Started'
    BY ZenonT(60), <1>10 DEF NewSleep
  <1>11. ASSUME NEW s \in Sleeps, NEW t \in Tasks, Move(s, t) PROVE Started'
    BY ZenonT(60), <1>11 DEF Move
  <1>12. ASSUME NEW t \in Tasks, StrayWake(t) PROVE Started'
    BY ZenonT(60), <1>12 DEF StrayWake
  <1>13. CASE UNCHANGED vars
    BY ZenonT(60), <1>13 DEF vars
  <1> QED
    BY ZenonT(60), <1>1, <1>2, <1>3, <1>4, <1>5, <1>6, <1>7, <1>8, <1>9, <1>10,
       <1>11, <1>12, <1>13, PollsFacts
    DEF Next, PollStep, ReactorStep

(* Every Sleep's timer goes through its stages in order. *)
LEMMA StagesStep ==
  ASSUME TypeOK, Started, \A s \in Sleeps : Stages(s), [Next]_vars,
         NEW x \in Sleeps
  PROVE  Stages(x)'
  <1> USE DEF TypeOK, Stages, Busy, Idle, Arming
  <1> USE DEF startVars, handlerVars, timerVars, sleepVars, boundVars
  <1>1. CASE StartStep \/ UNCHANGED vars
    BY <1>1, StartFacts DEF SameRest
  <1>2. CASE Tick
    BY ZenonT(60), <1>2 DEF Tick
  <1>3. ASSUME NEW s \in Sleeps, TimerFires(s) PROVE Stages(x)'
    BY <1>3, ZenonT(60) DEF TimerFires
  <1>4. ASSUME NEW s \in Sleeps, AddHandle(s) PROVE Stages(x)'
    <2>1. Append(<<>>, token[s]) = <<token[s]>>
      OBVIOUS
    <2> QED
      BY <1>4, <2>1, ZenonT(60) DEF AddHandle
  <1>5. ASSUME NEW s \in Sleeps, TimerSignalled(s) PROVE Stages(x)'
    BY <1>5 DEF TimerSignalled, HandleTimer
  <1>6. ASSUME NEW s \in Sleeps, SetTimer(s) PROVE Stages(x)'
    BY ZenonT(60), <1>6 DEF SetTimer
  <1>7. ASSUME NEW s \in Sleeps, Request(s) PROVE Stages(x)'
    <2>1. exec' = [at |-> "request", s |-> s]
      BY ZenonT(60), <1>7 DEF Request, Started
    <2> QED
      BY <1>7, <2>1 DEF Request
  <1>8. ASSUME NEW s \in Sleeps, Reply(s) PROVE Stages(x)'
    BY <1>8 DEF Reply
  <1>9. ASSUME NEW s \in Sleeps, Polls(s) PROVE Stages(x)'
    BY <1>9 DEF Polls, Poll
  <1>10. ASSUME NEW s \in Sleeps, NEW d \in 0..MaxDelay, NewSleep(s, d)
        PROVE  Stages(x)'
    BY ZenonT(60), <1>10 DEF NewSleep
  <1>11. ASSUME NEW s \in Sleeps, NEW t \in Tasks, Move(s, t) PROVE Stages(x)'
    BY <1>11 DEF Move
  <1>12. ASSUME NEW t \in Tasks, StrayWake(t) PROVE Stages(x)'
    BY ZenonT(60), <1>12 DEF StrayWake
  <1> QED
    BY <1>1, <1>2, <1>3, <1>4, <1>5, <1>6, <1>7, <1>8, <1>9, <1>10,
       <1>11, <1>12, PollsFacts, ZenonT(60)
    DEF Next, PollStep, ReactorStep

(* The clock only goes on, and a timer is set from a reading of it. *)
LEMMA ClocksStep ==
  ASSUME TypeOK, \A s \in Sleeps : Stages(s) /\ Clocks(s), [Next]_vars,
         NEW x \in Sleeps
  PROVE  Clocks(x)'
  <1> USE ReactorAssumption
  <1> USE DEF TypeOK, Clocks, Idle, Arming
  <1> USE DEF startVars, handlerVars, timerVars, sleepVars, boundVars
  <1>1. CASE StartStep \/ UNCHANGED vars
    BY ZenonT(60), <1>1, StartFacts DEF SameRest
  <1>2. CASE Tick
    BY <1>2 DEF Tick
  <1>3. ASSUME NEW s \in Sleeps, TimerFires(s) PROVE Clocks(x)'
    <2>1. /\ now \in Nat /\ deadline[s] \in Nat /\ expiry[s] \in Nat
          /\ expiry[s] >= deadline[s] /\ now + Early >= expiry[s]
      BY ZenonT(60), <1>3 DEF TimerFires
    <2>2. /\ ahead'[s] <= Early
          /\ ahead'[s] = 0 => now >= deadline[s]
      BY <1>3, <2>1 DEF TimerFires
    <2> QED
      BY <1>3, <2>2, ZenonT(60) DEF TimerFires
  <1>4. ASSUME NEW s \in Sleeps, AddHandle(s) PROVE Clocks(x)'
    BY ZenonT(60), <1>4 DEF AddHandle
  <1>5. ASSUME NEW s \in Sleeps, TimerSignalled(s) PROVE Clocks(x)'
    BY <1>5, ZenonT(60) DEF TimerSignalled, HandleTimer
  <1>6. ASSUME NEW s \in Sleeps, SetTimer(s) PROVE Clocks(x)'
    <2>1. /\ now \in Nat /\ exec.cur \in Nat /\ deadline[s] \in Nat
          /\ exec.cur <= now /\ exec.cur < deadline[s]
      BY <1>6 DEF SetTimer
    <2>2. expiry'[s] >= deadline[s]
      BY <1>6, <2>1 DEF SetTimer
    <2> QED
      BY ZenonT(60), <1>6, <2>2 DEF SetTimer
  <1>7. ASSUME NEW s \in Sleeps, Request(s) PROVE Clocks(x)'
    BY ZenonT(60), <1>7 DEF Request
  <1>8. ASSUME NEW s \in Sleeps, Reply(s) PROVE Clocks(x)'
    BY ZenonT(60), <1>8 DEF Reply
  <1>9. ASSUME NEW s \in Sleeps, Polls(s) PROVE Clocks(x)'
    BY <1>9 DEF Polls, Poll
  <1>10. ASSUME NEW s \in Sleeps, NEW d \in 0..MaxDelay, NewSleep(s, d)
        PROVE  Clocks(x)'
    <2>1. kernel[s] = "none" /\ exec.at = "idle"
      BY ZenonT(60), <1>10 DEF NewSleep, Stages, Busy
    <2> QED
      BY ZenonT(60), <1>10, <2>1 DEF NewSleep
  <1>11. ASSUME NEW s \in Sleeps, NEW t \in Tasks, Move(s, t) PROVE Clocks(x)'
    BY ZenonT(60), <1>11 DEF Move
  <1>12. ASSUME NEW t \in Tasks, StrayWake(t) PROVE Clocks(x)'
    BY ZenonT(60), <1>12 DEF StrayWake
  <1> QED
    BY ZenonT(60), <1>1, <1>2, <1>3, <1>4, <1>5, <1>6, <1>7, <1>8, <1>9, <1>10,
       <1>11, <1>12, PollsFacts
    DEF Next, PollStep, ReactorStep

(* Nobody but the Sleep that is due consumes the wake of its task. *)
LEMMA WakesStep ==
  ASSUME TypeOK, Started, OneEach,
         \A s \in Sleeps : Stages(s) /\ Clocks(s) /\ Wakes(s), [Next]_vars,
         NEW x \in Sleeps
  PROVE  Wakes(x)'
  <1>0. ASSUME NEW s \in Sleeps, HandleTimer(s)
        PROVE  /\ wakes' \in [Tasks -> Nat]
               /\ \A t \in Tasks : wakes[t] > 0 => wakes'[t] > 0
               /\ wait_tokens[s] = <<token[s]>> => wakes'[token[s]] > 0
    BY ZenonT(60), <1>0, WakesType
  <1> USE DEF TypeOK, Wakes, Idle, Arming
  <1> USE DEF startVars, handlerVars, timerVars, sleepVars, boundVars
  <1>1. CASE StartStep \/ UNCHANGED vars
    BY <1>1, StartFacts, ZenonT(60) DEF SameRest
  <1>2. CASE Tick
    BY <1>2, ZenonT(60) DEF Tick
  <1>3. ASSUME NEW s \in Sleeps, TimerFires(s) PROVE Wakes(x)'
    BY <1>3, ZenonT(60) DEF TimerFires
  <1>4. ASSUME NEW s \in Sleeps, AddHandle(s) PROVE Wakes(x)'
    BY <1>4, ZenonT(60) DEF AddHandle, Stages, Busy
  <1>5. ASSUME NEW s \in Sleeps, TimerSignalled(s) PROVE Wakes(x)'
    <2>1. /\ wakes' \in [Tasks -> Nat]
          /\ \A t \in Tasks : wakes[t] > 0 => wakes'[t] > 0
          /\ wait_tokens[s] = <<token[s]>> => wakes'[token[s]] > 0
      BY <1>0, <1>5, ZenonT(60) DEF TimerSignalled
    <2>2. wait_tokens[s] = <<token[s]>>
      BY <1>5, ZenonT(60) DEF TimerSignalled, Stages, Busy
    <2>3. CASE x = s
      <3>1. token[s] \in Tasks /\ token' = token /\ owner' = owner
        BY ZenonT(60), <1>5 DEF TimerSignalled, HandleTimer
      <3>2. wakes'[token[s]] > 0
        BY ZenonT(60), <2>1, <2>2
      <3> QED
        BY ZenonT(60), <2>3, <3>1, <3>2
    <2>4. CASE x # s
      <3>1. /\ kernel'[x] = kernel[x] /\ ahead' = ahead /\ exec' = exec
            /\ phase' = phase /\ token' = token /\ owner' = owner
        BY ZenonT(60), <1>5, <2>4 DEF TimerSignalled, HandleTimer
      <3>2. owner[x] \in Tasks /\ token[x] \in Tasks
        BY ZenonT(60)
      <3>3. /\ wakes[owner[x]] > 0 => wakes'[owner[x]] > 0
            /\ wakes[token[x]] > 0 => wakes'[token[x]] > 0
        BY <2>1, <3>2, ZenonT(60)
      <3> QED
        BY ZenonT(60), <3>1, <3>3
    <2> QED
      BY ZenonT(60), <2>3, <2>4
  <1>6. ASSUME NEW s \in Sleeps, SetTimer(s) PROVE Wakes(x)'
    BY ZenonT(60), <1>6 DEF SetTimer
  <1>7. ASSUME NEW s \in Sleeps, Request(s) PROVE Wakes(x)'
    BY <1>7 DEF Request, Stages, Busy
  <1>8. ASSUME NEW s \in Sleeps, Reply(s) PROVE Wakes(x)'
    BY <1>8, ZenonT(60) DEF Reply
  <1>9. ASSUME NEW s \in Sleeps, PollFirst(s) PROVE Wakes(x)'
    <2>1. CASE x = s
      BY ZenonT(60), <1>9, <2>1 DEF PollFirst, Poll, Clocks
    <2>2. CASE x # s
      BY ZenonT(60), <1>9, <2>2 DEF PollFirst, Poll
    <2> QED
      BY <2>1, <2>2
  <1>10. ASSUME NEW s \in Sleeps, PollWoken(s) PROVE Wakes(x)'
    <2>1. CASE x = s
      BY ZenonT(60), <1>10, <2>1 DEF PollWoken, Poll, Clocks
    <2>2. CASE x # s
      <3>1. phase[x] = "pending" => owner[x] # owner[s]
        BY ZenonT(60), <1>10, <2>2 DEF PollWoken, OneEach, Awaited
      <3> QED
        BY ZenonT(60), <1>10, <2>2, <3>1 DEF PollWoken, Poll
    <2> QED
      BY <2>1, <2>2
  <1>11. ASSUME NEW s \in Sleeps, PollSpurious(s) PROVE Wakes(x)'
    <2>1. CASE x = s
      BY ZenonT(60), <1>11, <2>1 DEF PollSpurious, Poll, Clocks
    <2>2. CASE x # s
      BY <1>11, <2>2, ZenonT(60) DEF PollSpurious, Poll
    <2> QED
      BY <2>1, <2>2
  <1>12. ASSUME NEW s \in Sleeps, NEW d \in 0..MaxDelay, NewSleep(s, d)
        PROVE  Wakes(x)'
    BY <1>12, ZenonT(60) DEF NewSleep
  <1>13. ASSUME NEW s \in Sleeps, NEW t \in Tasks, Move(s, t) PROVE Wakes(x)'
    BY ZenonT(60), <1>13 DEF Move
  <1>14. ASSUME NEW t \in Tasks, StrayWake(t) PROVE Wakes(x)'
    <2>1. phase[x] = "pending" => owner[x] # t
      BY ZenonT(60), <1>14 DEF StrayWake, Awaited
    <2> QED
      BY ZenonT(60), <1>14, <2>1 DEF StrayWake
  <1> QED
    BY ZenonT(60), <1>1, <1>2, <1>3, <1>4, <1>5, <1>6, <1>7, <1>8, <1>9, <1>10,
       <1>11, <1>12, <1>13, <1>14
    DEF Next, PollStep, ReactorStep

(* sleep() and a move give a task a Sleep only when it awaits none. *)
LEMMA OneEachStep ==
  ASSUME TypeOK, OneEach, \A s \in Sleeps : Stages(s), [Next]_vars
  PROVE  OneEach'
  <1>1. ASSUME /\ \A x \in Sleeps :
                    phase'[x] \in {"new", "pending"}
                      => phase[x] \in {"new", "pending"}
               /\ owner' = owner
        PROVE  OneEach'
    BY ZenonT(60), <1>1 DEF OneEach, Awaited
  <1>2. ASSUME NEW s \in Sleeps, NEW t \in Tasks,
               Awaited(t) = {}, owner'[s] = t,
               \A x \in Sleeps \ {s} :
                 phase'[x] = phase[x] /\ owner'[x] = owner[x]
        PROVE  OneEach'
    <2>1. \A x \in Sleeps :
            phase[x] \in {"new", "pending"} => owner[x] # t
      BY ZenonT(60), <1>2 DEF Awaited
    <2> QED
      BY <1>2, <2>1 DEF OneEach, Awaited
  <1>3. ASSUME NEW s \in Sleeps, NEW d \in 0..MaxDelay, NewSleep(s, d)
        PROVE  OneEach'
    <2>1. /\ Awaited(owner[s]) = {} /\ owner[s] \in Tasks /\ owner' = owner
          /\ \A x \in Sleeps \ {s} : phase'[x] = phase[x]
      BY ZenonT(60), <1>3 DEF NewSleep, TypeOK
    <2> QED
      BY ZenonT(60), <1>2, <2>1
  <1>4. ASSUME NEW s \in Sleeps, NEW t \in Tasks, Move(s, t) PROVE OneEach'
    <2>1. /\ Awaited(t) = {} /\ owner'[s] = t
          /\ \A x \in Sleeps \ {s} :
               phase'[x] = phase[x] /\ owner'[x] = owner[x]
      BY ZenonT(60), <1>4 DEF Move, TypeOK
    <2> QED
      BY ZenonT(60), <1>2, <2>1
  <1>5. ASSUME NEW s \in Sleeps, Polls(s) PROVE OneEach'
    <2>1. /\ phase[s] \in {"new", "pending"} /\ owner' = owner
          /\ \A x \in Sleeps \ {s} : phase'[x] = phase[x]
      BY ZenonT(60), <1>5 DEF Polls, Poll, TypeOK
    <2> QED
      BY ZenonT(60), <1>1, <2>1
  <1>6. ASSUME NEW s \in Sleeps, Reply(s) PROVE OneEach'
    <2>1. /\ phase[s] = "new" /\ owner' = owner
          /\ \A x \in Sleeps \ {s} : phase'[x] = phase[x]
      BY <1>6 DEF Reply, Stages, Busy, Arming, TypeOK
    <2> QED
      BY ZenonT(60), <1>1, <2>1
  <1>7. CASE phase' = phase /\ owner' = owner
    BY ZenonT(60), <1>1, <1>7
  <1>8. ASSUME NEW s \in Sleeps,
               \/ TimerFires(s) \/ AddHandle(s) \/ TimerSignalled(s)
               \/ SetTimer(s) \/ Request(s)
        PROVE  phase' = phase /\ owner' = owner
    BY ZenonT(60), <1>8
    DEF TimerFires, AddHandle, TimerSignalled, HandleTimer, SetTimer,
        Request, sleepVars
  <1>9. ASSUME \/ StartStep \/ Tick \/ UNCHANGED vars
               \/ \E t \in Tasks : StrayWake(t)
        PROVE  phase' = phase /\ owner' = owner
    BY ZenonT(60), <1>9
    DEF StartStep, RunThreads, ArchiveOpened, ReactorRun, Tick,
                StrayWake, vars, sleepVars
  <1> QED
    BY ZenonT(60), <1>3, <1>4, <1>5, <1>6, <1>7, <1>8, <1>9, PollsFacts
    DEF Next, PollStep, ReactorStep

(* IInv holds before the runtime is started. *)
LEMMA InitIInv == Init => IInv
  <1> SUFFICES ASSUME Init PROVE IInv
    BY ZenonT(60)
  <1> USE ReactorAssumption DEF Init, Idle
  <1>1. TypeOK
    <2>1. port \in BOOLEAN /\ timer \in [Sleeps -> BOOLEAN]
      BY ZenonT(60)
    <2>2. wait_tokens \in [Sleeps -> Seq(Tasks)]
      OBVIOUS
    <2>3. token \in [Sleeps -> Tasks] /\ owner \in [Sleeps -> Tasks]
      BY ZenonT(60)
    <2> QED
      BY ZenonT(60), <2>1, <2>2, <2>3 DEF TypeOK
  <1>2. Started
    BY ZenonT(60) DEF Started, NothingPanics
  <1>3. \A s \in Sleeps : Stages(s) /\ Clocks(s) /\ Wakes(s)
    BY DEF Stages, Clocks, Wakes, Busy, Arming
  <1>4. OneEach
    BY ZenonT(60) DEF OneEach, Awaited
  <1> QED
    BY ZenonT(60), <1>1, <1>2, <1>3, <1>4 DEF IInv

(* IInv is inductive. *)
LEMMA Inductive == Spec => []IInv
  <1>1. IInv /\ [Next]_vars => IInv'
    BY ZenonT(60), TypeStep, StartedStep, StagesStep, ClocksStep, WakesStep,
       OneEachStep
    DEF IInv
  <1> QED
    BY <1>1, InitIInv, PTL DEF Spec

(* Type correctness. *)
THEOREM ReactorTypeCorrect == Spec => []TypeOK
  BY Inductive, PTL DEF IInv

(* The unwraps of REACTOR_PORT.get() in Sleep::poll and of                 *)
(* wait_tokens.remove() in the reactor never meet a None.                  *)
THEOREM ReactorNeverPanics == Spec => []NothingPanics
  <1>1. IInv => NothingPanics
    BY ZenonT(60) DEF IInv, Started
  <1> QED
    BY <1>1, Inductive, PTL

(* However long it takes from Instant::now to svcSetTimer, a timer is due  *)
(* no earlier than its Sleep's deadline.                                   *)
THEOREM TimersAreDueInTime == Spec => []DueAtDeadline
  <1>1. IInv => DueAtDeadline
    BY ZenonT(60) DEF IInv, Clocks, DueAtDeadline
  <1> QED
    BY <1>1, Inductive, PTL

(* A pending Sleep has its wake coming. *)
THEOREM ReactorLosesNoWake == Spec => []NoLostWake
  <1>1. IInv => NoLostWake
    BY ZenonT(60) DEF IInv, Stages, Wakes, NoLostWake, TypeOK
  <1> QED
    BY <1>1, Inductive, PTL
=============================================================================
