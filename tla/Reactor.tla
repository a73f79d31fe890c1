------------------------------ MODULE Reactor ------------------------------
(***************************************************************************)
(* The reactor thread and the Sleep future (src/reactor.rs), and the start *)
(* of the runtime as far as they depend on it (src/lib.rs, src/fs/mod.rs). *)
(*                                                                         *)
(* A Sleep reads the clock, sets a one-shot kernel timer and hands it to   *)
(* the reactor with the token of the task that polled it; the reactor      *)
(* waits for the timer and wakes that task.  Every Sleep creates at most   *)
(* one timer, so the timer of Sleep s is called s here too.  The timer     *)
(* runs on the kernel's clock and the deadline on Instant's; a timer may   *)
(* be up to Early ticks ahead.                                             *)
(*                                                                         *)
(* A wake of a task is a count: what the executor does with it is the      *)
(* subject of Executor and Waker.                                          *)
(***************************************************************************)
EXTENDS Naturals, Sequences, FiniteSets

CONSTANTS Sleeps,       \* the Sleep futures
          Tasks,        \* the tasks that await them
          Early,        \* by how much a timer may be ahead of Instant
          MaxDelay,     \* bound: the longest duration given to sleep()
          MaxLag,       \* bound: ticks between Instant::now and svcSetTimer
          MaxTime,      \* bound: the last instant
          MaxMoves,     \* bound: how often a Sleep changes its task
          MaxSpurious   \* bound: polls that no wake asked for

ASSUME ReactorAssumption ==
  /\ Early \in Nat /\ MaxDelay \in Nat /\ MaxLag \in Nat /\ MaxTime \in Nat
  /\ MaxMoves \in Nat /\ MaxSpurious \in Nat

VARIABLES main,         \* the thread that starts the runtime
          reactor,      \* the reactor's thread
          port,         \* REACTOR_PORT is set
          wait_tokens,  \* ReactorHandler.wait_tokens; <<>> is no entry
          list,         \* the handles the server waits for
          now,          \* Instant::now()
          expiry,       \* when the kernel's timer is due
          kernel,       \* state of the kernel's timer
          ahead,        \* history: how long before the deadline it fired
          phase,        \* where each Sleep is
          deadline,     \* Sleep.deadline
          timer,        \* Sleep.timer is Some
          token,        \* history: the token given to the reactor
          owner,        \* the task that awaits the Sleep
          exec,         \* the executor's thread, at most inside one poll
          wakes,        \* wakes of each task in WAKE_QUEUE
          moves, spurious

startVars == <<main, reactor, port>>
handlerVars == <<wait_tokens, list>>
timerVars == <<expiry, kernel, ahead>>
sleepVars == <<phase, deadline, timer, token, owner>>
boundVars == <<moves, spurious>>
vars == <<startVars, handlerVars, now, timerVars, sleepVars, exec, wakes,
          boundVars>>

Idle == [at |-> "idle"]
Awaited(t) == {s \in Sleeps : phase[s] \in {"new", "pending"} /\ owner[s] = t}

Init ==
  /\ main = "new"
  /\ reactor = "none"
  /\ port = FALSE
  /\ wait_tokens = [s \in Sleeps |-> <<>>]
  /\ list = {}
  /\ now = 0
  /\ expiry = [s \in Sleeps |-> 0]
  /\ kernel = [s \in Sleeps |-> "none"]
  /\ ahead = [s \in Sleeps |-> 0]
  /\ phase = [s \in Sleeps |-> "none"]
  /\ deadline = [s \in Sleeps |-> 0]
  /\ timer = [s \in Sleeps |-> FALSE]
  /\ owner \in [Sleeps -> Tasks]
  /\ token = owner
  /\ exec = Idle
  /\ wakes = [t \in Tasks |-> 0]
  /\ moves = 0
  /\ spurious = 0
-----------------------------------------------------------------------------
(* The start of the runtime.                                               *)

(* RuntimeConfiguration::run spawns the executor's and the reactor's       *)
(* thread, then init_sdmc spawns the pool and asks for the SD card's       *)
(* archive, a request that gives up the processor.                         *)
RunThreads ==
  /\ main = "new"
  /\ main' = "opening"
  /\ reactor' = "spawned"
  /\ UNCHANGED <<port, handlerVars, now, timerVars, sleepVars, exec, wakes,
                 boundVars>>

(* A faulty start that does not wait for a reply. *)
ReturnAtOnce ==
  /\ main = "opening"
  /\ main' = "running"
  /\ UNCHANGED <<reactor, port, handlerVars, now, timerVars, sleepVars, exec,
                 wakes, boundVars>>

(* The reply is there and run() returns; block_on starts the first task.   *)
(* Threads of equal priority take turns: the reactor's thread, ready when  *)
(* main gave up the processor, ran before main goes on.                    *)
ArchiveOpened ==
  /\ main = "opening"
  /\ reactor # "spawned"
  /\ main' = "running"
  /\ UNCHANGED <<reactor, port, handlerVars, now, timerVars, sleepVars, exec,
                 wakes, boundVars>>

(* Reactor::run: REACTOR_PORT is set, then the server waits. *)
ReactorRun ==
  /\ reactor = "spawned"
  /\ reactor' = "waiting"
  /\ port' = TRUE
  /\ UNCHANGED <<main, handlerVars, now, timerVars, sleepVars, exec, wakes,
                 boundVars>>
-----------------------------------------------------------------------------
(* The clock and the kernel's timers.                                      *)

Tick ==
  /\ main = "running"
  /\ now < MaxTime
  /\ exec.at = "arming" => now < exec.cur + MaxLag
  /\ now' = now + 1
  /\ UNCHANGED <<startVars, handlerVars, timerVars, sleepVars, exec, wakes,
                 boundVars>>

TimerFires(s) ==
  /\ kernel[s] = "armed"
  /\ now + Early >= expiry[s]
  /\ kernel' = [kernel EXCEPT ![s] = "signalled"]
  /\ ahead' = [ahead EXCEPT
                 ![s] = IF now < deadline[s] THEN deadline[s] - now ELSE 0]
  /\ UNCHANGED <<startVars, handlerVars, now, expiry, sleepVars, exec, wakes,
                 boundVars>>
-----------------------------------------------------------------------------
(* Sleep, on the executor's thread.                                        *)

(* sleep(d) *)
NewSleep(s, d) ==
  /\ main = "running"
  /\ exec = Idle
  /\ phase[s] = "none"
  /\ Awaited(owner[s]) = {}
  /\ now + d + MaxLag <= MaxTime
  /\ deadline' = [deadline EXCEPT ![s] = now + d]
  /\ phase' = [phase EXCEPT ![s] = "new"]
  /\ UNCHANGED <<startVars, handlerVars, now, timerVars, timer, token, owner,
                 exec, wakes, boundVars>>

(* poll() up to its branches: Ready, go on to the timer, or Pending. *)
Poll(s) ==
  /\ exec = Idle
  /\ phase' = [phase EXCEPT ![s] = IF now >= deadline[s] THEN "ready"
                                   ELSE IF timer[s] THEN "pending" ELSE @]
  /\ exec' = IF now < deadline[s] /\ ~timer[s]
             THEN [at |-> "arming", s |-> s, cur |-> now]
             ELSE Idle
  /\ UNCHANGED <<startVars, handlerVars, now, timerVars, deadline, timer,
                 token, owner, moves>>

PollFirst(s) ==
  /\ phase[s] = "new"
  /\ Poll(s)
  /\ UNCHANGED <<wakes, spurious>>

PollWoken(s) ==
  /\ phase[s] = "pending"
  /\ wakes[owner[s]] > 0
  /\ wakes' = [wakes EXCEPT ![owner[s]] = @ - 1]
  /\ Poll(s)
  /\ UNCHANGED spurious

PollSpurious(s) ==
  /\ phase[s] = "pending"
  /\ spurious < MaxSpurious
  /\ spurious' = spurious + 1
  /\ Poll(s)
  /\ UNCHANGED wakes

Arming(s, at) == exec.at = at /\ exec.s = s

(* A faulty poll() that takes the time left in whole units of two ticks.   *)
SetTimerRounded(s) ==
  /\ Arming(s, "arming")
  /\ expiry' = [expiry EXCEPT
                  ![s] = now + 2 * ((deadline[s] - exec.cur) \div 2)]
  /\ kernel' = [kernel EXCEPT ![s] = "armed"]
  /\ exec' = [at |-> "armed", s |-> s]
  /\ UNCHANGED <<startVars, handlerVars, now, ahead, sleepVars, wakes,
                 boundVars>>

(* svcCreateTimer and svcSetTimer, with what was left when poll() began. *)
SetTimer(s) ==
  /\ Arming(s, "arming")
  /\ expiry' = [expiry EXCEPT ![s] = now + (deadline[s] - exec.cur)]
  /\ kernel' = [kernel EXCEPT ![s] = "armed"]
  /\ exec' = [at |-> "armed", s |-> s]
  /\ UNCHANGED <<startVars, handlerVars, now, ahead, sleepVars, wakes,
                 boundVars>>

(* REACTOR_PORT.get().unwrap(), a session, and the request AddHandle. *)
Request(s) ==
  /\ Arming(s, "armed")
  /\ exec' = IF port THEN [at |-> "request", s |-> s] ELSE [at |-> "panicked"]
  /\ token' = [token EXCEPT ![s] = owner[s]]
  /\ UNCHANGED <<startVars, handlerVars, now, timerVars, phase, deadline,
                 timer, owner, wakes, boundVars>>

(* The reply is there: self.timer = Some(timer), Pending. *)
Reply(s) ==
  /\ Arming(s, "reply")
  /\ exec' = Idle
  /\ timer' = [timer EXCEPT ![s] = TRUE]
  /\ phase' = [phase EXCEPT ![s] = "pending"]
  /\ UNCHANGED <<startVars, handlerVars, now, timerVars, deadline, token,
                 owner, wakes, boundVars>>

(* A Sleep is handed to another task, which will poll it. *)
Move(s, t) ==
  /\ exec = Idle
  /\ phase[s] \in {"new", "pending"}
  /\ Awaited(t) = {}
  /\ moves < MaxMoves
  /\ moves' = moves + 1
  /\ owner' = [owner EXCEPT ![s] = t]
  /\ phase' = [phase EXCEPT ![s] = "new"]
  /\ UNCHANGED <<startVars, handlerVars, now, timerVars, deadline, timer,
                 token, exec, wakes, spurious>>

(* A wake of a task that awaits no Sleep (any more). *)
StrayWake(t) ==
  /\ exec = Idle
  /\ Awaited(t) = {}
  /\ wakes[t] > 0
  /\ wakes' = [wakes EXCEPT ![t] = @ - 1]
  /\ UNCHANGED <<startVars, handlerVars, now, timerVars, sleepVars, exec,
                 boundVars>>
-----------------------------------------------------------------------------
(* The reactor's thread: one request or one signalled handle at a time.    *)

(* A faulty AddHandle that enters the token and waits for nothing. *)
AddTokenOnly(s) ==
  /\ reactor = "waiting"
  /\ Arming(s, "request")
  /\ wait_tokens' = [wait_tokens EXCEPT ![s] = Append(@, token[s])]
  /\ exec' = [at |-> "reply", s |-> s]
  /\ UNCHANGED <<startVars, list, now, timerVars, sleepVars, wakes,
                 boundVars>>

(* handle_request(AddHandle(token, handle)) and the reply. *)
AddHandle(s) ==
  /\ reactor = "waiting"
  /\ Arming(s, "request")
  /\ wait_tokens' = [wait_tokens EXCEPT ![s] = Append(@, token[s])]
  /\ list' = list \cup {s}
  /\ exec' = [at |-> "reply", s |-> s]
  /\ UNCHANGED <<startVars, now, timerVars, sleepVars, wakes, boundVars>>

Registered(s, t) == {k \in DOMAIN wait_tokens[s] : wait_tokens[s][k] = t}

(* What handle_additional_oshandle does once the timer was waited for:     *)
(* wait_tokens.remove(&handle).unwrap(), and WAKE_QUEUE.add for each.      *)
HandleTimer(s) ==
  /\ reactor' = IF wait_tokens[s] = <<>> THEN "panicked" ELSE reactor
  /\ wakes' = [t \in Tasks |-> wakes[t] + Cardinality(Registered(s, t))]
  /\ wait_tokens' = [wait_tokens EXCEPT ![s] = <<>>]
  /\ UNCHANGED <<main, port, list, now, expiry, ahead, sleepVars, exec,
                 boundVars>>

(* The server's wait returns with the timer's handle; RESET_ONESHOT makes  *)
(* the kernel reset it.                                                    *)
TimerSignalled(s) ==
  /\ reactor = "waiting"
  /\ s \in list
  /\ kernel[s] = "signalled"
  /\ kernel' = [kernel EXCEPT ![s] = "spent"]
  /\ HandleTimer(s)
-----------------------------------------------------------------------------
StartStep == RunThreads \/ ArchiveOpened \/ ReactorRun

PollStep(s) ==
  PollFirst(s) \/ PollWoken(s) \/ SetTimer(s) \/ Request(s) \/ Reply(s)

ReactorStep(s) == AddHandle(s) \/ TimerSignalled(s)

Next ==
  \/ StartStep
  \/ Tick
  \/ \E s \in Sleeps :
       \/ TimerFires(s) \/ ReactorStep(s) \/ PollStep(s) \/ PollSpurious(s)
       \/ \E d \in 0..MaxDelay : NewSleep(s, d)
       \/ \E t \in Tasks : Move(s, t)
  \/ \E t \in Tasks : StrayWake(t)

Spec == Init /\ [][Next]_vars

(* Time passes, timers fire, and the two threads run when they can. *)
Fairness ==
  /\ WF_vars(Tick)
  /\ \A s \in Sleeps : /\ WF_vars(TimerFires(s))
                       /\ WF_vars(ReactorStep(s))
                       /\ WF_vars(PollStep(s))

FairSpec == Spec /\ Fairness
-----------------------------------------------------------------------------
(* Type invariant. *)
TypeOK ==
  /\ main \in {"new", "opening", "running"}
  /\ reactor \in {"none", "spawned", "waiting", "panicked"}
  /\ port \in BOOLEAN
  /\ wait_tokens \in [Sleeps -> Seq(Tasks)]
  /\ list \subseteq Sleeps
  /\ now \in Nat
  /\ expiry \in [Sleeps -> Nat]
  /\ kernel \in [Sleeps -> {"none", "armed", "signalled", "spent"}]
  /\ ahead \in [Sleeps -> Nat]
  /\ phase \in [Sleeps -> {"none", "new", "pending", "ready"}]
  /\ deadline \in [Sleeps -> Nat]
  /\ timer \in [Sleeps -> BOOLEAN]
  /\ token \in [Sleeps -> Tasks]
  /\ owner \in [Sleeps -> Tasks]
  /\ exec \in {Idle, [at |-> "panicked"]}
       \cup [at : {"arming"}, s : Sleeps, cur : Nat]
       \cup [at : {"armed", "request", "reply"}, s : Sleeps]
  /\ wakes \in [Tasks -> Nat]
  /\ moves \in Nat /\ spurious \in Nat

(* None of the two unwraps on this path meets a None: REACTOR_PORT is set  *)
(* by the reactor's own thread before any task can poll a Sleep, and a     *)
(* handle the server waits for has its entry in wait_tokens whenever it    *)
(* is signalled.                                                           *)
NothingPanics == exec.at # "panicked" /\ reactor # "panicked"

(* Although the clock goes on between Instant::now and svcSetTimer, no     *)
(* timer is due before its Sleep's deadline; it can wake the Sleep too     *)
(* early only by running ahead of Instant, and then by at most Early.      *)
DueAtDeadline ==
  \A s \in Sleeps : /\ kernel[s] # "none" => expiry[s] >= deadline[s]
                    /\ ahead[s] <= Early

(* A Sleep that is pending in the task whose token the reactor has will be *)
(* woken: its timer is running, or is signalled and in the reactor's list  *)
(* with that token, or the wake is in WAKE_QUEUE - unless its timer fired  *)
(* early, for Sleep never sets a second one.                               *)
NoLostWake ==
  \A s \in Sleeps :
    (phase[s] = "pending" /\ token[s] = owner[s] /\ ahead[s] = 0) =>
      \/ kernel[s] \in {"armed", "signalled"} /\ s \in list
                                              /\ wait_tokens[s] = <<owner[s]>>
      \/ wakes[owner[s]] > 0

(* A Sleep that was polled ends, unless its timer fired early or it was    *)
(* handed to another task than the one that polled it first.               *)
SleepEnds ==
  \A s \in Sleeps :
    (phase[s] = "new")
      ~> \/ phase[s] = "ready" \/ ahead[s] > 0
         \/ timer[s] /\ token[s] # owner[s]
=============================================================================
