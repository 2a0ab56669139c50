----------------------------- MODULE MiningJobs -----------------------------
(***************************************************************************)
(* electron/mining-module-manager.cjs: the supervisor of mining jobs, with *)
(* the quit guard of electron/main.cjs.                                    *)
(*                                                                         *)
(* A call of startJob makes a state object for its job and enters it under *)
(* the job's id in `running'.  From then on four kinds of threads work on  *)
(* the object: the start call, evaluations of the runtime guard begun by   *)
(* two timers, calls of stopJob, and the exit handlers of its miners.      *)
(* Each await is a point where they interleave.                            *)
(*                                                                         *)
(* The miner, its launcher and its stop() belong to the mining module,     *)
(* which is not in this repository: a miner may exit at any time, exits    *)
(* after it was told to unless stop() rejects, and outlives the wallet.    *)
(***************************************************************************)
EXTENDS Naturals, FiniteSets

CONSTANTS
    Jobs,           \* job identifiers
    Probed,         \* jobs whose start waits for work from the pool
    Guarded,        \* jobs that pause on battery or until the system is idle
    Restarting,     \* jobs with restartAfterCrash
    Unremovable,    \* where clearJobRuntime may fail: after an "exit", at a "stop"
    RestartLimit,   \* restarts within 15 minutes before a job is given up
    States,         \* bound: state objects in use at a time
    Miners,         \* bound: miner processes in use at a time
    Onwards,        \* bound: is the system followed after a step was overtaken?
    Nobody          \* no job, no state object, no process

ASSUME JobConstants ==
    /\ Probed \cup Guarded \cup Restarting \subseteq Jobs
    /\ Unremovable \subseteq {"exit", "stop"}
    /\ RestartLimit \in Nat
    /\ Onwards \in BOOLEAN
    /\ Nobody \notin Jobs \cup States \cup Miners

VARIABLES
    running,    \* the map from job to state object
    st,         \* the state objects, with the calls that work on them
    os,         \* what the operating system knows of each miner
    owner,      \* the state object a miner was launched for
    handler,    \* how far handleJobExit has got for a miner
    away,       \* runtimeGuardReason gives a reason to pause guarded jobs
    quit,       \* the quit of the app
    allowQuit,  \* allowQuitAfterMining
    overtaken   \* history: a step overtook another one; see below

vars == << running, st, os, owner, handler, away, quit, allowQuit, overtaken >>

Timers == {"start", "guard", "restart"}
Stoppers == {"user", "cleanup", "all"}
OrNobody(S) == S \cup {Nobody}

\* A thread is at an await, and may hold the process it waits for.
Idle == [at |-> "idle", p |-> Nobody]
Evaluation == [at : {"idle", "launch", "announce", "log", "stop", "fail"},
               p : OrNobody(Miners)]
Stopping == [at : {"idle", "told", "exit", "close"}, p : OrNobody(Miners)]

StateObject ==
    [job : OrNobody(Jobs), proc : OrNobody(Miners), exit : OrNobody(Miners),
     stopping : BOOLEAN, pausing : BOOLEAN, awaiting : BOOLEAN,
     uncleaned : BOOLEAN,   \* history: an exit handler could not clear the runtime
     probe : {"none", "waiting", "ready", "failed"},
     guard : BOOLEAN, restart : BOOLEAN, crashes : 0 .. RestartLimit,
     start : {"none", "checking", "launching", "probing", "cleanup", "ended"},
     eval : [Timers -> Evaluation], stop : [Stoppers -> Stopping]]

Blank ==
    [job |-> Nobody, proc |-> Nobody, exit |-> Nobody,
     stopping |-> FALSE, pausing |-> FALSE, awaiting |-> FALSE,
     uncleaned |-> FALSE, probe |-> "none",
     guard |-> FALSE, restart |-> FALSE, crashes |-> 0, start |-> "none",
     eval |-> [t \in Timers |-> Idle], stop |-> [b \in Stoppers |-> Idle]]

TypeOK ==
    /\ running \in [Jobs -> OrNobody(States)]
    /\ st \in [States -> StateObject]
    /\ os \in [Miners -> {"unborn", "alive", "told", "dead"}]
    /\ owner \in [Miners -> OrNobody(States)]
    /\ handler \in [Miners -> {"none", "flushing", "settled", "done"}]
    /\ quit \in {"no", "waiting", "failing", "exited"}
    /\ {away, allowQuit, overtaken} \subseteq BOOLEAN

Init ==
    /\ running = [j \in Jobs |-> Nobody]
    /\ st = [s \in States |-> Blank]
    /\ os = [p \in Miners |-> "unborn"]
    /\ owner = [p \in Miners |-> Nobody]
    /\ handler = [p \in Miners |-> "none"]
    /\ away \in BOOLEAN
    /\ quit = "no" /\ allowQuit = FALSE
    /\ overtaken = FALSE

-----------------------------------------------------------------------------
Entered(s) == st[s].job # Nobody /\ running[st[s].job] = s
Lives(p) == os[p] \in {"alive", "told"}
Launching(s) == \E t \in Timers : st[s].eval[t].at = "launch"
Evaluates(s) == \E t \in Timers : st[s].eval[t] # Idle

\* The wallet process is there.
Up == quit # "exited"

\* Five ways in which one step overtakes another that does not look again:
\*   a start enters its state object over another one of the job,
\*   a start enters it while the app quits,
\*   a stop begins while a launch is under way, whose miner it cannot see,
\*   a launch begins while another one for the same job is under way,
\*   an entry is removed that is another's, or whose miner is still there.
Overtakes(condition) == overtaken' = (overtaken \/ condition)

\* running.delete: by identifier, whoever is entered under it.
Removed(s) == running' = [running EXCEPT ![st[s].job] = Nobody]
RemovesAnother(s) ==
    LET entry == running[st[s].job]
    IN  entry # Nobody /\ (entry # s \/ st[s].proc # Nobody \/ Launching(s))

runtimeGuardReason(j) == away /\ j \in Guarded
SettlesProbe(state, verdict) ==
    [state EXCEPT !.probe = IF state.awaiting /\ @ = "waiting" THEN verdict ELSE @]
-----------------------------------------------------------------------------
(* Starting a job.                                                          *)

\* startJob, up to its checks of the job, the hardware and the miner's files.
StartJob(s, j) ==
    /\ Up /\ st[s] = Blank /\ running[j] = Nobody
    /\ st' = [st EXCEPT ![s].job = j, ![s].start = "checking"]
    /\ UNCHANGED << running, os, owner, handler, away, quit, allowQuit, overtaken >>

ChecksFail(s) ==
    /\ Up /\ st[s].start = "checking"
    /\ st' = [st EXCEPT ![s].start = "ended"]
    /\ UNCHANGED << running, os, owner, handler, away, quit, allowQuit, overtaken >>

\* The state object is entered, and the guard evaluated at once.
Register(s) ==
    LET j == st[s].job
    IN  /\ Up /\ st[s].start = "checking"
        /\ running' = [running EXCEPT ![j] = s]
        /\ st' = [st EXCEPT ![s] =
              IF runtimeGuardReason(j)
              THEN [@ EXCEPT !.guard = TRUE, !.start = "ended"]
              ELSE [@ EXCEPT !.awaiting = j \in Probed, !.start = "launching",
                             !.eval["start"].at = "launch"]]
        /\ Overtakes(running[j] # Nobody \/ quit # "no" \/ allowQuit)
        /\ UNCHANGED << os, owner, handler, away, quit, allowQuit >>

\* Mutant of StopBegins: the exit is awaited before the miner is told.
ExitAwaitedFirst(state, by) ==
    [SettlesProbe(state, "failed") EXCEPT
        !.stopping = TRUE, !.guard = FALSE, !.restart = FALSE,
        !.stop[by] = IF state.exit # Nobody THEN [at |-> "exit", p |-> state.exit]
                     ELSE [at |-> "close", p |-> Nobody]]

\* stopJob up to its first await.
StopBegins(state, by) ==
    [SettlesProbe(state, "failed") EXCEPT
        !.stopping = TRUE, !.guard = FALSE, !.restart = FALSE,
        !.stop[by] = IF state.proc # Nobody THEN [at |-> "told", p |-> state.proc]
                     ELSE IF state.exit # Nobody THEN [at |-> "exit", p |-> state.exit]
                     ELSE [at |-> "close", p |-> Nobody]]

Tells(p) == [os EXCEPT ![p] = IF @ = "alive" THEN "told" ELSE @]

\* startJob fails after the state object was entered: it stops what it has
\* started, if that is still entered.
StartThrows(s, state) ==
    LET quiet == [state EXCEPT !.awaiting = FALSE, !.eval["start"] = Idle]
    IN  IF Entered(s)
        THEN /\ st' = [st EXCEPT ![s] = [StopBegins(quiet, "cleanup") EXCEPT !.start = "cleanup"]]
             /\ os' = IF state.proc # Nobody THEN Tells(state.proc) ELSE os
             /\ Overtakes(\E t \in Timers \ {"start"} : state.eval[t].at = "launch")
        ELSE /\ st' = [st EXCEPT ![s] = [quiet EXCEPT !.start = "ended"]]
             /\ UNCHANGED << os, overtaken >>

\* The start call awaits the probe; it settles with work from the pool, with
\* the miner's exit, with a stop, or when its timer runs out.
ProbeEnds(s) ==
    /\ Up /\ st[s].start = "probing"
    /\ \/ /\ st[s].probe = "ready"
          /\ st' = [st EXCEPT ![s].awaiting = FALSE, ![s].start = "ended"]
          /\ UNCHANGED << os, overtaken >>
       \/ /\ st[s].probe = "failed"
          /\ StartThrows(s, st[s])
    /\ UNCHANGED << running, owner, handler, away, quit, allowQuit >>

\* Mutant of ProbeTimeout: the probe has no timer.
NoProbeTimer(s) == FALSE

ProbeTimeout(s) ==
    /\ Up /\ st[s].probe = "waiting"
    /\ st' = [st EXCEPT ![s].probe = "ready"]
    /\ UNCHANGED << running, os, owner, handler, away, quit, allowQuit, overtaken >>

\* appendLog and observeStartupLine: a line of a miner counts for the state
\* object that is entered now.
OutputLine(p, verdict) ==
    LET s == running[st[owner[p]].job]
    IN  /\ Up /\ os[p] # "unborn" /\ handler[p] \in {"none", "flushing"}
        /\ s # Nobody
        /\ st' = [st EXCEPT ![s] = SettlesProbe(@, verdict)]
        /\ st' # st
        /\ UNCHANGED << running, os, owner, handler, away, quit, allowQuit, overtaken >>
-----------------------------------------------------------------------------
(* launchJobState.                                                          *)

\* Another state object of the job writes the miner's log file.
LogInUse(s) == LET e == running[st[s].job] IN e \notin {s, Nobody} /\ st[e].proc # Nobody

\* The runtime, the secrets and the files are ready, the probe begins, and
\* the launcher has spawned the miner.
Launched(s, by, p) ==
    /\ Up /\ st[s].eval[by].at = "launch" /\ ~LogInUse(s) /\ os[p] = "unborn"
    /\ os' = [os EXCEPT ![p] = "alive"]
    /\ owner' = [owner EXCEPT ![p] = s]
    /\ st' = [st EXCEPT ![s].eval[by].at = "announce", ![s].proc = p, ![s].exit = p,
                        ![s].probe = IF st[s].awaiting /\ @ = "none" THEN "waiting" ELSE @]
    /\ UNCHANGED << running, handler, away, quit, allowQuit, overtaken >>

LaunchFails(s, by) ==
    /\ Up /\ st[s].eval[by].at = "launch"
    /\ IF by = "start" THEN StartThrows(s, st[s])
       ELSE /\ st' = [st EXCEPT ![s].eval[by].at = "fail"]
            /\ UNCHANGED << os, overtaken >>
    /\ UNCHANGED << running, owner, handler, away, quit, allowQuit >>

\* The log line is written, the guard is scheduled, and the start call goes on.
Announced(s, by) ==
    /\ Up /\ st[s].eval[by].at = "announce"
    /\ LET state == [st[s] EXCEPT !.eval[by] = Idle, !.guard = TRUE]
       IN  st' = [st EXCEPT ![s] =
              IF by # "start" THEN state
              ELSE IF state.proc # Nobody /\ state.probe # "none"
              THEN [state EXCEPT !.start = "probing"]
              ELSE [state EXCEPT !.awaiting = FALSE, !.start = "ended"]]
    /\ UNCHANGED << running, os, owner, handler, away, quit, allowQuit, overtaken >>
-----------------------------------------------------------------------------
(* evaluateRuntimeGuard, from the guard timer and the restart timer.        *)

\* The evaluation up to its first await, for a timer that has gone off.
Evaluate(s, by, state) ==
    LET reason == runtimeGuardReason(state.job)
        launches == ~reason /\ state.proc = Nobody
        pauses == reason /\ state.proc # Nobody
    IN  IF ~Entered(s) \/ state.stopping THEN st' = [st EXCEPT ![s] = state] /\ UNCHANGED overtaken
        ELSE /\ st' = [st EXCEPT ![s] =
                   CASE launches -> [state EXCEPT !.eval[by].at = "launch"]
                     [] pauses /\ ~state.pausing ->
                            [state EXCEPT !.pausing = TRUE, !.eval[by].at = "log"]
                     [] pauses /\ state.pausing -> state
                     [] OTHER -> [state EXCEPT !.guard = TRUE]]
             /\ Overtakes(launches /\ Launching(s))

\* stop() of a miner that has exited resolves at once; the timers take seconds.
StopResolves(s) == \E by \in Stoppers : st[s].stop[by].at = "told" /\ os[st[s].stop[by].p] = "dead"

\* Bound: a timer does not go off again before its last evaluation has ended.
GuardTimer(s) ==
    /\ Up /\ st[s].guard /\ st[s].eval["guard"] = Idle /\ ~StopResolves(s)
    /\ Evaluate(s, "guard", [st[s] EXCEPT !.guard = FALSE])
    /\ UNCHANGED << running, os, owner, handler, away, quit, allowQuit >>

RestartTimer(s) ==
    /\ Up /\ st[s].restart /\ st[s].eval["restart"] = Idle /\ ~StopResolves(s)
    /\ Evaluate(s, "restart", [st[s] EXCEPT !.restart = FALSE])
    /\ UNCHANGED << running, os, owner, handler, away, quit, allowQuit >>

\* The pause was logged: the miner that is there now is told to stop.
PauseTells(s, by) ==
    LET p == st[s].proc
    IN  /\ Up /\ st[s].eval[by].at = "log"
        /\ IF p = Nobody
           THEN st' = [st EXCEPT ![s].eval[by].at = "fail"] /\ UNCHANGED os
           ELSE st' = [st EXCEPT ![s].eval[by] = [at |-> "stop", p |-> p]] /\ os' = Tells(p)
        /\ UNCHANGED << running, owner, handler, away, quit, allowQuit, overtaken >>

PauseEnds(s, by) ==
    LET p == st[s].eval[by].p
    IN  /\ Up /\ st[s].eval[by].at = "stop"
        /\ \/ os[p] = "dead" /\ st' = [st EXCEPT ![s].eval[by] = Idle] /\ UNCHANGED os
           \/ /\ Lives(p)
              /\ st' = [st EXCEPT ![s].eval[by] = [at |-> "fail", p |-> Nobody]]
              /\ os' = [os EXCEPT ![p] = "alive"]
        /\ UNCHANGED << running, owner, handler, away, quit, allowQuit, overtaken >>

\* The handler of a failed evaluation gives the job up.
EvaluationFails(s, by) ==
    /\ Up /\ st[s].eval[by].at = "fail"
    /\ st' = [st EXCEPT ![s].eval[by] = Idle]
    /\ Removed(s) /\ Overtakes(RemovesAnother(s))
    /\ UNCHANGED << os, owner, handler, away, quit, allowQuit >>
-----------------------------------------------------------------------------
(* stopJob.                                                                 *)

StopJob(j) ==
    LET s == running[j]
    IN  /\ Up /\ s # Nobody /\ st[s].stop["user"] = Idle
        /\ st' = [st EXCEPT ![s] = StopBegins(@, "user")]
        /\ os' = IF st[s].proc # Nobody THEN Tells(st[s].proc) ELSE os
        /\ Overtakes(Launching(s))
        /\ UNCHANGED << running, owner, handler, away, quit, allowQuit >>

\* What the caller of a stopJob that has ended does next.
StopReturns(state, by) ==
    [state EXCEPT !.stop[by] = Idle,
                  !.start = IF by = "cleanup" THEN "ended" ELSE @]

\* stop() resolved: the exit handler of the latest miner is awaited.
MinerStopped(s, by) ==
    /\ Up /\ st[s].stop[by].at = "told" /\ os[st[s].stop[by].p] = "dead"
    /\ st' = [st EXCEPT ![s].stop[by] = [at |-> "exit", p |-> st[s].exit]]
    /\ UNCHANGED << running, os, owner, handler, away, quit, allowQuit, overtaken >>

\* stopJob rejects: the job goes on under its guard.  A failed start removes
\* the entry all the same.
StopRejects(s, by) ==
    LET state == StopReturns(st[s], by)
    IN  /\ st' = [st EXCEPT ![s] =
              [state EXCEPT !.stopping = FALSE, !.guard = @ \/ Entered(s)]]
        /\ quit' = IF by = "all" THEN "failing" ELSE quit
        /\ IF by = "cleanup" THEN Removed(s) /\ Overtakes(RemovesAnother(s))
           ELSE UNCHANGED << running, overtaken >>
        /\ UNCHANGED << owner, handler, away, allowQuit >>

\* stop() rejected.
MinerStays(s, by) ==
    LET p == st[s].stop[by].p
    IN  /\ Up /\ st[s].stop[by].at = "told" /\ Lives(p)
        /\ os' = [os EXCEPT ![p] = "alive"]
        /\ StopRejects(s, by)

\* exitPromise resolved: has the exit handler removed the entry?
ExitAwaited(s, by) ==
    /\ Up /\ st[s].stop[by].at = "exit" /\ handler[st[s].stop[by].p] = "done"
    /\ st' = [st EXCEPT ![s] = IF Entered(s) THEN [@ EXCEPT !.stop[by].at = "close"]
                               ELSE StopReturns(@, by)]
    /\ UNCHANGED << running, os, owner, handler, away, quit, allowQuit, overtaken >>

\* The log tail has ended and the runtime files are removed.
StopCloses(s, by) ==
    /\ Up /\ st[s].stop[by].at = "close"
    /\ st' = [st EXCEPT ![s] = StopReturns(@, by)]
    /\ Removed(s) /\ Overtakes(RemovesAnother(s))
    /\ UNCHANGED << os, owner, handler, away, quit, allowQuit >>

\* The runtime files could not be removed.
StopUncleaned(s, by) ==
    /\ "stop" \in Unremovable
    /\ Up /\ st[s].stop[by].at = "close"
    /\ StopRejects(s, by)
    /\ UNCHANGED os
-----------------------------------------------------------------------------
(* A miner's exit.                                                          *)

\* The process has ended: handleJobExit up to its first await.
Exits(p) ==
    /\ Lives(p)
    /\ os' = [os EXCEPT ![p] = "dead"]
    /\ IF Up THEN /\ handler' = [handler EXCEPT ![p] = "flushing"]
                  /\ st' = [st EXCEPT ![owner[p]].guard = FALSE]
       ELSE UNCHANGED << handler, st >>
    /\ UNCHANGED << running, owner, away, quit, allowQuit, overtaken >>

\* The rest of the output was read.
OutputFlushed(p) ==
    /\ Up /\ handler[p] = "flushing"
    /\ handler' = [handler EXCEPT ![p] = "settled"]
    /\ st' = [st EXCEPT ![owner[p]] = [SettlesProbe(@, "failed") EXCEPT !.proc = Nobody]]
    /\ UNCHANGED << running, os, owner, away, quit, allowQuit, overtaken >>

\* Mutant of AfterExit: a job that was paused is not looked at again.
PausedForGood(state) ==
    IF state.pausing THEN [state EXCEPT !.pausing = FALSE]
    ELSE [state EXCEPT !.crashes = @ + 1, !.restart = TRUE]

\* A job that goes on after its miner's exit: paused, or to be restarted.
AfterExit(state) ==
    IF state.pausing THEN [state EXCEPT !.pausing = FALSE, !.guard = TRUE]
    ELSE [state EXCEPT !.crashes = @ + 1, !.restart = TRUE]

\* Mutant of GivenUp: one restart more than the limit.
GivenUpLate(state) == state.crashes > RestartLimit

\* The restart limit is reached.
GivenUp(state) == state.crashes >= RestartLimit

\* The log is written and the runtime files are removed.  A restart counts
\* for 15 minutes; that crashes are forgotten is not modelled.
ExitHandled(p) ==
    LET s == owner[p]
        ends == /\ ~st[s].pausing
                /\ \/ st[s].stopping
                   \/ st[s].job \notin Restarting
                   \/ GivenUp(st[s])
    IN  /\ Up /\ handler[p] = "settled"
        /\ handler' = [handler EXCEPT ![p] = "done"]
        /\ IF ends
           THEN Removed(s) /\ Overtakes(RemovesAnother(s)) /\ UNCHANGED st
           ELSE st' = [st EXCEPT ![s] = AfterExit(@)] /\ UNCHANGED << running, overtaken >>
        /\ UNCHANGED << os, owner, away, quit, allowQuit >>

\* The runtime files could not be removed: that is logged, and no more.
CleanupFails(p) ==
    /\ "exit" \in Unremovable
    /\ Up /\ handler[p] = "settled"
    /\ handler' = [handler EXCEPT ![p] = "done"]
    /\ st' = [st EXCEPT ![owner[p]].uncleaned = TRUE]
    /\ UNCHANGED << running, os, owner, away, quit, allowQuit, overtaken >>
-----------------------------------------------------------------------------
(* The environment and the quit.                                            *)

GuardReasonChanges ==
    /\ Up /\ Guarded # {}
    /\ away' = ~away
    /\ UNCHANGED << running, st, os, owner, handler, quit, allowQuit, overtaken >>

Managed == {s \in States : Entered(s)}
hasManagedJobs == Managed # {}

\* Mutant of MayQuit: jobs are not looked at.
QuitAtOnce == TRUE

MayQuit == allowQuit \/ ~hasManagedJobs

\* before-quit: stopAll, or the end of the wallet process.
BeforeQuit ==
    /\ quit = "no"
    /\ IF MayQuit
       THEN quit' = "exited" /\ UNCHANGED << st, os, overtaken >>
       ELSE /\ quit' = "waiting"
            /\ st' = [s \in States |-> IF s \in Managed THEN StopBegins(st[s], "all") ELSE st[s]]
            /\ os' = [p \in Miners |->
                         IF os[p] = "alive" /\ \E s \in Managed : st[s].proc = p
                         THEN "told" ELSE os[p]]
            /\ Overtakes(\E s \in Managed : Launching(s))
    /\ UNCHANGED << running, owner, handler, away, allowQuit >>

\* stopAll has ended.  If it succeeded the app quits, now or, if an Epic send
\* holds up the quit, later.
StopAllEnds ==
    /\ quit \in {"waiting", "failing"}
    /\ \A s \in States : st[s].stop["all"] = Idle
    /\ IF quit = "failing" THEN quit' = "no" /\ UNCHANGED allowQuit
       ELSE quit' \in {"no", "exited"} /\ allowQuit' = TRUE
    /\ UNCHANGED << running, st, os, owner, handler, away, overtaken >>
-----------------------------------------------------------------------------
(* Objects that nothing refers to any more are collected at once, so that  *)
(* the bounds are on what is in use at a time.                              *)

Over(p) == os[p] = "dead" /\ handler[p] = "done"

\* The start call has ended, and no timer, call or miner is left.  A timer
\* whose object is not entered does nothing when it goes off.
UselessState(s) ==
    /\ st[s].start = "ended" /\ ~Entered(s) /\ ~Evaluates(s)
    /\ \A by \in Stoppers : st[s].stop[by] = Idle
    /\ \A p \in Miners : owner[p] = s => Over(p)

\* Whom the calls, the evaluations and the fields of a state object refer to.
RefersTo(state) ==
    {state.proc, state.exit} \cup {state.eval[t].p : t \in Timers}
                             \cup {state.stop[b].p : b \in Stoppers}

UselessMiner(p) == Over(p) /\ (owner[p] = Nobody \/ p \notin RefersTo(st[owner[p]]))

Useless == (\E s \in States : UselessState(s)) \/ (\E p \in Miners : UselessMiner(p))

Collect ==
    LET states == {s \in States : UselessState(s)}
        miners == {p \in Miners : UselessMiner(p) \/ owner[p] \in states}
    IN  /\ Up /\ Useless
        /\ st' = [s \in States |-> IF s \in states THEN Blank ELSE st[s]]
        /\ os' = [p \in Miners |-> IF p \in miners THEN "unborn" ELSE os[p]]
        /\ owner' = [p \in Miners |-> IF p \in miners THEN Nobody ELSE owner[p]]
        /\ handler' = [p \in Miners |-> IF p \in miners THEN "none" ELSE handler[p]]
        /\ UNCHANGED << running, away, quit, allowQuit, overtaken >>
-----------------------------------------------------------------------------
LaunchEnds(s, by) ==
    \/ \E p \in Miners : Launched(s, by, p)
    \/ LaunchFails(s, by)

EvaluationGoesOn(s, by) ==
    Announced(s, by) \/ PauseTells(s, by) \/ PauseEnds(s, by) \/ EvaluationFails(s, by)

StopGoesOn(s, by) ==
    \/ MinerStopped(s, by) \/ MinerStays(s, by)
    \/ ExitAwaited(s, by) \/ StopCloses(s, by) \/ StopUncleaned(s, by)

StartGoesOn(s) == ProbeEnds(s) \/ ProbeTimeout(s) \/ ChecksFail(s) \/ Register(s)
ExitGoesOn(p) == OutputFlushed(p) \/ ExitHandled(p) \/ CleanupFails(p)

\* The threads of a state object, each at one await at a time.
Thread(s, by) == LaunchEnds(s, by) \/ EvaluationGoesOn(s, by)
StartThread(s) == StartGoesOn(s) \/ Thread(s, "start") \/ StopGoesOn(s, "cleanup")

Step ==
    \/ \E s \in States, j \in Jobs : StartJob(s, j)
    \/ \E s \in States : StartGoesOn(s) \/ GuardTimer(s) \/ RestartTimer(s)
    \/ \E s \in States, by \in Timers : Thread(s, by)
    \/ \E s \in States, by \in Stoppers : StopGoesOn(s, by)
    \/ \E j \in Jobs : StopJob(j)
    \/ \E p \in Miners : Exits(p) \/ ExitGoesOn(p)
    \/ \E p \in Miners, verdict \in {"ready", "failed"} : OutputLine(p, verdict)
    \/ GuardReasonChanges \/ BeforeQuit \/ StopAllEnds

Next == (Onwards \/ ~overtaken) /\ IF Up /\ Useless THEN Collect ELSE Step

Spec == Init /\ [][Next]_vars

\* Promises settle and timers go off; stop() resolves or rejects.
Fairness ==
    /\ \A s \in States :
           /\ WF_vars(StartThread(s))
           /\ WF_vars(Thread(s, "guard")) /\ WF_vars(Thread(s, "restart"))
           /\ WF_vars(StopGoesOn(s, "user")) /\ WF_vars(StopGoesOn(s, "all"))
    /\ \A p \in Miners : WF_vars(ExitGoesOn(p))
    /\ WF_vars(Collect)

FairSpec == Spec /\ Fairness
-----------------------------------------------------------------------------
(* Properties.                                                              *)

\* Every miner that runs is the one its job's entry holds, so that a stop, a
\* pause and the quit reach it, and none outlives the wallet: unless one of
\* the five overtakings has happened.  They are the only ways to lose a miner.
MinersAreHeld ==
    overtaken \/ \A p \in Miners : Lives(p) => /\ Entered(owner[p])
                                              /\ st[owner[p]].proc = p
                                              /\ Up

\* An entry has something that will look at it again: a timer, a call, or the
\* exit handler of its miner.  Otherwise a paused job would never resume, and
\* a miner on battery never pause.  There is one exception: when the runtime
\* files of a job cannot be removed after its miner's exit, that is logged
\* only, and the entry stays with neither a miner nor a timer.
Looked(s) ==
    \/ st[s].guard \/ st[s].restart \/ Evaluates(s)
    \/ st[s].start \in {"launching", "probing", "cleanup"}
    \/ \E by \in Stoppers : st[s].stop[by] # Idle
    \/ \E p \in Miners : owner[p] = s /\ handler[p] \in {"flushing", "settled"}
EntryHasFuture == Up => \A s \in Managed : Looked(s) \/ st[s].uncleaned

\* A call of startJob returns, whatever happens to its miner meanwhile.
StartSettles ==
    \A s \in States : (st[s].start \notin {"none", "ended"}) ~> (st[s].start = "ended" \/ ~Up)

\* A call of stopJob returns, if nothing was overtaken before.
StopSettles ==
    \A s \in States, by \in Stoppers :
        (st[s].stop[by] # Idle) ~> (st[s].stop[by] = Idle \/ ~Up \/ overtaken)
=============================================================================
