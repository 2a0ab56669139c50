--------------------------- MODULE MiningJobsProofs ---------------------------
(***************************************************************************)
(* No miner is lost, for any number of jobs, calls and miners, unless one  *)
(* of the five overtakings happened.                                       *)
(*                                                                         *)
(* A launch that nothing overtakes belongs to the entry of its job, finds  *)
(* no miner there and is the only one (Launches), so the miner it gets is  *)
(* the one the entry holds; the entry keeps it until it has ended.  A quit *)
(* that may go ahead has stopped every entry.                              *)
(*                                                                         *)
(* And no entry is forgotten, whatever has been overtaken: each stop, each *)
(* pause and each miner of an entry has something under way that will come *)
(* back to it (FutureInv, below).                                          *)
(***************************************************************************)
EXTENDS MiningJobs, TLAPS

LaunchTimers(c) == {t \in Timers : c.eval[t].at = "launch"}

\* Every miner was launched for a state object.
Owned ==
    \A p \in Miners :
        /\ os[p] # "unborn" => owner[p] \in States
        /\ handler[p] # "none" => os[p] = "dead"

\* The entry of a job holds its miner, and as long as its exit is not handled.
Held ==
    \A p \in Miners :
        /\ Lives(p) => Entered(owner[p]) /\ st[owner[p]].proc = p /\ Up
        /\ handler[p] = "flushing" => st[owner[p]].proc = p

Launches ==
    \A s \in States :
        /\ Launching(s) => Entered(s) /\ st[s].proc = Nobody
        /\ \A t, u \in LaunchTimers(st[s]) : t = u
        /\ st[s].start = "checking" =>
              ~ Entered(s) /\ st[s].proc = Nobody /\ st[s].job # Nobody

\* What a quit that goes on has done to the entries.
Quits ==
    /\ quit = "waiting" => \A s \in Managed : st[s].stop["all"] # Idle
    /\ allowQuit => Managed = {}

IInv == TypeOK /\ Owned /\ (overtaken \/ (Held /\ Launches /\ Quits))

USE JobConstants DEF JobConstants, OrNobody

-----------------------------------------------------------------------------
(* State objects.                                                           *)

\* x is c, a step later, and has neither begun a launch nor a start.
Calm(x, c) ==
    /\ x \in StateObject /\ x.job = c.job /\ x.proc = c.proc
    /\ LaunchTimers(x) \subseteq LaunchTimers(c)
    /\ x.start = "checking" => c.start = "checking"

\* Nor has a call of stopAll ended.
CalmToo(x, c) == Calm(x, c) /\ (x.stop["all"] = Idle => c.stop["all"] = Idle)

LEMMA IdleIs == Idle \in Evaluation /\ Idle \in Stopping /\ Idle.at = "idle"
  BY DEF Idle, Evaluation, Stopping

LEMMA SettlesCalm ==
    ASSUME NEW c \in StateObject, NEW verdict \in {"ready", "failed"}
    PROVE  CalmToo(SettlesProbe(c, verdict), c)
<1> DEFINE v == IF c.awaiting /\ c.probe = "waiting" THEN verdict ELSE c.probe
<1>1. v \in {"none", "waiting", "ready", "failed"}
  BY DEF StateObject
<1> DEFINE x == [c EXCEPT !.probe = v]
<1>2. SettlesProbe(c, verdict) = x
  BY DEF SettlesProbe
<1> HIDE DEF v
<1>3. /\ x \in StateObject /\ x.job = c.job /\ x.proc = c.proc /\ x.eval = c.eval
      /\ x.start = c.start /\ x.stop = c.stop
  BY <1>1 DEF StateObject
<1> HIDE DEF x
<1>4. CalmToo(x, c)
  BY <1>3 DEF CalmToo, Calm, LaunchTimers
<1> QED BY <1>2, <1>4

LEMMA EvalCalm ==
    ASSUME NEW c \in StateObject, NEW by \in Timers, NEW e \in Evaluation, e.at # "launch"
    PROVE  CalmToo([c EXCEPT !.eval[by] = e], c)
<1> DEFINE x == [c EXCEPT !.eval[by] = e]
<1>1. c.eval \in [Timers -> Evaluation]
  BY DEF StateObject
<1>2. [c.eval EXCEPT ![by] = e] \in [Timers -> Evaluation]
  BY <1>1
<1>3. /\ x \in StateObject /\ x.job = c.job /\ x.proc = c.proc /\ x.eval = [c.eval EXCEPT ![by] = e]
      /\ x.start = c.start /\ x.stop = c.stop
  BY <1>2 DEF StateObject
<1> HIDE DEF x
<1>4. CalmToo(x, c)
  BY <1>1, <1>3 DEF CalmToo, Calm, LaunchTimers
<1> QED BY <1>4 DEF x

LEMMA CalmChain ==
    ASSUME NEW a, NEW b, NEW c, Calm(a, b), Calm(b, c)
    PROVE  Calm(a, c)
  BY DEF Calm

LEMMA CalmChainToo ==
    ASSUME NEW a, NEW b, NEW c, CalmToo(a, b), CalmToo(b, c)
    PROVE  CalmToo(a, c)
  BY CalmChain DEF CalmToo

LEMMA StopCalm ==
    ASSUME NEW c \in StateObject, NEW by \in Stoppers
    PROVE  CalmToo(StopBegins(c, by), c) /\ StopBegins(c, by).stop[by] # Idle
<1> DEFINE q == SettlesProbe(c, "failed")
           v == IF c.proc # Nobody THEN [at |-> "told", p |-> c.proc]
                ELSE IF c.exit # Nobody THEN [at |-> "exit", p |-> c.exit]
                ELSE [at |-> "close", p |-> Nobody]
           x == [q EXCEPT !.stopping = TRUE, !.guard = FALSE, !.restart = FALSE, !.stop[by] = v]
<1>1. v \in Stopping /\ v # Idle
  BY DEF StateObject, Stopping, Idle
<1>2. CalmToo(q, c)
  BY SettlesCalm
<1>3. StopBegins(c, by) = x
  BY DEF StopBegins
<1> HIDE DEF v, q
<1>4. q \in StateObject /\ q.stop \in [Stoppers -> Stopping]
  BY <1>2 DEF CalmToo, Calm, StateObject
<1>5. [q.stop EXCEPT ![by] = v] \in [Stoppers -> Stopping]
  BY <1>1, <1>4
<1>6. /\ x \in StateObject /\ x.job = q.job /\ x.proc = q.proc /\ x.eval = q.eval
      /\ x.start = q.start /\ x.stop = [q.stop EXCEPT ![by] = v]
  BY <1>4, <1>5 DEF StateObject
<1> HIDE DEF x
<1>7. CalmToo(x, q) /\ x.stop[by] # Idle
  BY <1>1, <1>4, <1>6 DEF CalmToo, Calm, LaunchTimers, Stoppers
<1> QED BY <1>2, <1>3, <1>7, CalmChainToo

-----------------------------------------------------------------------------
(* Steps.                                                                   *)

\* No miner appears, and none is forgotten.
SameMiners ==
    /\ owner' = owner
    /\ os' \in [Miners -> {"unborn", "alive", "told", "dead"}]
    /\ handler' \in [Miners -> {"none", "flushing", "settled", "done"}]
    /\ \A p \in Miners :
          /\ Lives(p)' => Lives(p)
          /\ os[p] = "unborn" <=> os'[p] = "unborn"
          /\ handler'[p] = "flushing" => handler[p] = "flushing"
          /\ handler'[p] = "none" <=> handler[p] = "none"

\* Entries stay, or one without a miner is removed.
SameEntries(s) ==
    \/ running' = running /\ (overtaken => overtaken')
    \/ Removed(s) /\ Overtakes(RemovesAnother(s))

SameQuit == quit' \in {quit, "failing"} /\ (quit = "exited" => quit' = quit) /\ UNCHANGED << away, allowQuit >>

OneChanges(s) ==
    st' \in [States -> StateObject] /\ \A t \in States \ {s} : st'[t] = st[t]

LEMMA CalmStep ==
    ASSUME IInv, NEW s \in States, OneChanges(s), Calm(st'[s], st[s]),
           SameMiners, SameEntries(s), SameQuit, Up, overtaken' \in BOOLEAN,
           \/ CalmToo(st'[s], st[s])
           \/ quit' = "failing"
           \/ st[s].stop["all"] = Idle
           \/ ~ Entered(s)'
    PROVE  IInv'
<1>1. TypeOK'
  <2>1. running' \in [Jobs -> States \cup {Nobody}]
    BY DEF SameEntries, Removed, IInv, TypeOK
  <2>2. quit' \in {"no", "waiting", "failing", "exited"} /\ {away', allowQuit'} \subseteq BOOLEAN
    BY DEF SameQuit, IInv, TypeOK
  <2> QED BY <2>1, <2>2 DEF SameMiners, OneChanges, IInv, TypeOK
<1>2. Owned'
  BY DEF IInv, Owned, SameMiners, Lives
<1>3. ASSUME ~ overtaken' PROVE Held' /\ Launches' /\ Quits'
  <2>1. ~ overtaken /\ Held /\ Launches /\ Quits
    BY <1>3 DEF SameEntries, Overtakes, IInv
  <2>2. Up'
    BY DEF Up, SameQuit
  <2>3. \A t \in States : /\ st'[t].job = st[t].job /\ st'[t].proc = st[t].proc
                          /\ LaunchTimers(st'[t]) \subseteq LaunchTimers(st[t])
                          /\ st'[t].start = "checking" => st[t].start = "checking"
    BY DEF OneChanges, Calm
  <2>4. \A t \in States : Launching(t) <=> LaunchTimers(st[t]) # {}
    BY DEF Launching, LaunchTimers
  <2>5. \A t \in States : Launching(t)' => Launching(t)
    <3>1. \A t \in States : Launching(t)' <=> LaunchTimers(st'[t]) # {}
      BY DEF Launching, LaunchTimers
    <3> QED BY <2>3, <2>4, <3>1
  <2>6. /\ \A t \in States : Entered(t)' => Entered(t)
        /\ \A t \in States :
              Entered(t) => (Entered(t)' \/ (st[t].proc = Nobody /\ ~ Launching(t)))
    <3>1. CASE running' = running
      BY <2>3, <3>1 DEF Entered
    <3>2. CASE Removed(s) /\ Overtakes(RemovesAnother(s))
      <4>1. running' = [running EXCEPT ![st[s].job] = Nobody] /\ ~ RemovesAnother(s)
        BY <1>3, <3>2 DEF Removed, Overtakes
      <4>2. \A j : j \in Jobs => running'[j] = IF j = st[s].job THEN Nobody ELSE running[j]
        BY <4>1 DEF IInv, TypeOK
      <4>3. \A t \in States : st[t].job \in Jobs \cup {Nobody}
        BY DEF IInv, TypeOK, StateObject
      <4>4. \A t \in States : t # Nobody
        OBVIOUS
      <4>5. running[st[s].job] \in {s, Nobody}
        BY <4>1 DEF RemovesAnother
      <4>6. running[st[s].job] = s => st[s].proc = Nobody /\ ~ Launching(s)
        BY <4>1, <4>4 DEF RemovesAnother
      <4> QED BY <2>3, <4>2, <4>3, <4>4, <4>5, <4>6 DEF Entered
    <3> QED BY <3>1, <3>2 DEF SameEntries
  <2>7. Held'
    <3>1. ASSUME NEW p \in Miners, Lives(p)'
          PROVE  Entered(owner[p])' /\ st'[owner'[p]].proc = p
      <4>1. Lives(p) /\ owner'[p] = owner[p] /\ os[p] # "unborn"
        BY <3>1 DEF SameMiners, Lives
      <4>2. owner[p] \in States /\ Entered(owner[p]) /\ st[owner[p]].proc = p /\ p # Nobody
        BY <2>1, <4>1 DEF IInv, Owned, Held
      <4> QED BY <2>3, <2>6, <4>1, <4>2
    <3>2. ASSUME NEW p \in Miners, handler'[p] = "flushing"
          PROVE  st'[owner'[p]].proc = p
      <4>1. handler[p] = "flushing" /\ owner'[p] = owner[p]
        BY <3>2 DEF SameMiners
      <4>2. st[owner[p]].proc = p /\ owner[p] \in States
        BY <2>1, <4>1 DEF IInv, Owned, Held
      <4> QED BY <2>3, <4>1, <4>2
    <3> QED BY <2>2, <3>1, <3>2 DEF Held
  <2>8. Launches'
    <3>1. ASSUME NEW t \in States
          PROVE  /\ Launching(t)' => Entered(t)' /\ st'[t].proc = Nobody
                 /\ \A u, v \in LaunchTimers(st'[t]) : u = v
                 /\ st'[t].start = "checking" =>
                       ~ Entered(t)' /\ st'[t].proc = Nobody /\ st'[t].job # Nobody
      BY <2>1, <2>3, <2>5, <2>6 DEF Launches
    <3> QED BY <3>1 DEF Launches, LaunchTimers
  <2>9. Quits'
    <3>1. Managed' \subseteq Managed
      BY <2>6 DEF Managed
    <3>2. ASSUME quit' = "waiting", NEW t \in Managed' PROVE st'[t].stop["all"] # Idle
      <4>1. quit = "waiting" /\ t \in Managed /\ st[t].stop["all"] # Idle
        BY <2>1, <3>1, <3>2 DEF SameQuit, Quits
      <4>2. t \in States /\ Entered(t)'
        BY <3>2 DEF Managed
      <4> QED BY <3>2, <4>1, <4>2 DEF OneChanges, CalmToo
    <3> QED BY <2>1, <3>1, <3>2 DEF Quits, SameQuit
  <2> QED BY <2>7, <2>8, <2>9
<1> QED BY <1>1, <1>2, <1>3 DEF IInv

LEMMA Typed ==
    ASSUME IInv
    PROVE  /\ st \in [States -> StateObject] /\ overtaken \in BOOLEAN
           /\ os \in [Miners -> {"unborn", "alive", "told", "dead"}]
           /\ handler \in [Miners -> {"none", "flushing", "settled", "done"}]
           /\ running \in [Jobs -> States \cup {Nobody}]
           /\ owner \in [Miners -> States \cup {Nobody}]
  BY DEF IInv, TypeOK

LEMMA Replaced ==
    ASSUME IInv, NEW s \in States, NEW x \in StateObject, st' = [st EXCEPT ![s] = x]
    PROVE  OneChanges(s) /\ st'[s] = x
  BY Typed DEF OneChanges

LEMMA CalmTooStep ==
    ASSUME IInv, NEW s \in States, NEW x, CalmToo(x, st[s]), st' = [st EXCEPT ![s] = x],
           SameMiners, SameEntries(s), SameQuit, Up, overtaken' \in BOOLEAN
    PROVE  IInv'
<1>1. x \in StateObject
  BY DEF CalmToo, Calm
<1>2. OneChanges(s) /\ st'[s] = x
  BY <1>1, Replaced
<1>3. CalmToo(st'[s], st[s]) /\ Calm(st'[s], st[s])
  BY <1>2 DEF CalmToo
<1> QED BY <1>2, <1>3, CalmStep

LEMMA MinersStay == ASSUME IInv, UNCHANGED << os, owner, handler >> PROVE SameMiners
  BY Typed DEF SameMiners, Lives

LEMMA MinersTold ==
    ASSUME IInv, NEW q, os' \in {os, Tells(q)}, UNCHANGED << owner, handler >>
    PROVE  SameMiners
<1>1. Tells(q) \in [Miners -> {"unborn", "alive", "told", "dead"}]
  BY Typed DEF Tells
<1>2. \A p \in Miners : Tells(q)[p] \in {os[p], IF os[p] = "alive" THEN "told" ELSE os[p]}
  BY Typed DEF Tells
<1> HIDE DEF Tells
<1> QED BY <1>1, <1>2, Typed DEF SameMiners, Lives

\* Updates that leave a launch, a start and a call of stopAll alone.
LEMMA FieldsCalm ==
    ASSUME NEW c \in StateObject, NEW x \in StateObject, x.job = c.job, x.proc = c.proc,
           x.eval = c.eval, x.start = "checking" => c.start = "checking",
           x.stop["all"] = Idle => c.stop["all"] = Idle
    PROVE  CalmToo(x, c)
  BY DEF CalmToo, Calm, LaunchTimers

LEMMA CalmItself == ASSUME NEW c \in StateObject PROVE CalmToo(c, c)
  BY DEF CalmToo, Calm

LEMMA ChecksFailStep == ASSUME IInv, NEW s \in States, ChecksFail(s) PROVE IInv'
<1> DEFINE c == st[s]
           x == [c EXCEPT !.start = "ended"]
<1>1. c \in StateObject
  BY Typed
<1>2. /\ st' = [st EXCEPT ![s] = x] /\ Up
      /\ UNCHANGED << running, os, owner, handler, away, quit, allowQuit, overtaken >>
  BY DEF ChecksFail
<1> HIDE DEF c
<1>3. CalmToo(x, c)
  <2>1. /\ x \in StateObject /\ x.job = c.job /\ x.proc = c.proc /\ x.eval = c.eval
        /\ x.start = "ended" /\ x.stop = c.stop
    BY <1>1 DEF StateObject
  <2> HIDE DEF x
  <2> QED BY <1>1, <2>1, FieldsCalm
<1> HIDE DEF x
<1> QED BY <1>2, <1>3, CalmTooStep, MinersStay, Typed DEF c, SameEntries, SameQuit

LEMMA ProbeTimeoutStep == ASSUME IInv, NEW s \in States, ProbeTimeout(s) PROVE IInv'
<1> DEFINE c == st[s]
           x == [c EXCEPT !.probe = "ready"]
<1>1. c \in StateObject
  BY Typed
<1>2. /\ st' = [st EXCEPT ![s] = x] /\ Up
      /\ UNCHANGED << running, os, owner, handler, away, quit, allowQuit, overtaken >>
  BY DEF ProbeTimeout
<1> HIDE DEF c
<1>3. CalmToo(x, c)
  <2>1. /\ x \in StateObject /\ x.job = c.job /\ x.proc = c.proc /\ x.eval = c.eval
        /\ x.start = c.start /\ x.stop = c.stop
    BY <1>1 DEF StateObject
  <2> HIDE DEF x
  <2> QED BY <1>1, <2>1, FieldsCalm
<1> HIDE DEF x
<1> QED BY <1>2, <1>3, CalmTooStep, MinersStay, Typed DEF c, SameEntries, SameQuit

LEMMA OutputLineStep ==
    ASSUME IInv, NEW p \in Miners, NEW verdict \in {"ready", "failed"}, OutputLine(p, verdict)
    PROVE  IInv'
<1> DEFINE s == running[st[owner[p]].job]
           c == st[s]
           x == SettlesProbe(c, verdict)
<1>1. /\ st' = [st EXCEPT ![s] = x] /\ Up /\ st' # st
      /\ UNCHANGED << running, os, owner, handler, away, quit, allowQuit, overtaken >>
  BY DEF OutputLine
<1> HIDE DEF s, x
<1>2. s \in States
  BY <1>1, Typed
<1>3. CalmToo(x, c)
  BY <1>2, Typed, SettlesCalm DEF x
<1> QED BY <1>1, <1>2, <1>3, CalmTooStep, MinersStay, Typed DEF SameEntries, SameQuit

\* A start that fails stops its state object if that is entered.
LEMMA StartThrowsStep ==
    ASSUME IInv, NEW s \in States, Up, StartThrows(s, st[s]),
           UNCHANGED << running, owner, handler, away, quit, allowQuit >>
    PROVE  IInv'
<1> DEFINE c == st[s]
           q == [c EXCEPT !.awaiting = FALSE, !.eval["start"] = Idle]
           b == StopBegins(q, "cleanup")
           x == [b EXCEPT !.start = "cleanup"]
           y == [q EXCEPT !.start = "ended"]
<1>1. c \in StateObject
  BY Typed
<1>2. \/ /\ st' = [st EXCEPT ![s] = x] /\ os' \in {os, Tells(c.proc)}
         /\ \E condition \in BOOLEAN : Overtakes(condition)
      \/ st' = [st EXCEPT ![s] = y] /\ UNCHANGED << os, overtaken >>
  BY DEF StartThrows
<1> HIDE DEF c
<1>3. CalmToo(q, c)
  <2> DEFINE e == [c EXCEPT !.eval["start"] = Idle]
             w == [e EXCEPT !.awaiting = FALSE]
  <2>1. CalmToo(e, c)
    BY <1>1, EvalCalm, IdleIs DEF Timers
  <2>2. q = w
    BY <1>1 DEF StateObject
  <2> HIDE DEF e, q
  <2>3. e \in StateObject
    BY <2>1 DEF CalmToo, Calm
  <2>4. /\ w \in StateObject /\ w.job = e.job /\ w.proc = e.proc /\ w.eval = e.eval
        /\ w.start = e.start /\ w.stop = e.stop
    BY <2>3 DEF StateObject
  <2> HIDE DEF w
  <2>5. CalmToo(w, e)
    BY <2>3, <2>4, FieldsCalm
  <2> QED BY <2>1, <2>2, <2>5, CalmChainToo
<1> HIDE DEF q
<1>4. q \in StateObject
  BY <1>3 DEF CalmToo, Calm
<1>5. CalmToo(b, q)
  BY <1>4, StopCalm DEF Stoppers
<1> HIDE DEF b
<1>6. b \in StateObject
  BY <1>5 DEF CalmToo, Calm
<1>7. CalmToo(x, b)
  <2>1. /\ x \in StateObject /\ x.job = b.job /\ x.proc = b.proc /\ x.eval = b.eval
        /\ x.start = "cleanup" /\ x.stop = b.stop
    BY <1>6 DEF StateObject
  <2> HIDE DEF x
  <2> QED BY <1>6, <2>1, FieldsCalm
<1>8. CalmToo(y, q)
  <2>1. /\ y \in StateObject /\ y.job = q.job /\ y.proc = q.proc /\ y.eval = q.eval
        /\ y.start = "ended" /\ y.stop = q.stop
    BY <1>4 DEF StateObject
  <2> HIDE DEF y
  <2> QED BY <1>4, <2>1, FieldsCalm
<1> HIDE DEF x, y
<1>9. CalmToo(x, c) /\ CalmToo(y, c)
  BY <1>3, <1>5, <1>7, <1>8, CalmChainToo
<1>10. SameMiners /\ SameEntries(s) /\ SameQuit /\ overtaken' \in BOOLEAN
  <2>1. os' \in {os, Tells(c.proc)}
    BY <1>2
  <2>2. SameMiners
    BY <2>1, MinersTold
  <2>3. (overtaken => overtaken') /\ overtaken' \in BOOLEAN
    BY <1>2, Typed DEF Overtakes
  <2> QED BY <2>2, <2>3 DEF SameEntries, SameQuit
<1> QED BY <1>2, <1>9, <1>10, CalmTooStep DEF c

LEMMA ProbeEndsStep == ASSUME IInv, NEW s \in States, ProbeEnds(s) PROVE IInv'
<1> DEFINE c == st[s]
           x == [c EXCEPT !.awaiting = FALSE, !.start = "ended"]
<1>1. Up /\ UNCHANGED << running, owner, handler, away, quit, allowQuit >>
  BY DEF ProbeEnds
<1>2. CASE StartThrows(s, st[s])
  BY <1>1, <1>2, StartThrowsStep
<1>3. CASE st' = [st EXCEPT ![s] = x] /\ UNCHANGED << os, overtaken >>
  <2>1. c \in StateObject
    BY Typed
  <2> HIDE DEF c
  <2>2. CalmToo(x, c)
    <3>1. /\ x \in StateObject /\ x.job = c.job /\ x.proc = c.proc /\ x.eval = c.eval
          /\ x.start = "ended" /\ x.stop = c.stop
      BY <2>1 DEF StateObject
    <3> HIDE DEF x
    <3> QED BY <2>1, <3>1, FieldsCalm
  <2> HIDE DEF x
  <2> QED BY <1>1, <1>3, <2>2, CalmTooStep, MinersStay, Typed DEF c, SameEntries, SameQuit
<1>4. \/ StartThrows(s, st[s])
      \/ st' = [st EXCEPT ![s] = x] /\ UNCHANGED << os, overtaken >>
  BY DEF ProbeEnds
<1> QED BY <1>2, <1>3, <1>4

\* An evaluation goes on to a point where it has launched nothing.
LEMMA AtCalm ==
    ASSUME NEW c \in StateObject, NEW by \in Timers, NEW point, point # "launch",
           [at |-> point, p |-> c.eval[by].p] \in Evaluation
    PROVE  CalmToo([c EXCEPT !.eval[by].at = point], c)
<1> DEFINE e == [at |-> point, p |-> c.eval[by].p]
           x == [c EXCEPT !.eval[by] = e]
           y == [c EXCEPT !.eval[by].at = point]
<1>1. CalmToo(x, c)
  BY EvalCalm
<1>2. c.eval \in [Timers -> Evaluation]
  BY DEF StateObject
<1>3. [c.eval[by] EXCEPT !.at = point] = e
  BY <1>2 DEF Evaluation
<1>4. y = x
  BY <1>2, <1>3 DEF StateObject
<1> QED BY <1>1, <1>4

LEMMA LaunchFailsStep ==
    ASSUME IInv, NEW s \in States, NEW by \in Timers, LaunchFails(s, by) PROVE IInv'
<1> DEFINE c == st[s]
           x == [c EXCEPT !.eval[by].at = "fail"]
<1>1. Up /\ UNCHANGED << running, owner, handler, away, quit, allowQuit >>
  BY DEF LaunchFails
<1>2. CASE by = "start"
  <2>1. StartThrows(s, st[s])
    BY <1>2 DEF LaunchFails
  <2> QED BY <1>1, <2>1, StartThrowsStep
<1>3. CASE by # "start"
  <2>1. st' = [st EXCEPT ![s] = x] /\ UNCHANGED << os, overtaken >>
    BY <1>3 DEF LaunchFails
  <2>2. c \in StateObject
    BY Typed
  <2> HIDE DEF c
  <2>3. [at |-> "fail", p |-> c.eval[by].p] \in Evaluation
    BY <2>2 DEF StateObject, Evaluation
  <2>4. CalmToo(x, c)
    BY <2>2, <2>3, AtCalm
  <2> HIDE DEF x
  <2> QED BY <1>1, <2>1, <2>4, CalmTooStep, MinersStay, Typed DEF c, SameEntries, SameQuit
<1> QED BY <1>2, <1>3

LEMMA AnnouncedStep ==
    ASSUME IInv, NEW s \in States, NEW by \in Timers, Announced(s, by) PROVE IInv'
<1> DEFINE c == st[s]
           e == [c EXCEPT !.eval[by] = Idle]
           q == [c EXCEPT !.eval[by] = Idle, !.guard = TRUE]
           x == [q EXCEPT !.start = "probing"]
           y == [q EXCEPT !.awaiting = FALSE, !.start = "ended"]
<1>1. /\ Up /\ st' \in {[st EXCEPT ![s] = q], [st EXCEPT ![s] = x], [st EXCEPT ![s] = y]}
      /\ UNCHANGED << running, os, owner, handler, away, quit, allowQuit, overtaken >>
  BY DEF Announced
<1>2. c \in StateObject
  BY Typed
<1> HIDE DEF c
<1>3. CalmToo(e, c)
  BY <1>2, EvalCalm, IdleIs
<1>4. q = [e EXCEPT !.guard = TRUE]
  OBVIOUS
<1> HIDE DEF e, q
<1>5. e \in StateObject
  BY <1>3 DEF CalmToo, Calm
<1>6. CalmToo(q, e)
  <2>1. /\ q \in StateObject /\ q.job = e.job /\ q.proc = e.proc /\ q.eval = e.eval
        /\ q.start = e.start /\ q.stop = e.stop
    BY <1>4, <1>5 DEF StateObject
  <2> QED BY <1>5, <2>1, FieldsCalm
<1>7. q \in StateObject
  BY <1>6 DEF CalmToo, Calm
<1>8. CalmToo(x, q)
  <2>1. /\ x \in StateObject /\ x.job = q.job /\ x.proc = q.proc /\ x.eval = q.eval
        /\ x.start = "probing" /\ x.stop = q.stop
    BY <1>7 DEF StateObject
  <2> HIDE DEF x
  <2> QED BY <1>7, <2>1, FieldsCalm
<1>9. CalmToo(y, q)
  <2>1. /\ y \in StateObject /\ y.job = q.job /\ y.proc = q.proc /\ y.eval = q.eval
        /\ y.start = "ended" /\ y.stop = q.stop
    BY <1>7 DEF StateObject
  <2> HIDE DEF y
  <2> QED BY <1>7, <2>1, FieldsCalm
<1> HIDE DEF x, y
<1>10. CalmToo(q, c) /\ CalmToo(x, c) /\ CalmToo(y, c)
  BY <1>3, <1>6, <1>8, <1>9, CalmChainToo
<1> QED BY <1>1, <1>10, CalmTooStep, MinersStay, Typed DEF c, SameEntries, SameQuit

LEMMA PauseTellsStep ==
    ASSUME IInv, NEW s \in States, NEW by \in Timers, PauseTells(s, by) PROVE IInv'
<1> DEFINE c == st[s]
           x == [c EXCEPT !.eval[by].at = "fail"]
           y == [c EXCEPT !.eval[by] = [at |-> "stop", p |-> c.proc]]
<1>1. /\ Up /\ UNCHANGED << running, owner, handler, away, quit, allowQuit, overtaken >>
      /\ st' \in {[st EXCEPT ![s] = x], [st EXCEPT ![s] = y]}
      /\ os' \in {os, Tells(c.proc)}
  BY DEF PauseTells
<1>2. c \in StateObject
  BY Typed
<1> HIDE DEF c
<1>3. CalmToo(x, c)
  <2>1. [at |-> "fail", p |-> c.eval[by].p] \in Evaluation
    BY <1>2 DEF StateObject, Evaluation
  <2> QED BY <1>2, <2>1, AtCalm
<1>4. CalmToo(y, c)
  <2>1. [at |-> "stop", p |-> c.proc] \in Evaluation
    BY <1>2 DEF StateObject, Evaluation
  <2> QED BY <1>2, <2>1, EvalCalm
<1> HIDE DEF x, y
<1>5. SameMiners /\ SameEntries(s) /\ SameQuit /\ overtaken' \in BOOLEAN
  BY <1>1, MinersTold, Typed DEF SameEntries, SameQuit
<1> QED BY <1>1, <1>3, <1>4, <1>5, CalmTooStep DEF c

\* stop() rejects: the miner goes on.
LEMMA MinersRevive ==
    ASSUME IInv, NEW q, Lives(q), os' = [os EXCEPT ![q] = "alive"], UNCHANGED << owner, handler >>
    PROVE  SameMiners
  BY Typed DEF SameMiners, Lives

LEMMA PauseEndsStep ==
    ASSUME IInv, NEW s \in States, NEW by \in Timers, PauseEnds(s, by) PROVE IInv'
<1> DEFINE c == st[s]
           q == c.eval[by].p
           x == [c EXCEPT !.eval[by] = Idle]
           y == [c EXCEPT !.eval[by] = [at |-> "fail", p |-> Nobody]]
<1>1. /\ Up /\ UNCHANGED << running, owner, handler, away, quit, allowQuit, overtaken >>
      /\ \/ st' = [st EXCEPT ![s] = x] /\ os' = os
         \/ st' = [st EXCEPT ![s] = y] /\ Lives(q) /\ os' = [os EXCEPT ![q] = "alive"]
  BY DEF PauseEnds
<1>2. c \in StateObject
  BY Typed
<1> HIDE DEF c, q
<1>3. CalmToo(x, c)
  BY <1>2, EvalCalm, IdleIs
<1>4. CalmToo(y, c)
  <2>1. [at |-> "fail", p |-> Nobody] \in Evaluation
    BY DEF Evaluation
  <2> QED BY <1>2, <2>1, EvalCalm
<1> HIDE DEF x, y
<1>5. SameMiners /\ SameEntries(s) /\ SameQuit /\ overtaken' \in BOOLEAN
  BY <1>1, MinersStay, MinersRevive, Typed DEF SameEntries, SameQuit
<1> QED BY <1>1, <1>3, <1>4, <1>5, CalmTooStep DEF c

LEMMA EvaluationFailsStep ==
    ASSUME IInv, NEW s \in States, NEW by \in Timers, EvaluationFails(s, by) PROVE IInv'
<1> DEFINE c == st[s]
           x == [c EXCEPT !.eval[by] = Idle]
<1>1. /\ Up /\ st' = [st EXCEPT ![s] = x] /\ Removed(s) /\ Overtakes(RemovesAnother(s))
      /\ UNCHANGED << os, owner, handler, away, quit, allowQuit >>
  BY DEF EvaluationFails
<1>2. c \in StateObject
  BY Typed
<1> HIDE DEF c
<1>3. CalmToo(x, c)
  BY <1>2, EvalCalm, IdleIs
<1> HIDE DEF x
<1>4. overtaken' \in BOOLEAN
  BY <1>1, Typed DEF Overtakes
<1> QED BY <1>1, <1>3, <1>4, CalmTooStep, MinersStay DEF c, SameEntries, SameQuit

LEMMA StopJobStep == ASSUME IInv, NEW j \in Jobs, StopJob(j) PROVE IInv'
<1> DEFINE s == running[j]
           c == st[s]
           x == StopBegins(c, "user")
<1>1. /\ Up /\ s \in States /\ st' = [st EXCEPT ![s] = x] /\ os' \in {os, Tells(c.proc)}
      /\ Overtakes(Launching(s))
      /\ UNCHANGED << running, owner, handler, away, quit, allowQuit >>
  BY Typed DEF StopJob
<1>2. c \in StateObject
  BY <1>1, Typed
<1> HIDE DEF s, c
<1>3. CalmToo(x, c)
  BY <1>2, StopCalm DEF Stoppers
<1> HIDE DEF x
<1>4. overtaken' \in BOOLEAN /\ (overtaken => overtaken')
  BY <1>1, Typed DEF Overtakes, Launching
<1>5. SameMiners /\ SameEntries(s) /\ SameQuit
  BY <1>1, <1>4, MinersTold DEF SameEntries, SameQuit
<1> QED BY <1>1, <1>3, <1>4, <1>5, CalmTooStep DEF c

\* A call of stopJob goes on, or returns.
LEMMA StopAtCalm ==
    ASSUME NEW c \in StateObject, NEW by \in Stoppers, NEW v \in Stopping
    PROVE  /\ Calm([c EXCEPT !.stop[by] = v], c)
           /\ v # Idle \/ by # "all" => CalmToo([c EXCEPT !.stop[by] = v], c)
<1> DEFINE x == [c EXCEPT !.stop[by] = v]
<1>1. c.stop \in [Stoppers -> Stopping] /\ [c.stop EXCEPT ![by] = v] \in [Stoppers -> Stopping]
  BY DEF StateObject
<1>2. /\ x \in StateObject /\ x.job = c.job /\ x.proc = c.proc /\ x.eval = c.eval
      /\ x.start = c.start /\ x.stop = [c.stop EXCEPT ![by] = v]
  BY <1>1 DEF StateObject
<1> HIDE DEF x
<1>3. Calm(x, c) /\ (v # Idle \/ by # "all" => CalmToo(x, c))
  BY <1>1, <1>2 DEF CalmToo, Calm, LaunchTimers, Stoppers
<1> QED BY <1>3 DEF x

LEMMA ReturnsCalm ==
    ASSUME NEW c \in StateObject, NEW by \in Stoppers
    PROVE  /\ Calm(StopReturns(c, by), c)
           /\ by # "all" => CalmToo(StopReturns(c, by), c)
<1> DEFINE b == [c EXCEPT !.stop[by] = Idle]
           f == IF by = "cleanup" THEN "ended" ELSE b.start
           x == [b EXCEPT !.start = f]
<1>1. Calm(b, c) /\ (by # "all" => CalmToo(b, c))
  BY StopAtCalm, IdleIs
<1>2. StopReturns(c, by) = x
  BY DEF StopReturns, StateObject
<1> HIDE DEF b
<1>3. b \in StateObject
  BY <1>1 DEF Calm
<1>4. /\ x \in StateObject /\ x.job = b.job /\ x.proc = b.proc /\ x.eval = b.eval
      /\ x.start \in {"ended", b.start} /\ x.stop = b.stop
  BY <1>3 DEF StateObject
<1> HIDE DEF x
<1>5. CalmToo(x, b)
  BY <1>3, <1>4, FieldsCalm
<1> QED BY <1>1, <1>2, <1>5, CalmChain, CalmChainToo DEF CalmToo

LEMMA MinerStoppedStep ==
    ASSUME IInv, NEW s \in States, NEW by \in Stoppers, MinerStopped(s, by) PROVE IInv'
<1> DEFINE c == st[s]
           v == [at |-> "exit", p |-> c.exit]
           x == [c EXCEPT !.stop[by] = v]
<1>1. /\ Up /\ st' = [st EXCEPT ![s] = x]
      /\ UNCHANGED << running, os, owner, handler, away, quit, allowQuit, overtaken >>
  BY DEF MinerStopped
<1>2. c \in StateObject
  BY Typed
<1> HIDE DEF c
<1>3. v \in Stopping /\ v # Idle
  BY <1>2 DEF StateObject, Stopping, Idle
<1>4. CalmToo(x, c)
  BY <1>2, <1>3, StopAtCalm
<1> HIDE DEF x
<1> QED BY <1>1, <1>4, CalmTooStep, MinersStay, Typed DEF c, SameEntries, SameQuit

\* A call of stopJob rejects.
LEMMA StopRejectsStep ==
    ASSUME IInv, NEW s \in States, NEW by \in Stoppers, StopRejects(s, by), Up, SameMiners
    PROVE  IInv'
<1> DEFINE c == st[s]
           b == StopReturns(c, by)
           g == b.guard \/ Entered(s)
           x == [b EXCEPT !.stopping = FALSE, !.guard = g]
<1>1. /\ st' = [st EXCEPT ![s] = x]
      /\ quit' = IF by = "all" THEN "failing" ELSE quit
      /\ IF by = "cleanup" THEN Removed(s) /\ Overtakes(RemovesAnother(s))
         ELSE UNCHANGED << running, overtaken >>
      /\ UNCHANGED << away, allowQuit >>
  BY DEF StopRejects
<1>2. c \in StateObject
  BY Typed
<1> HIDE DEF c
<1>3. Calm(b, c) /\ (by # "all" => CalmToo(b, c))
  BY <1>2, ReturnsCalm
<1> HIDE DEF b
<1>4. b \in StateObject
  BY <1>3 DEF Calm
<1>5. g \in BOOLEAN
  BY <1>4 DEF Entered, StateObject
<1> HIDE DEF g
<1>6. CalmToo(x, b)
  <2>1. /\ x \in StateObject /\ x.job = b.job /\ x.proc = b.proc /\ x.eval = b.eval
        /\ x.start = b.start /\ x.stop = b.stop
    BY <1>4, <1>5 DEF StateObject
  <2> HIDE DEF x
  <2> QED BY <1>4, <2>1, FieldsCalm
<1> HIDE DEF x
<1>7. Calm(x, c) /\ (by # "all" => CalmToo(x, c))
  BY <1>3, <1>6, CalmChain, CalmChainToo DEF CalmToo
<1>8. OneChanges(s) /\ st'[s] = x
  BY <1>1, <1>7, Replaced DEF Calm
<1>9. SameEntries(s) /\ SameQuit /\ overtaken' \in BOOLEAN
  <2>2. SameEntries(s) /\ overtaken' \in BOOLEAN
    BY <1>1, Typed DEF SameEntries, Overtakes
  <2>3. SameQuit
    BY <1>1 DEF SameQuit, Up
  <2> QED BY <2>2, <2>3
<1>10. Calm(st'[s], st[s]) /\ (CalmToo(st'[s], st[s]) \/ quit' = "failing")
  BY <1>1, <1>7, <1>8 DEF c
<1> QED BY <1>8, <1>9, <1>10, CalmStep

LEMMA MinerStaysStep ==
    ASSUME IInv, NEW s \in States, NEW by \in Stoppers, MinerStays(s, by) PROVE IInv'
<1> DEFINE q == st[s].stop[by].p
<1>1. /\ Up /\ StopRejects(s, by) /\ Lives(q) /\ os' = [os EXCEPT ![q] = "alive"]
      /\ UNCHANGED << owner, handler >>
  BY DEF MinerStays, StopRejects
<1> HIDE DEF q
<1>2. SameMiners
  BY <1>1, MinersRevive
<1> QED BY <1>1, <1>2, StopRejectsStep

LEMMA StopUncleanedStep ==
    ASSUME IInv, NEW s \in States, NEW by \in Stoppers, StopUncleaned(s, by) PROVE IInv'
<1>1. Up /\ StopRejects(s, by) /\ UNCHANGED << os, owner, handler >>
  BY DEF StopUncleaned, StopRejects
<1> QED BY <1>1, MinersStay, StopRejectsStep

LEMMA ExitAwaitedStep ==
    ASSUME IInv, NEW s \in States, NEW by \in Stoppers, ExitAwaited(s, by) PROVE IInv'
<1> DEFINE c == st[s]
           v == [at |-> "close", p |-> c.stop[by].p]
           x == [c EXCEPT !.stop[by] = v]
           y == [c EXCEPT !.stop[by].at = "close"]
           b == StopReturns(c, by)
<1>1. /\ Up /\ UNCHANGED << running, os, owner, handler, away, quit, allowQuit, overtaken >>
      /\ st' = [st EXCEPT ![s] = IF Entered(s) THEN y ELSE b]
  BY Typed DEF ExitAwaited
<1>2. c \in StateObject
  BY Typed
<1>3. SameMiners /\ SameEntries(s) /\ SameQuit /\ overtaken' \in BOOLEAN
  BY <1>1, MinersStay, Typed DEF SameEntries, SameQuit
<1> HIDE DEF c
<1>4. CASE Entered(s)
  <2>1. c.stop \in [Stoppers -> Stopping]
    BY <1>2 DEF StateObject
  <2>2. [c.stop[by] EXCEPT !.at = "close"] = v /\ v \in Stopping /\ v # Idle
    BY <2>1 DEF Stopping, Idle
  <2>3. y = x
    BY <1>2, <2>1, <2>2 DEF StateObject
  <2>4. CalmToo(x, c)
    BY <1>2, <2>2, StopAtCalm
  <2>5. st' = [st EXCEPT ![s] = x]
    BY <1>1, <1>4, <2>3
  <2> HIDE DEF x
  <2> QED BY <1>1, <1>3, <2>4, <2>5, CalmTooStep DEF c
<1>5. CASE ~ Entered(s)
  <2>1. Calm(b, c)
    BY <1>2, ReturnsCalm
  <2>2. st' = [st EXCEPT ![s] = b]
    BY <1>1, <1>5
  <2> HIDE DEF b
  <2>3. OneChanges(s) /\ st'[s] = b
    BY <2>1, <2>2, Replaced DEF Calm
  <2>4. Calm(st'[s], st[s]) /\ ~ Entered(s)'
    BY <1>1, <1>5, <2>1, <2>3 DEF c, Calm, Entered
  <2> QED BY <1>1, <1>3, <2>3, <2>4, CalmStep
<1> QED BY <1>4, <1>5

LEMMA StopClosesStep ==
    ASSUME IInv, NEW s \in States, NEW by \in Stoppers, StopCloses(s, by) PROVE IInv'
<1> DEFINE c == st[s]
           b == StopReturns(c, by)
<1>1. /\ Up /\ UNCHANGED << os, owner, handler, away, quit, allowQuit >>
      /\ st' = [st EXCEPT ![s] = b] /\ Removed(s) /\ Overtakes(RemovesAnother(s))
  BY Typed DEF StopCloses
<1>2. c \in StateObject
  BY Typed
<1> HIDE DEF c
<1>3. Calm(b, c)
  BY <1>2, ReturnsCalm
<1> HIDE DEF b
<1>4. OneChanges(s) /\ st'[s] = b
  BY <1>1, <1>3, Replaced DEF Calm
<1>5. Calm(st'[s], st[s])
  BY <1>3, <1>4 DEF c
<1>6. ~ Entered(s)'
  <2>1. st[s].job \in Jobs \cup {Nobody} /\ st'[s].job = st[s].job
    BY <1>2, <1>5 DEF c, StateObject, Calm
  <2>2. st[s].job \in Jobs => running'[st[s].job] = Nobody
    BY <1>1, Typed DEF Removed
  <2> QED BY <2>1, <2>2 DEF Entered
<1>7. SameMiners /\ SameEntries(s) /\ SameQuit /\ overtaken' \in BOOLEAN
  BY <1>1, MinersStay, Typed DEF SameEntries, SameQuit, Overtakes
<1> QED BY <1>1, <1>4, <1>5, <1>6, <1>7, CalmStep

LEMMA ExitHandledStep == ASSUME IInv, NEW p \in Miners, ExitHandled(p) PROVE IInv'
<1> DEFINE s == owner[p]
           c == st[s]
           x == AfterExit(c)
<1>1. /\ Up /\ handler[p] = "settled" /\ handler' = [handler EXCEPT ![p] = "done"]
      /\ UNCHANGED << os, owner, away, quit, allowQuit >>
      /\ \/ Removed(s) /\ Overtakes(RemovesAnother(s)) /\ st' = st
         \/ /\ st' = [st EXCEPT ![s] = x] /\ UNCHANGED << running, overtaken >>
            /\ c.pausing \/ ~ GivenUp(c)
  BY Typed DEF ExitHandled
<1>2. os[p] # "unborn" /\ s \in States
  BY <1>1 DEF IInv, Owned
<1>3. c \in StateObject
  BY <1>2, Typed
<1>4. SameMiners
  BY <1>1, <1>2, Typed DEF SameMiners, Lives
<1>5. SameEntries(s) /\ SameQuit /\ overtaken' \in BOOLEAN
  <2> HIDE DEF s, c, x
  <2>1. SameEntries(s)
    BY <1>1 DEF SameEntries
  <2>2. overtaken' \in BOOLEAN
    BY <1>1, Typed DEF Overtakes
  <2> QED BY <1>1, <2>1, <2>2 DEF SameQuit
<1>6. CASE st' = st
  <2>1. st' = [st EXCEPT ![s] = c]
    BY <1>6, Typed
  <2> HIDE DEF s
  <2>2. CalmToo(c, c)
    BY <1>3, CalmItself
  <2> QED BY <1>1, <1>2, <1>4, <1>5, <2>1, <2>2, CalmTooStep
<1>7. CASE st' = [st EXCEPT ![s] = x] /\ (c.pausing \/ ~ GivenUp(c))
  <2> HIDE DEF s, c
  <2>1. CalmToo(x, c)
    <3>1. CASE c.pausing
      <4> DEFINE y == [c EXCEPT !.pausing = FALSE, !.guard = TRUE]
      <4>1. x = y
        BY <3>1 DEF AfterExit
      <4>2. /\ y \in StateObject /\ y.job = c.job /\ y.proc = c.proc /\ y.eval = c.eval
            /\ y.start = c.start /\ y.stop = c.stop
        BY <1>3 DEF StateObject
      <4> HIDE DEF x, y
      <4> QED BY <1>3, <4>1, <4>2, FieldsCalm
    <3>2. CASE ~ c.pausing
      <4> DEFINE y == [c EXCEPT !.crashes = c.crashes + 1, !.restart = TRUE]
      <4>1. x = y
        BY <3>2 DEF AfterExit
      <4>2. c.crashes + 1 \in 0 .. RestartLimit
        BY <1>3, <1>7, <3>2 DEF GivenUp, StateObject
      <4>3. /\ y \in StateObject /\ y.job = c.job /\ y.proc = c.proc /\ y.eval = c.eval
            /\ y.start = c.start /\ y.stop = c.stop
        BY <1>3, <4>2 DEF StateObject
      <4> HIDE DEF x, y
      <4> QED BY <1>3, <4>1, <4>3, FieldsCalm
    <3> QED BY <3>1, <3>2
  <2> HIDE DEF x
  <2> QED BY <1>1, <1>2, <1>4, <1>5, <1>7, <2>1, CalmTooStep DEF c
<1> QED BY <1>1, <1>6, <1>7

LEMMA CleanupFailsStep == ASSUME IInv, NEW p \in Miners, CleanupFails(p) PROVE IInv'
<1>1. /\ Up /\ handler[p] = "settled" /\ handler' = [handler EXCEPT ![p] = "done"]
      /\ st' = [st EXCEPT ![owner[p]].uncleaned = TRUE]
      /\ UNCHANGED << running, os, owner, away, quit, allowQuit, overtaken >>
  BY DEF CleanupFails
<1>2. PICK s \in States : s = owner[p]
  BY <1>1 DEF IInv, Owned
<1> DEFINE x == [st[s] EXCEPT !.uncleaned = TRUE]
<1>3. st' = [st EXCEPT ![s] = x]
  BY <1>1, <1>2
<1>4. SameMiners /\ SameEntries(s) /\ SameQuit /\ overtaken' \in BOOLEAN
  BY <1>1, Typed DEF SameMiners, Lives, SameEntries, SameQuit, IInv, Owned
<1>5. CalmToo(x, st[s])
  <2>1. st[s] \in StateObject
    BY Typed
  <2>2. /\ x \in StateObject /\ x.job = st[s].job /\ x.proc = st[s].proc
        /\ x.eval = st[s].eval /\ x.start = st[s].start /\ x.stop = st[s].stop
    BY <2>1 DEF StateObject
  <2> HIDE DEF x
  <2> QED BY <2>1, <2>2, FieldsCalm
<1> HIDE DEF x
<1> QED BY <1>1, <1>3, <1>4, <1>5, CalmTooStep

\* A launch begins for an entry without a miner.
LEMMA LaunchStep ==
    ASSUME IInv, NEW s \in States, OneChanges(s), NEW by \in Timers, Up,
           st'[s].job = st[s].job, st[s].proc = Nobody, st'[s].proc = Nobody, Entered(s),
           LaunchTimers(st'[s]) \subseteq LaunchTimers(st[s]) \cup {by},
           st'[s].start = "checking" => st[s].start = "checking",
           st'[s].stop["all"] = Idle => st[s].stop["all"] = Idle,
           Overtakes(Launching(s)),
           UNCHANGED << running, os, owner, handler, away, quit, allowQuit >>
    PROVE  IInv'
<1>1. TypeOK' /\ Owned'
  <2>1. overtaken' \in BOOLEAN
    BY Typed DEF Overtakes
  <2> QED BY <2>1 DEF IInv, TypeOK, Owned, OneChanges
<1>2. ASSUME ~ overtaken' PROVE Held' /\ Launches' /\ Quits'
  <2>1. Held /\ Launches /\ Quits /\ ~ Launching(s)
    BY <1>2 DEF Overtakes, IInv
  <2>2. \A t \in States : st'[t].job = st[t].job /\ st'[t].proc = st[t].proc
    BY DEF OneChanges
  <2>3. \A t \in States : Entered(t)' <=> Entered(t)
    BY <2>2 DEF Entered
  <2>4. Held'
    <3>1. ASSUME NEW p \in Miners, Lives(p)'
          PROVE  Entered(owner[p])' /\ st'[owner'[p]].proc = p
      <4>1. Lives(p) /\ owner[p] \in States
        BY <3>1 DEF Lives, IInv, Owned
      <4> QED BY <2>1, <2>2, <2>3, <4>1 DEF Held
    <3>2. ASSUME NEW p \in Miners, handler'[p] = "flushing"
          PROVE  st'[owner'[p]].proc = p
      <4>1. owner[p] \in States
        BY <3>2 DEF IInv, Owned
      <4> QED BY <2>1, <2>2, <3>2, <4>1 DEF Held
    <3> QED BY <3>1, <3>2 DEF Held, Up
  <2>5. LaunchTimers(st[s]) = {}
    BY <2>1 DEF Launching, LaunchTimers
  <2>6. Launches'
    <3>1. ASSUME NEW t \in States, t # s
          PROVE  /\ Launching(t)' => Entered(t)' /\ st'[t].proc = Nobody
                 /\ \A u, v \in LaunchTimers(st'[t]) : u = v
                 /\ st'[t].start = "checking" =>
                       ~ Entered(t)' /\ st'[t].proc = Nobody /\ st'[t].job # Nobody
      <4>1. st'[t] = st[t]
        BY <3>1 DEF OneChanges
      <4>2. Launching(t)' => Launching(t)
        BY <4>1 DEF Launching
      <4> QED BY <2>1, <2>3, <4>1, <4>2 DEF Launches
    <3>2. /\ Entered(s)' /\ st'[s].proc = Nobody
          /\ \A u, v \in LaunchTimers(st'[s]) : u = v
          /\ st'[s].start # "checking"
      BY <2>1, <2>3, <2>5 DEF Launches
    <3> QED BY <3>1, <3>2 DEF Launches, LaunchTimers
  <2>7. Quits'
    BY <2>1, <2>3 DEF Quits, Managed, OneChanges
  <2> QED BY <2>4, <2>6, <2>7
<1> QED BY <1>1, <1>2 DEF IInv

\* A timer of the guard, or of a restart, has gone off.
LEMMA EvaluateStep ==
    ASSUME IInv, NEW s \in States, NEW by \in Timers, NEW q, CalmToo(q, st[s]), Up,
           Evaluate(s, by, q),
           UNCHANGED << running, os, owner, handler, away, quit, allowQuit >>
    PROVE  IInv'
<1> DEFINE c == st[s]
           launch == [q EXCEPT !.eval[by].at = "launch"]
           log == [q EXCEPT !.pausing = TRUE, !.eval[by].at = "log"]
           again == [q EXCEPT !.guard = TRUE]
<1>1. \/ /\ st' \in {[st EXCEPT ![s] = q], [st EXCEPT ![s] = log], [st EXCEPT ![s] = again]}
         /\ \/ UNCHANGED overtaken
            \/ \E condition \in BOOLEAN : Overtakes(condition)
      \/ /\ st' = [st EXCEPT ![s] = launch] /\ q.proc = Nobody /\ Entered(s)
         /\ Overtakes(Launching(s))
  <2> DEFINE reason == runtimeGuardReason(q.job)
             launches == ~ reason /\ q.proc = Nobody
             pauses == reason /\ q.proc # Nobody
  <2>1. CASE ~ Entered(s) \/ q.stopping
    BY <2>1 DEF Evaluate
  <2>2. CASE Entered(s) /\ ~ q.stopping
    <3>1. /\ st' = [st EXCEPT ![s] =
                CASE launches -> launch
                  [] pauses /\ ~ q.pausing -> log
                  [] pauses /\ q.pausing -> q
                  [] OTHER -> again]
          /\ Overtakes(launches /\ Launching(s))
      BY <2>2 DEF Evaluate
    <3>2. launches => ~ pauses
      OBVIOUS
    <3> HIDE DEF launch, log, again, pauses
    <3>3. CASE launches
      <4>1. st' = [st EXCEPT ![s] = launch] /\ Overtakes(Launching(s))
        BY <3>1, <3>2, <3>3 DEF Overtakes
      <4> QED BY <2>2, <3>3, <4>1
    <3>4. CASE ~ launches
      <4>1. Overtakes(FALSE)
        BY <3>1, <3>4 DEF Overtakes
      <4> HIDE DEF launches
      <4>2. st' \in {[st EXCEPT ![s] = q], [st EXCEPT ![s] = log], [st EXCEPT ![s] = again]}
        BY <3>1, <3>4
      <4> QED BY <4>1, <4>2
    <3> QED BY <3>3, <3>4
  <2> QED BY <2>1, <2>2
<1>2. c \in StateObject /\ q \in StateObject
  BY Typed DEF CalmToo, Calm
<1> HIDE DEF c
<1>3. CalmToo(again, q)
  <2>1. /\ again \in StateObject /\ again.job = q.job /\ again.proc = q.proc
        /\ again.eval = q.eval /\ again.start = q.start /\ again.stop = q.stop
    BY <1>2 DEF StateObject
  <2> HIDE DEF again
  <2> QED BY <1>2, <2>1, FieldsCalm
<1>4. CalmToo(log, q)
  <2> DEFINE b == [q EXCEPT !.pausing = TRUE]
  <2>1. /\ b \in StateObject /\ b.job = q.job /\ b.proc = q.proc /\ b.eval = q.eval
        /\ b.start = q.start /\ b.stop = q.stop
    BY <1>2 DEF StateObject
  <2>2. log = [b EXCEPT !.eval[by].at = "log"]
    OBVIOUS
  <2> HIDE DEF b, log
  <2>3. CalmToo(b, q)
    BY <1>2, <2>1, FieldsCalm
  <2>4. [at |-> "log", p |-> b.eval[by].p] \in Evaluation
    BY <2>1 DEF StateObject, Evaluation
  <2>5. CalmToo(log, b)
    BY <2>1, <2>2, <2>4, AtCalm
  <2> QED BY <2>3, <2>5, CalmChainToo
<1>5. CASE /\ st' \in {[st EXCEPT ![s] = q], [st EXCEPT ![s] = log], [st EXCEPT ![s] = again]}
           /\ \/ UNCHANGED overtaken
              \/ \E condition \in BOOLEAN : Overtakes(condition)
  <2> HIDE DEF log, again
  <2>1. CalmToo(log, c) /\ CalmToo(again, c)
    BY <1>3, <1>4, CalmChainToo DEF c
  <2>2. (overtaken => overtaken') /\ overtaken' \in BOOLEAN
    BY <1>5, Typed DEF Overtakes
  <2>3. SameMiners /\ SameEntries(s) /\ SameQuit
    BY <2>2, MinersStay DEF SameEntries, SameQuit
  <2> QED BY <1>5, <2>1, <2>2, <2>3, CalmTooStep DEF c
<1>6. CASE /\ st' = [st EXCEPT ![s] = launch] /\ q.proc = Nobody /\ Entered(s)
           /\ Overtakes(Launching(s))
  <2> DEFINE e == [at |-> "launch", p |-> q.eval[by].p]
  <2>1. q.eval \in [Timers -> Evaluation]
    BY <1>2 DEF StateObject
  <2>2. e \in Evaluation /\ [q.eval[by] EXCEPT !.at = "launch"] = e
    BY <2>1 DEF Evaluation
  <2>3. [q.eval EXCEPT ![by] = e] \in [Timers -> Evaluation]
    BY <2>1, <2>2
  <2>4. /\ launch \in StateObject /\ launch.job = q.job /\ launch.proc = q.proc
        /\ launch.eval = [q.eval EXCEPT ![by] = e] /\ launch.start = q.start
        /\ launch.stop = q.stop
    BY <1>2, <2>1, <2>2, <2>3 DEF StateObject
  <2> HIDE DEF launch, e
  <2>5. LaunchTimers(launch) \subseteq LaunchTimers(q) \cup {by}
    BY <2>1, <2>4 DEF LaunchTimers
  <2>6. OneChanges(s) /\ st'[s] = launch
    BY <1>6, <2>4, Replaced
  <2> QED BY <1>6, <2>4, <2>5, <2>6, LaunchStep DEF CalmToo, Calm
<1> QED BY <1>1, <1>5, <1>6

LEMMA TimerStep ==
    ASSUME IInv, NEW s \in States, GuardTimer(s) \/ RestartTimer(s) PROVE IInv'
<1> DEFINE c == st[s]
           x == [c EXCEPT !.guard = FALSE]
           y == [c EXCEPT !.restart = FALSE]
<1>1. /\ Up /\ UNCHANGED << running, os, owner, handler, away, quit, allowQuit >>
      /\ Evaluate(s, "guard", x) \/ Evaluate(s, "restart", y)
  BY DEF GuardTimer, RestartTimer
<1>2. c \in StateObject
  BY Typed
<1> HIDE DEF c
<1>3. CalmToo(x, c)
  <2>1. /\ x \in StateObject /\ x.job = c.job /\ x.proc = c.proc /\ x.eval = c.eval
        /\ x.start = c.start /\ x.stop = c.stop
    BY <1>2 DEF StateObject
  <2> HIDE DEF x
  <2> QED BY <1>2, <2>1, FieldsCalm
<1>4. CalmToo(y, c)
  <2>1. /\ y \in StateObject /\ y.job = c.job /\ y.proc = c.proc /\ y.eval = c.eval
        /\ y.start = c.start /\ y.stop = c.stop
    BY <1>2 DEF StateObject
  <2> HIDE DEF y
  <2> QED BY <1>2, <2>1, FieldsCalm
<1> HIDE DEF x, y
<1> QED BY <1>1, <1>3, <1>4, EvaluateStep DEF c, Timers

LEMMA BlankIs ==
    /\ Blank \in StateObject /\ Blank.job = Nobody /\ Blank.proc = Nobody
    /\ LaunchTimers(Blank) = {} /\ Blank.start = "none"
<1>1. Idle.at # "launch" /\ Idle \in Evaluation /\ Idle \in Stopping
  BY IdleIs
<1>2. [t \in Timers |-> Idle] \in [Timers -> Evaluation] /\ [b \in Stoppers |-> Idle] \in [Stoppers -> Stopping]
  BY <1>1
<1>3. /\ Blank.job = Nobody /\ Blank.proc = Nobody /\ Blank.start = "none"
      /\ Blank.eval = [t \in Timers |-> Idle]
  BY DEF Blank
<1>4. Blank \in StateObject
  BY <1>2 DEF Blank, StateObject
<1> QED BY <1>1, <1>3, <1>4 DEF LaunchTimers

\* A step that no miner, timer or quit notices: one state object is used
\* anew, and is not entered before.
LEMMA StartJobStep ==
    ASSUME IInv, NEW s \in States, NEW j \in Jobs, StartJob(s, j) PROVE IInv'
<1> DEFINE x == [Blank EXCEPT !.job = j, !.start = "checking"]
<1>1. /\ Up /\ st[s] = Blank /\ running[j] = Nobody /\ st' = [st EXCEPT ![s] = x]
      /\ UNCHANGED << running, os, owner, handler, away, quit, allowQuit, overtaken >>
  <2>1. /\ st[s] = Blank /\ st' = [st EXCEPT ![s].job = j, ![s].start = "checking"]
    BY DEF StartJob
  <2>2. st' = [st EXCEPT ![s] = [st[s] EXCEPT !.job = j, !.start = "checking"]]
    BY <2>1, Typed
  <2> QED BY <2>1, <2>2 DEF StartJob
<1>2. /\ x \in StateObject /\ x.job = j /\ x.proc = Nobody /\ LaunchTimers(x) = {}
      /\ x.start = "checking"
  <2> DEFINE b == Blank
  <2>1. b \in StateObject /\ b.proc = Nobody /\ LaunchTimers(b) = {}
    BY BlankIs
  <2> HIDE DEF b
  <2> DEFINE y == [b EXCEPT !.job = j, !.start = "checking"]
  <2>2. /\ y \in StateObject /\ y.job = j /\ y.proc = b.proc /\ y.eval = b.eval
        /\ y.start = "checking"
    BY <2>1 DEF StateObject
  <2>3. x = y
    BY DEF b
  <2> HIDE DEF x, y
  <2> QED BY <2>1, <2>2, <2>3 DEF LaunchTimers
<1> HIDE DEF x
<1>3. OneChanges(s) /\ st'[s] = x
  BY <1>1, <1>2, Replaced
<1>4. TypeOK' /\ Owned'
  BY <1>1, <1>3 DEF IInv, TypeOK, Owned, OneChanges
<1>5. ASSUME ~ overtaken' PROVE Held' /\ Launches' /\ Quits'
  <2>1. Held /\ Launches /\ Quits
    BY <1>1, <1>5 DEF IInv
  <2>2. ~ Entered(s) /\ ~ Entered(s)' /\ st[s].proc = Nobody
    BY <1>1, <1>2, <1>3, BlankIs DEF Entered
  <2>3. \A t \in States \ {s} : /\ st'[t] = st[t] /\ Entered(t)' = Entered(t)
                                /\ Launching(t)' = Launching(t)
    BY <1>1, <1>3 DEF OneChanges, Entered, Launching
  <2>4. Held'
    <3>1. ASSUME NEW p \in Miners, Lives(p)' \/ handler'[p] = "flushing"
          PROVE  owner[p] \in States \ {s}
      <4>1. owner[p] \in States /\ st[owner[p]].proc = p
        BY <1>1, <2>1, <3>1 DEF IInv, Owned, Held, Lives
      <4> QED BY <2>2, <4>1
    <3>2. ASSUME NEW p \in Miners, Lives(p)'
          PROVE  Entered(owner[p])' /\ st'[owner'[p]].proc = p /\ Up'
      BY <1>1, <2>1, <2>3, <3>1, <3>2 DEF Held, Lives, Up
    <3>3. ASSUME NEW p \in Miners, handler'[p] = "flushing"
          PROVE  st'[owner'[p]].proc = p
      BY <1>1, <2>1, <2>3, <3>1, <3>3 DEF Held
    <3> QED BY <3>2, <3>3 DEF Held
  <2>5. Launches'
    <3>1. ~ Launching(s)'
      BY <1>2, <1>3 DEF Launching, LaunchTimers
    <3> QED BY <1>2, <1>3, <2>1, <2>2, <2>3, <3>1 DEF Launches, LaunchTimers
  <2>6. Quits'
    BY <1>1, <2>1, <2>2, <2>3 DEF Quits, Managed
  <2> QED BY <2>4, <2>5, <2>6
<1> QED BY <1>4, <1>5 DEF IInv

LEMMA RegisterStep == ASSUME IInv, NEW s \in States, Register(s) PROVE IInv'
<1> DEFINE c == st[s]
           j == c.job
           x == [c EXCEPT !.guard = TRUE, !.start = "ended"]
           y == [c EXCEPT !.awaiting = j \in Probed, !.start = "launching",
                          !.eval["start"].at = "launch"]
<1>1. /\ Up /\ c.start = "checking" /\ running' = [running EXCEPT ![j] = s]
      /\ st' = [st EXCEPT ![s] = IF runtimeGuardReason(j) THEN x ELSE y]
      /\ Overtakes(running[j] # Nobody \/ quit # "no" \/ allowQuit)
      /\ UNCHANGED << os, owner, handler, away, quit, allowQuit >>
  BY DEF Register
<1>2. c \in StateObject /\ c.eval \in [Timers -> Evaluation]
  BY Typed DEF StateObject
<1> HIDE DEF c
<1>3. /\ x \in StateObject /\ x.job = j /\ x.proc = c.proc /\ x.eval = c.eval
      /\ x.start = "ended"
  BY <1>2 DEF StateObject
<1>4. /\ y \in StateObject /\ y.job = j /\ y.proc = c.proc
      /\ LaunchTimers(y) \subseteq LaunchTimers(c) \cup {"start"} /\ y.start = "launching"
  <2> DEFINE e == [at |-> "launch", p |-> c.eval["start"].p]
             a == j \in Probed
  <2>1. e \in Evaluation /\ [c.eval["start"] EXCEPT !.at = "launch"] = e
    BY <1>2 DEF Evaluation, Timers
  <2> HIDE DEF e
  <2>2. [c.eval EXCEPT !["start"] = e] \in [Timers -> Evaluation] /\ a \in BOOLEAN
    <3>1. a \in BOOLEAN
      OBVIOUS
    <3> HIDE DEF a, x, y
    <3>2. [c.eval EXCEPT !["start"] = e] \in [Timers -> Evaluation]
      BY <1>2, <2>1
    <3> QED BY <3>1, <3>2
  <2> HIDE DEF a
  <2>3. y = [c EXCEPT !.awaiting = a, !.start = "launching", !.eval = [c.eval EXCEPT !["start"] = e]]
    BY <1>2, <2>1 DEF StateObject, a
  <2>4. /\ y \in StateObject /\ y.job = j /\ y.proc = c.proc
        /\ y.eval = [c.eval EXCEPT !["start"] = e] /\ y.start = "launching"
    BY <1>2, <2>2, <2>3 DEF StateObject
  <2> HIDE DEF y
  <2>5. LaunchTimers(y) \subseteq LaunchTimers(c) \cup {"start"}
    BY <1>2, <2>4 DEF LaunchTimers
  <2> QED BY <2>4, <2>5
<1> DEFINE z == IF runtimeGuardReason(j) THEN x ELSE y
<1>5. /\ z \in StateObject /\ z.job = j /\ z.proc = c.proc /\ z.start # "checking"
      /\ LaunchTimers(z) \subseteq LaunchTimers(c) \cup {"start"}
  <2>1. LaunchTimers(x) = LaunchTimers(c)
    BY <1>3 DEF LaunchTimers
  <2> HIDE DEF x, y
  <2> QED BY <1>3, <1>4, <2>1
<1> HIDE DEF x, y, z
<1>6. OneChanges(s) /\ st'[s] = z
  BY <1>1, <1>5, Replaced DEF z
<1>7. TypeOK' /\ Owned'
  <2>1. overtaken' \in BOOLEAN
    BY <1>1, Typed DEF Overtakes
  <2>2. running' \in [Jobs -> States \cup {Nobody}]
    BY <1>1, Typed
  <2> QED BY <1>1, <1>6, <2>1, <2>2 DEF IInv, TypeOK, Owned, OneChanges
<1>8. ASSUME ~ overtaken' PROVE Held' /\ Launches' /\ Quits'
  <2>1. /\ Held /\ Launches /\ Quits
        /\ running[j] = Nobody /\ quit = "no" /\ ~ allowQuit
    BY <1>1, <1>8 DEF Overtakes, IInv
  <2>2. ~ Entered(s) /\ c.proc = Nobody /\ j \in Jobs /\ ~ Launching(s)
    BY <1>1, <1>2, <2>1 DEF Launches, c, StateObject
  <2>3. Entered(s)'
    BY <1>1, <1>5, <1>6, <2>2, Typed DEF Entered
  <2>4. \A t \in States \ {s} : /\ st'[t] = st[t] /\ Entered(t)' = Entered(t)
                                /\ Launching(t)' = Launching(t)
    <3>1. ASSUME NEW t \in States \ {s} PROVE Entered(t)' = Entered(t)
      <4>1. st'[t] = st[t] /\ st[t].job \in Jobs \cup {Nobody}
        BY <1>6, Typed DEF OneChanges, StateObject
      <4>2. \A k \in Jobs : running'[k] = IF k = j THEN s ELSE running[k]
        BY <1>1, Typed
      <4> QED BY <2>1, <4>1, <4>2 DEF Entered
    <3> QED BY <1>6, <3>1 DEF OneChanges, Launching
  <2>5. Held'
    <3>1. ASSUME NEW p \in Miners, Lives(p)' \/ handler'[p] = "flushing"
          PROVE  owner[p] \in States \ {s}
      <4>1. owner[p] \in States /\ st[owner[p]].proc = p
        BY <1>1, <2>1, <3>1 DEF IInv, Owned, Held, Lives
      <4> QED BY <2>2, <4>1 DEF c
    <3>2. ASSUME NEW p \in Miners, Lives(p)'
          PROVE  Entered(owner[p])' /\ st'[owner'[p]].proc = p /\ Up'
      BY <1>1, <2>1, <2>4, <3>1, <3>2 DEF Held, Lives, Up
    <3>3. ASSUME NEW p \in Miners, handler'[p] = "flushing"
          PROVE  st'[owner'[p]].proc = p
      BY <1>1, <2>1, <2>4, <3>1, <3>3 DEF Held
    <3> QED BY <3>2, <3>3 DEF Held
  <2>6. Launches'
    <3>1. LaunchTimers(c) = {}
      BY <2>2 DEF Launching, LaunchTimers, c
    <3> QED BY <1>5, <1>6, <2>1, <2>2, <2>3, <2>4, <3>1 DEF Launches, LaunchTimers
  <2>7. Quits'
    BY <1>1, <2>1 DEF Quits
  <2> QED BY <2>5, <2>6, <2>7
<1> QED BY <1>7, <1>8 DEF IInv

LEMMA LaunchedStep ==
    ASSUME IInv, NEW s \in States, NEW by \in Timers, NEW p \in Miners, Launched(s, by, p)
    PROVE  IInv'
<1> DEFINE c == st[s]
           f == IF c.awaiting /\ c.probe = "none" THEN "waiting" ELSE c.probe
           x == [c EXCEPT !.eval[by].at = "announce", !.proc = p, !.exit = p, !.probe = f]
<1>1. /\ Up /\ c.eval[by].at = "launch" /\ os[p] = "unborn"
      /\ os' = [os EXCEPT ![p] = "alive"] /\ owner' = [owner EXCEPT ![p] = s]
      /\ UNCHANGED << running, handler, away, quit, allowQuit, overtaken >>
  BY DEF Launched
<1>2. st' = [st EXCEPT ![s] = x]
  <2>1. st' = [st EXCEPT ![s].eval[by].at = "announce", ![s].proc = p, ![s].exit = p,
                         ![s].probe = f]
    BY Typed DEF Launched, StateObject
  <2> HIDE DEF f
  <2> QED BY <2>1, Typed
<1>3. c \in StateObject /\ c.eval \in [Timers -> Evaluation]
  BY Typed DEF StateObject
<1> HIDE DEF c
<1>4. /\ x \in StateObject /\ x.job = c.job /\ x.proc = p /\ x.start = c.start
      /\ x.stop = c.stop /\ LaunchTimers(x) = LaunchTimers(c) \ {by}
  <2> DEFINE e == [at |-> "announce", p |-> c.eval[by].p]
  <2>1. e \in Evaluation /\ [c.eval[by] EXCEPT !.at = "announce"] = e /\ e.at = "announce"
    BY <1>3 DEF Evaluation
  <2>2. f \in {"none", "waiting", "ready", "failed"}
    BY <1>3 DEF StateObject
  <2> HIDE DEF e, f
  <2>3. [c.eval EXCEPT ![by] = e] \in [Timers -> Evaluation]
    BY <1>3, <2>1
  <2>4. /\ x \in StateObject /\ x.job = c.job /\ x.proc = p /\ x.start = c.start
        /\ x.stop = c.stop /\ x.eval = [c.eval EXCEPT ![by] = e]
    BY <1>3, <2>1, <2>2, <2>3 DEF StateObject
  <2> HIDE DEF x
  <2> QED BY <1>3, <2>1, <2>4 DEF LaunchTimers
<1> HIDE DEF x
<1>5. OneChanges(s) /\ st'[s] = x
  BY <1>2, <1>4, Replaced
<1>6. TypeOK' /\ Owned'
  BY <1>1, <1>5 DEF IInv, TypeOK, Owned, OneChanges
<1>7. ASSUME ~ overtaken' PROVE Held' /\ Launches' /\ Quits'
  <2>1. Held /\ Launches /\ Quits
    BY <1>1, <1>7 DEF IInv
  <2>2. Launching(s) /\ by \in LaunchTimers(c)
    BY <1>1 DEF Launching, LaunchTimers, c
  <2>3. Entered(s) /\ c.proc = Nobody /\ LaunchTimers(x) = {} /\ x.start # "checking"
    BY <1>4, <2>1, <2>2 DEF Launches, c
  <2>4. /\ Entered(s)'
        /\ \A t \in States \ {s} : /\ st'[t] = st[t] /\ Entered(t)' = Entered(t)
                                   /\ Launching(t)' = Launching(t)
    BY <1>1, <1>4, <1>5, <2>3 DEF OneChanges, Entered, Launching, c
  <2>5. Held'
    <3>1. handler[p] = "none"
      BY <1>1 DEF IInv, Owned
    <3>2. ASSUME NEW q \in Miners \ {p}, Lives(q)' \/ handler'[q] = "flushing"
          PROVE  owner[q] \in States \ {s} /\ owner'[q] = owner[q] /\ os'[q] = os[q]
      <4>1. owner'[q] = owner[q] /\ os'[q] = os[q]
        BY <1>1, Typed
      <4>2. owner[q] \in States /\ st[owner[q]].proc = q
        BY <1>1, <2>1, <3>2, <4>1 DEF IInv, Owned, Held, Lives
      <4> QED BY <2>3, <4>1, <4>2 DEF c
    <3>3. ASSUME NEW q \in Miners, Lives(q)'
          PROVE  Entered(owner[q])' /\ st'[owner'[q]].proc = q /\ Up'
      <4>1. CASE q = p
        <5>1. owner'[q] = s
          BY <1>1, <4>1, Typed
        <5> QED BY <1>1, <1>4, <1>5, <2>4, <4>1, <5>1 DEF Up
      <4>2. CASE q # p
        BY <1>1, <2>1, <2>4, <3>2, <3>3, <4>2 DEF Held, Lives, Up
      <4> QED BY <4>1, <4>2
    <3>4. ASSUME NEW q \in Miners, handler'[q] = "flushing"
          PROVE  st'[owner'[q]].proc = q
      <4>1. q # p
        BY <1>1, <3>1, <3>4
      <4> QED BY <1>1, <2>1, <2>4, <3>2, <3>4, <4>1 DEF Held
    <3> QED BY <3>3, <3>4 DEF Held
  <2>6. Launches'
    <3>1. ~ Launching(s)'
      BY <1>5, <2>3 DEF Launching, LaunchTimers
    <3> QED BY <1>5, <2>1, <2>3, <2>4, <3>1 DEF Launches, LaunchTimers
  <2>7. Quits'
    BY <1>1, <1>4, <1>5, <2>1, <2>3, <2>4 DEF Quits, Managed, c
  <2> QED BY <2>5, <2>6, <2>7
<1> QED BY <1>6, <1>7 DEF IInv

\* The entry still holds the miner when its exit is noticed.
LEMMA ExitsStep == ASSUME IInv, NEW p \in Miners, Exits(p) PROVE IInv'
<1> DEFINE s == owner[p]
           c == st[s]
           x == [c EXCEPT !.guard = FALSE]
<1>1. /\ Lives(p) /\ os' = [os EXCEPT ![p] = "dead"]
      /\ UNCHANGED << running, owner, away, quit, allowQuit, overtaken >>
      /\ IF Up THEN /\ handler' = [handler EXCEPT ![p] = "flushing"]
                    /\ st' = [st EXCEPT ![s] = x]
         ELSE UNCHANGED << handler, st >>
  BY DEF Exits
<1>2. s \in States /\ c \in StateObject
  <2>1. s \in States
    BY <1>1 DEF IInv, Owned, Lives
  <2> QED BY <2>1, Typed
<1>3. CalmToo(x, c)
  <2> HIDE DEF c
  <2>1. /\ x \in StateObject /\ x.job = c.job /\ x.proc = c.proc /\ x.eval = c.eval
        /\ x.start = c.start /\ x.stop = c.stop
    BY <1>2 DEF StateObject
  <2> HIDE DEF x
  <2> QED BY <1>2, <2>1, FieldsCalm
<1>4. OneChanges(s) /\ st'[s] \in {c, x}
  <2> HIDE DEF s
  <2>1. x \in StateObject
    BY <1>3 DEF CalmToo, Calm
  <2> HIDE DEF x
  <2>2. CASE Up
    BY <1>1, <1>2, <2>1, <2>2, Replaced
  <2>3. CASE ~ Up
    BY <1>1, <1>2, <2>3, Typed DEF OneChanges
  <2> QED BY <2>2, <2>3
<1> HIDE DEF s, x
<1>5. TypeOK' /\ Owned'
  <2>1. /\ os' \in [Miners -> {"unborn", "alive", "told", "dead"}]
        /\ handler' \in [Miners -> {"none", "flushing", "settled", "done"}]
        /\ os'[p] = "dead" /\ \A q \in Miners \ {p} : os'[q] = os[q] /\ handler'[q] = handler[q]
    BY <1>1, Typed
  <2> QED BY <1>1, <1>2, <1>4, <2>1 DEF s, IInv, TypeOK, Owned, OneChanges
<1>6. ASSUME ~ overtaken' PROVE Held' /\ Launches' /\ Quits'
  <2>1. Held /\ Launches /\ Quits
    BY <1>1, <1>6 DEF IInv
  <2>2. /\ st'[s].job = c.job /\ st'[s].proc = c.proc /\ c.proc = p
        /\ LaunchTimers(st'[s]) \subseteq LaunchTimers(c)
        /\ st'[s].start = "checking" => c.start = "checking"
        /\ st'[s].stop["all"] = Idle => c.stop["all"] = Idle
    BY <1>1, <1>3, <1>4, <2>1 DEF CalmToo, Calm, Held, s
  <2>3. \A t \in States : /\ st'[t].job = st[t].job /\ st'[t].proc = st[t].proc
                          /\ LaunchTimers(st'[t]) \subseteq LaunchTimers(st[t])
                          /\ st'[t].start = "checking" => st[t].start = "checking"
                          /\ st'[t].stop["all"] = Idle => st[t].stop["all"] = Idle
    BY <1>4, <2>2 DEF OneChanges
  <2>4. \A t \in States : Entered(t)' = Entered(t) /\ (Launching(t)' => Launching(t))
    <3>1. \A t \in States : /\ Launching(t) <=> LaunchTimers(st[t]) # {}
                            /\ Launching(t)' <=> LaunchTimers(st'[t]) # {}
      BY DEF Launching, LaunchTimers
    <3> QED BY <1>1, <2>3, <3>1 DEF Entered
  <2>5. Held'
    <3>1. \A q \in Miners : Lives(q)' => Lives(q)
      BY <1>1, Typed DEF Lives
    <3>2. ASSUME NEW q \in Miners, Lives(q)'
          PROVE  Entered(owner[q])' /\ st'[owner'[q]].proc = q /\ Up'
      <4>1. Lives(q) /\ owner[q] \in States
        BY <3>1, <3>2 DEF IInv, Owned, Lives
      <4> QED BY <1>1, <2>1, <2>3, <2>4, <4>1 DEF Held, Up
    <3>3. ASSUME NEW q \in Miners, handler'[q] = "flushing"
          PROVE  st'[owner'[q]].proc = q
      <4>1. CASE q = p
        BY <1>1, <2>2, <4>1 DEF s
      <4>2. CASE q # p
        <5>1. handler[q] = "flushing" /\ owner[q] \in States
          BY <1>1, <3>3, <4>2, Typed DEF IInv, Owned
        <5> QED BY <1>1, <2>1, <2>3, <5>1 DEF Held
      <4> QED BY <4>1, <4>2
    <3> QED BY <3>2, <3>3 DEF Held
  <2>6. Launches'
    <3>1. ASSUME NEW t \in States
          PROVE  /\ Launching(t)' => Entered(t)' /\ st'[t].proc = Nobody
                 /\ \A u, v \in LaunchTimers(st'[t]) : u = v
                 /\ st'[t].start = "checking" =>
                       ~ Entered(t)' /\ st'[t].proc = Nobody /\ st'[t].job # Nobody
      BY <2>1, <2>3, <2>4 DEF Launches
    <3> QED BY <3>1 DEF Launches, LaunchTimers
  <2>7. Quits'
    BY <1>1, <2>1, <2>3, <2>4 DEF Quits, Managed
  <2> QED BY <2>5, <2>6, <2>7
<1> QED BY <1>5, <1>6 DEF IInv

LEMMA OutputFlushedStep == ASSUME IInv, NEW p \in Miners, OutputFlushed(p) PROVE IInv'
<1> DEFINE s == owner[p]
           c == st[s]
           q == SettlesProbe(c, "failed")
           x == [q EXCEPT !.proc = Nobody]
<1>1. /\ Up /\ handler[p] = "flushing" /\ handler' = [handler EXCEPT ![p] = "settled"]
      /\ st' = [st EXCEPT ![s] = x]
      /\ UNCHANGED << running, os, owner, away, quit, allowQuit, overtaken >>
  BY Typed DEF OutputFlushed
<1>2. s \in States /\ c \in StateObject /\ os[p] = "dead"
  <2>1. s \in States /\ os[p] = "dead"
    BY <1>1 DEF IInv, Owned
  <2> QED BY <2>1, Typed
<1> HIDE DEF s, c
<1>3. CalmToo(q, c)
  BY <1>2, SettlesCalm
<1> HIDE DEF q
<1>4. q \in StateObject
  BY <1>3 DEF CalmToo, Calm
<1>5. /\ x \in StateObject /\ x.job = q.job /\ x.proc = Nobody /\ x.eval = q.eval
      /\ x.start = q.start /\ x.stop = q.stop
  BY <1>4 DEF StateObject
<1> HIDE DEF x
<1>6. /\ x.job = c.job /\ x.proc = Nobody /\ LaunchTimers(x) \subseteq LaunchTimers(c)
      /\ x.start = "checking" => c.start = "checking"
      /\ x.stop["all"] = Idle => c.stop["all"] = Idle
  BY <1>3, <1>5 DEF CalmToo, Calm, LaunchTimers
<1>7. OneChanges(s) /\ st'[s] = x
  BY <1>1, <1>2, <1>5, Replaced
<1>8. TypeOK' /\ Owned'
  <2>1. /\ handler' \in [Miners -> {"none", "flushing", "settled", "done"}]
        /\ \A r \in Miners \ {p} : handler'[r] = handler[r]
    BY <1>1, Typed
  <2> QED BY <1>1, <1>2, <1>7, <2>1 DEF IInv, TypeOK, Owned, OneChanges
<1>9. ASSUME ~ overtaken' PROVE Held' /\ Launches' /\ Quits'
  <2>1. Held /\ Launches /\ Quits
    BY <1>1, <1>9 DEF IInv
  <2>2. c.proc = p
    BY <1>1, <2>1 DEF Held, s, c
  <2>3. \A t \in States : /\ st'[t].job = st[t].job
                          /\ LaunchTimers(st'[t]) \subseteq LaunchTimers(st[t])
                          /\ st'[t].proc \in {st[t].proc, Nobody}
                          /\ st'[t].start = "checking" => st[t].start = "checking"
                          /\ st'[t].stop["all"] = Idle => st[t].stop["all"] = Idle
    BY <1>6, <1>7 DEF OneChanges, c
  <2>4. \A t \in States : Entered(t)' = Entered(t) /\ (Launching(t)' => Launching(t))
    <3>1. \A t \in States : /\ Launching(t) <=> LaunchTimers(st[t]) # {}
                            /\ Launching(t)' <=> LaunchTimers(st'[t]) # {}
      BY DEF Launching, LaunchTimers
    <3> QED BY <1>1, <2>3, <3>1 DEF Entered
  <2>5. Held'
    <3>1. ASSUME NEW r \in Miners, Lives(r)' \/ handler'[r] = "flushing"
          PROVE  owner[r] \in States \ {s} /\ st'[owner[r]] = st[owner[r]]
      <4>1. (Lives(r) \/ handler[r] = "flushing") /\ r # p
        BY <1>1, <1>2, <3>1, Typed DEF Lives
      <4>2. owner[r] \in States /\ st[owner[r]].proc = r
        BY <2>1, <4>1 DEF IInv, Owned, Held, Lives
      <4>3. owner[r] # s
        BY <2>2, <4>1, <4>2 DEF c
      <4> QED BY <1>7, <4>2, <4>3 DEF OneChanges
    <3>2. ASSUME NEW r \in Miners, Lives(r)'
          PROVE  Entered(owner[r])' /\ st'[owner'[r]].proc = r /\ Up'
      BY <1>1, <2>1, <2>4, <3>1, <3>2 DEF Held, Lives, Up
    <3>3. ASSUME NEW r \in Miners, handler'[r] = "flushing"
          PROVE  st'[owner'[r]].proc = r
      <4>1. handler[r] = "flushing"
        BY <1>1, <3>3, Typed
      <4> QED BY <1>1, <2>1, <3>1, <3>3, <4>1 DEF Held
    <3> QED BY <3>2, <3>3 DEF Held
  <2>6. Launches'
    <3>1. ASSUME NEW t \in States
          PROVE  /\ Launching(t)' => Entered(t)' /\ st'[t].proc = Nobody
                 /\ \A u, v \in LaunchTimers(st'[t]) : u = v
                 /\ st'[t].start = "checking" =>
                       ~ Entered(t)' /\ st'[t].proc = Nobody /\ st'[t].job # Nobody
      BY <2>1, <2>3, <2>4 DEF Launches
    <3> QED BY <3>1 DEF Launches, LaunchTimers
  <2>7. Quits'
    BY <1>1, <2>1, <2>3, <2>4 DEF Quits, Managed
  <2> QED BY <2>5, <2>6, <2>7
<1> QED BY <1>8, <1>9 DEF IInv

-----------------------------------------------------------------------------
(* The quit.                                                                *)

\* Without entries no miner lives.
LEMMA NoMiners ==
    ASSUME IInv, ~ overtaken, Managed = {}
    PROVE  \A p \in Miners : ~ Lives(p)
  BY DEF IInv, Owned, Held, Managed, Lives

LEMMA BeforeQuitStep == ASSUME IInv, BeforeQuit PROVE IInv'
<1>1. CASE MayQuit
  <2>1. /\ quit' = "exited" /\ UNCHANGED << running, st, os, owner, handler, away, allowQuit, overtaken >>
    BY <1>1 DEF BeforeQuit
  <2>2. TypeOK' /\ Owned'
    BY <2>1 DEF IInv, TypeOK, Owned
  <2>3. ASSUME ~ overtaken' PROVE Held' /\ Launches' /\ Quits'
    <3>1. Held /\ Launches /\ Quits /\ ~ overtaken
      BY <2>1, <2>3 DEF IInv
    <3>2. Managed = {}
      BY <1>1, <3>1 DEF MayQuit, hasManagedJobs, Quits
    <3>3. \A p \in Miners : ~ Lives(p)'
      BY <2>1, <3>1, <3>2, NoMiners DEF Lives
    <3> QED BY <2>1, <3>1, <3>3
            DEF Held, Launches, Quits, Managed, Entered, Launching, LaunchTimers
  <2> QED BY <2>2, <2>3 DEF IInv
<1>2. CASE ~ MayQuit
  <2> DEFINE next(s) == StopBegins(st[s], "all")
  <2>1. /\ quit = "no" /\ quit' = "waiting"
        /\ st' = [s \in States |-> IF s \in Managed THEN next(s) ELSE st[s]]
        /\ os' = [p \in Miners |->
                     IF os[p] = "alive" /\ \E s \in Managed : st[s].proc = p
                     THEN "told" ELSE os[p]]
        /\ Overtakes(\E s \in Managed : Launching(s))
        /\ UNCHANGED << running, owner, handler, away, allowQuit >>
    BY <1>2 DEF BeforeQuit
  <2>2. \A s \in States : CalmToo(next(s), st[s]) /\ next(s).stop["all"] # Idle
    BY Typed, StopCalm DEF Stoppers
  <2> HIDE DEF next
  <2>3. \A s \in States : /\ CalmToo(st'[s], st[s])
                          /\ s \in Managed => st'[s].stop["all"] # Idle
    <3>1. \A s \in States : CalmToo(st[s], st[s])
      BY Typed, CalmItself
    <3> QED BY <2>1, <2>2, <3>1
  <2>4. \A s \in States : /\ st'[s] \in StateObject
                          /\ st'[s].job = st[s].job /\ st'[s].proc = st[s].proc
                          /\ LaunchTimers(st'[s]) \subseteq LaunchTimers(st[s])
                          /\ st'[s].start = "checking" => st[s].start = "checking"
    BY <2>3 DEF CalmToo, Calm
  <2>5. /\ os' \in [Miners -> {"unborn", "alive", "told", "dead"}]
        /\ \A p \in Miners : /\ Lives(p)' => Lives(p)
                             /\ os[p] \in {"unborn", "dead"} <=> os'[p] \in {"unborn", "dead"}
                             /\ os[p] \in {"unborn", "dead"} => os'[p] = os[p]
    BY <2>1, Typed DEF Lives
  <2>6. TypeOK' /\ Owned'
    <3>1. st' \in [States -> StateObject] /\ overtaken' \in BOOLEAN
      BY <2>1, <2>4, Typed DEF Overtakes
    <3>2. TypeOK'
      BY <2>1, <2>5, <3>1 DEF IInv, TypeOK
    <3>3. Owned'
      BY <2>1, <2>5, Typed DEF IInv, Owned
    <3> QED BY <3>2, <3>3
  <2>7. ASSUME ~ overtaken' PROVE Held' /\ Launches' /\ Quits'
    <3>1. Held /\ Launches /\ Quits
      BY <2>1, <2>7 DEF IInv, Overtakes
    <3>2. \A t \in States : Entered(t)' = Entered(t) /\ (Launching(t)' => Launching(t))
      <4>1. \A t \in States : /\ Launching(t) <=> LaunchTimers(st[t]) # {}
                              /\ Launching(t)' <=> LaunchTimers(st'[t]) # {}
        BY DEF Launching, LaunchTimers
      <4> QED BY <2>1, <2>4, <4>1 DEF Entered
    <3>3. Held'
      <4>1. ASSUME NEW p \in Miners, Lives(p)'
            PROVE  Entered(owner[p])' /\ st'[owner'[p]].proc = p /\ Up'
        <5>1. Lives(p) /\ owner[p] \in States
          BY <2>5, <4>1 DEF IInv, Owned, Lives
        <5> QED BY <2>1, <2>4, <3>1, <3>2, <5>1 DEF Held, Up
      <4>2. ASSUME NEW p \in Miners, handler'[p] = "flushing"
            PROVE  st'[owner'[p]].proc = p
        <5>1. handler[p] = "flushing" /\ owner[p] \in States
          BY <2>1, <4>2 DEF IInv, Owned
        <5> QED BY <2>1, <2>4, <3>1, <5>1 DEF Held
      <4> QED BY <4>1, <4>2 DEF Held
    <3>4. Launches'
      <4>1. ASSUME NEW t \in States
            PROVE  /\ Launching(t)' => Entered(t)' /\ st'[t].proc = Nobody
                   /\ \A u, v \in LaunchTimers(st'[t]) : u = v
                   /\ st'[t].start = "checking" =>
                         ~ Entered(t)' /\ st'[t].proc = Nobody /\ st'[t].job # Nobody
        BY <2>4, <3>1, <3>2 DEF Launches
      <4> QED BY <4>1 DEF Launches, LaunchTimers
    <3>5. Quits'
      BY <2>1, <2>3, <3>1, <3>2 DEF Quits, Managed
    <3> QED BY <3>3, <3>4, <3>5
  <2> QED BY <2>6, <2>7 DEF IInv
<1> QED BY <1>1, <1>2

LEMMA StopAllEndsStep == ASSUME IInv, StopAllEnds PROVE IInv'
<1>1. /\ quit \in {"waiting", "failing"} /\ \A s \in States : st[s].stop["all"] = Idle
      /\ quit' \in {"no", "exited"} /\ (quit' = "exited" => quit = "waiting")
      /\ allowQuit' \in {allowQuit, TRUE} /\ (allowQuit' # allowQuit => quit = "waiting")
      /\ UNCHANGED << running, st, os, owner, handler, away, overtaken >>
  BY DEF StopAllEnds
<1>2. TypeOK' /\ Owned'
  BY <1>1 DEF IInv, TypeOK, Owned
<1>3. ASSUME ~ overtaken' PROVE Held' /\ Launches' /\ Quits'
  <2>1. Held /\ Launches /\ Quits /\ ~ overtaken
    BY <1>1, <1>3 DEF IInv
  <2>2. quit = "waiting" => Managed = {}
    BY <1>1, <2>1 DEF Quits, Managed
  <2>3. \A p \in Miners : Lives(p)' => Lives(p) /\ Up'
    BY <1>1, <2>1, <2>2, NoMiners DEF Lives, Up
  <2>4. Held'
    BY <1>1, <2>1, <2>3 DEF Held, Entered
  <2>5. Launches'
    BY <1>1, <2>1 DEF Launches, Entered, Launching, LaunchTimers
  <2>6. Quits'
    <3>1. Managed' = Managed
      BY <1>1 DEF Managed, Entered
    <3>2. CASE quit = "waiting"
      BY <1>1, <2>2, <3>1, <3>2 DEF Quits
    <3>3. CASE quit # "waiting"
      <4>1. allowQuit' = allowQuit
        BY <1>1, <3>3
      <4> QED BY <1>1, <2>1, <3>1, <4>1 DEF Quits
    <3> QED BY <3>2, <3>3
  <2> QED BY <2>4, <2>5, <2>6
<1> QED BY <1>2, <1>3 DEF IInv

\* Nothing changes but whether guarded jobs are to pause, if that.
LEMMA NothingStep ==
    ASSUME IInv, away' \in BOOLEAN,
           UNCHANGED << running, st, os, owner, handler, quit, allowQuit, overtaken >>
    PROVE  IInv'
<1>1. TypeOK' /\ Owned'
  BY DEF IInv, TypeOK, Owned
<1>2. Held => Held'
  BY DEF Held, Lives, Entered, Up
<1>3. Launches => Launches'
  BY DEF Launches, Entered, Launching, LaunchTimers
<1>4. Quits => Quits'
  BY DEF Quits, Managed, Entered
<1> QED BY <1>1, <1>2, <1>3, <1>4 DEF IInv

\* What is collected holds no entry and no miner.
LEMMA CollectStep == ASSUME IInv, Collect PROVE IInv'
<1> DEFINE states == {s \in States : UselessState(s)}
           miners == {p \in Miners : UselessMiner(p) \/ owner[p] \in states}
<1>1. /\ st' = [s \in States |-> IF s \in states THEN Blank ELSE st[s]]
      /\ os' = [p \in Miners |-> IF p \in miners THEN "unborn" ELSE os[p]]
      /\ owner' = [p \in Miners |-> IF p \in miners THEN Nobody ELSE owner[p]]
      /\ handler' = [p \in Miners |-> IF p \in miners THEN "none" ELSE handler[p]]
      /\ UNCHANGED << running, away, quit, allowQuit, overtaken >>
  BY DEF Collect
<1>2. \A p \in miners : Over(p)
  BY DEF UselessMiner, UselessState
<1>3. \A s \in states : ~ Entered(s) /\ s \in States
  BY DEF UselessState
<1>4. \A p \in Miners : owner[p] \in states => p \in miners
  OBVIOUS
<1>5. states \subseteq States /\ miners \subseteq Miners
  OBVIOUS
<1> HIDE DEF states, miners
<1>6. TypeOK' /\ Owned'
  <2>1. Blank \in StateObject
    BY BlankIs
  <2>2. /\ st' \in [States -> StateObject] /\ owner' \in [Miners -> States \cup {Nobody}]
        /\ os' \in [Miners -> {"unborn", "alive", "told", "dead"}]
        /\ handler' \in [Miners -> {"none", "flushing", "settled", "done"}]
    BY <1>1, <2>1, Typed
  <2>3. TypeOK'
    BY <1>1, <2>2 DEF IInv, TypeOK
  <2>4. Owned'
    BY <1>1 DEF IInv, Owned
  <2> QED BY <2>3, <2>4
<1>7. ASSUME ~ overtaken' PROVE Held' /\ Launches' /\ Quits'
  <2>1. Held /\ Launches /\ Quits
    BY <1>1, <1>7 DEF IInv
  <2>2. \A s \in states : /\ st'[s] = Blank /\ ~ Entered(s)' /\ ~ Launching(s)'
                          /\ LaunchTimers(st'[s]) = {} /\ st'[s].start # "checking"
    <3>1. ASSUME NEW s \in states PROVE st'[s] = Blank
      BY <1>1, <1>5
    <3>2. ASSUME NEW s \in states PROVE ~ Entered(s)' /\ st'[s].start # "checking"
      BY <3>1, BlankIs DEF Entered
    <3>3. ASSUME NEW s \in states PROVE ~ Launching(s)' /\ LaunchTimers(st'[s]) = {}
      BY <3>1, BlankIs DEF Launching, LaunchTimers
    <3> QED BY <3>1, <3>2, <3>3
  <2>3. \A s \in States \ states : /\ st'[s] = st[s] /\ Entered(s)' = Entered(s)
                                   /\ Launching(s)' = Launching(s)
    BY <1>1 DEF Entered, Launching
  <2>4. Held'
    <3>1. ASSUME NEW p \in Miners, Lives(p)' \/ handler'[p] = "flushing"
          PROVE  /\ p \notin miners /\ owner[p] \in States \ states
                 /\ owner'[p] = owner[p] /\ os'[p] = os[p] /\ handler'[p] = handler[p]
      <4>1. p \notin miners
        BY <1>1, <3>1 DEF Lives
      <4>2. owner'[p] = owner[p] /\ os'[p] = os[p] /\ handler'[p] = handler[p]
        BY <1>1, <4>1
      <4>3. owner[p] \in States
        BY <3>1, <4>2 DEF IInv, Owned, Lives
      <4> QED BY <1>4, <4>1, <4>2, <4>3
    <3>2. ASSUME NEW p \in Miners, Lives(p)'
          PROVE  Entered(owner[p])' /\ st'[owner'[p]].proc = p /\ Up'
      BY <1>1, <2>1, <2>3, <3>1, <3>2 DEF Held, Lives, Up
    <3>3. ASSUME NEW p \in Miners, handler'[p] = "flushing"
          PROVE  st'[owner'[p]].proc = p
      BY <2>1, <2>3, <3>1, <3>3 DEF Held
    <3> QED BY <3>2, <3>3 DEF Held
  <2>5. Launches'
    <3>1. ASSUME NEW t \in States
          PROVE  /\ Launching(t)' => Entered(t)' /\ st'[t].proc = Nobody
                 /\ \A u, v \in LaunchTimers(st'[t]) : u = v
                 /\ st'[t].start = "checking" =>
                       ~ Entered(t)' /\ st'[t].proc = Nobody /\ st'[t].job # Nobody
      BY <2>1, <2>2, <2>3 DEF Launches
    <3> QED BY <3>1 DEF Launches, LaunchTimers
  <2>6. Quits'
    <3>1. \A t \in Managed' : t \in Managed /\ st'[t] = st[t]
      BY <2>2, <2>3 DEF Managed
    <3> QED BY <1>1, <2>1, <3>1 DEF Quits
  <2> QED BY <2>4, <2>5, <2>6
<1> QED BY <1>6, <1>7 DEF IInv

-----------------------------------------------------------------------------
LEMMA Initially == Init => IInv
<1> SUFFICES ASSUME Init PROVE IInv
  OBVIOUS
<1>1. \A s \in States : st[s] = Blank
  BY DEF Init
<1>2. TypeOK /\ Owned
  BY BlankIs DEF Init, TypeOK, Owned
<1>3. Held
  BY DEF Init, Held, Lives
<1>4. \A s \in States : ~ Entered(s) /\ ~ Launching(s) /\ LaunchTimers(st[s]) = {}
                        /\ st[s].start # "checking"
  BY <1>1, BlankIs DEF Entered, Launching, LaunchTimers
<1>5. Launches
  BY <1>4 DEF Launches
<1>6. Quits
  BY <1>4 DEF Init, Quits, Managed
<1> QED BY <1>2, <1>3, <1>5, <1>6 DEF IInv

LEMMA StepKeeps == IInv /\ [Next]_vars => IInv'
<1> SUFFICES ASSUME IInv, [Next]_vars PROVE IInv'
  OBVIOUS
<1>1. CASE UNCHANGED vars
  BY <1>1, NothingStep DEF vars, IInv, TypeOK
<1>2. CASE Collect
  BY <1>2, CollectStep
<1>3. ASSUME NEW s \in States, NEW j \in Jobs, StartJob(s, j) PROVE IInv'
  BY <1>3, StartJobStep
<1>4. ASSUME NEW s \in States, StartGoesOn(s) \/ GuardTimer(s) \/ RestartTimer(s) PROVE IInv'
  BY <1>4, ProbeEndsStep, ProbeTimeoutStep, ChecksFailStep, RegisterStep, TimerStep
     DEF StartGoesOn
<1>5. ASSUME NEW s \in States, NEW by \in Timers, Thread(s, by) PROVE IInv'
  BY <1>5, LaunchedStep, LaunchFailsStep, AnnouncedStep, PauseTellsStep, PauseEndsStep,
     EvaluationFailsStep DEF Thread, LaunchEnds, EvaluationGoesOn
<1>6. ASSUME NEW s \in States, NEW by \in Stoppers, StopGoesOn(s, by) PROVE IInv'
  BY <1>6, MinerStoppedStep, MinerStaysStep, ExitAwaitedStep, StopClosesStep,
     StopUncleanedStep DEF StopGoesOn
<1>7. ASSUME NEW j \in Jobs, StopJob(j) PROVE IInv'
  BY <1>7, StopJobStep
<1>8. ASSUME NEW p \in Miners, Exits(p) \/ ExitGoesOn(p) PROVE IInv'
  BY <1>8, ExitsStep, OutputFlushedStep, ExitHandledStep, CleanupFailsStep DEF ExitGoesOn
<1>9. ASSUME NEW p \in Miners, NEW verdict \in {"ready", "failed"}, OutputLine(p, verdict)
      PROVE  IInv'
  BY <1>9, OutputLineStep
<1>10. CASE GuardReasonChanges
  <2>1. away' \in BOOLEAN
    BY <1>10 DEF GuardReasonChanges
  <2> QED BY <1>10, <2>1, NothingStep DEF GuardReasonChanges
<1>11. CASE BeforeQuit \/ StopAllEnds
  BY <1>11, BeforeQuitStep, StopAllEndsStep
<1>12. UNCHANGED vars \/ Collect \/ Step
  BY DEF Next
<1> QED BY <1>1, <1>2, <1>3, <1>4, <1>5, <1>6, <1>7, <1>8, <1>9, <1>10, <1>11, <1>12 DEF Step

LEMMA Inductive == Spec => []IInv
  BY Initially, StepKeeps, PTL DEF Spec

(* The variables of the supervisor keep their types: no restart is counted  *)
(* past the limit, and every await is one that the code has.                *)
THEOREM TypeCorrect == Spec => []TypeOK
<1>1. IInv => TypeOK
  BY DEF IInv
<1> QED BY <1>1, Inductive, PTL

(* Every miner that runs is the one its job's entry holds, and none         *)
(* outlives the wallet, unless one of the five overtakings has happened.    *)
THEOREM NoMinerLost == Spec => []MinersAreHeld
<1>1. IInv => MinersAreHeld
  BY DEF IInv, Held, MinersAreHeld
<1> QED BY <1>1, Inductive, PTL
-----------------------------------------------------------------------------
(* The future of an entry.  EntryHasFuture holds in every state, also after *)
(* an overtaking, and needs another strengthening.  The timers only look at *)
(* an entry again if it is not being stopped and not being paused, so a     *)
(* stop, a pause and a miner each must have something under way that will   *)
(* come back to the entry: FutureInv says what.  An entry whose exit        *)
(* handler failed is left out, and stays so.                                *)

\* Miner p of state object s runs, or its exit is being handled.
Unhandled(s, p) ==
    /\ p \in Miners /\ owner[p] = s
    /\ Lives(p) \/ handler[p] \in {"flushing", "settled"}
Exiting(s) == \E p \in Miners : owner[p] = s /\ handler[p] \in {"flushing", "settled"}

LaunchRuns(c) == \E t \in Timers : c.eval[t].at \in {"launch", "announce"}
StopRuns(c) == \E b \in Stoppers : c.stop[b] # Idle
PauseRuns(s) ==
    \E t \in {"guard", "restart"} :
        \/ st[s].eval[t].at \in {"log", "fail"}
        \/ st[s].eval[t].at = "stop" /\ Unhandled(s, st[s].eval[t].p)

\* What an entry has coming.
Attended(s) ==
    /\ \/ st[s].guard \/ st[s].restart
       \/ LaunchRuns(st[s]) \/ PauseRuns(s) \/ StopRuns(st[s]) \/ Exiting(s)
    /\ st[s].stopping => StopRuns(st[s])
    /\ st[s].pausing => PauseRuns(s) \/ Exiting(s)

\* A miner that is held is the object's own, and its exit will be handled.
HoldsOwn(s) ==
    st[s].proc # Nobody => /\ st[s].proc \in Miners /\ owner[st[s].proc] = s
                           /\ Lives(st[s].proc) \/ handler[st[s].proc] = "flushing"

\* A start that still checks has neither been stopped nor paused.
Unmarked(s) == st[s].start = "checking" => ~ st[s].stopping /\ ~ st[s].pausing

\* The map holds objects under their own job, once their start has checked.
Entries ==
    \A j \in Jobs : running[j] # Nobody =>
        /\ st[running[j]].job = j
        /\ st[running[j]].start \notin {"none", "checking"}

Provided(s) ==
    /\ Unmarked(s)
    /\ Up => HoldsOwn(s) /\ (Entered(s) => Attended(s) \/ st[s].uncleaned)
FutureInv == Entries /\ \A s \in States : Provided(s)

\* The miners of other state objects than s go on as they were.
Elsewhere(s) ==
    \A p \in Miners : owner[p] # s /\ os[p] # "unborn" =>
        /\ owner'[p] = owner[p] /\ handler'[p] = handler[p]
        /\ Lives(p) => Lives(p)'

LEMMA OthersProvided ==
    ASSUME IInv, FutureInv, NEW s \in States, Elsewhere(s), Up' => Up,
           \A t \in States \ {s} : st'[t] = st[t],
           \A j \in Jobs : running'[j] \in {running[j], Nobody, s}
    PROVE  \A t \in States \ {s} : Provided(t)'
<1> SUFFICES ASSUME NEW t \in States, t # s PROVE Provided(t)'
  OBVIOUS
<1>1. Provided(t) /\ st'[t] = st[t]
  BY DEF FutureInv
<1>2. \A p \in Miners : handler[p] # "none" => os[p] # "unborn"
  BY DEF IInv, Owned
<1>3. \A p \in Miners : owner[p] = t /\ os[p] # "unborn" =>
         /\ owner'[p] = owner[p] /\ handler'[p] = handler[p] /\ (Lives(p) => Lives(p)')
  BY DEF Elsewhere
<1>4. \A p : Unhandled(t, p) => Unhandled(t, p)'
  BY <1>2, <1>3 DEF Unhandled, Lives
<1>5. Exiting(t) => Exiting(t)'
  BY <1>2, <1>3 DEF Exiting
<1>6. PauseRuns(t) => PauseRuns(t)'
  BY <1>1, <1>4 DEF PauseRuns
<1>7. LaunchRuns(st[t]) = LaunchRuns(st'[t]) /\ StopRuns(st[t]) = StopRuns(st'[t])
  BY <1>1
<1>8. Attended(t) => Attended(t)'
  BY <1>1, <1>5, <1>6, <1>7 DEF Attended, LaunchRuns, StopRuns
<1>9. Entered(t)' => Entered(t)
  <2>1. st[t].job \in Jobs \cup {Nobody}
    BY Typed DEF StateObject
  <2> QED BY <1>1, <2>1 DEF Entered
<1>10. HoldsOwn(t) => HoldsOwn(t)'
  BY <1>1, <1>2, <1>3 DEF HoldsOwn, Lives
<1>11. Unmarked(t)'
  BY <1>1 DEF Provided, Unmarked
<1> QED BY <1>1, <1>8, <1>9, <1>10, <1>11 DEF Provided

\* No miner appears, dies or is handled in a step.
SameProcesses ==
    \A p \in Miners : /\ owner'[p] = owner[p] /\ handler'[p] = handler[p]
                      /\ Lives(p) => Lives(p)'

\* The evaluations of the other timers are as they were.
OtherEvals(x, c, by) == \A t \in Timers \ {by} : x.eval[t] = c.eval[t]

\* A step of one thread of s that leaves its miner to it: what is left to show
\* is that s still has something coming, if it is still entered.
LEMMA FutureStep ==
    ASSUME IInv, FutureInv, NEW s \in States, Up, SameProcesses,
           \A t \in States \ {s} : st'[t] = st[t],
           running' = running \/ Removed(s),
           st'[s].job = st[s].job, st'[s].uncleaned = st[s].uncleaned, st'[s].proc = st[s].proc,
           st'[s].start \in {"none", "checking"} =>
              /\ st'[s].start = st[s].start
              /\ st'[s].stopping => st[s].stopping
              /\ st'[s].pausing => st[s].pausing,
           Entered(s) /\ Entered(s)' /\ ~ st'[s].uncleaned => Attended(s)'
    PROVE  FutureInv'
<1>1. running \in [Jobs -> States \cup {Nobody}]
  BY Typed
<1>2. \A j \in Jobs : running'[j] \in {running[j], Nobody}
  BY <1>1 DEF Removed
<1>3. \A t \in States \ {s} : Provided(t)'
  BY <1>2, OthersProvided DEF SameProcesses, Elsewhere
<1>4. Entries'
  BY <1>1, <1>2 DEF FutureInv, Entries
<1>5. Entered(s)' => Entered(s)
  <2>1. st[s].job \in Jobs \cup {Nobody}
    BY Typed DEF StateObject
  <2> QED BY <1>2, <2>1 DEF Entered
<1>6. Unmarked(s)'
  BY DEF FutureInv, Provided, Unmarked
<1>7. HoldsOwn(s)'
  BY DEF FutureInv, Provided, HoldsOwn, SameProcesses
<1>8. Provided(s)'
  BY <1>5, <1>6, <1>7 DEF Provided
<1> QED BY <1>3, <1>4, <1>8 DEF FutureInv

\* What keeps something coming: the exit handlers and the calls that come back.
LEMMA ExitsKept ==
    ASSUME NEW s \in States, SameProcesses
    PROVE  /\ Exiting(s)' <=> Exiting(s)
           /\ \A p : Unhandled(s, p) => Unhandled(s, p)'
<1>1. \A p \in Miners : owner'[p] = owner[p] /\ handler'[p] = handler[p]
                        /\ (Lives(p) => Lives(p)')
  BY DEF SameProcesses
<1> QED BY <1>1 DEF Exiting, Unhandled

LEMMA AttendedKept ==
    ASSUME NEW s \in States, SameProcesses, Attended(s),
           st[s].guard => st'[s].guard, st[s].restart => st'[s].restart,
           st'[s].stopping => st[s].stopping, st'[s].pausing => st[s].pausing,
           st'[s].eval = st[s].eval,
           \A b \in Stoppers : st[s].stop[b] # Idle => st'[s].stop[b] # Idle
    PROVE  Attended(s)'
<1>1. PauseRuns(s) => PauseRuns(s)'
  BY ExitsKept DEF PauseRuns
<1>2. LaunchRuns(st[s]) => LaunchRuns(st[s])'
  BY DEF LaunchRuns
<1>3. StopRuns(st[s]) => StopRuns(st[s])'
  BY DEF StopRuns
<1>4. Exiting(s) => Exiting(s)'
  BY ExitsKept
<1> QED BY <1>1, <1>2, <1>3, <1>4 DEF Attended

\* A call of stopJob has begun, and the pause that is under way goes on.
LEMMA StopAttended ==
    ASSUME NEW s \in States, SameProcesses, Attended(s),
           StopRuns(st[s])', st'[s].pausing => st[s].pausing,
           \A t \in {"guard", "restart"} : st'[s].eval[t] = st[s].eval[t]
    PROVE  Attended(s)'
<1>1. PauseRuns(s) => PauseRuns(s)'
  BY ExitsKept DEF PauseRuns
<1>2. Exiting(s) => Exiting(s)'
  BY ExitsKept
<1> QED BY <1>1, <1>2 DEF Attended

LEMMA AlikeKept ==
    ASSUME IInv, FutureInv, NEW s \in States, Up, SameProcesses, running' = running,
           NEW x, st' = [st EXCEPT ![s] = x], x \in StateObject,
           x.job = st[s].job, x.uncleaned = st[s].uncleaned, x.proc = st[s].proc,
           x.start \in {"none", "checking"} => x.start = st[s].start,
           st[s].guard = x.guard, st[s].restart = x.restart,
           x.stopping = st[s].stopping, x.pausing = st[s].pausing,
           x.eval = st[s].eval, x.stop = st[s].stop
    PROVE  FutureInv'
<1>1. st'[s] = x /\ \A t \in States \ {s} : st'[t] = st[t]
  BY Typed
<1>2. Attended(s) => Attended(s)'
  BY <1>1, AttendedKept
<1>3. Entered(s) /\ ~ st[s].uncleaned => Attended(s)
  BY DEF FutureInv, Provided
<1> QED BY <1>1, <1>2, <1>3, FutureStep

LEMMA NothingDies == ASSUME UNCHANGED << os, owner, handler >> PROVE SameProcesses
  BY DEF SameProcesses, Lives

LEMMA TellsKills ==
    ASSUME IInv, NEW q, os' \in {os, Tells(q)}, UNCHANGED << owner, handler >>
    PROVE  SameProcesses
<1>1. \A p \in Miners : Tells(q)[p] \in {os[p], IF os[p] = "alive" THEN "told" ELSE os[p]}
  BY Typed DEF Tells
<1> HIDE DEF Tells
<1> QED BY <1>1 DEF SameProcesses, Lives

LEMMA ReviveKills ==
    ASSUME IInv, NEW q, os' \in {os, [os EXCEPT ![q] = "alive"]}, UNCHANGED << owner, handler >>
    PROVE  SameProcesses
  BY Typed DEF SameProcesses, Lives

LEMMA ProbeTimeoutFuture ==
    ASSUME IInv, FutureInv, NEW s \in States, ProbeTimeout(s) PROVE FutureInv'
<1> DEFINE c == st[s]
           x == [c EXCEPT !.probe = "ready"]
<1>1. c \in StateObject
  BY Typed
<1>2. st' = [st EXCEPT ![s] = x] /\ Up /\ UNCHANGED << running, os, owner, handler >>
  BY DEF ProbeTimeout
<1>3. /\ x \in StateObject /\ x.job = c.job /\ x.uncleaned = c.uncleaned /\ x.proc = c.proc
      /\ x.eval = c.eval
      /\ x.start = c.start /\ x.stop = c.stop /\ x.guard = c.guard
      /\ x.restart = c.restart /\ x.stopping = c.stopping /\ x.pausing = c.pausing
  BY <1>1 DEF StateObject
<1> HIDE DEF x
<1> QED BY <1>2, <1>3, NothingDies, AlikeKept

LEMMA ChecksFailFuture ==
    ASSUME IInv, FutureInv, NEW s \in States, ChecksFail(s) PROVE FutureInv'
<1> DEFINE c == st[s]
           x == [c EXCEPT !.start = "ended"]
<1>1. c \in StateObject
  BY Typed
<1>2. st' = [st EXCEPT ![s] = x] /\ Up /\ UNCHANGED << running, os, owner, handler >>
  BY DEF ChecksFail
<1>3. /\ x \in StateObject /\ x.job = c.job /\ x.uncleaned = c.uncleaned /\ x.proc = c.proc
      /\ x.eval = c.eval
      /\ x.start = "ended" /\ x.stop = c.stop /\ x.guard = c.guard
      /\ x.restart = c.restart /\ x.stopping = c.stopping /\ x.pausing = c.pausing
  BY <1>1 DEF StateObject
<1> HIDE DEF x
<1> QED BY <1>2, <1>3, NothingDies, AlikeKept

\* A settled probe is nothing that looks at an entry.
LEMMA SettlesAlike ==
    ASSUME NEW c \in StateObject, NEW verdict \in {"ready", "failed"}
    PROVE  LET x == SettlesProbe(c, verdict)
           IN  /\ x \in StateObject /\ x.job = c.job /\ x.uncleaned = c.uncleaned
               /\ x.proc = c.proc
               /\ x.eval = c.eval /\ x.start = c.start /\ x.stop = c.stop
               /\ x.guard = c.guard /\ x.restart = c.restart
               /\ x.stopping = c.stopping /\ x.pausing = c.pausing
<1> DEFINE v == IF c.awaiting /\ c.probe = "waiting" THEN verdict ELSE c.probe
<1>1. v \in {"none", "waiting", "ready", "failed"}
  BY DEF StateObject
<1>2. SettlesProbe(c, verdict) = [c EXCEPT !.probe = v]
  BY DEF SettlesProbe
<1> HIDE DEF v
<1> QED BY <1>1, <1>2 DEF StateObject

LEMMA OutputLineFuture ==
    ASSUME IInv, FutureInv, NEW p \in Miners, NEW verdict \in {"ready", "failed"},
           OutputLine(p, verdict)
    PROVE  FutureInv'
<1> DEFINE s == running[st[owner[p]].job]
           x == SettlesProbe(st[s], verdict)
<1>1. s # Nobody /\ Up /\ UNCHANGED << running, os, owner, handler >>
      /\ st' = [st EXCEPT ![s] = x] /\ os[p] # "unborn"
  BY DEF OutputLine
<1>2. s \in States
  <2>1. owner[p] \in States
    BY <1>1 DEF IInv, Owned
  <2>2. st[owner[p]].job \in Jobs \cup {Nobody}
    BY <2>1, Typed DEF StateObject
  <2>3. CASE s \in States
    BY <2>3
  <2>4. CASE st' # st /\ s \notin States
    BY <1>1, <2>4, Typed
  <2>5. st' # st
    BY DEF OutputLine
  <2> QED BY <2>3, <2>4, <2>5
<1>3. st[s] \in StateObject
  BY <1>2, Typed
<1> HIDE DEF s
<1>4. /\ x \in StateObject /\ x.job = st[s].job /\ x.uncleaned = st[s].uncleaned
      /\ x.proc = st[s].proc
      /\ x.eval = st[s].eval /\ x.start = st[s].start /\ x.stop = st[s].stop
      /\ x.guard = st[s].guard /\ x.restart = st[s].restart
      /\ x.stopping = st[s].stopping /\ x.pausing = st[s].pausing
  BY <1>3, SettlesAlike
<1> HIDE DEF x
<1> QED BY <1>1, <1>2, <1>4, NothingDies, AlikeKept

\* What stopJob leaves of a state object, up to its first await.
LEMMA StopBeginsFields ==
    ASSUME NEW c \in StateObject, NEW by \in Stoppers
    PROVE  LET x == StopBegins(c, by)
           IN  /\ x \in StateObject /\ x.job = c.job /\ x.uncleaned = c.uncleaned
               /\ x.proc = c.proc
               /\ x.eval = c.eval /\ x.start = c.start /\ x.pausing = c.pausing
               /\ x.stop[by] # Idle /\ StopRuns(x)
<1> DEFINE q == SettlesProbe(c, "failed")
           v == IF c.proc # Nobody THEN [at |-> "told", p |-> c.proc]
                ELSE IF c.exit # Nobody THEN [at |-> "exit", p |-> c.exit]
                ELSE [at |-> "close", p |-> Nobody]
           x == [q EXCEPT !.stopping = TRUE, !.guard = FALSE, !.restart = FALSE, !.stop[by] = v]
<1>1. v \in Stopping /\ v # Idle
  BY DEF StateObject, Stopping, Idle
<1>2. /\ q \in StateObject /\ q.job = c.job /\ q.uncleaned = c.uncleaned /\ q.proc = c.proc
      /\ q.eval = c.eval /\ q.start = c.start /\ q.pausing = c.pausing
  BY SettlesAlike
<1>3. StopBegins(c, by) = x
  BY DEF StopBegins
<1> HIDE DEF v, q
<1>4. q.stop \in [Stoppers -> Stopping]
  BY <1>2 DEF StateObject
<1>5. [q.stop EXCEPT ![by] = v] \in [Stoppers -> Stopping] /\ [q.stop EXCEPT ![by] = v][by] = v
  BY <1>1, <1>4
<1>6. /\ x \in StateObject /\ x.job = q.job /\ x.uncleaned = q.uncleaned /\ x.proc = q.proc
      /\ x.eval = q.eval
      /\ x.start = q.start /\ x.pausing = q.pausing /\ x.stop = [q.stop EXCEPT ![by] = v]
  BY <1>2, <1>5 DEF StateObject
<1> HIDE DEF x
<1>7. x.stop[by] # Idle /\ StopRuns(x)
  BY <1>1, <1>5, <1>6 DEF StopRuns
<1> QED BY <1>2, <1>3, <1>6, <1>7

\* Evaluations and calls of a state object, one of which is replaced.
LEMMA EvalReplaced ==
    ASSUME NEW c \in StateObject, NEW by \in Timers, NEW e \in Evaluation
    PROVE  LET x == [c EXCEPT !.eval[by] = e]
           IN  /\ x \in StateObject /\ x.job = c.job /\ x.uncleaned = c.uncleaned
               /\ x.proc = c.proc
               /\ x.start = c.start /\ x.stop = c.stop /\ x.guard = c.guard
               /\ x.restart = c.restart /\ x.stopping = c.stopping
               /\ x.pausing = c.pausing /\ x.eval[by] = e
               /\ \A t \in Timers \ {by} : x.eval[t] = c.eval[t]
<1>1. c.eval \in [Timers -> Evaluation]
  BY DEF StateObject
<1>2. [c.eval EXCEPT ![by] = e] \in [Timers -> Evaluation]
  BY <1>1
<1> QED BY <1>1, <1>2 DEF StateObject

LEMMA StopReplaced ==
    ASSUME NEW c \in StateObject, NEW by \in Stoppers, NEW e \in Stopping
    PROVE  LET x == [c EXCEPT !.stop[by] = e]
           IN  /\ x \in StateObject /\ x.job = c.job /\ x.uncleaned = c.uncleaned
               /\ x.proc = c.proc
               /\ x.start = c.start /\ x.eval = c.eval /\ x.guard = c.guard
               /\ x.restart = c.restart /\ x.stopping = c.stopping
               /\ x.pausing = c.pausing /\ x.stop[by] = e
               /\ \A b \in Stoppers \ {by} : x.stop[b] = c.stop[b]
<1>1. c.stop \in [Stoppers -> Stopping]
  BY DEF StateObject
<1>2. [c.stop EXCEPT ![by] = e] \in [Stoppers -> Stopping]
  BY <1>1
<1> QED BY <1>1, <1>2 DEF StateObject

\* A start that fails stops the entry, if it is entered.
LEMMA StartThrowsFuture ==
    ASSUME IInv, FutureInv, NEW s \in States, StartThrows(s, st[s]), Up,
           UNCHANGED << running, owner, handler >>
    PROVE  FutureInv'
<1> DEFINE c == st[s]
           q == [c EXCEPT !.awaiting = FALSE, !.eval["start"] = Idle]
           x == [StopBegins(q, "cleanup") EXCEPT !.start = "cleanup"]
           y == [q EXCEPT !.start = "ended"]
<1>1. c \in StateObject /\ "start" \in Timers /\ "cleanup" \in Stoppers
  BY Typed DEF Timers, Stoppers
<1>2. /\ q \in StateObject /\ q.job = c.job /\ q.uncleaned = c.uncleaned /\ q.proc = c.proc
      /\ q.pausing = c.pausing
      /\ \A t \in {"guard", "restart"} : q.eval[t] = c.eval[t]
  <2> DEFINE d == [c EXCEPT !.eval["start"] = Idle]
  <2>1. /\ d \in StateObject /\ d.job = c.job /\ d.uncleaned = c.uncleaned /\ d.proc = c.proc
        /\ d.pausing = c.pausing
        /\ \A t \in Timers \ {"start"} : d.eval[t] = c.eval[t]
    BY <1>1, EvalReplaced, IdleIs
  <2>2. q = [d EXCEPT !.awaiting = FALSE]
    BY <1>1 DEF StateObject
  <2> HIDE DEF d, q
  <2>3. q \in StateObject /\ q.job = d.job /\ q.uncleaned = d.uncleaned /\ q.proc = d.proc
                          /\ q.pausing = d.pausing
        /\ q.eval = d.eval
    BY <2>1, <2>2 DEF StateObject
  <2> QED BY <2>1, <2>3 DEF Timers
<1>3. os' \in {os, Tells(st[s].proc)}
  BY DEF StartThrows
<1>4. SameProcesses
  BY <1>3, TellsKills
<1>5. CASE Entered(s)
  <2>1. st' = [st EXCEPT ![s] = x]
    BY <1>5 DEF StartThrows
  <2> HIDE DEF q
  <2>2. LET z == StopBegins(q, "cleanup")
        IN  /\ z \in StateObject /\ z.job = q.job /\ z.uncleaned = q.uncleaned
            /\ z.proc = q.proc
            /\ z.eval = q.eval /\ z.pausing = q.pausing /\ StopRuns(z)
    BY <1>1, <1>2, StopBeginsFields
  <2>3. /\ x \in StateObject /\ x.job = q.job /\ x.uncleaned = q.uncleaned /\ x.proc = q.proc
        /\ x.start = "cleanup"
        /\ x.eval = q.eval /\ x.pausing = q.pausing /\ StopRuns(x)
    BY <2>2 DEF StateObject, StopRuns
  <2> HIDE DEF x
  <2>4. st'[s] = x /\ \A t \in States \ {s} : st'[t] = st[t]
    BY <2>1, Typed
  <2>5. Attended(s) => Attended(s)'
    BY <1>2, <1>4, <2>3, <2>4, StopAttended
  <2>6. ~ st[s].uncleaned => Attended(s)
    BY <1>5 DEF FutureInv, Provided
  <2> QED BY <1>2, <1>4, <2>3, <2>4, <2>5, <2>6, FutureStep
<1>6. CASE ~ Entered(s)
  <2>1. st' = [st EXCEPT ![s] = y]
    BY <1>6 DEF StartThrows
  <2> HIDE DEF q
  <2>2. y.job = q.job /\ y.uncleaned = q.uncleaned /\ y.proc = q.proc /\ y.start = "ended"
    BY <1>2 DEF StateObject
  <2> HIDE DEF y
  <2>3. st'[s] = y /\ \A t \in States \ {s} : st'[t] = st[t]
    BY <2>1, Typed
  <2> QED BY <1>2, <1>4, <1>6, <2>2, <2>3, FutureStep
<1> QED BY <1>5, <1>6

LEMMA ProbeEndsFuture ==
    ASSUME IInv, FutureInv, NEW s \in States, ProbeEnds(s) PROVE FutureInv'
<1>1. Up /\ UNCHANGED << running, owner, handler >>
  BY DEF ProbeEnds
<1>2. CASE st[s].probe = "failed" /\ StartThrows(s, st[s])
  BY <1>1, <1>2, StartThrowsFuture
<1>3. CASE st' = [st EXCEPT ![s].awaiting = FALSE, ![s].start = "ended"] /\ UNCHANGED os
  <2> DEFINE c == st[s]
             x == [c EXCEPT !.awaiting = FALSE, !.start = "ended"]
  <2>1. c \in StateObject
    BY Typed
  <2>2. st' = [st EXCEPT ![s] = x]
    BY <1>3, <2>1, Typed DEF StateObject
  <2>3. /\ x \in StateObject /\ x.job = c.job /\ x.uncleaned = c.uncleaned /\ x.proc = c.proc
        /\ x.eval = c.eval
        /\ x.start = "ended" /\ x.stop = c.stop /\ x.guard = c.guard
        /\ x.restart = c.restart /\ x.stopping = c.stopping /\ x.pausing = c.pausing
    BY <2>1 DEF StateObject
  <2> HIDE DEF x
  <2> QED BY <1>1, <1>3, <2>2, <2>3, NothingDies, AlikeKept
<1> QED BY <1>2, <1>3 DEF ProbeEnds

\* A state object is removed from the map when it has nothing left.
LEMMA RemovedFuture ==
    ASSUME IInv, FutureInv, NEW s \in States, Up, SameProcesses, Removed(s),
           NEW x \in StateObject, st' = [st EXCEPT ![s] = x],
           x.job = st[s].job, x.uncleaned = st[s].uncleaned, x.proc = st[s].proc,
           x.start \in {"none", "checking"} =>
              /\ x.start = st[s].start
              /\ (x.stopping => st[s].stopping) /\ (x.pausing => st[s].pausing)
    PROVE  FutureInv'
<1>1. st'[s] = x /\ \A t \in States \ {s} : st'[t] = st[t]
  BY Typed
<1>2. ~ Entered(s)'
  <2>1. st[s].job \in Jobs \cup {Nobody} /\ running \in [Jobs -> States \cup {Nobody}]
    BY Typed DEF StateObject
  <2> QED BY <1>1, <2>1 DEF Removed, Entered
<1> QED BY <1>1, <1>2, FutureStep

LEMMA EvaluationFailsFuture ==
    ASSUME IInv, FutureInv, NEW s \in States, NEW by \in Timers, EvaluationFails(s, by)
    PROVE  FutureInv'
<1> DEFINE x == [st[s] EXCEPT !.eval[by] = Idle]
<1>1. /\ x \in StateObject /\ x.job = st[s].job /\ x.uncleaned = st[s].uncleaned /\ x.proc = st[s].proc
      /\ x.start = st[s].start
      /\ x.stopping = st[s].stopping /\ x.pausing = st[s].pausing
  BY Typed, IdleIs, EvalReplaced
<1>2. st' = [st EXCEPT ![s] = x] /\ Removed(s) /\ Up /\ UNCHANGED << os, owner, handler >>
  BY Typed DEF EvaluationFails, StateObject
<1> HIDE DEF x
<1> QED BY <1>1, <1>2, NothingDies, RemovedFuture

\* An evaluation goes on: what it has left for the entry, it or a handler has.
LEMMA EvalFuture ==
    ASSUME IInv, FutureInv, NEW s \in States, NEW by \in Timers, Up, SameProcesses,
           running' = running, NEW x \in StateObject, st' = [st EXCEPT ![s] = x],
           x.job = st[s].job, x.uncleaned = st[s].uncleaned, x.proc = st[s].proc,
           x.start \in {"none", "checking"} => x.start = st[s].start,
           x.stop = st[s].stop, x.stopping = st[s].stopping, x.pausing = st[s].pausing,
           OtherEvals(x, st[s], by),
           st[s].guard => x.guard, st[s].restart => x.restart,
           \/ x.guard \/ PauseRuns(s)'
           \/ x.eval[by].at \in {"launch", "announce"}
           \/ st[s].eval[by].at \notin {"launch", "announce"},
           \/ by = "start" \/ PauseRuns(s)' \/ Exiting(s)
           \/ /\ st[s].eval[by].at \notin {"log", "fail"}
              /\ st[s].eval[by].at = "stop" => ~ Unhandled(s, st[s].eval[by].p)
    PROVE  FutureInv'
<1>1. st'[s] = x /\ \A t \in States \ {s} : st'[t] = st[t]
  BY Typed
<1>2. ASSUME Attended(s) PROVE Attended(s)'
  <2>1. Exiting(s) => Exiting(s)'
    BY ExitsKept
  <2>2. PauseRuns(s) => PauseRuns(s)' \/ Exiting(s)'
    <3>1. SUFFICES ASSUME NEW t \in {"guard", "restart"}, t # by,
                          \/ st[s].eval[t].at \in {"log", "fail"}
                          \/ st[s].eval[t].at = "stop" /\ Unhandled(s, st[s].eval[t].p)
                   PROVE  PauseRuns(s)'
      BY <2>1 DEF PauseRuns
    <3>2. st'[s].eval[t] = st[s].eval[t]
      BY <1>1, <3>1 DEF Timers, OtherEvals
    <3> QED BY <3>1, <3>2, ExitsKept DEF PauseRuns
  <2>3. LaunchRuns(st[s]) => LaunchRuns(st'[s]) \/ st'[s].guard \/ PauseRuns(s)'
    BY <1>1 DEF LaunchRuns, OtherEvals
  <2>4. StopRuns(st[s]) = StopRuns(st'[s])
    BY <1>1 DEF StopRuns
  <2>5. st'[s].stopping = st[s].stopping /\ st'[s].pausing = st[s].pausing
        /\ (st[s].guard => st'[s].guard) /\ (st[s].restart => st'[s].restart)
    BY <1>1
  <2> QED BY <1>2, <2>1, <2>2, <2>3, <2>4, <2>5 DEF Attended, LaunchRuns, StopRuns
<1>3. Entered(s) /\ ~ st[s].uncleaned => Attended(s)
  BY DEF FutureInv, Provided
<1> QED BY <1>1, <1>2, <1>3, FutureStep

LEMMA LaunchFailsFuture ==
    ASSUME IInv, FutureInv, NEW s \in States, NEW by \in Timers, LaunchFails(s, by)
    PROVE  FutureInv'
<1>1. Up /\ UNCHANGED << running, owner, handler >> /\ st[s].eval[by].at = "launch"
  BY DEF LaunchFails
<1>2. CASE by = "start"
  BY <1>1, <1>2, StartThrowsFuture DEF LaunchFails
<1>3. CASE by # "start"
  <2> DEFINE e == [st[s].eval[by] EXCEPT !.at = "fail"]
             x == [st[s] EXCEPT !.eval[by] = e]
  <2>1. st[s] \in StateObject /\ st[s].eval[by] \in Evaluation
    BY Typed DEF StateObject
  <2>2. e \in Evaluation /\ e.at = "fail"
    BY <2>1 DEF Evaluation
  <2>3. st' = [st EXCEPT ![s] = x] /\ UNCHANGED os
    BY <1>3, <2>1, Typed DEF LaunchFails, StateObject
  <2> HIDE DEF e
  <2>4. /\ x \in StateObject /\ x.job = st[s].job /\ x.uncleaned = st[s].uncleaned
        /\ x.proc = st[s].proc
        /\ x.start = st[s].start /\ x.stop = st[s].stop /\ x.guard = st[s].guard
        /\ x.restart = st[s].restart /\ x.stopping = st[s].stopping
        /\ x.pausing = st[s].pausing /\ x.eval[by] = e
        /\ \A t \in Timers \ {by} : x.eval[t] = st[s].eval[t]
    BY <2>1, <2>2, EvalReplaced
  <2> HIDE DEF x
  <2>5. PauseRuns(s)'
    <3>1. st'[s].eval[by].at = "fail"
      BY <2>1, <2>2, <2>3, <2>4, Typed
    <3> QED BY <1>3, <3>1 DEF PauseRuns, Timers
  <2>6. SameProcesses /\ (st[s].guard => x.guard) /\ (st[s].restart => x.restart)
    BY <1>1, <2>3, <2>4, NothingDies
  <2>7. /\ x \in StateObject /\ x.job = st[s].job /\ x.uncleaned = st[s].uncleaned
        /\ x.proc = st[s].proc
        /\ x.start \in {"none", "checking"} => x.start = st[s].start
        /\ x.stop = st[s].stop /\ x.stopping = st[s].stopping /\ x.pausing = st[s].pausing
        /\ OtherEvals(x, st[s], by)
    BY <2>4 DEF OtherEvals
  <2>8. running' = running
    BY <1>1
  <2> QED BY <1>1, <2>3, <2>5, <2>6, <2>7, <2>8, EvalFuture
<1> QED BY <1>2, <1>3

LEMMA AnnouncedFuture ==
    ASSUME IInv, FutureInv, NEW s \in States, NEW by \in Timers, Announced(s, by)
    PROVE  FutureInv'
<1> DEFINE d == [st[s] EXCEPT !.eval[by] = Idle]
           q == [d EXCEPT !.guard = TRUE]
           x == IF by # "start" THEN q
                ELSE IF q.proc # Nobody /\ q.probe # "none"
                THEN [q EXCEPT !.start = "probing"]
                ELSE [q EXCEPT !.awaiting = FALSE, !.start = "ended"]
<1>1. st[s] \in StateObject
  BY Typed
<1>2. /\ d \in StateObject /\ d.job = st[s].job /\ d.uncleaned = st[s].uncleaned
      /\ d.proc = st[s].proc
      /\ d.start = st[s].start /\ d.stop = st[s].stop /\ d.restart = st[s].restart
      /\ d.stopping = st[s].stopping /\ d.pausing = st[s].pausing
      /\ \A t \in Timers \ {by} : d.eval[t] = st[s].eval[t]
  BY <1>1, IdleIs, EvalReplaced
<1>3. st' = [st EXCEPT ![s] = x] /\ Up /\ UNCHANGED << running, os, owner, handler >>
      /\ st[s].eval[by].at = "announce"
  BY <1>1 DEF Announced, StateObject
<1> HIDE DEF d
<1>4. /\ q \in StateObject /\ q.job = d.job /\ q.uncleaned = d.uncleaned /\ q.proc = d.proc
      /\ q.start = d.start
      /\ q.stop = d.stop /\ q.restart = d.restart /\ q.stopping = d.stopping
      /\ q.pausing = d.pausing /\ q.eval = d.eval /\ q.guard = TRUE
  BY <1>2 DEF StateObject
<1> HIDE DEF q
<1>5. /\ x \in StateObject /\ x.job = q.job /\ x.uncleaned = q.uncleaned /\ x.proc = q.proc
      /\ x.start \in {q.start, "probing", "ended"}
      /\ x.stop = q.stop /\ x.restart = q.restart /\ x.stopping = q.stopping
      /\ x.pausing = q.pausing /\ x.eval = q.eval /\ x.guard = TRUE
  <2> DEFINE f == [q EXCEPT !.start = "probing"]
             g == [q EXCEPT !.awaiting = FALSE, !.start = "ended"]
             Is(y) == /\ y \in StateObject /\ y.job = q.job /\ y.uncleaned = q.uncleaned
                      /\ y.proc = q.proc /\ y.start \in {q.start, "probing", "ended"}
                      /\ y.stop = q.stop /\ y.restart = q.restart
                      /\ y.stopping = q.stopping /\ y.pausing = q.pausing
                      /\ y.eval = q.eval /\ y.guard = TRUE
  <2>1. Is(q)
    BY <1>4
  <2>2. Is(f)
    BY <1>4 DEF StateObject
  <2>3. Is(g)
    BY <1>4 DEF StateObject
  <2>4. x \in {q, f, g}
    OBVIOUS
  <2> HIDE DEF f, g, x
  <2> QED BY <2>1, <2>2, <2>3, <2>4
<1> HIDE DEF x
<1>6. /\ x \in StateObject /\ x.job = st[s].job /\ x.uncleaned = st[s].uncleaned
      /\ x.proc = st[s].proc
      /\ x.start \in {"none", "checking"} => x.start = st[s].start
      /\ x.stop = st[s].stop /\ x.stopping = st[s].stopping /\ x.pausing = st[s].pausing
      /\ OtherEvals(x, st[s], by)
  BY <1>2, <1>4, <1>5 DEF OtherEvals
<1>7. x.guard /\ (st[s].guard => x.guard) /\ (st[s].restart => x.restart)
  BY <1>2, <1>4, <1>5
<1>8. SameProcesses /\ st[s].eval[by].at \notin {"log", "fail", "stop"}
  BY <1>3, NothingDies
<1> QED BY <1>3, <1>6, <1>7, <1>8, EvalFuture

\* One evaluation of s is replaced, in place.
LEMMA EvalStep ==
    ASSUME IInv, FutureInv, NEW s \in States, NEW by \in Timers, Up, SameProcesses,
           running' = running, NEW e \in Evaluation, st' = [st EXCEPT ![s].eval[by] = e],
           st[s].eval[by].at \notin {"launch", "announce"},
           by = "start" \/ PauseRuns(s)' \/ Exiting(s)
               \/ (st[s].eval[by].at = "stop" /\ ~ Unhandled(s, st[s].eval[by].p))
    PROVE  FutureInv'
<1> DEFINE x == [st[s] EXCEPT !.eval[by] = e]
<1>1. st[s] \in StateObject
  BY Typed
<1>2. st' = [st EXCEPT ![s] = x]
  BY <1>1
<1>3. /\ x \in StateObject /\ x.job = st[s].job /\ x.uncleaned = st[s].uncleaned
      /\ x.proc = st[s].proc
      /\ x.start = st[s].start /\ x.stop = st[s].stop /\ x.guard = st[s].guard
      /\ x.restart = st[s].restart /\ x.stopping = st[s].stopping
      /\ x.pausing = st[s].pausing /\ OtherEvals(x, st[s], by)
  BY <1>1, EvalReplaced DEF OtherEvals
<1> HIDE DEF x
<1>4. /\ x.start \in {"none", "checking"} => x.start = st[s].start
      /\ (st[s].guard => x.guard) /\ (st[s].restart => x.restart)
  BY <1>3
<1>5. \/ by = "start" \/ PauseRuns(s)' \/ Exiting(s)
      \/ /\ st[s].eval[by].at \notin {"log", "fail"}
         /\ st[s].eval[by].at = "stop" => ~ Unhandled(s, st[s].eval[by].p)
  OBVIOUS
<1> QED BY <1>2, <1>3, <1>4, <1>5, EvalFuture

LEMMA PauseTellsFuture ==
    ASSUME IInv, FutureInv, NEW s \in States, NEW by \in Timers, PauseTells(s, by)
    PROVE  FutureInv'
<1> DEFINE p == st[s].proc
           e == IF p = Nobody THEN [st[s].eval[by] EXCEPT !.at = "fail"]
                ELSE [at |-> "stop", p |-> p]
<1>1. st[s] \in StateObject /\ st[s].eval[by] \in Evaluation /\ p \in Miners \cup {Nobody}
      /\ st[s].eval \in [Timers -> Evaluation]
  BY Typed DEF StateObject
<1>2. e \in Evaluation /\ e.at \in {"fail", "stop"} /\ (e.at = "stop" => e.p = p /\ p # Nobody)
  BY <1>1 DEF Evaluation
<1>3. /\ Up /\ st[s].eval[by].at = "log" /\ st' = [st EXCEPT ![s].eval[by] = e]
      /\ os' \in {os, Tells(p)} /\ UNCHANGED << running, owner, handler >>
  BY <1>1, Typed DEF PauseTells
<1>4. SameProcesses
  BY <1>3, TellsKills
<1>5. p # Nobody => Unhandled(s, p)
  BY <1>3 DEF FutureInv, Provided, HoldsOwn, Unhandled
<1> HIDE DEF e
<1>6. st'[s].eval[by] = e
  BY <1>1, <1>2, <1>3, Typed
<1>7. by # "start" => PauseRuns(s)'
  <2>1. p # Nobody => Unhandled(s, st[s].proc)'
    <3>1. p # Nobody => st'[s].proc = p
      BY <1>1, <1>3, Typed DEF StateObject
    <3>2. \A q : Unhandled(s, q) => Unhandled(s, q)'
      BY <1>4, ExitsKept
    <3> QED BY <1>5, <3>1, <3>2 DEF Unhandled
  <2>2. st'[s].proc = p
    BY <1>1, <1>3, Typed DEF StateObject
  <2> QED BY <1>2, <1>6, <2>1, <2>2 DEF PauseRuns, Timers, Unhandled
<1>8. by = "start" \/ PauseRuns(s)' \/ Exiting(s)
  BY <1>7
<1> QED BY <1>2, <1>3, <1>4, <1>8, EvalStep

LEMMA PauseEndsFuture ==
    ASSUME IInv, FutureInv, NEW s \in States, NEW by \in Timers, PauseEnds(s, by)
    PROVE  FutureInv'
<1> DEFINE p == st[s].eval[by].p
           f == [at |-> "fail", p |-> Nobody]
<1>1. st[s] \in StateObject /\ f \in Evaluation /\ Idle \in Evaluation
  BY Typed, IdleIs DEF Evaluation
<1>2. Up /\ st[s].eval[by].at = "stop" /\ UNCHANGED << running, owner, handler >>
  BY DEF PauseEnds
<1>3. CASE os[p] = "dead" /\ st' = [st EXCEPT ![s].eval[by] = Idle] /\ UNCHANGED os
  <2>1. SameProcesses
    BY <1>2, <1>3, NothingDies
  <2>2. Unhandled(s, p) => Exiting(s)
    BY <1>3 DEF Unhandled, Exiting, Lives
  <2> QED BY <1>1, <1>2, <1>3, <2>1, <2>2, EvalStep
<1>4. CASE st' = [st EXCEPT ![s].eval[by] = f] /\ os' = [os EXCEPT ![p] = "alive"]
  <2>1. SameProcesses
    <3>1. os' \in {os, [os EXCEPT ![p] = "alive"]} /\ UNCHANGED << owner, handler >>
      BY <1>2, <1>4
    <3> HIDE DEF p
    <3> QED BY <3>1, ReviveKills
  <2>2. st'[s].eval[by].at = "fail"
    BY <1>1, <1>4, Typed DEF StateObject
  <2>3. by = "start" \/ PauseRuns(s)'
    BY <2>2 DEF PauseRuns, Timers
  <2> HIDE DEF f
  <2> QED BY <1>1, <1>2, <1>4, <2>1, <2>3, EvalStep
<1> QED BY <1>3, <1>4 DEF PauseEnds

\* A timer has gone off.  What it finds is being stopped, or being paused, or
\* it launches, pauses or comes again.
LEMMA EvaluateFuture ==
    ASSUME IInv, FutureInv, NEW s \in States, NEW by \in {"guard", "restart"},
           NEW q \in StateObject, Evaluate(s, by, q), Up, st[s].eval[by] = Idle,
           q.job = st[s].job, q.uncleaned = st[s].uncleaned, q.proc = st[s].proc, q.start = st[s].start,
           q.stop = st[s].stop, q.eval = st[s].eval, q.stopping = st[s].stopping,
           q.pausing = st[s].pausing, UNCHANGED << running, os, owner, handler >>
    PROVE  FutureInv'
<1> DEFINE launch == [q EXCEPT !.eval[by].at = "launch"]
           log == [q EXCEPT !.pausing = TRUE, !.eval[by].at = "log"]
           again == [q EXCEPT !.guard = TRUE]
           Is(x) == /\ x.job = st[s].job /\ x.uncleaned = st[s].uncleaned /\ x.proc = st[s].proc
                    /\ x.start = st[s].start
                    /\ x.stop = st[s].stop /\ x.stopping = st[s].stopping
                    /\ OtherEvals(x, st[s], by)
<1>1. by \in Timers /\ q.eval[by] = Idle /\ SameProcesses
  BY NothingDies DEF Timers
<1>2. Is(q) /\ Is(launch) /\ Is(log) /\ Is(again)
  <2> DEFINE e == [Idle EXCEPT !.at = "launch"]
             f == [Idle EXCEPT !.at = "log"]
  <2>1. q.eval \in [Timers -> Evaluation]
    BY DEF StateObject
  <2>2. launch = [q EXCEPT !.eval[by] = e] /\ log = [[q EXCEPT !.eval[by] = f] EXCEPT !.pausing = TRUE]
    BY <1>1, <2>1 DEF StateObject
  <2>3. e \in Evaluation /\ f \in Evaluation
    BY DEF Idle, Evaluation
  <2> HIDE DEF e, f
  <2>4. Is([q EXCEPT !.eval[by] = e]) /\ Is([q EXCEPT !.eval[by] = f])
    BY <1>1, <2>3, EvalReplaced DEF OtherEvals
  <2>5. [q EXCEPT !.eval[by] = f] \in StateObject
    BY <1>1, <2>3, EvalReplaced
  <2>6. Is([[q EXCEPT !.eval[by] = f] EXCEPT !.pausing = TRUE])
    BY <2>4, <2>5 DEF StateObject, OtherEvals
  <2>7. Is(q) /\ Is(again)
    BY DEF StateObject, OtherEvals
  <2> QED BY <2>2, <2>4, <2>6, <2>7
<1>3. launch.eval[by].at = "launch" /\ log.eval[by].at = "log" /\ again.guard = TRUE
      /\ launch.pausing = q.pausing /\ again.pausing = q.pausing
  BY <1>1 DEF StateObject, Idle, Evaluation
<1>4. \/ st' = [st EXCEPT ![s] = q] /\ (Entered(s) => st[s].stopping \/ st[s].pausing)
      \/ st' = [st EXCEPT ![s] = launch] \/ st' = [st EXCEPT ![s] = log]
      \/ st' = [st EXCEPT ![s] = again]
  BY DEF Evaluate
<1> HIDE DEF launch, log, again
<1>5. /\ Is(st'[s]) /\ \A t \in States \ {s} : st'[t] = st[t]
      /\ \/ Entered(s) => st[s].stopping \/ st[s].pausing
         \/ st'[s].guard \/ st'[s].eval[by].at \in {"launch", "log"}
      /\ st'[s].pausing = st[s].pausing \/ st'[s].eval[by].at = "log"
  BY <1>2, <1>3, <1>4, Typed
<1>6. ASSUME Entered(s), Attended(s) PROVE Attended(s)'
  <2>1. Exiting(s) => Exiting(s)'
    BY <1>1, ExitsKept
  <2>2. PauseRuns(s) => PauseRuns(s)'
    <3> SUFFICES ASSUME NEW t \in {"guard", "restart"},
                        \/ st[s].eval[t].at \in {"log", "fail"}
                        \/ st[s].eval[t].at = "stop" /\ Unhandled(s, st[s].eval[t].p)
                 PROVE  PauseRuns(s)'
      BY DEF PauseRuns
    <3>1. t # by
      BY IdleIs
    <3>2. st'[s].eval[t] = st[s].eval[t]
      BY <1>5, <3>1 DEF OtherEvals, Timers
    <3> QED BY <1>1, <3>2, ExitsKept DEF PauseRuns
  <2>3. st'[s].eval[by].at = "log" => PauseRuns(s)'
    BY DEF PauseRuns
  <2>4. st'[s].eval[by].at = "launch" => LaunchRuns(st'[s])
    BY <1>1 DEF LaunchRuns
  <2>5. StopRuns(st[s]) = StopRuns(st'[s]) /\ st'[s].stopping = st[s].stopping
    BY <1>5 DEF StopRuns
  <2>6. st'[s].pausing => PauseRuns(s)' \/ Exiting(s)'
    BY <1>5, <1>6, <2>1, <2>2, <2>3 DEF Attended
  <2>7. \/ st'[s].guard \/ LaunchRuns(st'[s]) \/ PauseRuns(s)'
        \/ StopRuns(st'[s]) \/ Exiting(s)'
    BY <1>5, <1>6, <2>1, <2>2, <2>3, <2>4, <2>5 DEF Attended
  <2> QED BY <1>6, <2>5, <2>6, <2>7 DEF Attended, LaunchRuns, StopRuns
<1>7. Entered(s) /\ ~ st[s].uncleaned => Attended(s)
  BY DEF FutureInv, Provided
<1>8. st'[s].start \in {"none", "checking"} => st'[s].pausing = st[s].pausing
  <2>1. CASE Entered(s)
    <3>1. st[s].job \in Jobs /\ running[st[s].job] = s
      BY <2>1, Typed DEF Entered, StateObject
    <3>2. st[s].start \notin {"none", "checking"}
      BY <3>1 DEF FutureInv, Entries
    <3> QED BY <1>5, <3>2
  <2>2. CASE ~ Entered(s)
    BY <2>2, Typed DEF Evaluate
  <2> QED BY <2>1, <2>2
<1> QED BY <1>1, <1>5, <1>6, <1>7, <1>8, FutureStep

LEMMA TimersFuture ==
    ASSUME IInv, FutureInv, NEW s \in States, GuardTimer(s) \/ RestartTimer(s)
    PROVE  FutureInv'
<1>1. st[s] \in StateObject
  BY Typed
<1>2. CASE GuardTimer(s)
  <2> DEFINE q == [st[s] EXCEPT !.guard = FALSE]
  <2>1. /\ q \in StateObject /\ q.job = st[s].job /\ q.uncleaned = st[s].uncleaned
        /\ q.proc = st[s].proc
        /\ q.start = st[s].start /\ q.stop = st[s].stop /\ q.eval = st[s].eval
        /\ q.stopping = st[s].stopping /\ q.pausing = st[s].pausing
    BY <1>1 DEF StateObject
  <2>2. Evaluate(s, "guard", q) /\ Up /\ st[s].eval["guard"] = Idle
        /\ UNCHANGED << running, os, owner, handler >>
    BY <1>2 DEF GuardTimer
  <2> HIDE DEF q
  <2> QED BY <2>1, <2>2, EvaluateFuture
<1>3. CASE RestartTimer(s)
  <2> DEFINE q == [st[s] EXCEPT !.restart = FALSE]
  <2>1. /\ q \in StateObject /\ q.job = st[s].job /\ q.uncleaned = st[s].uncleaned
        /\ q.proc = st[s].proc
        /\ q.start = st[s].start /\ q.stop = st[s].stop /\ q.eval = st[s].eval
        /\ q.stopping = st[s].stopping /\ q.pausing = st[s].pausing
    BY <1>1 DEF StateObject
  <2>2. Evaluate(s, "restart", q) /\ Up /\ st[s].eval["restart"] = Idle
        /\ UNCHANGED << running, os, owner, handler >>
    BY <1>3 DEF RestartTimer
  <2> HIDE DEF q
  <2> QED BY <2>1, <2>2, EvaluateFuture
<1> QED BY <1>2, <1>3

\* stopJob.
LEMMA StopJobFuture ==
    ASSUME IInv, FutureInv, NEW j \in Jobs, StopJob(j) PROVE FutureInv'
<1>0. PICK s \in States : s = running[j]
  BY Typed DEF StopJob
<1> DEFINE x == StopBegins(st[s], "user")
<1>1. /\ s \in States /\ Up /\ UNCHANGED << running, owner, handler >>
      /\ st' = [st EXCEPT ![s] = x] /\ os' \in {os, Tells(st[s].proc)}
      /\ st[s] \in StateObject /\ st[s].job = j /\ st[s].start \notin {"none", "checking"}
  <2>1. s # Nobody
    BY <1>0 DEF StopJob
  <2>2. st[s].job = j /\ st[s].start \notin {"none", "checking"}
    BY <1>0, <2>1 DEF FutureInv, Entries
  <2> QED BY <1>0, <2>1, <2>2, Typed DEF StopJob
<1>2. /\ x \in StateObject /\ x.job = st[s].job /\ x.uncleaned = st[s].uncleaned
      /\ x.proc = st[s].proc
      /\ x.eval = st[s].eval /\ x.start = st[s].start /\ x.pausing = st[s].pausing
      /\ StopRuns(x)
  BY <1>1, StopBeginsFields DEF Stoppers
<1> HIDE DEF x
<1>3. st'[s] = x /\ \A t \in States \ {s} : st'[t] = st[t]
  BY <1>1, Typed
<1>4. SameProcesses
  BY <1>1, TellsKills
<1>5. Attended(s) => Attended(s)'
  BY <1>1, <1>2, <1>3, <1>4, StopAttended
<1>6. Entered(s) /\ ~ st[s].uncleaned => Attended(s)
  BY <1>1 DEF FutureInv, Provided
<1> QED BY <1>1, <1>2, <1>3, <1>4, <1>5, <1>6, FutureStep

LEMMA StoppingIs ==
    ASSUME NEW e \in Stopping, NEW at \in {"idle", "told", "exit", "close"}
    PROVE  [e EXCEPT !.at = at] \in Stopping /\ [e EXCEPT !.at = at].at = at
  BY DEF Stopping

\* A call of stopJob that goes on.
LEMMA StopStep ==
    ASSUME IInv, FutureInv, NEW s \in States, NEW by \in Stoppers, Up,
           UNCHANGED << running, os, owner, handler >>,
           NEW e \in Stopping, e # Idle, st' = [st EXCEPT ![s].stop[by] = e]
    PROVE  FutureInv'
<1> DEFINE x == [st[s] EXCEPT !.stop[by] = e]
<1>1. st[s] \in StateObject
  BY Typed
<1>2. st' = [st EXCEPT ![s] = x]
  OBVIOUS
<1>3. /\ x \in StateObject /\ x.job = st[s].job /\ x.uncleaned = st[s].uncleaned
      /\ x.proc = st[s].proc
      /\ x.start = st[s].start /\ x.eval = st[s].eval /\ x.guard = st[s].guard
      /\ x.restart = st[s].restart /\ x.stopping = st[s].stopping
      /\ x.pausing = st[s].pausing /\ x.stop[by] = e
      /\ \A b \in Stoppers \ {by} : x.stop[b] = st[s].stop[b]
  BY <1>1, StopReplaced
<1> HIDE DEF x
<1>4. st'[s] = x /\ \A t \in States \ {s} : st'[t] = st[t]
  BY <1>2, Typed
<1>5. SameProcesses
  BY NothingDies
<1>6. Attended(s) => Attended(s)'
  <2>1. \A b \in Stoppers : st[s].stop[b] # Idle => st'[s].stop[b] # Idle
    BY <1>3, <1>4
  <2> QED BY <1>3, <1>4, <1>5, <2>1, AttendedKept
<1>7. Entered(s) /\ ~ st[s].uncleaned => Attended(s)
  BY DEF FutureInv, Provided
<1> QED BY <1>3, <1>4, <1>5, <1>6, <1>7, FutureStep

LEMMA MinerStoppedFuture ==
    ASSUME IInv, FutureInv, NEW s \in States, NEW by \in Stoppers, MinerStopped(s, by)
    PROVE  FutureInv'
<1> DEFINE e == [at |-> "exit", p |-> st[s].exit]
<1>1. e \in Stopping /\ e # Idle
  BY Typed DEF StateObject, Stopping, Idle
<1>2. /\ Up /\ UNCHANGED << running, os, owner, handler >>
      /\ st' = [st EXCEPT ![s].stop[by] = e]
  BY DEF MinerStopped
<1> HIDE DEF e
<1> QED BY <1>1, <1>2, StopStep

\* The fields of a state object from which a call of stopJob returns.
LEMMA ReturnsFields ==
    ASSUME NEW c \in StateObject, NEW by \in Stoppers
    PROVE  LET x == StopReturns(c, by)
           IN  /\ x \in StateObject /\ x.job = c.job /\ x.uncleaned = c.uncleaned /\ x.proc = c.proc
               /\ x.eval = c.eval
               /\ x.start \in {c.start, "ended"} /\ x.pausing = c.pausing
               /\ x.stopping = c.stopping /\ x.guard = c.guard /\ x.restart = c.restart
<1> DEFINE d == [c EXCEPT !.stop[by] = Idle]
<1>1. /\ d \in StateObject /\ d.job = c.job /\ d.uncleaned = c.uncleaned /\ d.proc = c.proc
      /\ d.eval = c.eval
      /\ d.start = c.start /\ d.pausing = c.pausing
      /\ d.stopping = c.stopping /\ d.guard = c.guard /\ d.restart = c.restart
  BY IdleIs, StopReplaced
<1> DEFINE v == IF by = "cleanup" THEN "ended" ELSE c.start
<1>2. StopReturns(c, by) = [d EXCEPT !.start = v]
  BY DEF StopReturns, StateObject
<1>3. v \in {c.start, "ended"} /\ c.start \in {"none", "checking", "launching", "probing", "cleanup", "ended"}
  BY DEF StateObject
<1> HIDE DEF d, v
<1> QED BY <1>1, <1>2, <1>3 DEF StateObject

LEMMA StopClosesFuture ==
    ASSUME IInv, FutureInv, NEW s \in States, NEW by \in Stoppers, StopCloses(s, by)
    PROVE  FutureInv'
<1> DEFINE x == StopReturns(st[s], by)
<1>1. /\ Up /\ UNCHANGED << os, owner, handler >> /\ Removed(s)
      /\ st' = [st EXCEPT ![s] = x]
  BY DEF StopCloses
<1>2. /\ x \in StateObject /\ x.job = st[s].job /\ x.uncleaned = st[s].uncleaned
      /\ x.proc = st[s].proc
      /\ x.start \in {st[s].start, "ended"} /\ x.pausing = st[s].pausing
      /\ x.stopping = st[s].stopping
  BY Typed, ReturnsFields
<1> HIDE DEF x
<1>3. x.start \in {"none", "checking"} =>
         x.start = st[s].start /\ x.stopping = st[s].stopping /\ x.pausing = st[s].pausing
  BY <1>2
<1> QED BY <1>1, <1>2, <1>3, NothingDies, RemovedFuture

LEMMA StopRejectsFuture ==
    ASSUME IInv, FutureInv, NEW s \in States, NEW by \in Stoppers, StopRejects(s, by), Up,
           SameProcesses
    PROVE  FutureInv'
<1> DEFINE q == StopReturns(st[s], by)
           g == q.guard \/ Entered(s)
           x == [q EXCEPT !.stopping = FALSE, !.guard = g]
<1>1. /\ st' = [st EXCEPT ![s] = x]
      /\ by = "cleanup" => Removed(s)
      /\ by # "cleanup" => running' = running
  BY DEF StopRejects
<1>2. /\ q \in StateObject /\ q.job = st[s].job /\ q.uncleaned = st[s].uncleaned
      /\ q.proc = st[s].proc
      /\ q.eval = st[s].eval /\ q.start \in {st[s].start, "ended"}
      /\ q.pausing = st[s].pausing /\ q.restart = st[s].restart
  BY Typed, ReturnsFields
<1>3. g \in BOOLEAN /\ (Entered(s) => g)
  BY <1>2 DEF StateObject, Entered
<1> HIDE DEF q, g
<1>4. /\ x \in StateObject /\ x.job = q.job /\ x.uncleaned = q.uncleaned /\ x.proc = q.proc
      /\ x.eval = q.eval
      /\ x.start = q.start /\ x.pausing = q.pausing /\ x.stopping = FALSE /\ x.guard = g
  BY <1>2, <1>3 DEF StateObject
<1>5. x.start \in {"none", "checking"} =>
         x.start = st[s].start /\ ~ x.stopping /\ x.pausing = st[s].pausing
  BY <1>2, <1>4
<1>7. CASE by = "cleanup"
  BY <1>1, <1>2, <1>4, <1>5, <1>7, RemovedFuture
<1>8. CASE by # "cleanup"
  <2>1. st'[s] = x /\ \A t \in States \ {s} : st'[t] = st[t]
    BY <1>1, Typed
  <2>2. ASSUME Entered(s), Attended(s) PROVE Attended(s)'
    <3>1. PauseRuns(s) => PauseRuns(s)'
      BY <1>2, <1>4, <2>1, ExitsKept DEF PauseRuns
    <3>2. Exiting(s) => Exiting(s)'
      BY ExitsKept
    <3>3. st'[s].guard /\ ~ st'[s].stopping /\ st'[s].pausing = st[s].pausing
      BY <1>2, <1>3, <1>4, <2>1, <2>2
    <3> QED BY <2>2, <3>1, <3>2, <3>3 DEF Attended
  <2>3. Entered(s) /\ ~ st[s].uncleaned => Attended(s)
    BY <1>1 DEF FutureInv, Provided
  <2> QED BY <1>1, <1>2, <1>4, <1>5, <1>8, <2>1, <2>2, <2>3, FutureStep
<1> QED BY <1>7, <1>8

LEMMA MinerStaysFuture ==
    ASSUME IInv, FutureInv, NEW s \in States, NEW by \in Stoppers, MinerStays(s, by)
    PROVE  FutureInv'
<1> DEFINE p == st[s].stop[by].p
<1>1. /\ Up /\ StopRejects(s, by) /\ UNCHANGED << owner, handler >>
      /\ os' \in {os, [os EXCEPT ![p] = "alive"]}
  BY DEF MinerStays, StopRejects
<1> HIDE DEF p
<1> QED BY <1>1, ReviveKills, StopRejectsFuture

LEMMA StopUncleanedFuture ==
    ASSUME IInv, FutureInv, NEW s \in States, NEW by \in Stoppers, StopUncleaned(s, by)
    PROVE  FutureInv'
<1>1. Up /\ StopRejects(s, by) /\ UNCHANGED << os, owner, handler >>
  BY DEF StopUncleaned, StopRejects
<1> QED BY <1>1, NothingDies, StopRejectsFuture

LEMMA ExitAwaitedFuture ==
    ASSUME IInv, FutureInv, NEW s \in States, NEW by \in Stoppers, ExitAwaited(s, by)
    PROVE  FutureInv'
<1>1. Up /\ UNCHANGED << running, os, owner, handler >> /\ st[s] \in StateObject
  BY Typed DEF ExitAwaited
<1>2. CASE Entered(s)
  <2> DEFINE e == [st[s].stop[by] EXCEPT !.at = "close"]
  <2>1. st[s].stop[by] \in Stopping
    BY <1>1 DEF StateObject
  <2>2. e \in Stopping /\ e # Idle
    BY <2>1, StoppingIs, IdleIs
  <2>3. st' = [st EXCEPT ![s].stop[by] = e]
    BY <1>1, <1>2, Typed DEF ExitAwaited, StateObject
  <2> HIDE DEF e
  <2> QED BY <1>1, <2>2, <2>3, StopStep
<1>3. CASE ~ Entered(s)
  <2> DEFINE x == StopReturns(st[s], by)
  <2>1. st' = [st EXCEPT ![s] = x]
    BY <1>3 DEF ExitAwaited
  <2>2. /\ x \in StateObject /\ x.job = st[s].job /\ x.uncleaned = st[s].uncleaned
        /\ x.proc = st[s].proc
        /\ x.start \in {st[s].start, "ended"} /\ x.pausing = st[s].pausing
        /\ x.stopping = st[s].stopping
    BY <1>1, ReturnsFields
  <2> HIDE DEF x
  <2>3. st'[s] = x /\ \A t \in States \ {s} : st'[t] = st[t]
    BY <2>1, Typed
  <2> QED BY <1>1, <1>3, <2>2, <2>3, NothingDies, FutureStep
<1> QED BY <1>2, <1>3

\* A miner of s is launched, has exited, or is handled: one step of s and of
\* that miner.
LEMMA OwnStep ==
    ASSUME IInv, FutureInv, NEW s \in States, NEW p \in Miners,
           os[p] = "unborn" \/ owner[p] = s, Up' => Up,
           \A q \in Miners \ {p} :
              owner'[q] = owner[q] /\ handler'[q] = handler[q] /\ os'[q] = os[q],
           \A t \in States \ {s} : st'[t] = st[t],
           running' = running \/ Removed(s), st'[s].job = st[s].job,
           st[s].uncleaned => st'[s].uncleaned, st'[s].start = st[s].start,
           st'[s].stopping => st[s].stopping, st'[s].pausing => st[s].pausing,
           Up => HoldsOwn(s)',
           Up /\ Entered(s) /\ Entered(s)' /\ ~ st'[s].uncleaned => Attended(s)'
    PROVE  FutureInv'
<1>1. running \in [Jobs -> States \cup {Nobody}]
  BY Typed
<1>2. \A j \in Jobs : running'[j] \in {running[j], Nobody}
  BY <1>1 DEF Removed
<1>3. Elsewhere(s)
  BY DEF Elsewhere, Lives
<1>4. \A t \in States \ {s} : Provided(t)'
  BY <1>2, <1>3, OthersProvided
<1>5. Entries'
  BY <1>1, <1>2 DEF FutureInv, Entries
<1>6. Entered(s)' => Entered(s)
  <2>1. st[s].job \in Jobs \cup {Nobody}
    BY Typed DEF StateObject
  <2> QED BY <1>2, <2>1 DEF Entered
<1>7. Unmarked(s)'
  BY DEF FutureInv, Provided, Unmarked
<1>8. Provided(s)'
  BY <1>6, <1>7 DEF Provided
<1> QED BY <1>4, <1>5, <1>8 DEF FutureInv

LEMMA ExitsFuture == ASSUME IInv, FutureInv, NEW p \in Miners, Exits(p) PROVE FutureInv'
<1> DEFINE s == owner[p]
           x == [st[s] EXCEPT !.guard = FALSE]
<1>1. /\ Lives(p) /\ os' = [os EXCEPT ![p] = "dead"]
      /\ UNCHANGED << running, owner, away, quit >>
      /\ Up => handler' = [handler EXCEPT ![p] = "flushing"]
               /\ st' = [st EXCEPT ![owner[p]].guard = FALSE]
      /\ ~ Up => UNCHANGED << handler, st >>
  BY DEF Exits
<1>2. PICK s0 \in States : s0 = owner[p]
  BY <1>1 DEF IInv, Owned, Lives
<1>3. Up' <=> Up
  BY <1>1 DEF Up
<1>4. \A q \in Miners \ {p} :
         owner'[q] = owner[q] /\ handler'[q] = handler[q] /\ os'[q] = os[q]
  BY <1>1, Typed
<1>5. CASE Up
  <2> DEFINE y == [st[s0] EXCEPT !.guard = FALSE]
  <2>1. st' = [st EXCEPT ![s0] = y]
    BY <1>1, <1>2, <1>5
  <2>2. /\ y.job = st[s0].job /\ y.uncleaned = st[s0].uncleaned /\ y.start = st[s0].start
        /\ y.stopping = st[s0].stopping
        /\ y.pausing = st[s0].pausing /\ y.proc = st[s0].proc
        /\ y.eval = st[s0].eval /\ y.stop = st[s0].stop
    BY Typed DEF StateObject
  <2> HIDE DEF y
  <2>3. st'[s0] = y /\ \A t \in States \ {s0} : st'[t] = st[t]
    BY <2>1, Typed
  <2>4. handler'[p] = "flushing" /\ owner'[p] = s0
    BY <1>1, <1>2, <1>5, Typed
  <2>5. HoldsOwn(s0)'
    <3>1. HoldsOwn(s0)
      BY <1>5 DEF FutureInv, Provided
    <3> QED BY <1>4, <2>2, <2>3, <2>4, <3>1 DEF HoldsOwn, Lives
  <2>6. Exiting(s0)'
    BY <2>4 DEF Exiting
  <2>7. Attended(s0) => Attended(s0)'
    BY <2>2, <2>3, <2>6 DEF Attended, StopRuns
  <2>8. Entered(s0) /\ ~ st[s0].uncleaned => Attended(s0)
    BY <1>5 DEF FutureInv, Provided
  <2> QED BY <1>1, <1>2, <1>3, <1>4, <2>2, <2>3, <2>5, <2>7, <2>8, OwnStep
<1>6. CASE ~ Up
  BY <1>1, <1>2, <1>3, <1>4, <1>6, OwnStep
<1> QED BY <1>5, <1>6

LEMMA OutputFlushedFuture ==
    ASSUME IInv, FutureInv, NEW p \in Miners, OutputFlushed(p) PROVE FutureInv'
<1>1. PICK s \in States : s = owner[p]
  BY DEF OutputFlushed, IInv, Owned
<1> DEFINE q == SettlesProbe(st[s], "failed")
           x == [q EXCEPT !.proc = Nobody]
<1>2. /\ Up /\ handler[p] = "flushing" /\ handler' = [handler EXCEPT ![p] = "settled"]
      /\ st' = [st EXCEPT ![s] = x] /\ UNCHANGED << running, os, owner, quit >>
  BY <1>1 DEF OutputFlushed
<1>3. /\ q \in StateObject /\ q.job = st[s].job /\ q.uncleaned = st[s].uncleaned
      /\ q.start = st[s].start
      /\ q.stop = st[s].stop /\ q.stopping = st[s].stopping /\ q.pausing = st[s].pausing
  BY Typed, SettlesAlike
<1> HIDE DEF q
<1>4. /\ x.job = q.job /\ x.uncleaned = q.uncleaned /\ x.start = q.start /\ x.proc = Nobody
      /\ x.stop = q.stop /\ x.stopping = q.stopping /\ x.pausing = q.pausing
  BY <1>3 DEF StateObject
<1> HIDE DEF x
<1>5. st'[s] = x /\ \A t \in States \ {s} : st'[t] = st[t]
  BY <1>2, Typed
<1>6. \A r \in Miners \ {p} :
         owner'[r] = owner[r] /\ handler'[r] = handler[r] /\ os'[r] = os[r]
  BY <1>2, Typed
<1>7. HoldsOwn(s)'
  BY <1>4, <1>5 DEF HoldsOwn
<1>8. Exiting(s)'
  BY <1>1, <1>2, Typed DEF Exiting
<1>9. Attended(s) => Attended(s)'
  BY <1>3, <1>4, <1>5, <1>8 DEF Attended, StopRuns
<1>10. Entered(s) /\ ~ st[s].uncleaned => Attended(s)
  BY <1>2 DEF FutureInv, Provided
<1> QED BY <1>1, <1>2, <1>3, <1>4, <1>5, <1>6, <1>7, <1>9, <1>10, OwnStep

LEMMA AfterExitFields ==
    ASSUME NEW c \in StateObject, c.crashes < RestartLimit \/ c.pausing
    PROVE  LET x == AfterExit(c)
           IN  /\ x.job = c.job /\ x.uncleaned = c.uncleaned /\ x.start = c.start
               /\ x.proc = c.proc
               /\ x.stop = c.stop /\ x.stopping = c.stopping /\ ~ x.pausing
               /\ x.guard \/ x.restart
<1>1. CASE c.pausing
  BY <1>1 DEF AfterExit, StateObject
<1>2. CASE ~ c.pausing
  BY <1>2 DEF AfterExit, StateObject
<1> QED BY <1>1, <1>2

LEMMA ExitHandledFuture ==
    ASSUME IInv, FutureInv, NEW p \in Miners, ExitHandled(p) PROVE FutureInv'
<1>1. PICK s \in States : s = owner[p]
  BY DEF ExitHandled, IInv, Owned
<1> DEFINE x == AfterExit(st[s])
<1>2. /\ Up /\ handler[p] = "settled" /\ handler' = [handler EXCEPT ![p] = "done"]
      /\ UNCHANGED << os, owner, quit >>
      /\ \/ Removed(s) /\ UNCHANGED st
         \/ /\ st' = [st EXCEPT ![s] = x] /\ running' = running
            /\ st[s].crashes < RestartLimit \/ st[s].pausing
  <2>1. st[s].crashes \in 0 .. RestartLimit
    BY Typed DEF StateObject
  <2> QED BY <1>1, <2>1 DEF ExitHandled, GivenUp
<1>3. \A r \in Miners \ {p} :
         owner'[r] = owner[r] /\ handler'[r] = handler[r] /\ os'[r] = os[r]
  BY <1>2, Typed
<1>4. HoldsOwn(s) /\ os[p] = "dead"
  BY <1>2 DEF FutureInv, Provided, IInv, Owned
<1>5. st[s].proc # p
  BY <1>2, <1>4 DEF HoldsOwn, Lives
<1>6. CASE Removed(s) /\ UNCHANGED st
  <2>1. HoldsOwn(s)'
    BY <1>3, <1>4, <1>5, <1>6 DEF HoldsOwn, Lives
  <2>2. ~ Entered(s)'
    <3>1. st[s].job \in Jobs \cup {Nobody} /\ running \in [Jobs -> States \cup {Nobody}]
      BY Typed DEF StateObject
    <3> QED BY <1>6, <3>1 DEF Removed, Entered
  <2> QED BY <1>1, <1>2, <1>3, <1>6, <2>1, <2>2, OwnStep DEF Up
<1>7. CASE st' = [st EXCEPT ![s] = x] /\ running' = running
           /\ (st[s].crashes < RestartLimit \/ st[s].pausing)
  <2>1. /\ x.job = st[s].job /\ x.uncleaned = st[s].uncleaned /\ x.start = st[s].start
        /\ x.proc = st[s].proc
        /\ x.stop = st[s].stop /\ x.stopping = st[s].stopping /\ ~ x.pausing
        /\ x.guard \/ x.restart
    BY <1>7, Typed, AfterExitFields
  <2> HIDE DEF x
  <2>2. st'[s] = x /\ \A t \in States \ {s} : st'[t] = st[t]
    BY <1>7, Typed
  <2>3. HoldsOwn(s)'
    BY <1>3, <1>4, <1>5, <2>1, <2>2 DEF HoldsOwn, Lives
  <2>4. Attended(s) => Attended(s)'
    BY <2>1, <2>2 DEF Attended, StopRuns
  <2>5. Entered(s) /\ ~ st[s].uncleaned => Attended(s)
    BY <1>2 DEF FutureInv, Provided
  <2> QED BY <1>1, <1>2, <1>3, <1>7, <2>1, <2>2, <2>3, <2>4, <2>5, OwnStep DEF Up
<1> QED BY <1>2, <1>6, <1>7

LEMMA CleanupFailsFuture ==
    ASSUME IInv, FutureInv, NEW p \in Miners, CleanupFails(p) PROVE FutureInv'
<1>1. PICK s \in States : s = owner[p]
  BY DEF CleanupFails, IInv, Owned
<1> DEFINE x == [st[s] EXCEPT !.uncleaned = TRUE]
<1>2. /\ Up /\ handler[p] = "settled" /\ handler' = [handler EXCEPT ![p] = "done"]
      /\ UNCHANGED << running, os, owner, quit >> /\ st' = [st EXCEPT ![s] = x]
  BY <1>1 DEF CleanupFails
<1>3. \A r \in Miners \ {p} :
         owner'[r] = owner[r] /\ handler'[r] = handler[r] /\ os'[r] = os[r]
  BY <1>2, Typed
<1>4. HoldsOwn(s) /\ os[p] = "dead"
  BY <1>2 DEF FutureInv, Provided, IInv, Owned
<1>5. st[s].proc # p
  BY <1>2, <1>4 DEF HoldsOwn, Lives
<1>6. /\ x.job = st[s].job /\ x.uncleaned /\ x.start = st[s].start /\ x.proc = st[s].proc
      /\ x.stopping = st[s].stopping /\ x.pausing = st[s].pausing
  BY Typed DEF StateObject
<1> HIDE DEF x
<1>7. st'[s] = x /\ \A t \in States \ {s} : st'[t] = st[t]
  BY <1>2, Typed
<1>8. HoldsOwn(s)'
  BY <1>2, <1>3, <1>4, <1>5, <1>6, <1>7 DEF HoldsOwn, Lives
<1> QED BY <1>1, <1>2, <1>3, <1>6, <1>7, <1>8, OwnStep DEF Up

LEMMA LaunchedFuture ==
    ASSUME IInv, FutureInv, NEW s \in States, NEW by \in Timers, NEW p \in Miners,
           Launched(s, by, p)
    PROVE  FutureInv'
<1> DEFINE c == st[s]
           e == [c.eval[by] EXCEPT !.at = "announce"]
           d == [c EXCEPT !.eval[by] = e]
           v == IF c.awaiting /\ c.probe = "none" THEN "waiting" ELSE c.probe
           x == [d EXCEPT !.proc = p, !.exit = p, !.probe = v]
<1>1. c \in StateObject /\ c.eval[by] \in Evaluation
  BY Typed DEF StateObject
<1>2. /\ Up /\ c.eval[by].at = "launch" /\ os[p] = "unborn"
      /\ os' = [os EXCEPT ![p] = "alive"] /\ owner' = [owner EXCEPT ![p] = s]
      /\ UNCHANGED << running, handler, away, quit >>
  BY DEF Launched
<1>3. st' = [st EXCEPT ![s] = x]
  BY <1>1, Typed DEF Launched, StateObject
<1>4. e \in Evaluation /\ e.at = "announce"
  BY <1>1 DEF Evaluation
<1> HIDE DEF e
<1>5. /\ d \in StateObject /\ d.job = c.job /\ d.uncleaned = c.uncleaned /\ d.start = c.start
      /\ d.stop = c.stop
      /\ d.stopping = c.stopping /\ d.pausing = c.pausing /\ d.eval[by] = e
      /\ \A t \in Timers \ {by} : d.eval[t] = c.eval[t]
  BY <1>1, <1>4, EvalReplaced
<1> HIDE DEF d, v
<1>6. /\ x.job = d.job /\ x.uncleaned = d.uncleaned /\ x.start = d.start /\ x.stop = d.stop
      /\ x.proc = p
      /\ x.stopping = d.stopping /\ x.pausing = d.pausing /\ x.eval = d.eval
  BY <1>5 DEF StateObject
<1> HIDE DEF x
<1>7. st'[s] = x /\ \A t \in States \ {s} : st'[t] = st[t]
  BY <1>3, Typed
<1>8. \A r \in Miners \ {p} :
         owner'[r] = owner[r] /\ handler'[r] = handler[r] /\ os'[r] = os[r]
  BY <1>2, Typed
<1>9. os'[p] = "alive" /\ owner'[p] = s
  BY <1>2, Typed
<1>10. HoldsOwn(s)'
  BY <1>6, <1>7, <1>9 DEF HoldsOwn, Lives
<1>11. ASSUME Attended(s) PROVE Attended(s)'
  <2>1. handler[p] = "none"
    BY <1>2, Typed DEF IInv, Owned
  <2>2. \A r : Unhandled(s, r) => r # p /\ Unhandled(s, r)'
    BY <1>2, <1>8, <2>1 DEF Unhandled, Lives
  <2>3. PauseRuns(s) => PauseRuns(s)'
    <3> SUFFICES ASSUME NEW t \in {"guard", "restart"},
                        \/ st[s].eval[t].at \in {"log", "fail"}
                        \/ st[s].eval[t].at = "stop" /\ Unhandled(s, st[s].eval[t].p)
                 PROVE  PauseRuns(s)'
      BY DEF PauseRuns
    <3>1. t \in Timers \ {by}
      BY <1>2 DEF Timers
    <3>2. st'[s].eval[t] = st[s].eval[t]
      BY <1>5, <1>6, <1>7, <3>1
    <3> QED BY <2>2, <3>2 DEF PauseRuns
  <2>4. Exiting(s) => Exiting(s)'
    BY <1>2, <1>8, <2>1 DEF Exiting
  <2>5. LaunchRuns(st'[s])
    BY <1>4, <1>5, <1>6, <1>7 DEF LaunchRuns
  <2>6. StopRuns(st[s]) = StopRuns(st'[s])
    BY <1>5, <1>6, <1>7 DEF StopRuns
  <2>7. st'[s].stopping = st[s].stopping /\ st'[s].pausing = st[s].pausing
    BY <1>5, <1>6, <1>7
  <2> QED BY <1>11, <2>3, <2>4, <2>5, <2>6, <2>7 DEF Attended, LaunchRuns, StopRuns
<1>12. Entered(s) /\ ~ st[s].uncleaned => Attended(s)
  BY <1>2 DEF FutureInv, Provided
<1>13. Up' <=> Up
  BY <1>2 DEF Up
<1> QED BY <1>2, <1>5, <1>6, <1>7, <1>8, <1>10, <1>11, <1>12, <1>13, OwnStep

LEMMA BlankUnmarked ==
    /\ ~ Blank.stopping /\ ~ Blank.pausing /\ Blank.job = Nobody
    /\ Blank.proc = Nobody /\ Blank.start = "none"
  BY DEF Blank

\* A state object is used anew: no job's entry is that object.
LEMMA StartJobFuture ==
    ASSUME IInv, FutureInv, NEW s \in States, NEW j \in Jobs, StartJob(s, j)
    PROVE  FutureInv'
<1>1. /\ Up /\ st[s] = Blank /\ st' = [st EXCEPT ![s].job = j, ![s].start = "checking"]
      /\ UNCHANGED << running, os, owner, handler, quit >>
  BY DEF StartJob
<1>2. /\ st[s] \in StateObject /\ st[s].start = "none" /\ st[s].proc = Nobody
      /\ ~ st[s].stopping /\ ~ st[s].pausing
  BY <1>1, BlankUnmarked, Typed
<1>3. /\ \A t \in States \ {s} : st'[t] = st[t]
      /\ st'[s].job = j /\ st'[s].start = "checking" /\ st'[s].proc = st[s].proc
      /\ st'[s].stopping = st[s].stopping /\ st'[s].pausing = st[s].pausing
  BY <1>1, <1>2, Typed DEF StateObject
<1>4. \A k \in Jobs : running[k] # s
  <2>1. s # Nobody
    BY JobConstants
  <2> QED BY <1>2, <2>1 DEF FutureInv, Entries
<1>5. Entries'
  BY <1>1, <1>3, <1>4, Typed DEF FutureInv, Entries
<1>6. Elsewhere(s)
  BY <1>1 DEF Elsewhere, Lives
<1>7. \A t \in States \ {s} : Provided(t)'
  BY <1>1, <1>3, <1>6, OthersProvided DEF Up
<1>8. Provided(s)'
  BY <1>1, <1>2, <1>3, <1>4 DEF Provided, Unmarked, HoldsOwn, Entered
<1> QED BY <1>5, <1>7, <1>8 DEF FutureInv

\* The object is entered with its start call on the way to a launch, or with
\* its guard timer set, and neither stopped nor paused.
LEMMA RegisterFuture ==
    ASSUME IInv, FutureInv, NEW s \in States, Register(s) PROVE FutureInv'
<1> DEFINE c == st[s]
           j == c.job
           x == [c EXCEPT !.guard = TRUE, !.start = "ended"]
           y == [c EXCEPT !.awaiting = j \in Probed, !.start = "launching",
                          !.eval["start"].at = "launch"]
           z == IF runtimeGuardReason(j) THEN x ELSE y
<1>1. /\ Up /\ c.start = "checking" /\ running' = [running EXCEPT ![j] = s]
      /\ st' = [st EXCEPT ![s] = z]
      /\ UNCHANGED << os, owner, handler, quit >>
  BY DEF Register
<1>2. c \in StateObject /\ c.eval \in [Timers -> Evaluation] /\ s # Nobody
      /\ running \in [Jobs -> States \cup {Nobody}]
  BY Typed, JobConstants DEF StateObject
<1>3. ~ c.stopping /\ ~ c.pausing /\ HoldsOwn(s)
  BY <1>1 DEF FutureInv, Provided, Unmarked
<1> HIDE DEF c
<1>4. /\ x.job = j /\ x.proc = c.proc /\ x.start = "ended" /\ x.guard
      /\ x.stopping = c.stopping /\ x.pausing = c.pausing
  BY <1>2 DEF StateObject
<1>5. /\ y.job = j /\ y.proc = c.proc /\ y.start = "launching"
      /\ y.eval["start"].at = "launch"
      /\ y.stopping = c.stopping /\ y.pausing = c.pausing
  BY <1>2 DEF StateObject, Evaluation, Timers
<1> HIDE DEF x, y
<1>6. /\ z.job = j /\ z.proc = c.proc /\ z.start \in {"ended", "launching"}
      /\ ~ z.stopping /\ ~ z.pausing /\ (z.guard \/ LaunchRuns(z))
  BY <1>3, <1>4, <1>5 DEF LaunchRuns, Timers
<1> HIDE DEF z
<1>7. st'[s] = z /\ \A t \in States \ {s} : st'[t] = st[t]
  BY <1>1, Typed
<1>8. \A k \in Jobs : running[k] # s /\ running'[k] = IF k = j THEN s ELSE running[k]
  <2>1. \A k \in Jobs : running[k] # s
    BY <1>1, <1>2 DEF FutureInv, Entries, c
  <2> QED BY <1>1, <1>2, <2>1
<1>9. Entries'
  <2> SUFFICES ASSUME NEW k \in Jobs, running'[k] # Nobody
               PROVE  /\ st'[running'[k]].job = k
                      /\ st'[running'[k]].start \notin {"none", "checking"}
    BY DEF Entries
  <2>1. CASE k = j
    BY <1>6, <1>7, <1>8, <2>1
  <2>2. CASE k # j
    BY <1>2, <1>7, <1>8, <2>2 DEF FutureInv, Entries
  <2> QED BY <2>1, <2>2
<1>10. Elsewhere(s)
  BY <1>1 DEF Elsewhere, Lives
<1>11. \A t \in States \ {s} : Provided(t)'
  BY <1>1, <1>7, <1>8, <1>10, OthersProvided DEF Up
<1>12. HoldsOwn(s)'
  BY <1>1, <1>3, <1>6, <1>7 DEF HoldsOwn, Lives, c
<1>13. Attended(s)'
  BY <1>6, <1>7 DEF Attended, LaunchRuns
<1>14. Provided(s)'
  BY <1>6, <1>7, <1>12, <1>13 DEF Provided, Unmarked
<1> QED BY <1>9, <1>11, <1>14 DEF FutureInv

\* Only what the state objects do not look at changes.
LEMMA NothingFuture ==
    ASSUME IInv, FutureInv, UNCHANGED << running, st, os, owner, handler >>, Up' => Up
    PROVE  FutureInv'
<1>1. SameProcesses
  BY NothingDies
<1>2. Entries'
  BY DEF FutureInv, Entries
<1>3. ASSUME NEW s \in States PROVE Provided(s)'
  <2>1. Provided(s)
    BY DEF FutureInv
  <2>2. Entered(s)' = Entered(s)
    BY DEF Entered
  <2>3. HoldsOwn(s) => HoldsOwn(s)'
    BY DEF HoldsOwn, Lives
  <2>4. Attended(s) => Attended(s)'
    BY <1>1, AttendedKept
  <2> QED BY <2>1, <2>2, <2>3, <2>4 DEF Provided, Unmarked
<1> QED BY <1>2, <1>3 DEF FutureInv

\* A quit that waits has begun to stop every entry; the others are as before.
LEMMA BeforeQuitFuture == ASSUME IInv, FutureInv, BeforeQuit PROVE FutureInv'
<1>1. CASE MayQuit
  <2>1. ~ Up' /\ UNCHANGED << running, st, os, owner, handler >>
    BY <1>1 DEF BeforeQuit, Up
  <2> QED BY <2>1, NothingFuture
<1>2. CASE ~ MayQuit
  <2> DEFINE next(s) == StopBegins(st[s], "all")
  <2>1. /\ quit = "no" /\ quit' = "waiting"
        /\ st' = [s \in States |-> IF s \in Managed THEN next(s) ELSE st[s]]
        /\ os' = [p \in Miners |->
                     IF os[p] = "alive" /\ \E s \in Managed : st[s].proc = p
                     THEN "told" ELSE os[p]]
        /\ UNCHANGED << running, owner, handler >>
    BY <1>2 DEF BeforeQuit
  <2>2. Up /\ Up'
    BY <2>1 DEF Up
  <2>3. SameProcesses
    BY <2>1 DEF SameProcesses, Lives
  <2>4. \A s \in States : /\ next(s).job = st[s].job /\ next(s).uncleaned = st[s].uncleaned
                          /\ next(s).proc = st[s].proc
                          /\ next(s).eval = st[s].eval /\ next(s).start = st[s].start
                          /\ next(s).pausing = st[s].pausing /\ StopRuns(next(s))
    BY Typed, StopBeginsFields DEF Stoppers
  <2> HIDE DEF next
  <2>5. \A s \in States : st'[s] = IF s \in Managed THEN next(s) ELSE st[s]
    BY <2>1
  <2>6. \A s \in States : /\ st'[s].job = st[s].job /\ st'[s].uncleaned = st[s].uncleaned
                          /\ st'[s].proc = st[s].proc
                          /\ st'[s].start = st[s].start
    BY <2>4, <2>5
  <2>7. Entries'
    BY <2>1, <2>6, Typed DEF FutureInv, Entries
  <2>8. ASSUME NEW s \in States PROVE Provided(s)'
    <3>1. Unmarked(s) /\ HoldsOwn(s) /\ (Entered(s) /\ ~ st[s].uncleaned => Attended(s))
      BY <2>2 DEF FutureInv, Provided
    <3>2. Entered(s)' = Entered(s)
      BY <2>1, <2>6 DEF Entered
    <3>3. HoldsOwn(s)'
      BY <2>3, <2>6, <3>1 DEF HoldsOwn, SameProcesses
    <3>4. CASE Entered(s)
      <4>1. st'[s] = next(s)
        BY <2>5, <3>4 DEF Managed
      <4>2. ~ st[s].uncleaned => Attended(s)'
        <5>1. StopRuns(st[s])' /\ (st'[s].pausing => st[s].pausing)
              /\ \A t \in {"guard", "restart"} : st'[s].eval[t] = st[s].eval[t]
          BY <2>4, <4>1 DEF StopRuns
        <5> QED BY <2>3, <3>1, <3>4, <5>1, StopAttended
      <4>3. st[s].start # "checking"
        <5>1. st[s].job \in Jobs /\ running[st[s].job] = s /\ s # Nobody
          BY <3>4, Typed, JobConstants DEF Entered, StateObject
        <5> QED BY <5>1 DEF FutureInv, Entries
      <4> QED BY <2>6, <3>3, <4>2, <4>3 DEF Provided, Unmarked
    <3>5. CASE ~ Entered(s)
      <4>1. st'[s] = st[s]
        BY <2>5, <3>5 DEF Managed
      <4> QED BY <3>1, <3>2, <3>3, <3>5, <4>1 DEF Provided, Unmarked
    <3> QED BY <3>4, <3>5
  <2> QED BY <2>7, <2>8 DEF FutureInv
<1> QED BY <1>1, <1>2

\* What is collected is no entry, and its miners have been handled.
LEMMA CollectFuture == ASSUME IInv, FutureInv, Collect PROVE FutureInv'
<1> DEFINE states == {s \in States : UselessState(s)}
           miners == {p \in Miners : UselessMiner(p) \/ owner[p] \in states}
<1>1. /\ Up
      /\ st' = [s \in States |-> IF s \in states THEN Blank ELSE st[s]]
      /\ os' = [p \in Miners |-> IF p \in miners THEN "unborn" ELSE os[p]]
      /\ owner' = [p \in Miners |-> IF p \in miners THEN Nobody ELSE owner[p]]
      /\ handler' = [p \in Miners |-> IF p \in miners THEN "none" ELSE handler[p]]
      /\ UNCHANGED << running, quit >>
  BY DEF Collect
<1>2. \A p \in miners : Over(p)
  BY DEF UselessMiner, UselessState
<1>3. \A s \in states : ~ Entered(s) /\ s \in States
  BY DEF UselessState
<1> HIDE DEF states, miners
<1>4. \A s \in States : st'[s] = IF s \in states THEN Blank ELSE st[s]
  BY <1>1
<1>5. \A p \in Miners : p \in miners \/ (/\ os'[p] = os[p] /\ owner'[p] = owner[p]
                                        /\ handler'[p] = handler[p])
  BY <1>1
<1>6. Entries'
  <2> SUFFICES ASSUME NEW j \in Jobs, running[j] # Nobody
               PROVE  /\ st'[running[j]].job = j
                      /\ st'[running[j]].start \notin {"none", "checking"}
    BY <1>1 DEF Entries
  <2>1. PICK s \in States : s = running[j]
    BY Typed
  <2>2. st[s].job = j /\ st[s].start \notin {"none", "checking"}
    BY <2>1 DEF FutureInv, Entries
  <2>3. Entered(s)
    BY <2>1, <2>2, JobConstants DEF Entered
  <2> QED BY <1>3, <1>4, <2>1, <2>2, <2>3
<1>7. ASSUME NEW s \in States PROVE Provided(s)'
  <2>1. Unmarked(s) /\ HoldsOwn(s) /\ (Entered(s) /\ ~ st[s].uncleaned => Attended(s))
    BY <1>1 DEF FutureInv, Provided
  <2>2. CASE s \in states
    BY <1>1, <1>4, <2>2, BlankUnmarked DEF Provided, Unmarked, HoldsOwn, Entered
  <2>3. CASE s \notin states
    <3>1. st'[s] = st[s] /\ Entered(s)' = Entered(s)
      BY <1>1, <1>4, <2>3 DEF Entered
    <3>2. \A p : Unhandled(s, p) => Unhandled(s, p)'
      BY <1>2, <1>5 DEF Unhandled, Over, Lives
    <3>3. Exiting(s) => Exiting(s)'
      BY <1>2, <1>5 DEF Exiting, Over
    <3>4. PauseRuns(s) => PauseRuns(s)'
      BY <3>1, <3>2 DEF PauseRuns
    <3>5. Attended(s) => Attended(s)'
      BY <3>1, <3>3, <3>4 DEF Attended, LaunchRuns, StopRuns
    <3>6. HoldsOwn(s)'
      BY <1>2, <1>5, <2>1, <3>1 DEF HoldsOwn, Over, Lives
    <3> QED BY <2>1, <3>1, <3>5, <3>6 DEF Provided, Unmarked
  <2> QED BY <2>2, <2>3
<1> QED BY <1>6, <1>7 DEF FutureInv

LEMMA InitiallyFuture == Init => FutureInv
<1> SUFFICES ASSUME Init PROVE FutureInv
  OBVIOUS
<1>1. Entries
  BY DEF Init, Entries
<1>2. \A s \in States : st[s] = Blank /\ ~ Entered(s)
  BY BlankUnmarked DEF Init, Entered
<1> QED BY <1>1, <1>2, BlankUnmarked DEF FutureInv, Provided, Unmarked, HoldsOwn

LEMMA FutureKept == IInv /\ FutureInv /\ [Next]_vars => FutureInv'
<1> SUFFICES ASSUME IInv, FutureInv, [Next]_vars PROVE FutureInv'
  OBVIOUS
<1>1. CASE UNCHANGED vars
  BY <1>1, NothingFuture DEF vars, Up
<1>2. CASE Collect
  BY <1>2, CollectFuture
<1>3. ASSUME NEW s \in States, NEW j \in Jobs, StartJob(s, j) PROVE FutureInv'
  BY <1>3, StartJobFuture
<1>4. ASSUME NEW s \in States, StartGoesOn(s) \/ GuardTimer(s) \/ RestartTimer(s)
      PROVE  FutureInv'
  BY <1>4, ProbeEndsFuture, ProbeTimeoutFuture, ChecksFailFuture, RegisterFuture,
     TimersFuture DEF StartGoesOn
<1>5. ASSUME NEW s \in States, NEW by \in Timers, Thread(s, by) PROVE FutureInv'
  BY <1>5, LaunchedFuture, LaunchFailsFuture, AnnouncedFuture, PauseTellsFuture,
     PauseEndsFuture, EvaluationFailsFuture DEF Thread, LaunchEnds, EvaluationGoesOn
<1>6. ASSUME NEW s \in States, NEW by \in Stoppers, StopGoesOn(s, by) PROVE FutureInv'
  BY <1>6, MinerStoppedFuture, MinerStaysFuture, ExitAwaitedFuture, StopClosesFuture,
     StopUncleanedFuture DEF StopGoesOn
<1>7. ASSUME NEW j \in Jobs, StopJob(j) PROVE FutureInv'
  BY <1>7, StopJobFuture
<1>8. ASSUME NEW p \in Miners, Exits(p) \/ ExitGoesOn(p) PROVE FutureInv'
  BY <1>8, ExitsFuture, OutputFlushedFuture, ExitHandledFuture, CleanupFailsFuture
     DEF ExitGoesOn
<1>9. ASSUME NEW p \in Miners, NEW verdict \in {"ready", "failed"}, OutputLine(p, verdict)
      PROVE  FutureInv'
  BY <1>9, OutputLineFuture
<1>10. CASE GuardReasonChanges
  BY <1>10, NothingFuture DEF GuardReasonChanges, Up
<1>11. CASE BeforeQuit
  BY <1>11, BeforeQuitFuture
<1>12. CASE StopAllEnds
  BY <1>12, NothingFuture DEF StopAllEnds, Up
<1>13. UNCHANGED vars \/ Collect \/ Step
  BY DEF Next
<1> QED BY <1>1, <1>2, <1>3, <1>4, <1>5, <1>6, <1>7, <1>8, <1>9, <1>10, <1>11, <1>12, <1>13
        DEF Step

(* An entry of the map has a timer, a call or an exit handler that will     *)
(* look at it again, also after a step has overtaken another one: unless    *)
(* its runtime files could not be removed after its miner's exit.           *)
THEOREM EntriesHaveFuture == Spec => []EntryHasFuture
<1>1. IInv /\ FutureInv => EntryHasFuture
  <2> SUFFICES ASSUME IInv, FutureInv, Up, NEW s \in States, Entered(s), ~ st[s].uncleaned
               PROVE  Looked(s)
    BY DEF EntryHasFuture, Managed
  <2>1. Attended(s)
    BY DEF FutureInv, Provided
  <2>2. LaunchRuns(st[s]) => Evaluates(s)
    BY IdleIs DEF LaunchRuns, Evaluates
  <2>3. PauseRuns(s) => Evaluates(s)
    BY IdleIs DEF PauseRuns, Evaluates, Timers
  <2> QED BY <2>1, <2>2, <2>3 DEF Attended, Looked, StopRuns, Exiting
<1>2. Init => FutureInv
  BY InitiallyFuture
<1> QED BY <1>1, <1>2, Inductive, FutureKept, PTL DEF Spec
=============================================================================
