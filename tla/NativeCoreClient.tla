-------------------------- MODULE NativeCoreClient --------------------------
(***************************************************************************)
(* electron/native-core-client.cjs: the main process's client of one      *)
(* native helper process.                                                  *)
(*                                                                         *)
(* A client owns at most one CURRENT helper (`child`), started on demand.  *)
(* A request is written to the helper as one JSON line, waits in `pending` *)
(* under a watchdog timer, and is settled by the helper's answer, by its   *)
(* watchdog, by the helper's death, or because the client rejects all it   *)
(* has (rejectAll) to restart or stop the helper.  coinNodeRequest calls   *)
(* pass through a promise chain that runs one at a time.  Locking the      *)
(* wallet revokes the session: readers are dropped at once, sends drain.   *)
(*                                                                         *)
(* A request id is never used twice (nextId only grows), so a request      *)
(* stands for its id, and a helper is named after the request that started *)
(* it: a request starts at most one.                                       *)
(***************************************************************************)
EXTENDS Integers, Sequences, FiniteSets

CONSTANTS
    NodeReads,  \* coinNodeRequest: chained, one at a time
    Reads,      \* local calls: derive, sign, validate, estimate...
    Scans,      \* privacyLightWallet other than a send: progress re-arms them
    EpicSends,  \* privacyLightWallet, action send, coin epic
    Sends,      \* privacyLightWallet, action send, any other coin
    None

AllSends == EpicSends \cup Sends
Requests == NodeReads \cup Reads \cup Scans \cup AllSends
Helpers  == Requests

ASSUME ClientConstants ==
    /\ IsFiniteSet(Requests)
    /\ None \notin Requests
    /\ NodeReads \cap (Reads \cup Scans \cup AllSends) = {}
    /\ Scans \cap (Reads \cup AllSends) = {}
    /\ Reads \cap AllSends = {}

VARIABLES
    child,       \* this.child: the current helper, or None
    children,    \* this.children: helpers whose exit was not yet reported
    proc,        \* the operating system's view of each helper
    pending,     \* this.pending: the requests that wait for an answer
    writtenTo,   \* the helper each request was written to
    armed,       \* watchdog timers that were set and neither fired nor cleared
    due,         \* the armed timers whose time is over
    outcome,     \* what the caller's promise was settled with
    queue,       \* coinNodeQueue: requests chained and not yet dispatched
    buffer,      \* this.buffer: the helper an incomplete line came from
    session,     \* "open", then what closeSession does
    remaining,   \* closeSession's count of sends that have not settled
    needsGrace,  \* closeSession's needsEpicGrace
    quit         \* before-quit has reset every client

vars == << child, children, proc, pending, writtenTo, armed, due, outcome,
           queue, buffer, session, remaining, needsGrace, quit >>

helperVars  == << child, children, proc >>
sessionVars == << session, remaining, needsGrace, quit >>

TypeOK ==
    /\ child \in Helpers \cup {None}
    /\ children \subseteq Helpers
    /\ proc \in [Helpers -> {"unborn", "alive", "terminating", "dead"}]
    /\ pending \subseteq Requests
    /\ writtenTo \in [Requests -> Helpers \cup {None}]
    /\ armed \subseteq Requests
    /\ due \subseteq armed
    /\ outcome \in [Requests -> {"none", "ok", "error"}]
    /\ queue \in Seq(NodeReads)
    /\ buffer \in Helpers \cup {None}
    /\ session \in {"open", "draining", "grace", "closed"}
    /\ remaining \in Int
    /\ needsGrace \in BOOLEAN
    /\ quit \in BOOLEAN

Init ==
    /\ child = None
    /\ children = {}
    /\ proc = [c \in Helpers |-> "unborn"]
    /\ pending = {}
    /\ writtenTo = [r \in Requests |-> None]
    /\ armed = {}
    /\ due = {}
    /\ outcome = [r \in Requests |-> "none"]
    /\ queue = << >>
    /\ buffer = None
    /\ session = "open"
    /\ remaining = 0
    /\ needsGrace = FALSE
    /\ quit = FALSE

-----------------------------------------------------------------------------
Queued == { queue[i] : i \in DOMAIN queue }

\* A call nobody has made yet.
Fresh(r) == outcome[r] = "none" /\ r \notin pending /\ r \notin Queued

\* terminateNativeCoreChild: SIGTERM, to those that still run.
Terminated(cs) ==
    [c \in Helpers |-> IF c \in cs /\ proc[c] = "alive" THEN "terminating" ELSE proc[c]]

\* The timers left when those of `gone` are cleared.
\* Mutant: resolve and reject forget clearTimeout.
DisarmedNever(gone) == armed
Disarmed(gone) == armed \ gone

\* The callers of `gone` are told an error.
\* Mutant: the map is cleared and nobody rejected.
FailedSilently(gone) == outcome
Failed(gone) == [r \in Requests |-> IF r \in gone THEN "error" ELSE outcome[r]]

\* Mutant: finish() takes the session for a new one.
SessionClosedUntilFinished == session \in {"draining", "grace"}
\* Mutant: requests are refused only once the last send has settled.
SessionClosedWhenStopped == session = "closed"
SessionClosed == session # "open"

\* The transfers whose answers closeSession waits for.
\* Mutant: every pending request is counted.
SubmittedAny == pending
SubmittedSends == pending \cap AllSends

(***************************************************************************)
(* Settles the requests `ok` and `failed`.  With `reset` it is rejectAll:  *)
(* every pending request fails and the client lets go of its helper;       *)
(* `kills` are the helpers the caller terminates besides.  While a         *)
(* closed session drains, the promise callbacks of its sends count down    *)
(* (settled, in closeSession): the last one stops the client, at once or,  *)
(* after an Epic send, when the grace period ends.                         *)
(***************************************************************************)
\* Mutant: the first of several sends ends the session.
FirstSendSettles(gone) ==
    /\ session = "draining"
    /\ gone \cap AllSends # {}
LastSendSettles(gone) ==
    /\ session = "draining"
    /\ gone \cap AllSends # {}
    /\ remaining = Cardinality(gone \cap AllSends)

Settle(ok, failed, reset, kills) ==
    LET gone    == IF reset THEN pending ELSE ok \cup failed
        drained == LastSendSettles(gone)
        stops   == drained /\ ~needsGrace
        lost    == failed \cup (IF reset \/ stops THEN pending \ ok ELSE {})
    IN  /\ pending' = pending \ (ok \cup lost)
        /\ armed' = Disarmed(ok \cup lost)
        /\ due' = due \ (ok \cup lost)
        /\ outcome' = [r \in Requests |-> IF r \in ok THEN "ok" ELSE Failed(lost)[r]]
        /\ child' = IF reset \/ stops THEN None ELSE child
        /\ proc' = Terminated(kills \cup (IF stops THEN children ELSE {}))
        /\ session' = IF ~drained THEN session
                      ELSE IF needsGrace THEN "grace" ELSE "closed"
        /\ remaining' = IF session = "draining"
                        THEN remaining - Cardinality(gone \cap AllSends)
                        ELSE remaining
        /\ UNCHANGED << writtenTo, queue, needsGrace >>

\* restartAfterTimeout: rejectAll, then terminate every helper.
Restart == Settle({}, {}, TRUE, children)

-----------------------------------------------------------------------------
(* request and requestNow *)

\* requestNow on a closed session.
Refuse(r) ==
    /\ SessionClosed
    /\ outcome' = Failed({r})
    /\ UNCHANGED << helperVars, pending, writtenTo, armed, due, buffer, sessionVars >>

\* A send for Epic does not wait for whatever the helper is busy with.
Preempts(r) == r \in EpicSends /\ pending # {}

\* rejectAll of restartAfterTimeout, run before a preempting send starts.
\* Mutant: the helper is restarted under the requests it was working on.
PreemptedNone(r) == {}
Preempted(r) == IF Preempts(r) THEN pending ELSE {}

\* start() and the write: the current helper if there is one, else a new one.
Submit(r) ==
    LET helper == IF child = None \/ Preempts(r) THEN r ELSE child
    IN  /\ ~SessionClosed
        /\ pending' = (pending \ Preempted(r)) \cup {r}
        /\ armed' = Disarmed(Preempted(r)) \cup {r}
        /\ due' = due \ Preempted(r)
        /\ outcome' = Failed(Preempted(r))
        /\ writtenTo' = [writtenTo EXCEPT ![r] = helper]
        /\ child' = helper
        /\ children' = children \cup {helper}
        /\ proc' = [c \in Helpers |->
                      IF c = r /\ helper = r THEN "alive"
                      ELSE IF Preempts(r) THEN Terminated(children)[c]
                      ELSE proc[c]]
        /\ buffer' = IF Preempts(r) THEN None ELSE buffer
        /\ UNCHANGED sessionVars

\* start() finds no executable and throws: the request fails, having
\* preempted the others if it is an Epic send.
StartThrows(r) ==
    /\ ~SessionClosed
    /\ child = None \/ Preempts(r)
    /\ pending' = pending \ Preempted(r)
    /\ armed' = Disarmed(Preempted(r))
    /\ due' = due \ Preempted(r)
    /\ outcome' = Failed(Preempted(r) \cup {r})
    /\ child' = None
    /\ proc' = IF Preempts(r) THEN Terminated(children) ELSE proc
    /\ buffer' = IF Preempts(r) THEN None ELSE buffer
    /\ UNCHANGED << children, writtenTo, sessionVars >>

RequestNow(r) == Refuse(r) \/ Submit(r) \/ StartThrows(r)

\* A caller's request.  After before-quit no window is left to make one.
Request(r) ==
    /\ Fresh(r)
    /\ ~quit
    /\ IF r \in NodeReads
       THEN /\ queue' = Append(queue, r)
            /\ UNCHANGED << helperVars, pending, writtenTo, armed, due, outcome,
                            buffer, sessionVars >>
       ELSE RequestNow(r) /\ UNCHANGED queue

\* The chain reaches its next request once the one before has settled, with a
\* result or an error: then(run, run).
\* Mutant: then(run), and a failure holds up the chain.
ChainFreeAfterSuccess ==
    /\ pending \cap NodeReads = {}
    /\ \A r \in NodeReads : outcome[r] # "error"
ChainFree == pending \cap NodeReads = {}

Dispatch ==
    /\ queue # << >>
    /\ ChainFree
    /\ RequestNow(Head(queue))
    /\ queue' = Tail(queue)

-----------------------------------------------------------------------------
(* onData: what the current helper wrote *)

\* A chunk ends in the middle of a line: it stays in the buffer, behind
\* whatever was left there.
HalfLine ==
    /\ child # None
    /\ pending # {}
    /\ buffer' = IF buffer = None THEN child ELSE buffer
    /\ UNCHANGED << helperVars, pending, writtenTo, armed, due, outcome, queue, sessionVars >>

\* The line parses when all of it came from one helper.
Parses == buffer \in {None, child}

\* The rest of a line that starts with another helper's bytes: JSON.parse
\* throws and the line is dropped, whatever it answered.
GarbledLine ==
    /\ child # None
    /\ ~Parses
    /\ buffer' = None
    /\ UNCHANGED << helperVars, pending, writtenTo, armed, due, outcome, queue, sessionVars >>

Answer(r, ok) ==
    /\ child # None
    /\ Parses
    /\ r \in pending
    /\ writtenTo[r] = child
    /\ Settle(IF ok THEN {r} ELSE {}, IF ok THEN {} ELSE {r}, FALSE, {})
    /\ buffer' = None
    /\ UNCHANGED << children, quit >>

\* A progress event re-arms the watchdog of a scan, and of nothing else
\* (refreshTimeoutOnProgress).
Progress(r) ==
    /\ child # None
    /\ Parses
    /\ r \in pending
    /\ writtenTo[r] = child
    /\ due' = IF r \in Scans THEN due \ {r} ELSE due
    /\ buffer' = None
    /\ UNCHANGED << helperVars, pending, writtenTo, armed, outcome, queue, sessionVars >>

-----------------------------------------------------------------------------
(* Watchdogs and the helper's failures *)

\* Mutant: a timer that was cleared goes off.
TimePassesThoughCleared(r) ==
    /\ r \in Requests \ due
    /\ due' = due \cup {r}
    /\ UNCHANGED << helperVars, pending, writtenTo, armed, outcome, queue, buffer, sessionVars >>

TimePasses(r) ==
    /\ r \in armed \ due
    /\ due' = due \cup {r}
    /\ UNCHANGED << helperVars, pending, writtenTo, armed, outcome, queue, buffer, sessionVars >>

\* Mutant: restartAfterTimeout leaves the buffer as it is.
ExpireKeepsBuffer(r) ==
    /\ r \in due
    /\ Settle({}, {r}, TRUE, children)
    /\ UNCHANGED << children, buffer, quit >>

\* expire(): the request fails and the helper is restarted, which fails every
\* other pending request with it.
Expire(r) ==
    /\ r \in due
    /\ Settle({}, {r}, TRUE, children)
    /\ buffer' = None
    /\ UNCHANGED << children, quit >>

\* The write callback reports an error: same recovery as a timeout.
WriteFails(r) ==
    /\ r \in pending
    /\ Restart
    /\ buffer' = None
    /\ UNCHANGED << children, quit >>

\* The helper crashes, or obeys the SIGTERM.
Die(c) ==
    /\ proc[c] \in {"alive", "terminating"}
    /\ proc' = [proc EXCEPT ![c] = "dead"]
    /\ UNCHANGED << child, children, pending, writtenTo, armed, due, outcome,
                    queue, buffer, sessionVars >>

\* A helper blocked in native code is killed after forceAfterMs.
ForceKill(c) ==
    /\ proc[c] = "terminating"
    /\ proc' = [proc EXCEPT ![c] = "dead"]
    /\ UNCHANGED << child, children, pending, writtenTo, armed, due, outcome,
                    queue, buffer, sessionVars >>

\* Mutant: any helper's exit is taken for the current one's.
ExitEventOfAny(c) ==
    /\ proc[c] = "dead"
    /\ c \in children
    /\ Settle({}, {}, TRUE, {})
    /\ buffer' = None
    /\ children' = children \ {c}
    /\ UNCHANGED quit

\* The 'exit' event.  Only the current helper's exit rejects the pending
\* requests: an older one's must not touch its successor's.
ExitEvent(c) ==
    /\ proc[c] = "dead"
    /\ c \in children
    /\ \/ /\ child = c
          /\ Settle({}, {}, TRUE, {})
          /\ buffer' = None
          /\ UNCHANGED quit
       \/ /\ child # c
          /\ UNCHANGED << child, proc, pending, writtenTo, armed, due, outcome,
                          queue, buffer, sessionVars >>
    /\ children' = children \ {c}

\* An 'error' event of the current helper or of its stdin.  A failing write
\* runs its callback (WriteFails) before its event, so what reaches this
\* handler with the helper still current is a helper that could not be
\* spawned or that never wrote anything: it left no bytes in the buffer.
ErrorEvent(c) ==
    /\ c = child
    /\ buffer # c
    /\ Settle({}, {}, TRUE, {c})
    /\ UNCHANGED << children, buffer, quit >>

-----------------------------------------------------------------------------
(* closeSession and stop *)

\* stop() with no send pending: reject the rest, terminate every helper.
Stop ==
    /\ pending' = {}
    /\ armed' = Disarmed(pending)
    /\ due' = due \ pending
    /\ outcome' = Failed(pending)
    /\ child' = None
    /\ proc' = Terminated(children)
    /\ UNCHANGED children

\* The wallet is locked.  main.cjs closes a client once (closingNativeCores).
\* Without a pending send the client stops at once; otherwise its sends drain.
CloseSession ==
    /\ session = "open"
    /\ ~quit
    /\ \/ /\ SubmittedSends = {}
          /\ session' = "closed"
          /\ Stop
          /\ UNCHANGED << remaining, needsGrace >>
       \/ /\ SubmittedSends # {}
          /\ session' = "draining"
          /\ remaining' = Cardinality(SubmittedSends)
          /\ needsGrace' = (pending \cap EpicSends # {})
          /\ UNCHANGED << helperVars, pending, armed, due, outcome >>
    /\ UNCHANGED << writtenTo, queue, buffer, quit >>

\* The timer closeSession sets after the last send: finish().
GraceEnds ==
    /\ session = "grace"
    /\ session' = "closed"
    /\ Stop
    /\ UNCHANGED << writtenTo, queue, buffer, remaining, needsGrace, quit >>

\* before-quit: resetNativeCoreClients stops every client, closing ones too.
\* Reads still in the chain are dispatched after it, and may start a helper.
Quit ==
    /\ ~quit
    /\ quit' = TRUE
    /\ Restart
    /\ UNCHANGED << children, buffer >>

-----------------------------------------------------------------------------
Next ==
    \/ \E r \in Requests : \/ Request(r)
                           \/ \E ok \in BOOLEAN : Answer(r, ok)
                           \/ Progress(r)
                           \/ TimePasses(r)
                           \/ Expire(r)
                           \/ WriteFails(r)
    \/ \E c \in Helpers : Die(c) \/ ForceKill(c) \/ ExitEvent(c) \/ ErrorEvent(c)
    \/ Dispatch
    \/ HalfLine
    \/ GarbledLine
    \/ CloseSession
    \/ GraceEnds
    \/ Quit

Spec == Init /\ [][Next]_vars

(***************************************************************************)
(* What happens without the helper's help: timers run out and fire, the    *)
(* promise chain moves on, and an exit is reported.                        *)
(***************************************************************************)
FairSpec ==
    /\ Spec
    /\ \A r \in Requests : WF_vars(TimePasses(r)) /\ WF_vars(Expire(r))
    /\ WF_vars(Dispatch)
    /\ WF_vars(GraceEnds)

-----------------------------------------------------------------------------
(* Properties *)

\* Every request in the pending map was written to the helper that is current
\* now: rejectAll empties the map whenever the client lets go of a helper, so no
\* answer is awaited from a process that cannot give it.
PendingOnCurrentHelper ==
    \A r \in pending : child # None /\ writtenTo[r] = child

\* A helper that still runs and was not told to stop is the current one: over
\* crashes, restarts and preemptions no helper is forgotten.
NoOrphanHelper ==
    \A c \in Helpers : proc[c] = "alive" => c = child /\ c \in children

\* A watchdog is armed exactly while its request is pending: one left behind
\* would restart a helper that serves other requests, and without one a request
\* the helper never answers would wait for ever.
WatchdogsMatchPending == armed = pending

\* No caller is forgotten: a request that was written and is no longer pending
\* has been settled, and one that is pending has not.
NoCallerForgotten ==
    \A r \in Requests :
        writtenTo[r] # None => (r \in pending <=> outcome[r] = "none")

\* Until the app quits, the bytes left in the line buffer come from the current
\* helper: what an earlier one left would be glued to its successor's first
\* answer, which would not parse, and its request would hang until its watchdog.
NoForeignBytes == ~quit /\ child # None => Parses

\* closeSession's countdown is the number of sends that have not settled, so the
\* client neither stops under a send nor waits for one that is gone.
DrainCountExact ==
    /\ session = "draining" =>
         /\ remaining = Cardinality(pending \cap AllSends)
         /\ remaining > 0
    /\ session \in {"grace", "closed"} => pending \cap AllSends = {}

\* "Closing a wallet session stops readers and prevents queued requests from
\* restarting it" (tests/nativeCoreClient.test.ts): once closed, no helper is
\* current, none runs that was not told to stop, and nothing is pending.
ClosedSessionIsQuiet ==
    session = "closed" =>
        /\ child = None
        /\ pending = {}
        /\ \A c \in Helpers : proc[c] # "alive"

\* What the client promises its callers: each request is started and settled at
\* most once, node reads one at a time, none starts once the session is closed,
\* and closing it fails no transfer ("An already submitted transfer must settle
\* before its helper is stopped", closeSession).
Broker == INSTANCE RequestBroker WITH
    Chained   <- NodeReads,
    Others    <- Reads \cup Scans,
    Transfers <- AllSends,
    status    <- [r \in Requests |->
                    IF outcome[r] # "none" THEN outcome[r]
                    ELSE IF r \in pending THEN "active"
                    ELSE IF r \in Queued THEN "waiting"
                    ELSE "new"],
    open      <- session = "open"

ImplementsBroker == Broker!Spec

\* What NativeSession takes each client to be, with its Epic client, its clients
\* of other coins and its node clients in one: a session ends at once or with its
\* last transfer, whatever fails besides, and after a grace if one of Epic was
\* under way; a helper is there from the first request on until the client lets
\* go of it, and what it lets go of with a helper has failed.
Client == INSTANCE SessionClient WITH
    Chained <- NodeReads,
    Others  <- Reads \cup Scans,
    status  <- [r \in Requests |->
                  IF outcome[r] # "none" THEN "over"
                  ELSE IF r \in pending THEN "pending"
                  ELSE IF r \in Queued THEN "chained"
                  ELSE "new"],
    phase   <- IF session # "draining" THEN session
               ELSE IF needsGrace THEN "drainsEpic" ELSE "drains",
    helper  <- child # None

ImplementsSessionClient == Client!Spec

\* Every call but a scan, whose progress may re-arm its watchdog for ever, is
\* settled, be it pending, queued behind a read that hangs, or refused.
CallsSettle ==
    \A r \in Requests \ Scans : r \in pending \cup Queued ~> outcome[r] # "none"

\* A locked session reaches its end, whatever its sends do.
SessionCloses == session # "open" ~> session = "closed"

=============================================================================
