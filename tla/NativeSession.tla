--------------------------- MODULE NativeSession ---------------------------
(***************************************************************************)
(* electron/main.cjs: how the main process hands the requests of the       *)
(* wallet to clients of the native helper, ends the clients of a session,  *)
(* and keeps the app alive for an Epic send; with electron/coin-sdk.cjs.   *)
(*                                                                         *)
(* NativeCoreClient.tla has one client in full.  Here there are many: one  *)
(* for each pool and session, of which only the requests, the session flag *)
(* and the grace after an Epic send are left; SessionClient.tla says what  *)
(* one of them may do.  Everything that rejects all pending requests of a  *)
(* client (watchdog, exit or error of the helper, a failed write) is one   *)
(* action, ClientFails.                                                    *)
(***************************************************************************)
EXTENDS Naturals, FiniteSets

CONSTANTS
    EpicSends,  \* privacyLightWallet sends of Epic
    EpicScans,  \* the other requests to Epic's client
    Sends,      \* privacyLightWallet sends of another coin
    NodeReads,  \* coinNodeRequest, one at a time on a client
    SdkCalls,   \* derive, send and sign of one coin's SDK
    MaxResets,  \* bound: ends of a session
    None        \* no client, no call

Requests == EpicSends \cup EpicScans \cup Sends \cup NodeReads

ASSUME SessionConstants ==
    /\ EpicSends \cap (EpicScans \cup Sends \cup NodeReads) = {}
    /\ EpicScans \cap (Sends \cup NodeReads) = {}
    /\ Sends \cap NodeReads = {}
    /\ MaxResets \in Nat
    /\ None \notin SdkCalls

VARIABLES
    epoch,      \* how often the maps of clients were emptied
    made,       \* the clients constructed
    revoked,    \* clients whose sessionClosed is set
    closing,    \* closingNativeCores
    grace,      \* clients with epicCloseGrace
    helper,     \* clients with a helper that was not told to stop
    status,     \* what has become of each request
    at,         \* the client a request was given to
    revision,   \* sessionRevision of the coin SDKs
    awaiting,   \* core:reset-session handlers that await closeCoinSdks
    call,       \* what has become of each SDK call
    session,    \* the revision an SDK call was made in
    ahead,      \* the call an SDK call is chained to
    tail,       \* the entry of `pending': the last call of the chain
    window,     \* is there a window?
    quit,       \* the quit of the app
    wait,       \* epicSendQuitWait
    waited,     \* the clients whose waitForEpicSend has not settled
    allow,      \* allowQuitAfterEpicSend
    jobs,       \* miningManager.hasManagedJobs()
    stopAll,    \* miningQuitWait, and allowQuitAfterMining when done
    late,       \* history: Epic sends begun when a wait had been set up
    cut         \* history: requests that the quit rejected

clients == << epoch, made, revoked, closing, grace, helper, status, at >>
sdk == << revision, awaiting, call, session, ahead, tail >>
leave == << window, quit, wait, waited, allow, jobs, stopAll >>
vars == << clients, sdk, leave, late, cut >>

----------------------------------------------------------------------------
(* Clients                                                                 *)

\* nativeCoreForRequest: a request's pool.  A client is named by its pool
\* and by how often the maps had been emptied when it was constructed.
Pools == {"epic", "privacy", "node"}
PoolOf(r) == IF r \in EpicSends \cup EpicScans THEN "epic"
             ELSE IF r \in Sends THEN "privacy" ELSE "node"
ClientFor(r) == << PoolOf(r), epoch >>

Pending(c) == {r \in Requests : status[r] = "pending" /\ at[r] = c}
HasPendingEpicSend(c) == c \in grace \/ Pending(c) \cap EpicSends # {}

\* app.quit() calls before-quit before anything else happens.
Running == quit \in {"no", "leaving"}

\* The clients in nativeCore and the three maps, and activeNativeClients.
Mapped == {c \in made : c[2] = epoch}
ActiveClients == Mapped \cup closing

\* Requests rs are answered or rejected while the helpers of `live' run: the
\* callbacks of closeSession stop a closed client after its last send, an
\* Epic client only after the grace.  A client it stops rejects what is left.
Drained(rs) == {c \in closing \ grace :
                   Pending(c) \cap (EpicSends \cup Sends) \subseteq rs}

\* Mutant of Settle: a closed client leaves the set at its last answer, also
\* when Epic's grace is still to come.
SettleForgets(rs, live) ==
    LET stopped == {c \in Drained(rs) : c[1] # "epic"}
    IN /\ status' = [r \in Requests |->
                        IF \/ r \in rs
                           \/ status[r] = "pending" /\ at[r] \in stopped
                        THEN "over" ELSE status[r]]
       /\ grace' = grace \cup (Drained(rs) \ stopped)
       /\ closing' = closing \ Drained(rs)
       /\ helper' = live \ stopped
       /\ UNCHANGED << epoch, made, revoked, at >>

\* The answers, with what they stop.
Settle(rs, live) ==
    LET stopped == {c \in Drained(rs) : c[1] # "epic"}
    IN /\ status' = [r \in Requests |->
                        IF \/ r \in rs
                           \/ status[r] = "pending" /\ at[r] \in stopped
                        THEN "over" ELSE status[r]]
       /\ grace' = grace \cup (Drained(rs) \ stopped)
       /\ closing' = closing \ stopped
       /\ helper' = live \ stopped
       /\ UNCHANGED << epoch, made, revoked, at >>

\* requestNow on client c: refused when its session is closed; an Epic send
\* first rejects whatever its client has pending.
RequestNow(r, c) ==
    IF c \in revoked
    THEN /\ status' = [status EXCEPT ![r] = "over"]
         /\ UNCHANGED << helper, late >>
    ELSE /\ status' = [q \in Requests |->
                          IF q = r THEN "pending"
                          ELSE IF r \in EpicSends /\ q \in Pending(c)
                               THEN "over" ELSE status[q]]
         /\ helper' = helper \cup {c}
         /\ late' = IF r \in EpicSends /\ (wait \/ allow)
                    THEN late \cup {r} ELSE late

\* core:request, from the window: a node read is chained, another request
\* goes to the helper at once.
Request(r) ==
    LET c == ClientFor(r)
    IN /\ window /\ Running
       /\ status[r] = "new"
       /\ made' = made \cup {c}
       /\ at' = [at EXCEPT ![r] = c]
       /\ IF r \in NodeReads
          THEN /\ status' = [status EXCEPT ![r] = "chained"]
               /\ UNCHANGED << helper, late >>
          ELSE RequestNow(r, c)
       /\ UNCHANGED << epoch, revoked, closing, grace, sdk, leave, cut >>

\* The read before it on its client has ended.
Dispatch(r) ==
    /\ Running
    /\ status[r] = "chained"
    /\ Pending(at[r]) \cap NodeReads = {}
    /\ RequestNow(r, at[r])
    /\ UNCHANGED << epoch, made, revoked, closing, grace, at, sdk, leave, cut >>

\* The helper answers, or the watchdog of the request ends it at the latest.
Answer(r) ==
    /\ Running
    /\ status[r] = "pending"
    /\ Settle({r}, helper)
    /\ UNCHANGED << sdk, leave, late, cut >>

\* Watchdog, exit or error of the helper: all pending requests are rejected.
ClientFails(c) ==
    /\ Running
    /\ c \in helper
    /\ Settle(Pending(c), helper \ {c})
    /\ UNCHANGED << sdk, leave, late, cut >>

\* closeSession: three seconds after the last send of Epic.
GraceEnds(c) ==
    /\ Running
    /\ c \in grace
    /\ grace' = grace \ {c}
    /\ closing' = closing \ {c}
    /\ helper' = helper \ {c}
    /\ status' = [r \in Requests |-> IF r \in Pending(c) THEN "over" ELSE status[r]]
    /\ UNCHANGED << epoch, made, revoked, at, sdk, leave, late, cut >>

----------------------------------------------------------------------------
(* The end of a session                                                    *)

\* The part of closeCoinSdks before its await.
CloseCoinSdks ==
    /\ revision' = revision + 1
    /\ tail' = None
    /\ UNCHANGED << call, session, ahead >>

\* core:reset-session up to its await.
ResetBegins ==
    /\ window /\ Running
    /\ revision < MaxResets
    /\ CloseCoinSdks
    /\ awaiting' = awaiting + 1
    /\ UNCHANGED << clients, leave, late, cut >>

\* Mutant of CloseClients: a client is entered after closeSession, whose
\* callback an idle client has called by then.
CloseBeforeEntry ==
    LET busy == {c \in Mapped : Pending(c) \cap (EpicSends \cup Sends) # {}}
        idle == Mapped \ busy
    IN /\ revoked' = revoked \cup Mapped
       /\ closing' = closing \cup Mapped
       /\ helper' = helper \ idle
       /\ status' = [r \in Requests |->
                        IF status[r] = "pending" /\ at[r] \in idle
                        THEN "over" ELSE status[r]]
       /\ epoch' = epoch + 1
       /\ UNCHANGED << made, grace, at >>

\* Mutant of CloseClients: nativeCore and the maps are not emptied.
CloseKeepsMaps ==
    LET busy == {c \in Mapped : Pending(c) \cap (EpicSends \cup Sends) # {}}
        idle == Mapped \ busy
    IN /\ revoked' = revoked \cup Mapped
       /\ closing' = closing \cup busy
       /\ helper' = helper \ idle
       /\ status' = [r \in Requests |->
                        IF status[r] = "pending" /\ at[r] \in idle
                        THEN "over" ELSE status[r]]
       /\ UNCHANGED << epoch, made, grace, at >>

\* The clients of the maps are closed: those with a send go on for it.
CloseClients ==
    LET busy == {c \in Mapped : Pending(c) \cap (EpicSends \cup Sends) # {}}
        idle == Mapped \ busy
    IN /\ revoked' = revoked \cup Mapped
       /\ closing' = closing \cup busy
       /\ helper' = helper \ idle
       /\ status' = [r \in Requests |->
                        IF status[r] = "pending" /\ at[r] \in idle
                        THEN "over" ELSE status[r]]
       /\ epoch' = epoch + 1
       /\ UNCHANGED << made, grace, at >>

\* core:reset-session: the runtimes' close() have settled.
ResetEnds ==
    /\ Running
    /\ awaiting > 0
    /\ awaiting' = awaiting - 1
    /\ CloseClients
    /\ UNCHANGED << revision, call, session, ahead, tail, leave, late, cut >>

----------------------------------------------------------------------------
(* Calls of a coin's SDK that change its state                             *)

\* requestCoinSdk, up to its await: chained to the last call.
SdkCall(o) ==
    /\ window /\ Running
    /\ call[o] = "new"
    /\ call' = [call EXCEPT ![o] = "chained"]
    /\ session' = [session EXCEPT ![o] = revision]
    /\ ahead' = [ahead EXCEPT ![o] = tail]
    /\ tail' = o
    /\ UNCHANGED << revision, awaiting, clients, leave, late, cut >>

\* The call ahead has ended, however it ended; the session must be the same.
SdkDispatch(o) ==
    /\ Running
    /\ call[o] = "chained"
    /\ ahead[o] # None => call[ahead[o]] = "over"
    /\ ahead' = [ahead EXCEPT ![o] = None]
    /\ IF session[o] = revision
       THEN /\ call' = [call EXCEPT ![o] = "running"]
            /\ UNCHANGED << session, tail >>
       ELSE /\ call' = [call EXCEPT ![o] = "over"]
            /\ session' = [session EXCEPT ![o] = 0]
            /\ tail' = IF tail = o THEN None ELSE tail
    /\ UNCHANGED << revision, awaiting, clients, leave, late, cut >>

\* Mutant of SdkEnds: the entry is deleted whoever's it is.
SdkEndsChain(o) ==
    /\ Running
    /\ call[o] = "running"
    /\ call' = [call EXCEPT ![o] = "over"]
    /\ session' = [session EXCEPT ![o] = 0]
    /\ tail' = None
    /\ UNCHANGED << revision, awaiting, ahead, clients, leave, late, cut >>

\* The runtime answers or fails: the entry goes if it is still this call's.
SdkEnds(o) ==
    /\ Running
    /\ call[o] = "running"
    /\ call' = [call EXCEPT ![o] = "over"]
    /\ session' = [session EXCEPT ![o] = 0]
    /\ tail' = IF tail = o THEN None ELSE tail
    /\ UNCHANGED << revision, awaiting, ahead, clients, leave, late, cut >>

----------------------------------------------------------------------------
(* The quit                                                                *)

\* deferQuitForEpicSend finds a send to wait for; one wait serves all quits.
Deferrable == ~allow /\ \E c \in ActiveClients : HasPendingEpicSend(c)
\* Mutant of Defer: the clients of closed sessions are not waited for.
DeferForPending ==
    /\ Deferrable
    /\ wait' = TRUE
    /\ waited' = IF wait THEN waited
                 ELSE {c \in Mapped : HasPendingEpicSend(c)}
    /\ quit' = "no"
    /\ UNCHANGED << window, allow, jobs, stopAll >>

Defer ==
    /\ Deferrable
    /\ wait' = TRUE
    /\ waited' = IF wait THEN waited
                 ELSE {c \in ActiveClients : HasPendingEpicSend(c)}
    /\ quit' = "no"
    /\ UNCHANGED << window, allow, jobs, stopAll >>

\* The user quits the app.
QuitAsked ==
    /\ quit = "no"
    /\ quit' = "asked"
    /\ UNCHANGED << clients, sdk, window, wait, waited, allow, jobs, stopAll,
                    late, cut >>

\* The window's close handler.  The last window gone, the app quits, or ends
\* when before-quit has let it.
CloseWindow ==
    /\ window /\ quit \in {"no", "leaving"}
    /\ \/ Defer
       \/ /\ ~Deferrable
          /\ window' = FALSE
          /\ quit' = IF quit = "leaving" THEN "ended" ELSE "asked"
          /\ UNCHANGED << wait, waited, allow, jobs, stopAll >>
    /\ UNCHANGED << clients, sdk, late, cut >>

\* before-quit waits for an Epic send, then for the miners.
QuitWaits ==
    /\ quit = "asked"
    /\ \/ Defer
       \/ /\ ~Deferrable
          /\ jobs /\ stopAll # "done"
          /\ stopAll' = "waiting"
          /\ quit' = "no"
          /\ UNCHANGED << window, wait, waited, allow, jobs >>
    /\ UNCHANGED << clients, sdk, late, cut >>

\* before-quit lets the app go: resetNativeCoreClients stops every client
\* it knows, and every helper.
QuitProceeds ==
    /\ quit = "asked"
    /\ ~Deferrable
    /\ jobs => stopAll = "done"
    /\ CloseCoinSdks
    /\ cut' = cut \cup {r \in Requests : status[r] = "pending" /\ at[r] \in ActiveClients}
    /\ status' = [r \in Requests |-> IF r \in cut' THEN "over" ELSE status[r]]
    /\ grace' = grace \cup {c \in closing : Pending(c) \cap EpicSends # {}}
    /\ closing' = {}
    /\ helper' = {}
    /\ epoch' = epoch + 1
    /\ quit' = IF window THEN "leaving" ELSE "ended"
    /\ UNCHANGED << made, revoked, at, awaiting, window, wait, waited, allow,
                    jobs, stopAll, late >>

\* waitForEpicSend of c: nothing is pending at a poll, or 250 s are over.  A
\* send is rejected after 240 s and its grace takes 3, so only one begun
\* later can still be pending then.
PollEnds(c) ==
    /\ Running
    /\ wait /\ c \in waited
    /\ \/ ~HasPendingEpicSend(c)
       \/ /\ Pending(c) \cap EpicSends \subseteq late
          /\ \E r \in late : at[r] = c
    /\ waited' = waited \ {c}
    /\ UNCHANGED << clients, sdk, window, quit, wait, allow, jobs, stopAll,
                    late, cut >>

\* Mutant of FlushEnds: the quit is allowed but not asked for again.
FlushOnlyAllows ==
    /\ Running
    /\ wait /\ waited = {}
    /\ wait' = FALSE
    /\ allow' = TRUE
    /\ UNCHANGED << clients, sdk, window, quit, waited, jobs, stopAll, late, cut >>

\* Three seconds after the last of them: app.quit(), once and for all.
FlushEnds ==
    /\ Running
    /\ wait /\ waited = {}
    /\ wait' = FALSE
    /\ allow' = TRUE
    /\ quit' = IF quit = "no" THEN "asked" ELSE quit
    /\ UNCHANGED << clients, sdk, window, waited, jobs, stopAll, late, cut >>

\* stopAll settles: app.quit(), or the window is shown and the app stays.
StopAllEnds ==
    /\ Running
    /\ stopAll = "waiting"
    /\ \/ /\ stopAll' = "done"
          /\ jobs' = FALSE
          /\ quit' = IF quit = "no" THEN "asked" ELSE quit
       \/ /\ stopAll' = "none"
          /\ UNCHANGED << jobs, quit >>
    /\ UNCHANGED << clients, sdk, window, wait, waited, allow, late, cut >>

\* A mining job is started or the last one has ended; see MiningJobs.
MiningChanges ==
    /\ quit \in {"no", "leaving"}
    /\ stopAll # "waiting"
    /\ ~jobs => window
    /\ jobs' = ~jobs
    /\ UNCHANGED << clients, sdk, window, quit, wait, waited, allow, stopAll,
                    late, cut >>

----------------------------------------------------------------------------
Init ==
    /\ epoch = 0 /\ made = {} /\ revoked = {} /\ closing = {} /\ grace = {}
    /\ helper = {}
    /\ status = [r \in Requests |-> "new"]
    /\ at = [r \in Requests |-> None]
    /\ revision = 0 /\ awaiting = 0
    /\ call = [o \in SdkCalls |-> "new"]
    /\ session = [o \in SdkCalls |-> 0]
    /\ ahead = [o \in SdkCalls |-> None]
    /\ tail = None
    /\ window = TRUE /\ quit = "no"
    /\ wait = FALSE /\ waited = {} /\ allow = FALSE
    /\ jobs \in BOOLEAN /\ stopAll = "none"
    /\ late = {} /\ cut = {}

Next ==
    \/ \E r \in Requests : Request(r) \/ Dispatch(r) \/ Answer(r)
    \/ \E c \in made : ClientFails(c) \/ GraceEnds(c) \/ PollEnds(c)
    \/ \E o \in SdkCalls : SdkCall(o) \/ SdkDispatch(o) \/ SdkEnds(o)
    \/ ResetBegins \/ ResetEnds
    \/ QuitAsked \/ CloseWindow \/ QuitWaits \/ QuitProceeds
    \/ FlushEnds \/ StopAllEnds \/ MiningChanges

Spec == Init /\ [][Next]_vars

\* Requests end by their watchdogs, the waits by their timers, stopAll as
\* MiningJobs shows, and Electron goes on with a quit it was asked for.  Strong
\* fairness, because `asked' is not a state in which anything could be due.
\* What the user does and how long a runtime's close() takes is left open.
FairSpec ==
    /\ Spec
    /\ \A r \in Requests : SF_vars(Answer(r))
    /\ SF_vars(\E c \in made : GraceEnds(c))
    /\ SF_vars(\E c \in made : PollEnds(c))
    /\ SF_vars(FlushEnds) /\ SF_vars(StopAllEnds)
    /\ WF_vars(QuitWaits) /\ WF_vars(QuitProceeds)
    /\ SF_vars(quit = "leaving" /\ CloseWindow)

----------------------------------------------------------------------------
(* Properties                                                              *)

\* The types of the variables, with what the maps and sets say of a client:
\* one of the maps has an open session, one of closingNativeCores has not.
TypeOK ==
    /\ epoch \in Nat /\ revision \in Nat /\ awaiting \in Nat
    /\ made \subseteq Pools \X (0 .. epoch)
    /\ revoked \subseteq made \ Mapped /\ closing \subseteq revoked
    /\ grace \subseteq revoked /\ helper \subseteq made
    /\ status \in [Requests -> {"new", "chained", "pending", "over"}]
    /\ at \in [Requests -> made \cup {None}]
    /\ \A r \in Requests : status[r] \in {"chained", "pending"} => at[r] \in made
    /\ \A r \in Requests : status[r] = "chained" => r \in NodeReads
    /\ call \in [SdkCalls -> {"new", "chained", "running", "over"}]
    /\ session \in [SdkCalls -> 0 .. revision]
    /\ ahead \in [SdkCalls -> SdkCalls \cup {None}]
    /\ tail \in SdkCalls \cup {None}
    /\ window \in BOOLEAN /\ quit \in {"no", "asked", "leaving", "ended"}
    /\ wait \in BOOLEAN /\ allow \in BOOLEAN /\ jobs \in BOOLEAN
    /\ stopAll \in {"none", "waiting", "done"}
    /\ waited \subseteq made /\ (waited # {} => wait)
    /\ late \subseteq EpicSends /\ cut \subseteq Requests

\* An Epic send is not cut off by a quit (deferQuitForEpicSend), whatever ends
\* of sessions, refused quits and other sends there were, unless it began when
\* the one wait of the app's life had already listed its clients.
EpicSendSpared == cut \cap EpicSends \subseteq late

\* The main process knows the client of every helper that runs, so that the
\* quit guard asks it (activeNativeClients).  The one exception: a node read
\* that was chained when a quit stopped its client, and starts a helper then.
HelpersAreKnown ==
    \A c \in helper : c \in ActiveClients \/ (c[1] = "node" /\ c \notin revoked)

\* "Serialize state-changing local calls" (coin-sdk.cjs): two of them run at
\* the same time only if they were made in different sessions.
SdkSerial ==
    \A o, p \in SdkCalls : /\ o # p
                           /\ call[o] = "running" /\ call[p] = "running"
                           => session[o] # session[p]

\* Client c, as SessionClient has it.  A helper that the quit told to stop is
\* there until it has rejected what is pending.
StatusAt(c) == [r \in Requests |-> IF at[r] = c THEN status[r] ELSE "new"]
PhaseOf(c) == IF c \notin revoked THEN "open"
              ELSE IF c \in grace THEN "grace"
              ELSE IF c \notin closing THEN "closed"
              ELSE IF c[1] = "epic" THEN "drainsEpic" ELSE "drains"
HasHelper(c) == c \in helper \/ Pending(c) # {}

Client(c) == INSTANCE SessionClient WITH
    Chained <- NodeReads, Others <- EpicScans,
    status <- StatusAt(c), phase <- PhaseOf(c), helper <- HasHelper(c)

\* Whatever the main process does with its maps, its sets and its quits, each
\* client goes through no other steps than NativeCoreClient is shown to make.
ClientsAreSessionClients ==
    [][\A c \in made' : [Client(c)!Next]_<< StatusAt(c), PhaseOf(c), HasHelper(c) >>]_vars

\* stopAll failed: the window is shown again, and the quit is given up.
MinersRefuse == quit = "no" /\ ~wait /\ jobs /\ stopAll = "none"

\* The app quits when it was asked to, unless the miners refuse to stop: the
\* two waits of before-quit each end, and each asks for the quit again.
QuitDecides == quit = "asked" ~> (quit = "ended" \/ MinersRefuse)

\* A closed client leaves closingNativeCores, or the app ends.
ClosingEnds ==
    \A c \in Pools \X (0 .. MaxResets) : c \in closing ~> (c \notin closing \/ quit = "ended")
=============================================================================
