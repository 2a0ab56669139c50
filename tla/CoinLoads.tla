----------------------------- MODULE CoinLoads -----------------------------
(***************************************************************************)
(* src/store/coinStore.ts with the refresh loops of src/app/App.tsx: which *)
(* of several balance loads under way may still write.                     *)
(*                                                                         *)
(* A load takes the next coinLoadSeq and compares it, after each await,    *)
(* with the sequence and the wallet of the moment.  The comparison is only *)
(* ever for equality, so the sequence is the load that took it last.       *)
(*                                                                         *)
(* A balance is the wallet it belongs to and the moment of the chain, or   *)
(* of the local scan, it was read at; a coin has a preference, too, which  *)
(* the user may change at any time.  What a read is worth when servers lag *)
(* (reservations, floors, reads of zero) is left out.                      *)
(***************************************************************************)
EXTENDS Naturals

CONSTANTS
    Wallets,        \* wallets, by storage scope and phrase
    Plain,          \* coins read by every full load
    Targeted,       \* coins the fast loop reads on their own
    Deferred,       \* coins with deferStartupBalance, read after the commit
    Privacy,        \* coins read by refreshPrivacyBalances
    Loads,          \* bound: loads under way at a time
    MaxMoments,     \* bound: moments at which balances change
    MaxChanges,     \* bound: locks, replaced wallets and changes of preferences
    MaxPageLoads,   \* bound: loads of pages, of sends and of the history
    CoinPage,       \* may the page of a coin be open, with its own poll?
    None

ASSUME CoinConstants ==
    /\ None \notin Wallets \cup Loads
    /\ {MaxMoments, MaxChanges, MaxPageLoads} \subseteq Nat
    /\ CoinPage \in BOOLEAN

Coins == Plain \cup Targeted \cup Deferred \cup Privacy
OrNone(S) == S \cup {None}

VARIABLES
    phase,      \* the session, as far as the coin store is concerned
    scope,      \* getWalletStorageScope()
    phrase,     \* getSessionMnemonic()
    coins,      \* the store's coins
    disk,       \* the cached coins of each scope
    choice,     \* the preferences the user set last, for the wallet in scope
    newest,     \* the load that holds coinLoadSeq
    refreshing, \* the store's flag
    load,       \* the loads under way, with what they have read
    privacy,    \* the privacy refresh under way
    loops,      \* inFlight, standardPending, xgrBalanceInFlight, the send page
    moment,     \* the moment of the chain
    changes,    \* changes of the user so far
    pageLoads   \* page loads so far

session == << phase, scope, phrase >>
store == << coins, disk, choice >>
bounds == << moment, changes, pageLoads >>
vars == << session, store, newest, refreshing, load, privacy, loops, bounds >>

Moments == 0 .. MaxMoments
Coin == [of : OrNone(Wallets), at : Moments, on : BOOLEAN]
Zero == [of |-> None, at |-> 0, on |-> TRUE]
Nothing == [c \in Coins |-> Zero]

\* The awaits of a load that its `refreshing' covers.
BeforeCommit == {"network", "balances", "fallback", "snapshot", "probes", "preload"}

\* A load: its place, who started it, its wallet, the coins it reads, when it
\* asked and then when they were read, the coins as they were before it
\* computed, and those whose balance has risen.
Load ==
    [at : BeforeCommit \cup
          {"idle", "deferred network", "deferred balances", "deferred preload"},
     by : {"standard", "fast", "detail", "page", "unlock"},
     scope : OrNone(Wallets), phrase : OrNone(Wallets),
     reads : SUBSET Coins, read : Moments, base : [Coins -> Coin], rises : SUBSET Coins]
NoLoad == [at |-> "idle", by |-> "page", scope |-> None, phrase |-> None,
           reads |-> {}, read |-> 0, base |-> Nothing, rises |-> {}]

\* A refresh of privacy coins: those whose engine has not answered yet, and
\* those that wait for the status of the network.
NoRefresh == [scope |-> None, phrase |-> None, scans |-> {}, waits |-> {}, read |-> 0]
privacyBalanceRefreshInFlight == privacy.scans \cup privacy.waits # {}

\* Types, and the flag: it is up as long as the newest load has not ended.  The
\* loops rely on it, and a stale load must not take it down.
TypeOK ==
    /\ phase \in {"none", "locked", "starting", "in", "restoring"}
    /\ {scope, phrase} \subseteq OrNone(Wallets)
    /\ coins \in [Coins -> Coin]
    /\ disk \in [Wallets -> [Coins -> Coin]]
    /\ choice \in [Coins -> BOOLEAN]
    /\ newest \in OrNone(Loads)
    /\ refreshing \in BOOLEAN
    /\ load \in [Loads -> Load]
    /\ privacy \in [scope : OrNone(Wallets), phrase : OrNone(Wallets),
                    scans : SUBSET Privacy, waits : SUBSET Privacy, read : Moments]
    /\ loops \in [inFlight : BOOLEAN, pending : BOOLEAN, fast : BOOLEAN, sendPage : BOOLEAN]
    /\ moment \in Moments /\ changes \in 0 .. MaxChanges /\ pageLoads \in 0 .. MaxPageLoads
    /\ newest # None /\ load[newest].at \in BeforeCommit => refreshing

AtRest == [inFlight |-> FALSE, pending |-> FALSE, fast |-> FALSE, sendPage |-> FALSE]

Init ==
    /\ phase = "none" /\ scope = None /\ phrase = None
    /\ coins = Nothing /\ disk = [w \in Wallets |-> Nothing]
    /\ choice = [c \in Coins |-> TRUE]
    /\ newest = None /\ refreshing = FALSE
    /\ load = [l \in Loads |-> NoLoad]
    /\ privacy = NoRefresh /\ loops = AtRest
    /\ moment = 0 /\ changes = 0 /\ pageLoads = 0

-----------------------------------------------------------------------------
(* Checks and commits.                                                      *)

\* Mutant of stillSameWallet: the phrase alone is compared.
SamePhrase(job) == job.phrase \in {None, phrase}

\* Without a phrase at the start of a load only the scope is compared.
stillSameWallet(job) == job.scope = scope /\ job.phrase \in {None, phrase}
IsNewest(l) == newest = l

\* Mutant of Saved: the preferences of the coins that are saved.
SavedAsGiven(given) == given

\* saveRuntimeCoins: the preferences on disk are newer than those of a load.
Saved(given) == [c \in Coins |-> [given[c] EXCEPT !.on = disk[scope][c].on]]

\* reconcilePrivacyRuntimeCommit keeps what is visible of a verified privacy
\* coin whose status the commit would take back; others it lets pass.
Reconciled(given) ==
    {[c \in Coins |-> IF c \in kept THEN [coins[c] EXCEPT !.on = given[c].on] ELSE given[c]] :
        kept \in SUBSET Privacy}

WithReads(given, job, S) ==
    [c \in Coins |-> IF c \in S THEN [of |-> job.scope, at |-> job.read, on |-> given[c].on]
                     ELSE given[c]]

\* The balances of `S' are computed from what was read.  Rises may need proof
\* from the history: those that get none keep the balance of before.
RisesIn(job, S) == {c \in S : job.read > coins[c].at}

-----------------------------------------------------------------------------
(* The beginning and the end of a load.                                     *)

\* Which coins a load reads from the gateway before its commit.
Scope(by) == IF by \in {"fast", "detail"} THEN Targeted ELSE Plain \cup Targeted

Starts(l, by, first) ==
    [load EXCEPT ![l] = [NoLoad EXCEPT !.at = first, !.by = by, !.scope = scope,
                                       !.phrase = phrase, !.reads = Scope(by),
                                       !.read = moment]]

Idle(l) == load[l].at = "idle"

\* The call returns: the loop that awaits it goes on, and unlocking ends.
Returns(by) ==
    /\ loops' = CASE by = "standard" -> [loops EXCEPT !.inFlight = FALSE, !.pending = FALSE]
                  [] by = "fast" -> [loops EXCEPT !.fast = FALSE]
                  [] OTHER -> loops
    /\ phase' = IF by = "unlock" /\ phase = "starting" THEN "in" ELSE phase

\* A load that finds itself outdated, or of another wallet, leaves everything
\* as it is: `refreshing', too.
Abort(l) ==
    /\ load' = [load EXCEPT ![l] = NoLoad]
    /\ Returns(load[l].by)
    /\ UNCHANGED << scope, phrase, store, newest, refreshing, privacy, bounds >>

\* loadCoins up to its first await that takes time.  A full load also starts
\* the privacy refresh; so does its own timer, whenever it goes off.
LoadCoins(l, by) ==
    /\ Idle(l)
    /\ newest' = l /\ refreshing' = TRUE
    /\ load' = Starts(l, by, "snapshot")

PageLoad(l) ==
    /\ scope # None /\ phase # "restoring" /\ pageLoads < MaxPageLoads
    /\ LoadCoins(l, "page")
    /\ pageLoads' = pageLoads + 1
    /\ UNCHANGED << session, store, privacy, loops, moment, changes >>

-----------------------------------------------------------------------------
(* loadCoins.                                                               *)

Waits(l, places) == load[l].at \in places
Moves(l, job) == load' = [load EXCEPT ![l] = job]

\* The balances have arrived: quick statuses are shown, the probes begin.
SnapshotArrives(l, read) ==
    /\ Waits(l, {"snapshot"}) /\ read \in load[l].read .. moment
    /\ IF IsNewest(l) /\ stillSameWallet(load[l])
       THEN /\ Moves(l, [load[l] EXCEPT !.at = "probes", !.read = read])
            /\ refreshing' = TRUE
            /\ UNCHANGED << session, store, newest, privacy, loops, bounds >>
       ELSE Abort(l)

\* The gateway is not there: statuses are asked for one by one, and no
\* balance is read.
SnapshotFails(l) ==
    /\ Waits(l, {"snapshot"})
    /\ Moves(l, [load[l] EXCEPT !.at = "probes", !.reads = {}])
    /\ UNCHANGED << session, store, newest, refreshing, privacy, loops, bounds >>

\* What the load commits if the history has covered `covered' of its rises.
Computed(job, covered) ==
    WithReads(job.base, job, job.reads \ (job.rises \ covered))

\* A newer load has begun meanwhile: the covered coins are saved over what is
\* in memory now, and memory is left to that load.
Outdated(job, covered) == WithReads(coins, job, covered)

\* The store is set and the call returns; deferred coins are read afterwards.
\* A load of one coin, or by the history, has none of them.
Commit(l, given) ==
    \E next \in Reconciled(given) :
        /\ coins' = Saved(next)
        /\ disk' = [disk EXCEPT ![scope] = Saved(next)]
        /\ refreshing' = FALSE
        /\ Moves(l, IF load[l].by \in {"fast", "detail"} \/ Deferred = {} THEN NoLoad
                    ELSE [load[l] EXCEPT !.at = "deferred network", !.by = "page",
                                         !.reads = Deferred, !.read = moment,
                                         !.base = Nothing, !.rises = {}])
        /\ Returns(load[l].by)
        /\ UNCHANGED << scope, phrase, choice, newest, privacy, bounds >>

\* The probes have ended: reservations are written, balances computed, and
\* the history is asked for the rows of the rises.
Probed(l) ==
    LET job == [load[l] EXCEPT !.base = coins]
        rises == RisesIn(job, job.reads)
    IN  /\ Waits(l, {"probes"})
        /\ IF ~ IsNewest(l) \/ ~ stillSameWallet(job) THEN Abort(l)
           ELSE IF rises = {} THEN Commit(l, Computed(job, {}))
           ELSE /\ Moves(l, [job EXCEPT !.at = "preload", !.rises = rises])
                /\ UNCHANGED << session, store, newest, refreshing, privacy, loops, bounds >>

\* Mutant of MaySet: a load whose rises are covered sets the store though a
\* newer load has begun.
MaySetCovered(l) == TRUE

\* The last check, after the save.
MaySet(l) == IsNewest(l)

\* The history has answered, or its time is over.
Preloaded(l, covered) ==
    LET job == load[l]
    IN  /\ Waits(l, {"preload"}) /\ covered \subseteq job.rises
        /\ IF ~ stillSameWallet(job) \/ (~ IsNewest(l) /\ covered = {}) THEN Abort(l)
           ELSE IF MaySet(l) THEN Commit(l, Computed(job, covered))
           ELSE /\ \E next \in Reconciled(Outdated(job, covered)) :
                       disk' = [disk EXCEPT ![scope] = Saved(next)]
                /\ Moves(l, NoLoad) /\ Returns(job.by)
                /\ UNCHANGED << scope, phrase, coins, choice, newest, refreshing, privacy, bounds >>
-----------------------------------------------------------------------------
(* The deferred coins of a load: first their statuses, then their balances. *)

Ends(l) ==
    /\ Moves(l, NoLoad)
    /\ UNCHANGED << session, store, newest, refreshing, privacy, loops, bounds >>

\* Mutant of Apply: the check after the save is missing.
ApplyAnyway(l, given, next) ==
    \E merged \in Reconciled(given) :
        /\ disk' = [disk EXCEPT ![scope] = Saved(merged)]
        /\ coins' = Saved(merged)
        /\ Moves(l, next)
        /\ UNCHANGED << session, choice, newest, refreshing, privacy, loops, bounds >>

\* applyDeferredSnapshot after its awaits: it saves before it looks whether a
\* newer load has begun.
Apply(l, given, next) ==
    \E merged \in Reconciled(given) :
        /\ disk' = [disk EXCEPT ![scope] = Saved(merged)]
        /\ coins' = IF IsNewest(l) THEN Saved(merged) ELSE coins
        /\ Moves(l, next)
        /\ UNCHANGED << session, choice, newest, refreshing, privacy, loops, bounds >>

DeferredNetwork(l) ==
    LET goesOn == [load[l] EXCEPT !.at = "deferred balances", !.read = moment]
    IN  /\ Waits(l, {"deferred network"})
        /\ IF IsNewest(l) /\ stillSameWallet(load[l])
           THEN Apply(l, coins, goesOn)
           ELSE /\ Moves(l, goesOn)
                /\ UNCHANGED << session, store, newest, refreshing, privacy, loops, bounds >>

DeferredBalances(l, read) ==
    LET job == [load[l] EXCEPT !.base = coins, !.read = read]
        rises == RisesIn(job, job.reads)
    IN  /\ Waits(l, {"deferred balances"}) /\ read \in load[l].read .. moment
        /\ \/ Ends(l)
           \/ /\ IsNewest(l) /\ stillSameWallet(job)
              /\ IF rises = {} THEN Apply(l, Computed(job, {}), NoLoad)
                 ELSE /\ Moves(l, [job EXCEPT !.at = "deferred preload", !.rises = rises])
                      /\ UNCHANGED << session, store, newest, refreshing, privacy, loops, bounds >>

DeferredPreloaded(l, covered) ==
    /\ Waits(l, {"deferred preload"}) /\ covered \subseteq load[l].rises
    /\ IF stillSameWallet(load[l]) THEN Apply(l, Computed(load[l], covered), NoLoad)
       ELSE Ends(l)

-----------------------------------------------------------------------------
(* loadSendReadyState, the load of an unlocked or restored wallet.          *)

\* A fresh list is shown as it is; else statuses and balances are asked for.
LoadSendReadyState(l, w) ==
    /\ Idle(l)
    /\ newest' = l
    /\ \/ refreshing' = FALSE /\ phase' = "in" /\ UNCHANGED load
       \/ /\ refreshing' = TRUE /\ phase' = "starting"
          /\ Moves(l, [NoLoad EXCEPT !.at = "network", !.by = "unlock", !.scope = w, !.phrase = w,
                                     !.reads = Plain \cup Targeted, !.read = moment])

ReadyNetwork(l) ==
    /\ Waits(l, {"network"})
    /\ IF IsNewest(l) /\ stillSameWallet(load[l])
       THEN /\ Moves(l, [load[l] EXCEPT !.at = "balances"])
            /\ refreshing' = TRUE
            /\ UNCHANGED << session, store, newest, privacy, loops, bounds >>
       ELSE Abort(l)

\* Without a single balance the ordinary load takes over, with a new sequence
\* and the wallet of now.
ReadyBalances(l, read) ==
    /\ Waits(l, {"balances"}) /\ read \in load[l].read .. moment
    /\ IF ~ IsNewest(l) \/ ~ stillSameWallet(load[l]) THEN Abort(l)
       ELSE /\ \/ Moves(l, [load[l] EXCEPT !.at = "fallback", !.read = read, !.base = coins])
               \/ Moves(l, [load[l] EXCEPT !.at = "snapshot", !.phrase = phrase, !.read = moment])
            /\ UNCHANGED << session, store, newest, refreshing, privacy, loops, bounds >>

\* The UTXO fallbacks have answered for the coins the snapshot left out.
ReadyCommit(l) ==
    LET job == load[l]
    IN  /\ Waits(l, {"fallback"})
        /\ IF ~ IsNewest(l) \/ ~ stillSameWallet(job) THEN Abort(l)
           ELSE \E next \in Reconciled(WithReads(job.base, job, job.reads)) :
                    /\ coins' = Saved(next)
                    /\ disk' = [disk EXCEPT ![scope] = Saved(next)]
                    /\ refreshing' = FALSE
                    /\ Moves(l, NoLoad) /\ Returns(job.by)
                    /\ UNCHANGED << scope, phrase, choice, newest, privacy, bounds >>

-----------------------------------------------------------------------------
(* refreshPrivacyBalances: it takes no sequence, and no load waits for it.  *)

PrivacyStarts(S) ==
    /\ ~ privacyBalanceRefreshInFlight /\ phrase # None
    /\ S # {}
    /\ privacy' = [NoRefresh EXCEPT !.scope = scope, !.phrase = phrase, !.scans = S,
                                    !.read = moment]
    /\ UNCHANGED << session, store, newest, refreshing, load, loops, bounds >>

\* The engine of `c' answers, or fails, and the network is asked.
PrivacyScanned(c) ==
    /\ c \in privacy.scans
    /\ \/ /\ stillSameWallet(privacy)
          /\ privacy' = [privacy EXCEPT !.scans = @ \ {c}, !.waits = @ \cup {c}]
       \/ privacy' = [privacy EXCEPT !.scans = @ \ {c}]
    /\ UNCHANGED << session, store, newest, refreshing, load, loops, bounds >>

\* The coins are those of now: an empty snapshot of a coin with a visible
\* balance changes nothing.
PrivacyCommit(c) ==
    /\ c \in privacy.waits
    /\ privacy' = [privacy EXCEPT !.waits = @ \ {c}]
    /\ IF stillSameWallet(privacy)
       THEN \E next \in {coins, WithReads(coins, privacy, {c})} :
                /\ coins' = Saved(next)
                /\ disk' = [disk EXCEPT ![scope] = Saved(next)]
       ELSE UNCHANGED << coins, disk >>
    /\ UNCHANGED << session, choice, newest, refreshing, load, loops, bounds >>

-----------------------------------------------------------------------------
(* The user, the chain and the session.                                     *)

Moment ==
    /\ moment < MaxMoments /\ moment' = moment + 1
    /\ UNCHANGED << session, store, newest, refreshing, load, privacy, loops, changes, pageLoads >>

Changes == changes < MaxChanges /\ changes' = changes + 1

\* toggleEnabled, toggleFavorite: the preference is changed on disk, then the
\* coins in memory take it over and are saved.
Toggle(c) ==
    LET on == [disk[scope] EXCEPT ![c].on = ~ @]
        merged == [d \in Coins |-> [coins[d] EXCEPT !.on = on[d].on]]
    IN  /\ phase = "in" /\ Changes
        /\ choice' = [choice EXCEPT ![c] = ~ disk[scope][c].on]
        /\ coins' = merged /\ disk' = [disk EXCEPT ![scope] = merged]
        /\ UNCHANGED << session, newest, refreshing, load, privacy, loops, moment, pageLoads >>

\* The effect of App.tsx is torn down: what its loads return to is gone.
LoopsEnd ==
    /\ loops' = AtRest
    /\ load' = [l \in Loads |-> [load[l] EXCEPT !.by = "page"]]

\* resetCoinsForCurrentWallet: the sequence moves on, and the cached coins of
\* every scope are removed.
Reset ==
    /\ newest' = None /\ refreshing' = FALSE
    /\ coins' = Nothing /\ disk' = [w \in Wallets |-> Nothing]
    /\ choice' = [c \in Coins |-> TRUE]

Lock ==
    /\ phase = "in" /\ Changes
    /\ phase' = "locked" /\ phrase' = None /\ LoopsEnd
    /\ UNCHANGED << scope, store, newest, refreshing, privacy, moment, pageLoads >>

Unlock(l) ==
    /\ phase = "locked"
    /\ phrase' = scope /\ LoadSendReadyState(l, scope)
    /\ UNCHANGED << scope, store, privacy, loops, bounds >>

\* restoreWallet, createWallet: lock, forget, and, when the wallet is stored,
\* forget again and load.
Restore ==
    /\ phase \in {"none", "locked", "in"} /\ Changes
    /\ phase' = "restoring" /\ phrase' = None /\ LoopsEnd /\ Reset
    /\ UNCHANGED << scope, privacy, moment, pageLoads >>

Restored(l, w) ==
    /\ phase = "restoring"
    /\ scope' = w /\ phrase' = w
    /\ coins' = Nothing /\ disk' = [v \in Wallets |-> Nothing]
    /\ choice' = [c \in Coins |-> TRUE]
    /\ LoadSendReadyState(l, w)
    /\ UNCHANGED << privacy, loops, bounds >>

ClearWallet ==
    /\ phase \in {"locked", "in"} /\ Changes
    /\ phase' = "none" /\ scope' = None /\ phrase' = None /\ LoopsEnd /\ Reset
    /\ UNCHANGED << privacy, moment, pageLoads >>

-----------------------------------------------------------------------------
(* The refresh loops of App.tsx, while the wallet is unlocked.              *)

\* The route changes to the send page, or a send begins; or the opposite.
SendPage ==
    /\ phase = "in"
    /\ loops' = [loops EXCEPT !.sendPage = ~ @]
    /\ UNCHANGED << session, store, newest, refreshing, load, privacy, bounds >>

\* Every 15 s, and at once when a tick was put off: a load under way that is
\* not its own makes it wait.
StandardWaits ==
    /\ phase = "in" /\ ~ loops.inFlight /\ ~ loops.sendPage
    /\ loops.fast \/ refreshing
    /\ loops' = [loops EXCEPT !.pending = TRUE]
    /\ UNCHANGED << session, store, newest, refreshing, load, privacy, bounds >>

StandardTick(l) ==
    /\ phase = "in" /\ ~ loops.inFlight /\ ~ loops.sendPage
    /\ ~ loops.fast /\ ~ refreshing
    /\ loops' = [loops EXCEPT !.pending = FALSE, !.inFlight = TRUE]
    /\ LoadCoins(l, "standard")
    /\ UNCHANGED << session, store, privacy, bounds >>

\* Mutant of MayPoll: the fast loop does not let a tick that waits go first.
MayPollAlways == ~ loops.fast /\ ~ loops.inFlight /\ ~ refreshing

MayPoll == ~ loops.fast /\ ~ loops.inFlight /\ ~ loops.pending /\ ~ refreshing

\* Every 5 s the slow coins alone, unless a full load runs or waits.
FastTick(l) ==
    /\ phase = "in" /\ MayPoll
    /\ loops' = [loops EXCEPT !.fast = TRUE]
    /\ LoadCoins(l, "fast")
    /\ UNCHANGED << session, store, privacy, bounds >>

\* CoinDetails.tsx: every 5 s the coin of the open page alone, one at a time,
\* whatever else is loading.
DetailTick(l) ==
    /\ phase = "in" /\ CoinPage
    /\ \A k \in Loads : load[k].by # "detail"
    /\ LoadCoins(l, "detail")
    /\ UNCHANGED << session, store, privacy, loops, bounds >>

-----------------------------------------------------------------------------
Steps(l) ==
    \/ \E read \in Moments : SnapshotArrives(l, read)
    \/ SnapshotFails(l)
    \/ Probed(l)
    \/ \E covered \in SUBSET load[l].rises : Preloaded(l, covered)
    \/ DeferredNetwork(l)
    \/ \E read \in Moments : DeferredBalances(l, read)
    \/ \E covered \in SUBSET load[l].rises : DeferredPreloaded(l, covered)
    \/ ReadyNetwork(l)
    \/ \E read \in Moments : ReadyBalances(l, read)
    \/ ReadyCommit(l)

Next ==
    \/ \E l \in Loads : Steps(l) \/ PageLoad(l) \/ StandardTick(l) \/ FastTick(l)
                       \/ DetailTick(l) \/ Unlock(l)
    \/ \E l \in Loads, w \in Wallets : Restored(l, w)
    \/ \E S \in SUBSET Privacy : PrivacyStarts(S)
    \/ \E c \in Privacy : PrivacyScanned(c) \/ PrivacyCommit(c)
    \/ \E c \in Coins : Toggle(c)
    \/ Moment \/ Lock \/ Restore \/ ClearWallet \/ SendPage \/ StandardWaits

Spec == Init /\ [][Next]_vars

\* Every request of a load has a timeout, and the interval goes on ticking,
\* whatever the tick finds.
FairSpec ==
    /\ Spec
    /\ \A l \in Loads : WF_vars(Steps(l))
    /\ WF_vars(StandardWaits \/ \E l \in Loads : StandardTick(l))

-----------------------------------------------------------------------------
(* Properties.                                                              *)

\* What is shown, and what is cached for a wallet, was read for that wallet,
\* whatever was under way when it was locked, replaced or cleared.
BalancesOfWallet ==
    /\ \A c \in Coins : coins[c].of \in {None, scope}
    /\ \A w \in Wallets, c \in Coins : disk[w][c].of \in {None, w}

\* coinStore.ts:2896: an older network response never brings a hidden coin back
\* or drops a newly starred one, in memory or on disk.
PrefsKept ==
    \A c \in Coins :
        /\ coins[c].on = choice[c]
        /\ scope # None => disk[scope][c].on = choice[c]

\* coinStore.ts:4165 and the sequence: what is shown of a coin of the gateway
\* never goes back to an earlier read of the same wallet.
LoadedNeverOlder ==
    [][\A c \in Coins \ Privacy :
           coins[c].of # None /\ coins'[c].of = coins[c].of => coins[c].at <= coins'[c].at]_vars

\* App.tsx:67: the polls of single coins do not keep the load of all coins from
\* completing, as long as the wallet is open and no send is prepared.
StandardCommits ==
    \E l \in Loads :
        /\ load[l].by = "standard" /\ load'[l].by # "standard"
        /\ newest = l /\ ~ refreshing' /\ phase' = "in"
StandardRefreshes ==
    <>[](phase = "in" /\ ~ loops.sendPage) => []<><< StandardCommits >>_vars
=============================================================================
