-------------------------- MODULE CoinLoadsProofs --------------------------
(***************************************************************************)
(* What the checks of a load after its awaits achieve, for any number of   *)
(* wallets, coins and loads: balances belong to the wallet they are shown  *)
(* for, the user's preferences survive, and nothing shown gets older.      *)
(*                                                                         *)
(* The three rest on what a load carries over its awaits.  The coins it    *)
(* had before it computed are of its own wallet (Sound), so that a load of *)
(* the wallet of now brings in no other; and as long as it is the newest   *)
(* no other has written, so that they are still what is shown (Fresh).     *)
(***************************************************************************)
EXTENDS CoinLoads, TLAPS

\* Of the session: which wallet there is, and that the phrase is its own.
SessionShape ==
    /\ phrase \in {None, scope}
    /\ phase \in {"locked", "starting", "in"} => scope \in Wallets
    /\ privacyBalanceRefreshInFlight => privacy.scope \in Wallets

\* What any load carries, the outdated ones included.
Sound(job) ==
    /\ job.at # "idle" => job.scope \in Wallets
    /\ \A c \in Coins : job.base[c].of \in {None, job.scope}
    /\ job.read <= moment

Loaded == Coins \ Privacy

\* The places where a load has computed with the coins it found.
HasBase == {"fallback", "preload", "deferred preload"}

\* What the newest load may rely on.
Fresh(job) ==
    \A c \in Loaded :
        /\ job.at # "idle" => coins[c].at <= job.read
        /\ job.at \in HasBase => job.base[c].at = coins[c].at

LoadsSound == \A l \in Loads : Sound(load[l])
NewestFresh == newest # None => Fresh(load[newest])
SeenByNow == \A c \in Loaded : coins[c].at <= moment

IInv ==
    /\ TypeOK /\ BalancesOfWallet /\ PrefsKept
    /\ SessionShape /\ LoadsSound /\ NewestFresh /\ SeenByNow

USE CoinConstants DEF CoinConstants

-----------------------------------------------------------------------------
(* What the commits write.                                                  *)

LEMMA NothingTyped == Nothing \in [Coins -> Coin] /\ 0 \in Moments
<1>1. MaxMoments \in Nat
  OBVIOUS
<1>2. 0 \in Moments
  BY <1>1 DEF Moments
<1> QED BY <1>2 DEF Nothing, Zero, Coin, OrNone

\* Saving changes preferences only, to those on disk.
LEMMA SavedShape ==
    ASSUME NEW given \in [Coins -> Coin], disk \in [Wallets -> [Coins -> Coin]],
           scope \in Wallets
    PROVE  /\ Saved(given) \in [Coins -> Coin]
           /\ \A c \in Coins : /\ Saved(given)[c].of = given[c].of
                               /\ Saved(given)[c].at = given[c].at
                               /\ Saved(given)[c].on = disk[scope][c].on
  BY DEF Saved, Coin

\* Reconciling takes a coin as it is given or, of a privacy coin, as it is.
LEMMA ReconciledShape ==
    ASSUME NEW given \in [Coins -> Coin], coins \in [Coins -> Coin],
           NEW next \in Reconciled(given)
    PROVE  /\ next \in [Coins -> Coin]
           /\ \A c \in Coins : next[c].of \in {coins[c].of, given[c].of}
           /\ \A c \in Loaded : next[c].at = given[c].at
<1>1. PICK kept \in SUBSET Privacy :
          next = [c \in Coins |-> IF c \in kept THEN [coins[c] EXCEPT !.on = given[c].on]
                                  ELSE given[c]]
  BY DEF Reconciled
<1> QED BY <1>1 DEF Coin, Loaded

LEMMA WithReadsShape ==
    ASSUME NEW given \in [Coins -> Coin], NEW job, job.scope \in OrNone(Wallets),
           job.read \in Moments, NEW S
    PROVE  /\ WithReads(given, job, S) \in [Coins -> Coin]
           /\ \A c \in Coins : /\ WithReads(given, job, S)[c].of \in {given[c].of, job.scope}
                               /\ WithReads(given, job, S)[c].at =
                                      IF c \in S THEN job.read ELSE given[c].at
  BY DEF WithReads, Coin

\* A commit for the wallet of now: `given' is saved, and may be shown.
LEMMA CommitKeepsStore ==
    ASSUME IInv, scope \in Wallets, NEW given \in [Coins -> Coin],
           \A c \in Coins : given[c].of \in {None, scope},
           NEW next \in Reconciled(given),
           disk' = [disk EXCEPT ![scope] = Saved(next)],
           coins' \in {coins, Saved(next)},
           UNCHANGED << scope, choice >>
    PROVE  /\ coins' \in [Coins -> Coin] /\ disk' \in [Wallets -> [Coins -> Coin]]
           /\ BalancesOfWallet' /\ PrefsKept'
           /\ \A c \in Loaded : coins'[c].at \in {coins[c].at, given[c].at}
           /\ coins' = Saved(next) => \A c \in Loaded : coins'[c].at = given[c].at
<1>1. /\ coins \in [Coins -> Coin]
      /\ disk \in [Wallets -> [Coins -> Coin]]
      /\ BalancesOfWallet /\ PrefsKept
  BY DEF IInv, TypeOK
<1>2. /\ next \in [Coins -> Coin]
      /\ \A c \in Coins : next[c].of \in {coins[c].of, given[c].of}
      /\ \A c \in Loaded : next[c].at = given[c].at
  BY <1>1, ReconciledShape
<1>3. /\ Saved(next) \in [Coins -> Coin]
      /\ \A c \in Coins : /\ Saved(next)[c].of = next[c].of
                          /\ Saved(next)[c].at = next[c].at
                          /\ Saved(next)[c].on = disk[scope][c].on
  BY <1>1, <1>2, SavedShape
<1>4. coins' \in [Coins -> Coin] /\ disk' \in [Wallets -> [Coins -> Coin]]
  BY <1>1, <1>3
<1>5. \A c \in Coins : Saved(next)[c].of \in {None, scope}
  BY <1>1, <1>2, <1>3 DEF BalancesOfWallet
<1>6. BalancesOfWallet'
  <2>1. \A c \in Coins : coins'[c].of \in {None, scope'}
    BY <1>1, <1>5 DEF BalancesOfWallet
  <2>2. \A w \in Wallets, c \in Coins : disk'[w][c].of \in {None, w}
    BY <1>1, <1>5 DEF BalancesOfWallet
  <2> QED BY <2>1, <2>2 DEF BalancesOfWallet
<1>7. PrefsKept'
  <2>1. scope # None
    OBVIOUS
  <2>2. \A c \in Coins : disk[scope][c].on = choice[c]
    BY <1>1, <2>1 DEF PrefsKept
  <2>3. \A c \in Coins : coins'[c].on = choice[c]
    BY <1>1, <1>3, <2>2 DEF PrefsKept
  <2>4. disk'[scope] = Saved(next)
    BY <1>1
  <2> QED BY <1>3, <2>2, <2>3, <2>4 DEF PrefsKept
<1> QED BY <1>2, <1>3, <1>4, <1>6, <1>7 DEF Loaded

-----------------------------------------------------------------------------
(* A step of one load.                                                      *)

Loops == [inFlight : BOOLEAN, pending : BOOLEAN, fast : BOOLEAN, sendPage : BOOLEAN]

\* LoadedNeverOlder, for one step.
NotOlder ==
    \A c \in Coins \ Privacy :
        coins[c].of # None /\ coins'[c].of = coins[c].of => coins[c].at <= coins'[c].at

LEMMA LoadIs ==
    ASSUME IInv, NEW l \in Loads
    PROVE  /\ load[l] \in Load /\ Sound(load[l])
           /\ newest = l => Fresh(load[l])
  BY DEF IInv, TypeOK, LoadsSound, NewestFresh

\* Load l becomes `job'.  If it writes to the store it is the newest, and what
\* it relies on afterwards is true of what it has written.
LEMMA LoadStepKeeps ==
    ASSUME IInv, NEW l \in Loads, NEW job \in Load, Sound(job),
           load' = [load EXCEPT ![l] = job],
           newest = l => \A c \in Loaded :
               /\ job.at # "idle" => coins'[c].at <= job.read
               /\ job.at \in HasBase => job.base[c].at = coins'[c].at,
           newest # l => \A c \in Loaded : coins'[c].at = coins[c].at,
           newest = l /\ job.at \in BeforeCommit => refreshing',
           newest # l /\ refreshing => refreshing',
           refreshing' \in BOOLEAN, loops' \in Loops,
           phase' = phase \/ (phase = "starting" /\ phase' = "in"),
           UNCHANGED << scope, phrase, newest, privacy, choice, bounds >>,
           coins' \in [Coins -> Coin], disk' \in [Wallets -> [Coins -> Coin]],
           BalancesOfWallet', PrefsKept', \A c \in Loaded : coins'[c].at <= moment
    PROVE  IInv'
<1>1. TypeOK /\ LoadsSound /\ NewestFresh
  BY DEF IInv
<1>2. load' \in [Loads -> Load]
  BY <1>1 DEF TypeOK
<1>3. newest' # None /\ load'[newest'].at \in BeforeCommit => refreshing'
  BY <1>1 DEF TypeOK, OrNone
<1>4. TypeOK'
  BY <1>1, <1>2, <1>3 DEF TypeOK, Loops, bounds
<1>5. LoadsSound'
  BY <1>1, <1>2 DEF LoadsSound, Sound, bounds, TypeOK
<1>6. NewestFresh'
  <2>1. CASE newest = l
    BY <1>1, <2>1 DEF NewestFresh, Fresh, TypeOK
  <2>2. CASE newest # l /\ newest # None
    BY <1>1, <2>2 DEF NewestFresh, Fresh, TypeOK, OrNone
  <2> QED BY <2>1, <2>2 DEF NewestFresh
<1>7. SessionShape'
  BY DEF IInv, SessionShape, privacyBalanceRefreshInFlight
<1>8. SeenByNow'
  BY DEF SeenByNow, bounds
<1> QED BY <1>4, <1>5, <1>6, <1>7, <1>8 DEF IInv

\* The same for a load that leaves the store alone.
LEMMA LoadMoveKeeps ==
    ASSUME IInv, NEW l \in Loads, NEW job \in Load, Sound(job),
           newest = l => Fresh(job),
           load' = [load EXCEPT ![l] = job],
           newest = l /\ job.at \in BeforeCommit => refreshing',
           refreshing => refreshing',
           refreshing' \in BOOLEAN, loops' \in Loops,
           phase' = phase \/ (phase = "starting" /\ phase' = "in"),
           UNCHANGED << scope, phrase, store, newest, privacy, bounds >>
    PROVE  IInv' /\ NotOlder
<1>1. /\ coins' \in [Coins -> Coin] /\ disk' \in [Wallets -> [Coins -> Coin]]
      /\ BalancesOfWallet' /\ PrefsKept'
      /\ \A c \in Loaded : coins'[c].at <= moment
  BY DEF IInv, TypeOK, store, BalancesOfWallet, PrefsKept, SeenByNow
<1>2. IInv'
  BY <1>1, LoadStepKeeps DEF store, Fresh
<1>3. NotOlder
  BY DEF NotOlder, store, IInv, TypeOK, Coin, Moments
<1> QED BY <1>2, <1>3

LEMMA NoLoadSound ==
    ASSUME IInv
    PROVE  NoLoad \in Load /\ Sound(NoLoad) /\ Fresh(NoLoad)
<1>1. Nothing \in [Coins -> Coin] /\ \A c \in Coins : Nothing[c].of = None
  BY NothingTyped DEF Nothing, Zero
<1>2. 0 \in Moments /\ 0 <= moment
  BY NothingTyped DEF IInv, TypeOK, Moments
<1>3. NoLoad \in Load
  BY <1>1, <1>2 DEF NoLoad, Load, OrNone
<1>4. Sound(NoLoad)
  BY <1>1, <1>2 DEF NoLoad, Sound
<1>5. Fresh(NoLoad)
  BY DEF NoLoad, Fresh, HasBase
<1> QED BY <1>3, <1>4, <1>5

\* What a call that returns leaves behind.
LEMMA ReturnsShape ==
    ASSUME IInv, NEW by, Returns(by)
    PROVE  /\ loops' \in Loops
           /\ phase' = phase \/ (phase = "starting" /\ phase' = "in")
<1>1. loops \in Loops
  BY DEF IInv, TypeOK, Loops
<1>2. loops' \in Loops
  BY <1>1 DEF Returns, Loops
<1>3. phase' = phase \/ (phase = "starting" /\ phase' = "in")
  BY DEF Returns
<1> QED BY <1>2, <1>3

LEMMA AbortKeeps ==
    ASSUME IInv, NEW l \in Loads, Abort(l)
    PROVE  IInv' /\ NotOlder
<1>1. NoLoad \in Load /\ Sound(NoLoad) /\ Fresh(NoLoad) /\ NoLoad.at = "idle"
  BY NoLoadSound DEF NoLoad
<1>2. /\ loops' \in Loops
      /\ phase' = phase \/ (phase = "starting" /\ phase' = "in")
  BY ReturnsShape DEF Abort
<1>3. refreshing' \in BOOLEAN
  BY DEF Abort, IInv, TypeOK
<1>4. NoLoad.at \notin BeforeCommit
  BY <1>1 DEF BeforeCommit
<1> QED BY <1>1, <1>2, <1>3, <1>4, LoadMoveKeeps DEF Abort

\* The other ways a load goes on and leaves the store alone.
LEMMA WaitsKeeps ==
    ASSUME IInv, NEW l \in Loads, NEW job \in Load, Sound(job), newest = l => Fresh(job),
           Moves(l, job), refreshing => refreshing', refreshing' \in BOOLEAN,
           newest = l /\ job.at \in BeforeCommit => refreshing',
           UNCHANGED << session, store, newest, privacy, loops, bounds >>
    PROVE  IInv' /\ NotOlder
<1>1. loops' \in Loops
  BY DEF IInv, TypeOK, Loops
<1>2. phase' = phase /\ scope' = scope /\ phrase' = phrase
  BY DEF session
<1> QED BY <1>1, <1>2, LoadMoveKeeps DEF Moves

\* A commit of the newest load.  It brings in nothing older than what is shown.
LEMMA CommitKeeps ==
    ASSUME IInv, NEW l \in Loads, newest = l, scope \in Wallets,
           NEW given \in [Coins -> Coin],
           \A c \in Coins : given[c].of \in {None, scope},
           \A c \in Loaded : coins[c].at <= given[c].at /\ given[c].at <= moment,
           NEW next \in Reconciled(given),
           coins' = Saved(next), disk' = [disk EXCEPT ![scope] = Saved(next)],
           NEW job \in Load, Sound(job), load' = [load EXCEPT ![l] = job],
           job.at = "idle" \/ (job.read = moment /\ job.at \in {"deferred network", "deferred balances"}),
           refreshing' \in BOOLEAN, loops' \in Loops,
           phase' = phase \/ (phase = "starting" /\ phase' = "in"),
           UNCHANGED << scope, phrase, choice, newest, privacy, bounds >>
    PROVE  IInv' /\ NotOlder
<1>1. /\ coins' \in [Coins -> Coin] /\ disk' \in [Wallets -> [Coins -> Coin]]
      /\ BalancesOfWallet' /\ PrefsKept'
      /\ \A c \in Loaded : coins'[c].at = given[c].at
  BY CommitKeepsStore
<1>2. \A c \in Loaded : coins'[c].at <= moment
  BY <1>1
<1>3. job.at \notin HasBase /\ job.at \notin BeforeCommit
  BY DEF HasBase, BeforeCommit
<1>4. IInv'
  BY <1>1, <1>2, <1>3, LoadStepKeeps
<1>5. NotOlder
  BY <1>1 DEF NotOlder, Loaded
<1> QED BY <1>4, <1>5

LEMMA Numbers ==
    ASSUME IInv
    PROVE  /\ Moments \subseteq Nat /\ moment \in Nat
           /\ \A c \in Coins : coins[c].at \in Nat /\ coins[c].at <= coins[c].at
           /\ \A l \in Loads : load[l].read \in Nat
<1>1. Moments \subseteq Nat
  BY DEF Moments
<1>2. \A n \in Nat : n <= n
  OBVIOUS
<1>3. /\ moment \in Nat
      /\ \A c \in Coins : coins[c].at \in Nat
      /\ \A l \in Loads : load[l].read \in Nat
  BY <1>1 DEF IInv, TypeOK, Coin, Load
<1> QED BY <1>1, <1>2, <1>3

\* A read is of a moment between the request and now.
LEMMA Within ==
    \A a, b \in Nat : \A r \in a .. b : a <= r /\ r <= b
  OBVIOUS

LEMMA SameNotOlder ==
    ASSUME IInv, coins' = coins
    PROVE  NotOlder
<1>1. \A c \in Coins : coins[c].at <= coins[c].at
  BY Numbers
<1> QED BY <1>1 DEF NotOlder

\* A deferred part saves, and shows what it has if it is still the newest.
LEMMA ApplyKeeps ==
    ASSUME IInv, NEW l \in Loads, scope \in Wallets,
           NEW given \in [Coins -> Coin],
           \A c \in Coins : given[c].of \in {None, scope},
           newest = l => \A c \in Loaded : coins[c].at <= given[c].at /\ given[c].at <= moment,
           NEW job \in Load, Sound(job), Apply(l, given, job),
           job.at = "idle" \/ (job.read = moment /\ job.at = "deferred balances")
    PROVE  IInv' /\ NotOlder
<1>1. PICK merged \in Reconciled(given) :
          /\ disk' = [disk EXCEPT ![scope] = Saved(merged)]
          /\ coins' = IF IsNewest(l) THEN Saved(merged) ELSE coins
          /\ load' = [load EXCEPT ![l] = job]
          /\ UNCHANGED << session, choice, newest, refreshing, privacy, loops, bounds >>
  BY DEF Apply, Moves
<1>2. loops' \in Loops /\ refreshing' \in BOOLEAN /\ phase' = phase
      /\ scope' = scope /\ phrase' = phrase
  BY <1>1 DEF IInv, TypeOK, Loops, session
<1>3. CASE newest = l
  BY <1>1, <1>2, <1>3, CommitKeeps DEF IsNewest
<1>4. CASE newest # l
  <2>1. coins' = coins
    BY <1>1, <1>4 DEF IsNewest
  <2>2. /\ coins' \in [Coins -> Coin] /\ disk' \in [Wallets -> [Coins -> Coin]]
        /\ BalancesOfWallet' /\ PrefsKept'
    BY <1>1, <1>2, <2>1, CommitKeepsStore
  <2>3. \A c \in Loaded : coins'[c].at <= moment
    BY <2>1 DEF IInv, SeenByNow
  <2>4. IInv'
    BY <1>1, <1>2, <1>4, <2>1, <2>2, <2>3, LoadStepKeeps
  <2>5. NotOlder
    BY <2>1, SameNotOlder
  <2> QED BY <2>4, <2>5
<1> QED BY <1>3, <1>4

\* What a load computes is of its wallet, and not older than what it found.
LEMMA ComputedShape ==
    ASSUME IInv, NEW job \in Load, Sound(job), scope \in Wallets, job.scope = scope,
           NEW covered
    PROVE  /\ Computed(job, covered) \in [Coins -> Coin]
           /\ \A c \in Coins : Computed(job, covered)[c].of \in {None, scope}
           /\ (\A c \in Loaded : job.base[c].at = coins[c].at /\ coins[c].at <= job.read)
              => \A c \in Loaded : /\ coins[c].at <= Computed(job, covered)[c].at
                                  /\ Computed(job, covered)[c].at <= moment
<1> DEFINE S == job.reads \ (job.rises \ covered)
<1>1. Computed(job, covered) = WithReads(job.base, job, S)
  BY DEF Computed
<1>2. job.base \in [Coins -> Coin] /\ job.scope \in OrNone(Wallets) /\ job.read \in Moments
  BY DEF Load
<1>3. /\ WithReads(job.base, job, S) \in [Coins -> Coin]
      /\ \A c \in Coins : /\ WithReads(job.base, job, S)[c].of \in {job.base[c].of, job.scope}
                          /\ WithReads(job.base, job, S)[c].at =
                                 IF c \in S THEN job.read ELSE job.base[c].at
  BY <1>2, WithReadsShape
<1>4. \A c \in Coins : job.base[c].of \in {None, job.scope}
  BY DEF Sound
<1>5. /\ \A c \in Loaded : c \in Coins /\ coins[c].at <= moment /\ coins[c].at \in Nat
      /\ job.read <= moment
  BY DEF Loaded, IInv, SeenByNow, TypeOK, Coin, Moments, Sound
<1> HIDE DEF S
<1> QED BY <1>1, <1>3, <1>4, <1>5

-----------------------------------------------------------------------------
(* loadCoins and its deferred part.                                         *)

LEMMA SnapshotKeeps ==
    ASSUME IInv, NEW l \in Loads, NEW read \in Moments,
           SnapshotArrives(l, read) \/ SnapshotFails(l)
    PROVE  IInv' /\ NotOlder
<1>1. load[l] \in Load /\ Sound(load[l]) /\ (newest = l => Fresh(load[l]))
  BY LoadIs
<1>2. CASE SnapshotArrives(l, read)
  <2> DEFINE job == [load[l] EXCEPT !.at = "probes", !.read = read]
  <2>1. CASE Abort(l)
    BY <2>1, AbortKeeps
  <2>2. CASE ~ Abort(l)
    <3>1. /\ Moves(l, job) /\ refreshing' = TRUE
          /\ UNCHANGED << session, store, newest, privacy, loops, bounds >>
      BY <1>2, <2>2 DEF SnapshotArrives
    <3>2. load[l].at = "snapshot" /\ load[l].read <= read /\ read <= moment
      BY <1>1, <1>2, Numbers DEF SnapshotArrives, Waits
    <3>3. job \in Load
      BY <1>1 DEF Load, BeforeCommit
    <3>4. Sound(job)
      BY <1>1, <3>2 DEF Sound, Load
    <3>5. newest = l => Fresh(job)
      <4>1. \A c \in Loaded : coins[c].at \in Nat
        BY Numbers DEF Loaded
      <4>2. load[l].read \in Nat /\ read \in Nat
        BY Numbers
      <4>3. job.at = "probes" /\ job.read = read
        BY <1>1 DEF Load
      <4> HIDE DEF job
      <4> QED BY <1>1, <3>2, <4>1, <4>2, <4>3 DEF Fresh, HasBase
    <3> HIDE DEF job
    <3> QED BY <3>1, <3>3, <3>4, <3>5, WaitsKeeps
  <2> QED BY <2>1, <2>2
<1>3. CASE SnapshotFails(l)
  <2> DEFINE job == [load[l] EXCEPT !.at = "probes", !.reads = {}]
  <2>1. /\ Moves(l, job) /\ load[l].at = "snapshot"
        /\ UNCHANGED << session, store, newest, refreshing, privacy, loops, bounds >>
    BY <1>3 DEF SnapshotFails, Waits
  <2>2. job \in Load
    BY <1>1 DEF Load, BeforeCommit
  <2>3. Sound(job)
    BY <1>1, <2>1 DEF Sound, Load
  <2>4. newest = l => Fresh(job)
    BY <1>1, <2>1 DEF Fresh, Load, HasBase
  <2>5. refreshing \in BOOLEAN /\ (newest = l => refreshing)
    BY <2>1 DEF IInv, TypeOK, BeforeCommit
  <2> HIDE DEF job
  <2> QED BY <2>1, <2>2, <2>3, <2>4, <2>5, WaitsKeeps
<1> QED BY <1>2, <1>3

\* What a commit of a load that has computed its coins may rely on.
LEMMA ComputedCommits ==
    ASSUME IInv, NEW l \in Loads, newest = l, scope \in Wallets,
           NEW job \in Load, Sound(job), job.scope = scope, load[l].scope = scope, NEW covered,
           \A c \in Loaded : job.base[c].at = coins[c].at /\ coins[c].at <= job.read,
           Commit(l, Computed(job, covered))
    PROVE  IInv' /\ NotOlder
<1> DEFINE given == Computed(job, covered)
           idle == NoLoad
           goesOn == [load[l] EXCEPT !.at = "deferred network", !.by = "page",
                                     !.reads = Deferred, !.read = moment,
                                     !.base = Nothing, !.rises = {}]
<1>1. /\ given \in [Coins -> Coin]
      /\ \A c \in Coins : given[c].of \in {None, scope}
      /\ \A c \in Loaded : coins[c].at <= given[c].at /\ given[c].at <= moment
  BY ComputedShape
<1>2. PICK next \in Reconciled(given) :
          /\ coins' = Saved(next)
          /\ disk' = [disk EXCEPT ![scope] = Saved(next)]
          /\ refreshing' = FALSE
          /\ \/ load' = [load EXCEPT ![l] = idle]
             \/ load' = [load EXCEPT ![l] = goesOn] /\ load[l].by \notin {"fast", "detail"}
          /\ Returns(load[l].by)
          /\ UNCHANGED << scope, phrase, choice, newest, privacy, bounds >>
  BY DEF Commit, Moves
<1>3. /\ loops' \in Loops
      /\ phase' = phase \/ (phase = "starting" /\ phase' = "in")
  BY <1>2, ReturnsShape
<1>4. idle \in Load /\ Sound(idle) /\ idle.at = "idle"
  BY NoLoadSound DEF NoLoad
<1>5. goesOn \in Load /\ goesOn.at = "deferred network" /\ goesOn.read = moment
  BY LoadIs, NothingTyped DEF Load, IInv, TypeOK, Coins
<1> QED
  <2>1. CASE load' = [load EXCEPT ![l] = idle]
    <3> HIDE DEF given, idle, goesOn
    <3> QED BY <1>1, <1>2, <1>3, <1>4, <2>1, CommitKeeps
  <2>2. CASE load' = [load EXCEPT ![l] = goesOn]
    <3>1. goesOn.scope = scope /\ goesOn.base = Nothing
      BY LoadIs DEF Load
    <3>2. \A c \in Coins : Nothing[c].of = None
      BY DEF Nothing, Zero
    <3>3. moment <= moment
      BY Numbers
    <3>4. Sound(goesOn)
      BY <1>5, <3>1, <3>2, <3>3 DEF Sound
    <3> HIDE DEF given, idle, goesOn
    <3> QED BY <1>1, <1>2, <1>3, <1>5, <2>2, <3>4, CommitKeeps
  <2> QED BY <1>2, <2>1, <2>2

\* The flag is up for the newest load until it commits.
LEMMA FlagIsUp ==
    ASSUME IInv, NEW l \in Loads, newest = l, load[l].at \in BeforeCommit
    PROVE  refreshing
  BY DEF IInv, TypeOK

\* The load of the wallet of now takes the coins it finds.
LEMMA BaseIsSound ==
    ASSUME IInv, NEW job \in Load, Sound(job), job.at # "idle", stillSameWallet(job)
    PROVE  LET found == [job EXCEPT !.base = coins]
           IN  /\ scope \in Wallets
               /\ found \in Load /\ Sound(found)
               /\ found.scope = scope /\ found.base = coins /\ found.read = job.read
<1>1. scope \in Wallets /\ job.scope = scope
  BY DEF stillSameWallet, Sound
<1>2. coins \in [Coins -> Coin] /\ \A c \in Coins : coins[c].of \in {None, scope}
  BY DEF IInv, TypeOK, BalancesOfWallet
<1> QED BY <1>1, <1>2 DEF Sound, Load

LEMMA ProbedKeeps ==
    ASSUME IInv, NEW l \in Loads, Probed(l)
    PROVE  IInv' /\ NotOlder
<1> DEFINE job == [load[l] EXCEPT !.base = coins]
           waits == [job EXCEPT !.at = "preload", !.rises = RisesIn(job, job.reads)]
<1>1. load[l] \in Load /\ Sound(load[l]) /\ (newest = l => Fresh(load[l]))
  BY LoadIs
<1>2. load[l].at = "probes" /\ load[l].at # "idle"
  BY DEF Probed, Waits
<1>3. CASE Abort(l)
  BY <1>3, AbortKeeps
<1>4. CASE ~ Abort(l)
  <2>1. /\ newest = l /\ stillSameWallet(job)
        /\ \/ Commit(l, Computed(job, {}))
           \/ /\ Moves(l, waits)
              /\ UNCHANGED << session, store, newest, refreshing, privacy, loops, bounds >>
    BY <1>4 DEF Probed, IsNewest
  <2>2. stillSameWallet(load[l])
    BY <1>1, <2>1 DEF stillSameWallet, Load
  <2>3. /\ scope \in Wallets /\ job \in Load /\ Sound(job)
        /\ job.scope = scope /\ job.base = coins /\ job.read = load[l].read
    BY <1>1, <1>2, <2>2, BaseIsSound
  <2>4. \A c \in Loaded : job.base[c].at = coins[c].at /\ coins[c].at <= job.read
    BY <1>1, <1>2, <2>1, <2>3 DEF Fresh
  <2>5. load[l].scope = scope
    BY <2>2 DEF stillSameWallet
  <2>6. CASE Commit(l, Computed(job, {}))
    <3> HIDE DEF job
    <3> QED BY <2>1, <2>3, <2>4, <2>5, <2>6, ComputedCommits
  <2>7. CASE /\ Moves(l, waits)
             /\ UNCHANGED << session, store, newest, refreshing, privacy, loops, bounds >>
    <3>1. RisesIn(job, job.reads) \in SUBSET Coins
      BY <2>3 DEF RisesIn, Load
    <3>2. /\ waits \in Load /\ waits.at = "preload" /\ waits.scope = scope
          /\ waits.base = coins /\ waits.read = job.read
      BY <2>3, <3>1 DEF Load, BeforeCommit
    <3>3. Sound(waits)
      BY <2>3, <3>2 DEF Sound
    <3>4. Fresh(waits)
      BY <2>3, <2>4, <3>2 DEF Fresh
    <3>5. refreshing /\ refreshing \in BOOLEAN
      BY <1>2, <2>1, FlagIsUp DEF BeforeCommit, IInv, TypeOK
    <3> HIDE DEF waits
    <3> QED BY <2>7, <3>2, <3>3, <3>4, <3>5, WaitsKeeps
  <2> QED BY <2>1, <2>6, <2>7
<1> QED BY <1>3, <1>4

LEMMA PreloadedKeeps ==
    ASSUME IInv, NEW l \in Loads, NEW covered, Preloaded(l, covered)
    PROVE  IInv' /\ NotOlder
<1> DEFINE job == load[l]
<1>1. job \in Load /\ Sound(job) /\ (newest = l => Fresh(job))
  BY LoadIs
<1>2. job.at = "preload"
  BY DEF Preloaded, Waits
<1>3. CASE Abort(l)
  BY <1>3, AbortKeeps
<1>4. CASE ~ Abort(l)
  <2>1. stillSameWallet(job)
    BY <1>4 DEF Preloaded
  <2>2. scope \in Wallets /\ job.scope = scope
    BY <1>1, <1>2, <2>1 DEF Sound, stillSameWallet
  <2>3. CASE newest = l
    <3>1. Commit(l, Computed(job, covered))
      BY <1>4, <2>1, <2>3 DEF Preloaded, MaySet, IsNewest
    <3>2. \A c \in Loaded : job.base[c].at = coins[c].at /\ coins[c].at <= job.read
      BY <1>1, <1>2, <2>3 DEF Fresh, HasBase
    <3> QED BY <1>1, <2>2, <2>3, <3>1, <3>2, ComputedCommits
  <2>4. CASE newest # l
    <3> DEFINE given == Outdated(job, covered)
    <3>1. PICK next \in Reconciled(given) : disk' = [disk EXCEPT ![scope] = Saved(next)]
      BY <1>4, <2>1, <2>4 DEF Preloaded, MaySet, IsNewest
    <3>2. /\ load' = [load EXCEPT ![l] = NoLoad] /\ Returns(job.by)
          /\ UNCHANGED << scope, phrase, coins, choice, newest, refreshing, privacy, bounds >>
      BY <1>4, <2>1, <2>4 DEF Preloaded, MaySet, IsNewest, Moves
    <3>3. given \in [Coins -> Coin] /\ \A c \in Coins : given[c].of \in {coins[c].of, job.scope}
      <4>1. coins \in [Coins -> Coin] /\ job.scope \in OrNone(Wallets) /\ job.read \in Moments
        BY <1>1 DEF Load, IInv, TypeOK
      <4> HIDE DEF job
      <4>2. given = WithReads(coins, job, covered)
        BY DEF Outdated
      <4> HIDE DEF given
      <4> QED BY <4>1, <4>2, WithReadsShape
    <3>4. \A c \in Coins : given[c].of \in {None, scope}
      BY <2>2, <3>3 DEF IInv, BalancesOfWallet
    <3>5. /\ coins' \in [Coins -> Coin] /\ disk' \in [Wallets -> [Coins -> Coin]]
          /\ BalancesOfWallet' /\ PrefsKept'
      <4> HIDE DEF given
      <4> QED BY <2>2, <3>1, <3>2, <3>3, <3>4, CommitKeepsStore
    <3>6. \A c \in Loaded : coins'[c].at <= moment /\ coins'[c].at = coins[c].at
      BY <3>2 DEF IInv, SeenByNow
    <3>7. /\ loops' \in Loops
          /\ phase' = phase \/ (phase = "starting" /\ phase' = "in")
      BY <3>2, ReturnsShape
    <3>8. NoLoad \in Load /\ Sound(NoLoad) /\ NoLoad.at = "idle"
      BY NoLoadSound DEF NoLoad
    <3>9. refreshing' = refreshing /\ refreshing' \in BOOLEAN
      BY <3>2 DEF IInv, TypeOK
    <3> HIDE DEF given, job
    <3>10. IInv'
      <4>1. /\ load' = [load EXCEPT ![l] = NoLoad]
            /\ UNCHANGED << scope, phrase, newest, privacy, choice, bounds >>
        BY <3>2
      <4>2. /\ newest # l => \A c \in Loaded : coins'[c].at = coins[c].at
            /\ \A c \in Loaded : coins'[c].at <= moment
        BY <3>6
      <4>3. NoLoad.at \notin BeforeCommit /\ (refreshing => refreshing')
        BY <3>8, <3>9 DEF BeforeCommit
      <4> QED BY <2>4, <3>5, <3>7, <3>8, <3>9, <4>1, <4>2, <4>3, LoadStepKeeps
    <3>11. coins' = coins
      BY <1>4, <2>1, <2>4 DEF Preloaded, MaySet, IsNewest
    <3>12. NotOlder
      BY <3>11, SameNotOlder
    <3> QED BY <3>10, <3>12
  <2> QED BY <2>3, <2>4
<1> QED BY <1>3, <1>4

LEMMA DeferredNetworkKeeps ==
    ASSUME IInv, NEW l \in Loads, DeferredNetwork(l)
    PROVE  IInv' /\ NotOlder
<1> DEFINE job == [load[l] EXCEPT !.at = "deferred balances", !.read = moment]
<1>1. load[l] \in Load /\ Sound(load[l]) /\ load[l].at = "deferred network"
  BY LoadIs DEF DeferredNetwork, Waits
<1>2. /\ job \in Load /\ job.at = "deferred balances" /\ job.read = moment
      /\ job.scope = load[l].scope /\ job.base = load[l].base
  BY <1>1 DEF Load, IInv, TypeOK
<1>3. moment <= moment
  BY Numbers
<1>4. Sound(job)
  BY <1>1, <1>2, <1>3 DEF Sound
<1>5. Fresh(job)
  BY <1>2 DEF Fresh, HasBase, IInv, SeenByNow
<1>6. \/ Apply(l, coins, job) /\ stillSameWallet(load[l])
      \/ /\ Moves(l, job)
         /\ UNCHANGED << session, store, newest, refreshing, privacy, loops, bounds >>
  BY DEF DeferredNetwork
<1> HIDE DEF job
<1>7. CASE Apply(l, coins, job) /\ stillSameWallet(load[l])
  <2>1. scope \in Wallets
    BY <1>1, <1>7 DEF stillSameWallet, Sound
  <2>2. coins \in [Coins -> Coin] /\ \A c \in Coins : coins[c].of \in {None, scope}
    BY DEF IInv, TypeOK, BalancesOfWallet
  <2>3. \A c \in Loaded : coins[c].at <= coins[c].at /\ coins[c].at <= moment
    BY Numbers DEF Loaded, IInv, SeenByNow
  <2> QED BY <1>2, <1>4, <1>7, <2>1, <2>2, <2>3, ApplyKeeps
<1>8. CASE /\ Moves(l, job)
           /\ UNCHANGED << session, store, newest, refreshing, privacy, loops, bounds >>
  <2>1. job.at \notin BeforeCommit /\ refreshing \in BOOLEAN
    BY <1>2 DEF BeforeCommit, IInv, TypeOK
  <2> QED BY <1>2, <1>4, <1>5, <1>8, <2>1, WaitsKeeps
<1> QED BY <1>6, <1>7, <1>8

LEMMA EndsKeeps ==
    ASSUME IInv, NEW l \in Loads, Ends(l)
    PROVE  IInv' /\ NotOlder
<1>1. NoLoad \in Load /\ Sound(NoLoad) /\ Fresh(NoLoad) /\ NoLoad.at \notin BeforeCommit
  BY NoLoadSound DEF NoLoad, BeforeCommit
<1>2. refreshing \in BOOLEAN
  BY DEF IInv, TypeOK
<1> QED BY <1>1, <1>2, WaitsKeeps DEF Ends

LEMMA DeferredBalancesKeeps ==
    ASSUME IInv, NEW l \in Loads, NEW read \in Moments, DeferredBalances(l, read)
    PROVE  IInv' /\ NotOlder
<1> DEFINE asked == [load[l] EXCEPT !.read = read]
           job == [load[l] EXCEPT !.base = coins, !.read = read]
           waits == [job EXCEPT !.at = "deferred preload", !.rises = RisesIn(job, job.reads)]
<1>1. load[l] \in Load /\ Sound(load[l]) /\ (newest = l => Fresh(load[l]))
  BY LoadIs
<1>2. load[l].at = "deferred balances" /\ load[l].read <= read /\ read <= moment
  <2>1. load[l].at = "deferred balances" /\ read \in load[l].read .. moment
    BY DEF DeferredBalances, Waits
  <2>2. load[l].read \in Nat /\ moment \in Nat
    BY Numbers
  <2>3. load[l].read <= read /\ read <= moment
    BY <2>1, <2>2, Within
  <2> QED BY <2>1, <2>3
<1>3. CASE Ends(l)
  BY <1>3, EndsKeeps
<1>4. CASE ~ Ends(l)
  <2>1. /\ newest = l /\ stillSameWallet(job)
        /\ \/ Apply(l, Computed(job, {}), NoLoad)
           \/ /\ Moves(l, waits)
              /\ UNCHANGED << session, store, newest, refreshing, privacy, loops, bounds >>
    BY <1>4 DEF DeferredBalances, IsNewest
  <2>2. load[l].scope = scope /\ scope \in Wallets
    BY <1>1, <1>2, <2>1 DEF stillSameWallet, Load, Sound
  <2>3. coins \in [Coins -> Coin] /\ \A c \in Coins : coins[c].of \in {None, scope}
    BY DEF IInv, TypeOK, BalancesOfWallet
  <2>4. job \in Load /\ job.scope = scope /\ job.base = coins /\ job.read = read
    BY <1>1, <2>2, <2>3 DEF Load
  <2>5. Sound(job)
    BY <1>2, <2>2, <2>3, <2>4 DEF Sound
  <2>6. \A c \in Loaded : job.base[c].at = coins[c].at /\ coins[c].at <= job.read
    <3>1. \A c \in Loaded : coins[c].at <= load[l].read
      BY <1>1, <1>2, <2>1 DEF Fresh
    <3>2. \A c \in Loaded : coins[c].at \in Nat
      BY Numbers DEF Loaded
    <3>3. load[l].read \in Nat /\ read \in Nat
      BY Numbers
    <3>4. job.base = coins /\ job.read = read /\ load[l].read <= read
      BY <1>2, <2>4
    <3> HIDE DEF job
    <3>5. \A a, b, c \in Nat : a <= b /\ b <= c => a <= c
      OBVIOUS
    <3>6. \A c \in Loaded : coins[c].at <= read
      BY <3>1, <3>2, <3>3, <3>4, <3>5
    <3> QED BY <3>4, <3>6
  <2>7. CASE Apply(l, Computed(job, {}), NoLoad)
    <3>1. /\ Computed(job, {}) \in [Coins -> Coin]
          /\ \A c \in Coins : Computed(job, {})[c].of \in {None, scope}
          /\ \A c \in Loaded : /\ coins[c].at <= Computed(job, {})[c].at
                              /\ Computed(job, {})[c].at <= moment
      <4> HIDE DEF job
      <4> QED BY <2>2, <2>4, <2>5, <2>6, ComputedShape
    <3>2. NoLoad \in Load /\ Sound(NoLoad) /\ NoLoad.at = "idle"
      BY NoLoadSound DEF NoLoad
    <3> HIDE DEF job
    <3> QED BY <2>2, <2>7, <3>1, <3>2, ApplyKeeps
  <2>8. CASE /\ Moves(l, waits)
             /\ UNCHANGED << session, store, newest, refreshing, privacy, loops, bounds >>
    <3>1. RisesIn(job, job.reads) \in SUBSET Coins
      BY <2>4 DEF RisesIn, Load
    <3>2. /\ waits \in Load /\ waits.at = "deferred preload" /\ waits.scope = scope
          /\ waits.base = coins /\ waits.read = job.read
      BY <2>4, <3>1 DEF Load
    <3>3. Sound(waits)
      BY <2>2, <2>4, <2>5, <3>2 DEF Sound
    <3>4. Fresh(waits)
      BY <2>4, <2>6, <3>2 DEF Fresh
    <3>5. waits.at \notin BeforeCommit /\ refreshing \in BOOLEAN
      BY <3>2 DEF BeforeCommit, IInv, TypeOK
    <3> HIDE DEF waits
    <3> QED BY <2>8, <3>2, <3>3, <3>4, <3>5, WaitsKeeps
  <2> QED BY <2>1, <2>7, <2>8
<1> QED BY <1>3, <1>4

LEMMA DeferredPreloadedKeeps ==
    ASSUME IInv, NEW l \in Loads, NEW covered, DeferredPreloaded(l, covered)
    PROVE  IInv' /\ NotOlder
<1> DEFINE job == load[l]
<1>1. job \in Load /\ Sound(job) /\ (newest = l => Fresh(job))
  BY LoadIs
<1>2. job.at = "deferred preload"
  BY DEF DeferredPreloaded, Waits
<1>3. CASE Ends(l)
  BY <1>3, EndsKeeps
<1>4. CASE ~ Ends(l)
  <2>1. stillSameWallet(job) /\ Apply(l, Computed(job, covered), NoLoad)
    BY <1>4 DEF DeferredPreloaded
  <2>2. scope \in Wallets /\ job.scope = scope
    BY <1>1, <1>2, <2>1 DEF Sound, stillSameWallet
  <2>3. newest = l => \A c \in Loaded : job.base[c].at = coins[c].at /\ coins[c].at <= job.read
    BY <1>1, <1>2 DEF Fresh, HasBase
  <2>4. /\ Computed(job, covered) \in [Coins -> Coin]
        /\ \A c \in Coins : Computed(job, covered)[c].of \in {None, scope}
        /\ newest = l => \A c \in Loaded : /\ coins[c].at <= Computed(job, covered)[c].at
                                          /\ Computed(job, covered)[c].at <= moment
    <3> HIDE DEF job
    <3> QED BY <1>1, <2>2, <2>3, ComputedShape
  <2>5. NoLoad \in Load /\ Sound(NoLoad) /\ NoLoad.at = "idle"
    BY NoLoadSound DEF NoLoad
  <2> HIDE DEF job
  <2> QED BY <2>1, <2>2, <2>4, <2>5, ApplyKeeps
<1> QED BY <1>3, <1>4

-----------------------------------------------------------------------------
(* loadSendReadyState.                                                      *)

\* The newest load has asked after everything shown was read.
LEMMA NewestIsLater ==
    ASSUME IInv, NEW l \in Loads, newest = l, load[l].at # "idle",
           NEW read \in Moments, load[l].read <= read
    PROVE  \A c \in Loaded : coins[c].at <= read
<1>1. \A c \in Loaded : coins[c].at <= load[l].read
  BY LoadIs DEF Fresh
<1>2. /\ \A c \in Loaded : coins[c].at \in Nat
      /\ load[l].read \in Nat /\ read \in Nat
  BY Numbers DEF Loaded
<1>3. \A a, b, c \in Nat : a <= b /\ b <= c => a <= c
  OBVIOUS
<1> QED BY <1>1, <1>2, <1>3

LEMMA ReadyNetworkKeeps ==
    ASSUME IInv, NEW l \in Loads, ReadyNetwork(l)
    PROVE  IInv' /\ NotOlder
<1> DEFINE job == [load[l] EXCEPT !.at = "balances"]
<1>1. load[l] \in Load /\ Sound(load[l]) /\ (newest = l => Fresh(load[l]))
  BY LoadIs
<1>2. CASE Abort(l)
  BY <1>2, AbortKeeps
<1>3. CASE ~ Abort(l)
  <2>1. /\ load[l].at = "network"
        /\ Moves(l, job) /\ refreshing' = TRUE
        /\ UNCHANGED << session, store, newest, privacy, loops, bounds >>
    BY <1>3 DEF ReadyNetwork, Waits
  <2>2. /\ job \in Load /\ job.at = "balances" /\ job.scope = load[l].scope
        /\ job.base = load[l].base /\ job.read = load[l].read
    BY <1>1 DEF Load, BeforeCommit
  <2>3. Sound(job)
    BY <1>1, <2>1, <2>2 DEF Sound
  <2>4. newest = l => Fresh(job)
    BY <1>1, <2>1, <2>2 DEF Fresh, HasBase
  <2> HIDE DEF job
  <2> QED BY <2>1, <2>2, <2>3, <2>4, WaitsKeeps
<1> QED BY <1>2, <1>3

LEMMA ReadyBalancesKeeps ==
    ASSUME IInv, NEW l \in Loads, NEW read \in Moments, ReadyBalances(l, read)
    PROVE  IInv' /\ NotOlder
<1> DEFINE job == [load[l] EXCEPT !.at = "fallback", !.read = read, !.base = coins]
           again == [load[l] EXCEPT !.at = "snapshot", !.phrase = phrase, !.read = moment]
<1>1. load[l] \in Load /\ Sound(load[l])
  BY LoadIs
<1>2. load[l].at = "balances" /\ load[l].read <= read /\ read <= moment
  <2>1. load[l].at = "balances" /\ read \in load[l].read .. moment
    BY DEF ReadyBalances, Waits
  <2>2. load[l].read \in Nat /\ moment \in Nat
    BY Numbers
  <2>3. load[l].read <= read /\ read <= moment
    BY <2>1, <2>2, Within
  <2> QED BY <2>1, <2>3
<1>3. CASE Abort(l)
  BY <1>3, AbortKeeps
<1>4. CASE ~ Abort(l)
  <2>1. /\ newest = l /\ stillSameWallet(load[l])
        /\ Moves(l, job) \/ Moves(l, again)
        /\ UNCHANGED << session, store, newest, refreshing, privacy, loops, bounds >>
    BY <1>4 DEF ReadyBalances, IsNewest
  <2>2. load[l].scope = scope /\ scope \in Wallets
    BY <1>1, <1>2, <2>1 DEF stillSameWallet, Sound
  <2>3. /\ coins \in [Coins -> Coin] /\ \A c \in Coins : coins[c].of \in {None, scope}
        /\ phrase \in OrNone(Wallets) /\ moment \in Moments
    BY DEF IInv, TypeOK, BalancesOfWallet
  <2>4. refreshing /\ refreshing \in BOOLEAN
    BY <1>2, <2>1, FlagIsUp DEF BeforeCommit, IInv, TypeOK
  <2>5. CASE Moves(l, job)
    <3>1. /\ job \in Load /\ job.at = "fallback" /\ job.scope = scope
          /\ job.base = coins /\ job.read = read
      BY <1>1, <2>2, <2>3 DEF Load, BeforeCommit
    <3>2. Sound(job)
      BY <1>2, <2>2, <2>3, <3>1 DEF Sound
    <3>3. \A c \in Loaded : coins[c].at <= read
      BY <1>2, <2>1, NewestIsLater
    <3>4. Fresh(job)
      BY <3>1, <3>3 DEF Fresh
    <3> HIDE DEF job, again
    <3> QED BY <2>1, <2>4, <2>5, <3>1, <3>2, <3>4, WaitsKeeps
  <2>6. CASE Moves(l, again)
    <3>1. /\ again \in Load /\ again.at = "snapshot" /\ again.scope = scope
          /\ again.base = load[l].base /\ again.read = moment
      BY <1>1, <2>2, <2>3 DEF Load, BeforeCommit
    <3>2. moment <= moment
      BY Numbers
    <3>3. Sound(again)
      BY <1>1, <2>2, <3>1, <3>2 DEF Sound
    <3>4. Fresh(again)
      BY <3>1 DEF Fresh, HasBase, IInv, SeenByNow
    <3> HIDE DEF job, again
    <3> QED BY <2>1, <2>4, <2>6, <3>1, <3>3, <3>4, WaitsKeeps
  <2> QED BY <2>1, <2>5, <2>6
<1> QED BY <1>3, <1>4

LEMMA ReadyCommitKeeps ==
    ASSUME IInv, NEW l \in Loads, ReadyCommit(l)
    PROVE  IInv' /\ NotOlder
<1> DEFINE job == load[l]
           given == WithReads(job.base, job, job.reads)
<1>1. job \in Load /\ Sound(job) /\ (newest = l => Fresh(job))
  BY LoadIs
<1>2. job.at = "fallback"
  BY DEF ReadyCommit, Waits
<1>3. CASE Abort(l)
  BY <1>3, AbortKeeps
<1>4. CASE ~ Abort(l)
  <2>1. newest = l /\ stillSameWallet(job)
    BY <1>4 DEF ReadyCommit, IsNewest
  <2>2. PICK next \in Reconciled(given) :
            /\ coins' = Saved(next)
            /\ disk' = [disk EXCEPT ![scope] = Saved(next)]
            /\ refreshing' = FALSE
            /\ load' = [load EXCEPT ![l] = NoLoad] /\ Returns(job.by)
            /\ UNCHANGED << scope, phrase, choice, newest, privacy, bounds >>
    BY <1>4, <2>1 DEF ReadyCommit, IsNewest, Moves
  <2>3. scope \in Wallets /\ job.scope = scope
    BY <1>1, <1>2, <2>1 DEF Sound, stillSameWallet
  <2>4. /\ given \in [Coins -> Coin]
        /\ \A c \in Coins : /\ given[c].of \in {job.base[c].of, job.scope}
                            /\ given[c].at = IF c \in job.reads THEN job.read
                                             ELSE job.base[c].at
    <3>1. job.base \in [Coins -> Coin] /\ job.scope \in OrNone(Wallets) /\ job.read \in Moments
      BY <1>1 DEF Load
    <3> HIDE DEF job
    <3> QED BY <3>1, WithReadsShape
  <2>5. \A c \in Coins : given[c].of \in {None, scope}
    BY <1>1, <2>3, <2>4 DEF Sound
  <2>6. \A c \in Loaded : coins[c].at <= given[c].at /\ given[c].at <= moment
    <3>1. \A c \in Loaded : job.base[c].at = coins[c].at /\ coins[c].at <= job.read
      BY <1>1, <1>2, <2>1 DEF Fresh, HasBase
    <3>2. \A c \in Loaded : c \in Coins /\ coins[c].at <= coins[c].at /\ coins[c].at <= moment
      BY Numbers DEF Loaded, IInv, SeenByNow
    <3>3. job.read <= moment
      BY <1>1 DEF Sound
    <3> HIDE DEF given, job
    <3> QED BY <2>4, <3>1, <3>2, <3>3
  <2>7. /\ loops' \in Loops
        /\ phase' = phase \/ (phase = "starting" /\ phase' = "in")
    BY <2>2, ReturnsShape
  <2>8. NoLoad \in Load /\ Sound(NoLoad) /\ NoLoad.at = "idle"
    BY NoLoadSound DEF NoLoad
  <2> HIDE DEF given, job
  <2>9. UNCHANGED << scope, phrase, choice, newest, privacy, bounds >>
    BY <2>2
  <2>10. refreshing' \in BOOLEAN
    BY <2>2
  <2> QED BY <2>1, <2>2, <2>3, <2>4, <2>5, <2>6, <2>7, <2>8, <2>9, <2>10, CommitKeeps
<1> QED BY <1>3, <1>4

\* Every step of a load that is under way.
LEMMA StepsKeep ==
    ASSUME IInv, NEW l \in Loads, Steps(l)
    PROVE  IInv' /\ NotOlder
<1>1. ASSUME NEW read \in Moments, SnapshotArrives(l, read)
      PROVE  IInv' /\ NotOlder
  BY <1>1, SnapshotKeeps
<1>2. CASE SnapshotFails(l)
  BY <1>2, NothingTyped, SnapshotKeeps
<1>3. CASE Probed(l)
  BY <1>3, ProbedKeeps
<1>4. ASSUME NEW covered, Preloaded(l, covered) PROVE IInv' /\ NotOlder
  BY <1>4, PreloadedKeeps
<1>5. CASE DeferredNetwork(l)
  BY <1>5, DeferredNetworkKeeps
<1>6. ASSUME NEW read \in Moments, DeferredBalances(l, read) PROVE IInv' /\ NotOlder
  BY <1>6, DeferredBalancesKeeps
<1>7. ASSUME NEW covered, DeferredPreloaded(l, covered) PROVE IInv' /\ NotOlder
  BY <1>7, DeferredPreloadedKeeps
<1>8. CASE ReadyNetwork(l)
  BY <1>8, ReadyNetworkKeeps
<1>9. ASSUME NEW read \in Moments, ReadyBalances(l, read) PROVE IInv' /\ NotOlder
  BY <1>9, ReadyBalancesKeeps
<1>10. CASE ReadyCommit(l)
  BY <1>10, ReadyCommitKeeps
<1> QED BY <1>1, <1>2, <1>3, <1>4, <1>5, <1>6, <1>7, <1>8, <1>9, <1>10 DEF Steps

-----------------------------------------------------------------------------
(* Loads that start.                                                        *)

\* A bounded counter stays in its range.
LEMMA CounterUp ==
    \A m \in Nat : \A n \in 0 .. m : n < m => n + 1 \in 0 .. m
  OBVIOUS

\* A load that asks now, and takes the sequence.
LEMMA LoadStartsKeeps ==
    ASSUME IInv, NEW l \in Loads, scope \in Wallets,
           NEW by \in {"standard", "fast", "detail", "page"}, LoadCoins(l, by),
           loops' \in Loops, pageLoads' \in 0 .. MaxPageLoads,
           UNCHANGED << session, store, privacy, moment, changes >>
    PROVE  IInv' /\ NotOlder
<1> DEFINE job == [NoLoad EXCEPT !.at = "snapshot", !.by = by, !.scope = scope,
                                 !.phrase = phrase, !.reads = Scope(by), !.read = moment]
<1>1. /\ newest' = l /\ refreshing' = TRUE
      /\ load' = [load EXCEPT ![l] = job]
  BY DEF LoadCoins, Starts
<1>2. TypeOK /\ LoadsSound /\ SessionShape /\ BalancesOfWallet /\ PrefsKept /\ SeenByNow
  BY DEF IInv
<1>3. NoLoad \in Load /\ Sound(NoLoad) /\ NoLoad.base = Nothing
  BY NoLoadSound DEF NoLoad
<1>4. Scope(by) \in SUBSET Coins
  BY DEF Scope, Coins
<1>5. /\ job \in Load /\ job.at = "snapshot" /\ job.scope = scope
      /\ job.base = Nothing /\ job.read = moment
  BY <1>2, <1>3, <1>4 DEF Load, BeforeCommit, TypeOK, OrNone
<1>6. moment <= moment /\ \A c \in Coins : Nothing[c].of = None
  BY Numbers DEF Nothing, Zero
<1>7. Sound(job)
  BY <1>5, <1>6 DEF Sound
<1> HIDE DEF job
<1>8. load' \in [Loads -> Load]
  BY <1>1, <1>2, <1>5 DEF TypeOK
<1>9. /\ phase' = phase /\ scope' = scope /\ phrase' = phrase
      /\ coins' = coins /\ disk' = disk /\ choice' = choice /\ privacy' = privacy
      /\ moment' = moment /\ changes' = changes
  BY DEF session, store
<1>10. TypeOK'
  BY <1>1, <1>2, <1>8, <1>9 DEF TypeOK, Loops, OrNone
<1>11. BalancesOfWallet' /\ PrefsKept'
  BY <1>2, <1>9 DEF BalancesOfWallet, PrefsKept
<1>12. SessionShape' /\ SeenByNow'
  BY <1>2, <1>9 DEF SessionShape, SeenByNow, privacyBalanceRefreshInFlight
<1>13. LoadsSound'
  BY <1>1, <1>2, <1>7, <1>8, <1>9 DEF LoadsSound, Sound, TypeOK
<1>14. NewestFresh'
  <2>1. load'[newest'] = job /\ job.at \notin HasBase
    BY <1>1, <1>2, <1>5 DEF TypeOK, HasBase
  <2> QED BY <1>2, <1>5, <1>9, <2>1 DEF NewestFresh, Fresh, SeenByNow
<1>15. NotOlder
  BY <1>9, SameNotOlder
<1> QED BY <1>10, <1>11, <1>12, <1>13, <1>14, <1>15 DEF IInv

\* Unlocking and restoring: the wallet may be another one.
LEMMA ReadyStateKeeps ==
    ASSUME IInv, NEW l \in Loads, NEW w \in Wallets, LoadSendReadyState(l, w),
           scope' = w, phrase' = w,
           coins' \in [Coins -> Coin], disk' \in [Wallets -> [Coins -> Coin]],
           choice' \in [Coins -> BOOLEAN],
           BalancesOfWallet', PrefsKept', \A c \in Loaded : coins'[c].at <= moment,
           UNCHANGED << privacy, loops, bounds >>
    PROVE  IInv'
<1> DEFINE job == [NoLoad EXCEPT !.at = "network", !.by = "unlock", !.scope = w, !.phrase = w,
                                 !.reads = Plain \cup Targeted, !.read = moment]
<1>1. /\ newest' = l /\ load[l].at = "idle"
      /\ \/ refreshing' = FALSE /\ phase' = "in" /\ load' = load
         \/ refreshing' = TRUE /\ phase' = "starting" /\ load' = [load EXCEPT ![l] = job]
  BY DEF LoadSendReadyState, Idle, Moves
<1>2. TypeOK /\ LoadsSound /\ SessionShape
  BY DEF IInv
<1>3. NoLoad \in Load /\ NoLoad.base = Nothing
  BY NoLoadSound DEF NoLoad
<1>4. /\ job \in Load /\ job.at = "network" /\ job.scope = w
      /\ job.base = Nothing /\ job.read = moment
  BY <1>2, <1>3 DEF Load, BeforeCommit, TypeOK, OrNone, Coins
<1>5. moment <= moment /\ \A c \in Coins : Nothing[c].of = None
  BY Numbers DEF Nothing, Zero
<1>6. Sound(job)
  BY <1>4, <1>5 DEF Sound
<1> HIDE DEF job
<1>7. /\ privacy' = privacy /\ loops' = loops /\ moment' = moment
      /\ changes' = changes /\ pageLoads' = pageLoads
  BY DEF bounds
<1>8. load' \in [Loads -> Load]
  BY <1>1, <1>2, <1>4 DEF TypeOK
<1>9. load'[newest'].at \in BeforeCommit => refreshing'
  BY <1>1, <1>2 DEF BeforeCommit, TypeOK
<1>10. TypeOK'
  BY <1>1, <1>2, <1>7, <1>8, <1>9 DEF TypeOK, OrNone
<1>11. SessionShape'
  BY <1>2, <1>7 DEF SessionShape, privacyBalanceRefreshInFlight
<1>12. SeenByNow'
  BY <1>7 DEF SeenByNow
<1>13. LoadsSound'
  BY <1>1, <1>2, <1>6, <1>7, <1>8 DEF LoadsSound, Sound, TypeOK
<1>14. NewestFresh'
  <2>1. load'[newest'].at \notin HasBase
    BY <1>1, <1>2, <1>4 DEF TypeOK, HasBase
  <2>2. load'[newest'].at # "idle" => load'[newest'].read = moment
    BY <1>1, <1>2, <1>4 DEF TypeOK
  <2> QED BY <1>7, <2>1, <2>2 DEF NewestFresh, Fresh
<1> QED BY <1>10, <1>11, <1>12, <1>13, <1>14 DEF IInv

\* Coins that have all been forgotten are of no wallet, and preferred as new.
LEMMA NothingKeeps ==
    ASSUME IInv, coins' = Nothing, disk' = [w \in Wallets |-> Nothing],
           choice' = [c \in Coins |-> TRUE], scope' \in OrNone(Wallets)
    PROVE  /\ coins' \in [Coins -> Coin] /\ disk' \in [Wallets -> [Coins -> Coin]]
           /\ choice' \in [Coins -> BOOLEAN]
           /\ BalancesOfWallet' /\ PrefsKept'
           /\ \A c \in Loaded : coins'[c].at <= moment
           /\ NotOlder
<1>1. Nothing \in [Coins -> Coin]
  BY NothingTyped
<1>2. \A c \in Coins : Nothing[c].of = None /\ Nothing[c].on = TRUE /\ Nothing[c].at = 0
  BY DEF Nothing, Zero
<1>3. 0 <= moment
  BY Numbers
<1>4. BalancesOfWallet'
  BY <1>2 DEF BalancesOfWallet
<1>5. PrefsKept'
  BY <1>2 DEF PrefsKept, OrNone
<1>6. NotOlder
  BY <1>2 DEF NotOlder
<1> QED BY <1>1, <1>2, <1>3, <1>4, <1>5, <1>6 DEF Loaded

LEMMA UnlockKeeps ==
    ASSUME IInv, NEW l \in Loads, Unlock(l)
    PROVE  IInv' /\ NotOlder
<1>1. /\ scope \in Wallets /\ scope' = scope /\ phrase' = scope
      /\ coins' = coins /\ disk' = disk /\ choice' = choice
      /\ LoadSendReadyState(l, scope) /\ UNCHANGED << privacy, loops, bounds >>
  BY DEF Unlock, store, IInv, SessionShape
<1>2. /\ coins' \in [Coins -> Coin] /\ disk' \in [Wallets -> [Coins -> Coin]]
      /\ choice' \in [Coins -> BOOLEAN]
  BY <1>1 DEF IInv, TypeOK
<1>3. BalancesOfWallet' /\ PrefsKept' /\ \A c \in Loaded : coins'[c].at <= moment
  BY <1>1 DEF IInv, BalancesOfWallet, PrefsKept, SeenByNow
<1>4. IInv'
  BY <1>1, <1>2, <1>3, ReadyStateKeeps
<1> QED BY <1>1, <1>4, SameNotOlder

LEMMA RestoredKeeps ==
    ASSUME IInv, NEW l \in Loads, NEW w \in Wallets, Restored(l, w)
    PROVE  IInv' /\ NotOlder
<1>1. /\ scope' = w /\ phrase' = w /\ LoadSendReadyState(l, w)
      /\ coins' = Nothing /\ disk' = [v \in Wallets |-> Nothing]
      /\ choice' = [c \in Coins |-> TRUE]
      /\ UNCHANGED << privacy, loops, bounds >>
  BY DEF Restored
<1>2. scope' \in OrNone(Wallets)
  BY <1>1 DEF OrNone
<1>3. /\ coins' \in [Coins -> Coin] /\ disk' \in [Wallets -> [Coins -> Coin]]
      /\ choice' \in [Coins -> BOOLEAN]
      /\ BalancesOfWallet' /\ PrefsKept'
      /\ \A c \in Loaded : coins'[c].at <= moment
      /\ NotOlder
  BY <1>1, <1>2, NothingKeeps
<1> QED BY <1>1, <1>3, ReadyStateKeeps

-----------------------------------------------------------------------------
(* The session ends: loads under way go on, with what they carry.           *)

LEMMA LoopsEndShape ==
    ASSUME IInv, LoopsEnd
    PROVE  /\ load' \in [Loads -> Load] /\ loops' \in Loops
           /\ \A l \in Loads : /\ load'[l].at = load[l].at /\ load'[l].scope = load[l].scope
                               /\ load'[l].base = load[l].base /\ load'[l].read = load[l].read
<1>1. load \in [Loads -> Load]
  BY DEF IInv, TypeOK
<1>2. loops' \in Loops
  BY DEF LoopsEnd, AtRest, Loops
<1>3. load' = [l \in Loads |-> [load[l] EXCEPT !.by = "page"]]
  BY DEF LoopsEnd
<1>4. ASSUME NEW job \in Load
      PROVE  LET page == [job EXCEPT !.by = "page"]
             IN  /\ page \in Load
                 /\ page.at = job.at /\ page.scope = job.scope
                 /\ page.base = job.base /\ page.read = job.read
  BY DEF Load
<1>5. \A l \in Loads : load[l] \in Load
  BY <1>1
<1> QED BY <1>2, <1>3, <1>4, <1>5

LEMMA ChangesShape ==
    ASSUME IInv, Changes
    PROVE  changes' \in 0 .. MaxChanges
  BY CounterUp DEF Changes, IInv, TypeOK

LEMMA LockKeeps ==
    ASSUME IInv, Lock
    PROVE  IInv' /\ NotOlder
<1>1. /\ phase = "in" /\ phase' = "locked" /\ phrase' = None /\ LoopsEnd /\ Changes
      /\ scope' = scope /\ coins' = coins /\ disk' = disk /\ choice' = choice
      /\ newest' = newest /\ refreshing' = refreshing /\ privacy' = privacy
      /\ moment' = moment /\ pageLoads' = pageLoads
  BY DEF Lock, store
<1>2. TypeOK /\ LoadsSound /\ NewestFresh /\ SessionShape /\ SeenByNow
      /\ BalancesOfWallet /\ PrefsKept
  BY DEF IInv
<1>3. /\ load' \in [Loads -> Load] /\ loops' \in Loops
      /\ \A l \in Loads : /\ load'[l].at = load[l].at /\ load'[l].scope = load[l].scope
                          /\ load'[l].base = load[l].base /\ load'[l].read = load[l].read
  BY <1>1, LoopsEndShape
<1>4. changes' \in 0 .. MaxChanges
  BY <1>1, ChangesShape
<1>5. newest' # None /\ load'[newest'].at \in BeforeCommit => refreshing'
  BY <1>1, <1>2, <1>3 DEF TypeOK, OrNone
<1>6. TypeOK'
  BY <1>1, <1>2, <1>3, <1>4, <1>5 DEF TypeOK, Loops, OrNone
<1>7. BalancesOfWallet' /\ PrefsKept' /\ SeenByNow'
  BY <1>1, <1>2 DEF BalancesOfWallet, PrefsKept, SeenByNow
<1>8. SessionShape'
  BY <1>1, <1>2 DEF SessionShape, privacyBalanceRefreshInFlight
<1>9. LoadsSound'
  BY <1>1, <1>2, <1>3 DEF LoadsSound, Sound
<1>10. NewestFresh'
  BY <1>1, <1>2, <1>3 DEF NewestFresh, Fresh, TypeOK, OrNone
<1>11. NotOlder
  BY <1>1, SameNotOlder
<1> QED BY <1>6, <1>7, <1>8, <1>9, <1>10, <1>11 DEF IInv

\* Restoring and clearing.
LEMMA ResetKeeps ==
    ASSUME IInv, Reset, LoopsEnd, Changes, phase' \in {"none", "restoring"},
           scope' \in {scope, None}, phrase' = None,
           UNCHANGED << privacy, moment, pageLoads >>
    PROVE  IInv' /\ NotOlder
<1>1. /\ newest' = None /\ refreshing' = FALSE
      /\ coins' = Nothing /\ disk' = [w \in Wallets |-> Nothing]
      /\ choice' = [c \in Coins |-> TRUE]
  BY DEF Reset
<1>2. TypeOK /\ LoadsSound /\ SessionShape
  BY DEF IInv
<1>3. scope' \in OrNone(Wallets)
  BY <1>2 DEF TypeOK, OrNone
<1>4. /\ coins' \in [Coins -> Coin] /\ disk' \in [Wallets -> [Coins -> Coin]]
      /\ choice' \in [Coins -> BOOLEAN]
      /\ BalancesOfWallet' /\ PrefsKept'
      /\ \A c \in Loaded : coins'[c].at <= moment
      /\ NotOlder
  BY <1>1, <1>3, NothingKeeps
<1>5. /\ load' \in [Loads -> Load] /\ loops' \in Loops
      /\ \A l \in Loads : /\ load'[l].at = load[l].at /\ load'[l].scope = load[l].scope
                          /\ load'[l].base = load[l].base /\ load'[l].read = load[l].read
  BY LoopsEndShape
<1>6. changes' \in 0 .. MaxChanges
  BY ChangesShape
<1>7. TypeOK'
  BY <1>1, <1>2, <1>3, <1>4, <1>5, <1>6 DEF TypeOK, Loops, OrNone
<1>8. SessionShape'
  BY <1>2 DEF SessionShape, privacyBalanceRefreshInFlight
<1>9. SeenByNow' /\ NewestFresh'
  BY <1>1, <1>4 DEF SeenByNow, NewestFresh
<1>10. LoadsSound'
  BY <1>2, <1>5 DEF LoadsSound, Sound
<1> QED BY <1>4, <1>7, <1>8, <1>9, <1>10 DEF IInv

-----------------------------------------------------------------------------
(* Steps that leave the loads alone.                                        *)

LEMMA OthersKeep ==
    ASSUME IInv, TypeOK', BalancesOfWallet', PrefsKept', SessionShape',
           load' = load, newest' = newest, moment' = moment,
           \A c \in Loaded : coins'[c].at = coins[c].at
    PROVE  IInv' /\ NotOlder
<1>1. LoadsSound'
  BY DEF IInv, LoadsSound, Sound
<1>2. NewestFresh'
  BY DEF IInv, NewestFresh, Fresh
<1>3. SeenByNow'
  BY DEF IInv, SeenByNow
<1>4. NotOlder
  BY Numbers DEF NotOlder, Loaded
<1> QED BY <1>1, <1>2, <1>3, <1>4 DEF IInv

\* Those that leave the store alone, too.
LEMMA StoreLeftKeeps ==
    ASSUME IInv, privacy' \in [scope : OrNone(Wallets), phrase : OrNone(Wallets),
                               scans : SUBSET Privacy, waits : SUBSET Privacy, read : Moments],
           privacyBalanceRefreshInFlight' => privacy'.scope \in Wallets,
           loops' \in Loops,
           UNCHANGED << session, store, newest, refreshing, load, bounds >>
    PROVE  IInv' /\ NotOlder
<1>1. /\ phase' = phase /\ scope' = scope /\ phrase' = phrase
      /\ coins' = coins /\ disk' = disk /\ choice' = choice
      /\ newest' = newest /\ refreshing' = refreshing /\ load' = load
      /\ moment' = moment /\ changes' = changes /\ pageLoads' = pageLoads
  BY DEF session, store, bounds
<1>2. TypeOK /\ BalancesOfWallet /\ PrefsKept /\ SessionShape
  BY DEF IInv
<1>3. TypeOK'
  BY <1>1, <1>2 DEF TypeOK, Loops
<1>4. BalancesOfWallet' /\ PrefsKept'
  BY <1>1, <1>2 DEF BalancesOfWallet, PrefsKept
<1>5. SessionShape'
  BY <1>1, <1>2 DEF SessionShape
<1> QED BY <1>1, <1>3, <1>4, <1>5, OthersKeep

LEMMA PrivacyStartsKeeps ==
    ASSUME IInv, NEW S \in SUBSET Privacy, PrivacyStarts(S)
    PROVE  IInv' /\ NotOlder
<1>1. TypeOK /\ SessionShape
  BY DEF IInv
<1>2. privacy' = [NoRefresh EXCEPT !.scope = scope, !.phrase = phrase, !.scans = S,
                                   !.read = moment]
  BY DEF PrivacyStarts
<1>3. scope \in Wallets
  BY <1>1 DEF PrivacyStarts, SessionShape, TypeOK, OrNone
<1>4. /\ privacy' \in [scope : OrNone(Wallets), phrase : OrNone(Wallets),
                       scans : SUBSET Privacy, waits : SUBSET Privacy, read : Moments]
      /\ privacy'.scope \in Wallets
  BY <1>1, <1>2, <1>3 DEF NoRefresh, TypeOK, OrNone
<1>5. loops' \in Loops
  BY <1>1 DEF PrivacyStarts, TypeOK, Loops
<1> QED BY <1>4, <1>5, StoreLeftKeeps DEF PrivacyStarts

LEMMA PrivacyScannedKeeps ==
    ASSUME IInv, NEW c \in Privacy, PrivacyScanned(c)
    PROVE  IInv' /\ NotOlder
<1>1. TypeOK /\ SessionShape /\ c \in privacy.scans
  BY DEF IInv, PrivacyScanned
<1>2. /\ privacy' \in [scope : OrNone(Wallets), phrase : OrNone(Wallets),
                       scans : SUBSET Privacy, waits : SUBSET Privacy, read : Moments]
      /\ privacy'.scope = privacy.scope
  <2>1. privacy.scans \ {c} \in SUBSET Privacy /\ privacy.waits \cup {c} \in SUBSET Privacy
    BY <1>1 DEF TypeOK
  <2>2. \/ privacy' = [privacy EXCEPT !.scans = privacy.scans \ {c},
                                      !.waits = privacy.waits \cup {c}]
        \/ privacy' = [privacy EXCEPT !.scans = privacy.scans \ {c}]
    BY DEF PrivacyScanned
  <2> QED BY <1>1, <2>1, <2>2 DEF TypeOK
<1>3. privacy.scope \in Wallets
  BY <1>1 DEF SessionShape, privacyBalanceRefreshInFlight
<1>4. loops' \in Loops
  BY <1>1 DEF PrivacyScanned, TypeOK, Loops
<1> QED BY <1>2, <1>3, <1>4, StoreLeftKeeps DEF PrivacyScanned

\* Nothing visible need be kept.
LEMMA GivenIsReconciled ==
    ASSUME NEW given \in [Coins -> Coin]
    PROVE  given \in Reconciled(given)
<1> DEFINE with(kept) == [c \in Coins |-> IF c \in kept THEN [coins[c] EXCEPT !.on = given[c].on]
                                         ELSE given[c]]
<1>1. given = with({})
  OBVIOUS
<1>2. {} \in SUBSET Privacy
  OBVIOUS
<1>3. Reconciled(given) = {with(kept) : kept \in SUBSET Privacy}
  BY DEF Reconciled
<1> HIDE DEF with
<1> QED BY <1>1, <1>2, <1>3

LEMMA PrivacyCommitKeeps ==
    ASSUME IInv, NEW c \in Privacy, PrivacyCommit(c)
    PROVE  IInv' /\ NotOlder
<1>1. TypeOK /\ SessionShape /\ BalancesOfWallet /\ PrefsKept /\ c \in privacy.waits
  BY DEF IInv, PrivacyCommit
<1>2. /\ privacy' = [privacy EXCEPT !.waits = @ \ {c}]
      /\ phase' = phase /\ scope' = scope /\ phrase' = phrase /\ choice' = choice
      /\ newest' = newest /\ refreshing' = refreshing /\ load' = load /\ loops' = loops
      /\ moment' = moment /\ changes' = changes /\ pageLoads' = pageLoads
  BY DEF PrivacyCommit, session, bounds
<1>3. privacy.scope \in Wallets
  BY <1>1 DEF SessionShape, privacyBalanceRefreshInFlight
<1>4. /\ privacy' \in [scope : OrNone(Wallets), phrase : OrNone(Wallets),
                       scans : SUBSET Privacy, waits : SUBSET Privacy, read : Moments]
      /\ privacy'.scope = privacy.scope
  BY <1>1, <1>2 DEF TypeOK
<1>5. SessionShape'
  BY <1>1, <1>2, <1>3, <1>4 DEF SessionShape
<1>6. /\ coins' \in [Coins -> Coin] /\ disk' \in [Wallets -> [Coins -> Coin]]
      /\ BalancesOfWallet' /\ PrefsKept'
      /\ \A d \in Loaded : coins'[d].at = coins[d].at
  <2>1. CASE stillSameWallet(privacy)
    <3>1. PICK next \in {coins, WithReads(coins, privacy, {c})} :
              coins' = Saved(next) /\ disk' = [disk EXCEPT ![scope] = Saved(next)]
      BY <2>1 DEF PrivacyCommit
    <3>2. privacy.scope = scope /\ scope \in Wallets
      BY <1>3, <2>1 DEF stillSameWallet
    <3>3. coins \in [Coins -> Coin] /\ \A d \in Coins : coins[d].of \in {None, scope}
      BY <1>1 DEF TypeOK, BalancesOfWallet
    <3>4. privacy.scope \in OrNone(Wallets) /\ privacy.read \in Moments
      BY <1>1 DEF TypeOK
    <3>5. /\ next \in [Coins -> Coin]
          /\ \A d \in Coins : /\ next[d].of \in {coins[d].of, scope}
                              /\ d # c => next[d].at = coins[d].at
      BY <3>1, <3>2, <3>3, <3>4, WithReadsShape
    <3>6. next \in Reconciled(next)
      BY <3>5, GivenIsReconciled
    <3>7. \A d \in Coins : next[d].of \in {None, scope}
      BY <3>3, <3>5
    <3>8. /\ coins' \in [Coins -> Coin] /\ disk' \in [Wallets -> [Coins -> Coin]]
          /\ BalancesOfWallet' /\ PrefsKept'
          /\ \A d \in Loaded : coins'[d].at = next[d].at
      BY <1>2, <3>1, <3>2, <3>5, <3>6, <3>7, CommitKeepsStore
    <3>9. \A d \in Loaded : d \in Coins /\ d # c
      BY DEF Loaded
    <3> QED BY <3>5, <3>8, <3>9
  <2>2. CASE ~ stillSameWallet(privacy)
    <3>1. coins' = coins /\ disk' = disk
      BY <2>2 DEF PrivacyCommit
    <3> QED BY <1>1, <1>2, <3>1 DEF TypeOK, BalancesOfWallet, PrefsKept
  <2> QED BY <2>1, <2>2
<1>7. TypeOK'
  BY <1>1, <1>2, <1>4, <1>6 DEF TypeOK
<1> QED BY <1>2, <1>5, <1>6, <1>7, OthersKeep

LEMMA ToggleKeeps ==
    ASSUME IInv, NEW c \in Coins, Toggle(c)
    PROVE  IInv' /\ NotOlder
<1> DEFINE on == [disk[scope] EXCEPT ![c].on = ~ @]
           merged == [d \in Coins |-> [coins[d] EXCEPT !.on = on[d].on]]
<1>1. /\ phase = "in" /\ Changes
      /\ choice' = [choice EXCEPT ![c] = ~ disk[scope][c].on]
      /\ coins' = merged /\ disk' = [disk EXCEPT ![scope] = merged]
      /\ phase' = phase /\ scope' = scope /\ phrase' = phrase
      /\ newest' = newest /\ refreshing' = refreshing /\ load' = load
      /\ privacy' = privacy /\ loops' = loops /\ moment' = moment /\ pageLoads' = pageLoads
  BY DEF Toggle, session
<1>2. TypeOK /\ SessionShape /\ BalancesOfWallet /\ PrefsKept
  BY DEF IInv
<1>3. scope \in Wallets /\ scope # None
  BY <1>1, <1>2 DEF SessionShape
<1>4. disk[scope] \in [Coins -> Coin] /\ coins \in [Coins -> Coin] /\ choice \in [Coins -> BOOLEAN]
  BY <1>2, <1>3 DEF TypeOK
<1>5. \A d \in Coins : on[d].on = IF d = c THEN ~ disk[scope][c].on ELSE disk[scope][d].on
  BY <1>4 DEF Coin
<1>6. \A d \in Coins : on[d].on \in BOOLEAN
  BY <1>4, <1>5 DEF Coin
<1> HIDE DEF on
<1>7. /\ merged \in [Coins -> Coin]
      /\ \A d \in Coins : /\ merged[d].of = coins[d].of /\ merged[d].at = coins[d].at
                          /\ merged[d].on = on[d].on
  BY <1>4, <1>6 DEF Coin
<1> HIDE DEF merged
<1>8. choice' \in [Coins -> BOOLEAN] /\ \A d \in Coins : choice'[d] = on[d].on
  <2>1. \A d \in Coins : disk[scope][d].on = choice[d] /\ disk[scope][d].on \in BOOLEAN
    BY <1>2, <1>3, <1>4 DEF PrefsKept, Coin
  <2> QED BY <1>1, <1>4, <1>5, <2>1
<1>9. changes' \in 0 .. MaxChanges
  BY <1>1, ChangesShape
<1>10. disk' \in [Wallets -> [Coins -> Coin]]
  BY <1>1, <1>2, <1>7 DEF TypeOK
<1>11. TypeOK'
  BY <1>1, <1>2, <1>7, <1>8, <1>9, <1>10 DEF TypeOK
<1>12. BalancesOfWallet'
  BY <1>1, <1>2, <1>7 DEF BalancesOfWallet, TypeOK
<1>13. PrefsKept'
  BY <1>1, <1>2, <1>3, <1>7, <1>8 DEF PrefsKept, TypeOK
<1>14. SessionShape'
  BY <1>1, <1>2 DEF SessionShape, privacyBalanceRefreshInFlight
<1> QED BY <1>1, <1>7, <1>11, <1>12, <1>13, <1>14, OthersKeep DEF Loaded

LEMMA MomentKeeps ==
    ASSUME IInv, Moment
    PROVE  IInv' /\ NotOlder
<1>1. /\ moment < MaxMoments /\ moment' = moment + 1
      /\ phase' = phase /\ scope' = scope /\ phrase' = phrase
      /\ coins' = coins /\ disk' = disk /\ choice' = choice
      /\ newest' = newest /\ refreshing' = refreshing /\ load' = load
      /\ privacy' = privacy /\ loops' = loops
      /\ changes' = changes /\ pageLoads' = pageLoads
  BY DEF Moment, session, store
<1>2. TypeOK /\ BalancesOfWallet /\ PrefsKept /\ SessionShape /\ LoadsSound /\ NewestFresh /\ SeenByNow
  BY DEF IInv
<1>3. moment' \in Moments
  BY <1>1, <1>2, CounterUp DEF TypeOK, Moments
<1>4. TypeOK'
  BY <1>1, <1>2, <1>3 DEF TypeOK
<1>5. BalancesOfWallet' /\ PrefsKept' /\ SessionShape' /\ NewestFresh'
  BY <1>1, <1>2 DEF BalancesOfWallet, PrefsKept, SessionShape, privacyBalanceRefreshInFlight,
                    NewestFresh, Fresh
<1>6. /\ moment \in Nat /\ \A c \in Coins : coins[c].at \in Nat
      /\ \A l \in Loads : load[l].read \in Nat
  BY Numbers
<1>7. \A m, n \in Nat : n <= m => n <= m + 1
  OBVIOUS
<1>8. LoadsSound'
  BY <1>1, <1>2, <1>6, <1>7 DEF LoadsSound, Sound
<1>9. SeenByNow'
  BY <1>1, <1>2, <1>6, <1>7 DEF SeenByNow, Loaded
<1> QED BY <1>1, <1>4, <1>5, <1>8, <1>9, SameNotOlder DEF IInv

LEMMA LoopsMoveKeeps ==
    ASSUME IInv, SendPage \/ StandardWaits
    PROVE  IInv' /\ NotOlder
<1>1. /\ UNCHANGED << session, store, newest, refreshing, load, privacy, bounds >>
      /\ \/ loops' = [loops EXCEPT !.sendPage = ~ @]
         \/ loops' = [loops EXCEPT !.pending = TRUE]
  BY DEF SendPage, StandardWaits
<1>2. loops \in Loops
  BY DEF IInv, TypeOK, Loops
<1>3. loops' \in Loops
  BY <1>1, <1>2 DEF Loops
<1>4. /\ privacy' \in [scope : OrNone(Wallets), phrase : OrNone(Wallets),
                       scans : SUBSET Privacy, waits : SUBSET Privacy, read : Moments]
      /\ privacyBalanceRefreshInFlight' => privacy'.scope \in Wallets
  BY <1>1 DEF IInv, TypeOK, SessionShape, privacyBalanceRefreshInFlight
<1> QED BY <1>1, <1>3, <1>4, StoreLeftKeeps

-----------------------------------------------------------------------------
(* The theorems.                                                            *)

LEMMA InitHolds == Init => IInv
<1> SUFFICES ASSUME Init PROVE IInv
  OBVIOUS
<1>1. Nothing \in [Coins -> Coin] /\ 0 \in Moments
  BY NothingTyped
<1>2. \A c \in Coins : Nothing[c].of = None /\ Nothing[c].on = TRUE /\ Nothing[c].at = 0
  BY DEF Nothing, Zero
<1>3. NoLoad \in Load /\ NoLoad.at = "idle" /\ NoLoad.base = Nothing /\ NoLoad.read = 0
  BY <1>1 DEF NoLoad, Load, OrNone
<1>4. 0 \in 0 .. MaxChanges /\ 0 \in 0 .. MaxPageLoads /\ 0 <= 0
  <2>1. MaxChanges \in Nat /\ MaxPageLoads \in Nat
    OBVIOUS
  <2>2. \A m \in Nat : 0 \in 0 .. m /\ 0 <= 0
    OBVIOUS
  <2> QED BY <2>1, <2>2
<1>5. load \in [Loads -> Load] /\ loops \in Loops
  BY <1>3 DEF Init, AtRest, Loops
<1>6. privacy \in [scope : OrNone(Wallets), phrase : OrNone(Wallets),
                   scans : SUBSET Privacy, waits : SUBSET Privacy, read : Moments]
  BY <1>1 DEF Init, NoRefresh, OrNone
<1>7. TypeOK
  BY <1>1, <1>4, <1>5, <1>6 DEF TypeOK, Init, OrNone, Loops
<1>8. BalancesOfWallet /\ PrefsKept
  BY <1>2 DEF BalancesOfWallet, PrefsKept, Init
<1>9. SessionShape
  BY DEF SessionShape, privacyBalanceRefreshInFlight, Init, NoRefresh
<1>10. LoadsSound
  BY <1>2, <1>3, <1>4 DEF LoadsSound, Sound, Init
<1>11. NewestFresh /\ SeenByNow
  BY <1>2, <1>4 DEF NewestFresh, SeenByNow, Loaded, Init
<1> QED BY <1>7, <1>8, <1>9, <1>10, <1>11 DEF IInv

\* Every step keeps the invariant, and shows nothing older than before.
LEMMA NextHolds == IInv /\ [Next]_vars => IInv' /\ NotOlder
<1> SUFFICES ASSUME IInv, [Next]_vars PROVE IInv' /\ NotOlder
  OBVIOUS
<1>1. ASSUME NEW l \in Loads, Steps(l) PROVE IInv' /\ NotOlder
  BY <1>1, StepsKeep
<1>2. ASSUME NEW l \in Loads, PageLoad(l) PROVE IInv' /\ NotOlder
  <2>1. scope \in Wallets
    BY <1>2 DEF PageLoad, IInv, TypeOK, OrNone
  <2>2. loops' \in Loops /\ pageLoads' \in 0 .. MaxPageLoads
    BY <1>2, CounterUp DEF PageLoad, IInv, TypeOK, Loops
  <2> QED BY <1>2, <2>1, <2>2, LoadStartsKeeps DEF PageLoad
<1>3. ASSUME NEW l \in Loads, StandardTick(l) \/ FastTick(l) \/ DetailTick(l)
      PROVE  IInv' /\ NotOlder
  <2>1. scope \in Wallets
    BY <1>3 DEF StandardTick, FastTick, DetailTick, IInv, SessionShape
  <2>2. loops \in Loops /\ pageLoads \in 0 .. MaxPageLoads
    BY DEF IInv, TypeOK, Loops
  <2>3. /\ loops' \in Loops
        /\ UNCHANGED << session, store, privacy, moment, changes, pageLoads >>
        /\ \E by \in {"standard", "fast", "detail", "page"} : LoadCoins(l, by)
    BY <1>3, <2>2 DEF StandardTick, FastTick, DetailTick, Loops, bounds
  <2> QED BY <2>1, <2>2, <2>3, LoadStartsKeeps
<1>4. ASSUME NEW l \in Loads, Unlock(l) PROVE IInv' /\ NotOlder
  BY <1>4, UnlockKeeps
<1>5. ASSUME NEW l \in Loads, NEW w \in Wallets, Restored(l, w) PROVE IInv' /\ NotOlder
  BY <1>5, RestoredKeeps
<1>6. ASSUME NEW S \in SUBSET Privacy, PrivacyStarts(S) PROVE IInv' /\ NotOlder
  BY <1>6, PrivacyStartsKeeps
<1>7. ASSUME NEW c \in Privacy, PrivacyScanned(c) \/ PrivacyCommit(c) PROVE IInv' /\ NotOlder
  BY <1>7, PrivacyScannedKeeps, PrivacyCommitKeeps
<1>8. ASSUME NEW c \in Coins, Toggle(c) PROVE IInv' /\ NotOlder
  BY <1>8, ToggleKeeps
<1>9. CASE Moment
  BY <1>9, MomentKeeps
<1>10. CASE Lock
  BY <1>10, LockKeeps
<1>11. CASE Restore \/ ClearWallet
  BY <1>11, ResetKeeps DEF Restore, ClearWallet
<1>12. CASE SendPage \/ StandardWaits
  BY <1>12, LoopsMoveKeeps
<1>13. CASE UNCHANGED vars
  <2>1. /\ privacy' \in [scope : OrNone(Wallets), phrase : OrNone(Wallets),
                         scans : SUBSET Privacy, waits : SUBSET Privacy, read : Moments]
        /\ privacyBalanceRefreshInFlight' => privacy'.scope \in Wallets
        /\ loops' \in Loops
    BY <1>13 DEF vars, IInv, TypeOK, SessionShape, privacyBalanceRefreshInFlight, Loops
  <2> QED BY <1>13, <2>1, StoreLeftKeeps DEF vars
<1> QED BY <1>1, <1>2, <1>3, <1>4, <1>5, <1>6, <1>7, <1>8, <1>9, <1>10, <1>11, <1>12, <1>13
        DEF Next

\* The inductive invariant of the balance loads.
THEOREM Invariance == Spec => []IInv
<1>1. Init => IInv
  BY InitHolds
<1>2. IInv /\ [Next]_vars => IInv'
  BY NextHolds
<1> QED BY <1>1, <1>2, PTL DEF Spec

\* Types, and the flag: it is up as long as the newest load has not ended, so
\* that the loops never start over a load they would make stale.
THEOREM TypeCorrect == Spec => []TypeOK
<1>1. IInv => TypeOK
  BY DEF IInv
<1> QED BY <1>1, Invariance, PTL

\* However many loads, privacy scans and changes of the wallet are under way:
\* no balance read for one wallet is shown, or cached, for another.
THEOREM BalancesAreOfWallet == Spec => []BalancesOfWallet
<1>1. IInv => BalancesOfWallet
  BY DEF IInv
<1> QED BY <1>1, Invariance, PTL

\* A coin the user has hidden or starred stays so, in memory and on disk,
\* whatever a load that began before may still commit.
THEOREM PreferencesSurvive == Spec => []PrefsKept
<1>1. IInv => PrefsKept
  BY DEF IInv
<1> QED BY <1>1, Invariance, PTL

\* What is shown of a coin of the gateway never goes back to an earlier read.
THEOREM NothingShownGetsOlder == Spec => LoadedNeverOlder
<1>1. IInv /\ [Next]_vars =>
          [\A c \in Coins \ Privacy :
               coins[c].of # None /\ coins'[c].of = coins[c].of
                   => coins[c].at <= coins'[c].at]_vars
  BY NextHolds DEF NotOlder
<1> QED BY <1>1, Invariance, PTL DEF Spec, LoadedNeverOlder
=============================================================================
