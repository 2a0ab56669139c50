# Altbase Wallet: formal models

TLA+ models of the concurrent core of Altbase Wallet 0.1.9, an Electron wallet
for some thirty coins. TLC checks small instances of them. TLAPS proves, for
any number of requests, sends, loads, calls and wallets, what matters most of
six: the client of the native helpers (and that it implements its abstract
specification), the quit guard that spares Epic sends, sending a UTXO coin, the
session of a stored wallet, the loads of balances, and the supervisor of mining
jobs, which loses no miner.

Paths are relative to the repository root; `store` stands for
`src/store/transactionStore.ts` and `client` for
`electron/native-core-client.cjs`.

## The system

The **renderer** (React, zustand stores) holds the wallet's state: the session
(`services/walletService.ts`, `store/authStore.ts`), balances
(`store/coinStore.ts`), transactions (`store/transactionStore.ts`). It is one
thread: code between two `await`s is atomic, and everything else interleaves.
The **main process** (`electron/main.cjs`) routes each native call to a client
of one **helper process** (JSON lines over stdin and stdout) and decides when
helpers stop: at lock, and at quit. Chain data comes over HTTP from a
**gateway**, which lags, fails, and sometimes answers after the caller gave up.
Storage is `localStorage`, written synchronously: a crash falls between two
writes, never inside one.

| Component | State | Operations | Meets others through | What is hard | What makes it correct |
|---|---|---|---|---|---|
| Native helper client (`client`) | current helper, all helpers, pending requests, timers, line buffer, chain of node reads, session | request, onData, watchdog, exit/error/write failure, closeSession, stop | main process; helper processes | a helper dies, hangs or answers late; restart under pending requests; lock with sends under way | every call is answered once; no helper forgotten; sends survive a lock |
| Main-process session (`main.cjs`) | clients by purpose, closing clients, quit waits | core:request, core:reset-session, window close, before-quit | all clients; coin SDKs; mining | quit and lock while sends run; two waits before one quit | every helper is known; no send a guard waited for is cut off; a quit is decided |
| Transaction store | rows, storage, in-flight flag, cool-down | sendTransaction, loadTransactions, merge of privacy and synthetic rows | gateway, coin store, native signer | loads commit over sends; unknown broadcast outcomes; crashes | no double payment; nothing broadcast is forgotten; nothing refused comes back |
| Reservations (`coinStore.ts`) | reserved amounts by transaction | apply, release, sync, prune | transaction store, storage | read, await, write back | a reservation per pending send |
| Balance loads (`coinStore.ts`, `App.tsx`) | load generation, coins in memory and cached, `refreshing`, privacy refresh flag, flags of the loops | loadSendReadyState, loadCoins with its deferred part, refreshPrivacyBalances, preferences, refresh loops, poll of the coin page | gateway, session, history | old loads finish after new ones, or after a lock; one loop outdates another's load | what is shown belongs to the wallet and is never older; preferences survive; the full load completes |
| Wallet session (`walletService.ts`, `authStore.ts`) | stored wallet, address map, phrase cache, revision, pending setup | create, restore, unlock, lock, clear, cancel, change password, reveal, refresh, retry, ensure | helpers, storage, coin store | address jobs that outlive their session; lock during a call; restores that fail half-way | nothing of a locked or cleared wallet is left; an unlocked wallet is the stored one |
| Unlock throttle (`authStore.ts`) | attempts, lockout, level | unlock, lock | wallet session | attempts in parallel | the ladder counts every attempt |
| Privacy wallets | readiness, scan cache | ensure, scan, send | helpers | send during a scan | no send without a synchronised wallet |
| Coin SDK runtimes (`coin-sdk.cjs`) | runtime and chain per coin, revision | call, close | main process | calls chained behind a close | one call of a session at a time |
| Mining module manager (`mining-module-manager.cjs`) | jobs by id, their timers, processes and probes | start, stop, stop all, exit, guard; install | main process | starts, stops, exits, pauses and quit interleave at every await | no miner nobody holds; a paused job resumes; calls return |

`modules/` (submodules, empty in a plain checkout), `native/vendor`, bindings,
build scripts, server-side adapters, UI forms and settings are not modelled:
they hold no state of the running wallet that these questions are about, or
their code is not here. `PROJECT.json` lists every component with its status.

## Modules

| Module | What it is |
|---|---|
| `NativeCoreClient` | one helper client, whole |
| `RequestBroker` | what such a client promises its callers |
| `NativeCoreClientProofs` | the inductive invariant of the client and its theorems |
| `NativeBrokerProofs` | the client implements `RequestBroker` |
| `SessionClient` | what the main process deals with: requests, the end of the session, a helper or none |
| `NativeClientProofs` | the client implements `SessionClient` |
| `MCNativeCoreClient` | constants and symmetry for TLC |
| `TransactionStore` | sending a UTXO coin while history loads rewrite the list |
| `TransactionStoreProofs` | three invariants of sending, and its theorems |
| `MCTransactionStore` | constants and symmetry for TLC |
| `WalletSession` | one stored wallet, its session, and the jobs that write its addresses |
| `WalletSessionProofs` | whose phrase a session holds, and what a cleared wallet leaves |
| `MCWalletSession` | constants and symmetry for TLC |
| `NativeSession` | the main process: clients by purpose, sessions, the coin SDKs' chain, the guards of the quit |
| `NativeSessionProofs` | why the quit guard spares Epic sends and knows the helpers, why SDK calls are serial, and that each client is a `SessionClient` |
| `MCNativeSession` | constants and symmetry for TLC |
| `MiningJobs` | the supervisor of mining jobs, and its part in the quit |
| `MiningJobsProofs` | why no miner is lost, and no entry forgotten |
| `MCMiningJobs` | constants and symmetry for TLC |
| `CoinLoads` | the loads of balances, the refresh loops, and the session they belong to |
| `CoinLoadsProofs` | whose balances are shown, and how old they are |
| `MCCoinLoads` | constants and symmetry for TLC |

`NativeSession` composes many clients and has of each only the requests, the end
of the session and whether there is a helper. That this is what a client is, is
stated and proved from both sides: `SessionClient` describes such a client,
`NativeCoreClient` implements it (`ImplementsSessionClient`), and each client of
`NativeSession` makes no other steps (`ClientsAreSessionClients`). So what the
abstract client does at its last transfer, at a preemption or in its grace need
not be believed of `NativeSession`. The steps of `NativeSession` are fewer: a
helper that cannot be started (`StartFails`) is there a helper that fails at
once. It takes of mining that `stopAll` ends, which `MiningJobs` shows, and
`MiningJobs` has of the quit what concerns it. `CoinLoads` has of the session
what `WalletSession` has in full: is it locked, whose wallet is it. The calls a
wallet makes are joined to these by name only.

### NativeCoreClient

`child`, `children`, `pending` and `buffer` are the fields of the class;
`armed` and `due` are the watchdog timers, `queue` the promise chain
`coinNodeQueue`, `outcome` the settled promises, and `session`, `remaining`,
`needsGrace` the closure of `closeSession`. `proc` is the operating system's
view of each process. A request id is never reused, so a request stands for its
id; a helper is named after the request that started it.

One action is one event-loop turn: `Request`, `Dispatch` (the chain), `Answer`,
`Progress`, `HalfLine` and `GarbledLine` (onData), `TimePasses` and `Expire`
(a timer runs out, then fires: an answer may come in between), `WriteFails`,
`ExitEvent`, `ErrorEvent`, `CloseSession`, `GraceEnds`, `Quit`. `Die` and
`ForceKill` are the helper's. `Settle` gathers what the code does in the
synchronous callbacks of `slot.resolve` and `slot.reject`: take the request out
of the map, clear its timer, answer its caller and, in a session that drains,
count down and stop the client after the last send.

What is abstract: payloads, messages, the length of a timeout (only whether a
timer has run out), the number of bytes of half a line (only whose they are).
One client serves the requests routed to it: `NodeReads` for a node client,
`Scans`, `Reads` and sends for a light wallet client, so each instance has the
requests of one such client. `request`, `requestNow`, `onData`, `expire`,
`rejectAll`, `restartAfterTimeout`, `closeSession`, `stop` and both exit
handlers are modelled; what the spawn and its environment look like is not.

`RequestBroker` knows neither processes nor timers: a request is new, waiting
in a chain, active, or settled, once; chained requests are active one at a time;
nothing starts after the close; and **a transfer that is active is failed by
neither the close of the session nor another request's result**. The refinement
mapping reads a request's status off `outcome`, `pending` and `queue`.

`SessionClient` is the other view of a client, that of the main process: where
each request is (how it was settled does not matter), how far the end of the
session has got, and whether there is a helper. A closed session `drains`, or
`drainsEpic` into a `grace`, and ends with its last pending transfer; the code
counts sends instead. What makes the client let go of its helper (`Fails`)
settles all that is pending, and a send of Epic does so before it starts.

### TransactionStore

A call of `sendTransaction` is named by the transaction it signs. Its steps are
the pieces between awaits: `Call` (the in-flight check), `TakeLock` (the pending
and cool-down checks, the flag), `ExcludeOutpoints`, `Prepare` (choose, sign,
and record the row in memory and storage), `Reserve`
(`applyTransactionBalanceDelta` writes back the reservations it read, with one
more), `Broadcast`, and one of `Accepted`, `Uncertain`, `Refused`; a refusal is
undone in two steps, as the code awaits `restoreCoinBalance` before it releases
the lock (`Refused` or `ReserveFails`, then `Restored`). `Fails` stands for every
failure before the recording, `ReserveFails` for that of the reservation; only a
storage that is full once the reservation has been written is left out.
`StartLoad`, `MergeLoad` and
`CommitLoad` are `loadTransactions`: what it reads first, the merge of what the
servers report, and the commit, which is a step of its own when balances are
refreshed in between. `MergeZano` is the Zano branch of
`mergePrivacyTransactions`. `PruneReservations` is the pruning in `loadCoins`,
`Restart` ends the app anywhere and starts it from storage.

`Relay` and `Mine` are the network: a transaction reaches a node any time after
its request was made, unless it was refused, and conflicting transactions are
not both taken. `Reports` is what servers may report: any part of what exists.

What is abstract: amounts, fees, addresses, balances, coin selection (any
non-empty set of outpoints that are not excluded), the identity of a row (its
transaction), the clock (four ages: fresh, then past ten minutes, a day, a
week; a grace period passes when nothing is in flight, which is longer than any
request). One wallet and one coin; account and privacy sends, paging and
notifications are left for later. `getCoinById` answers from a cache within the
turn, so two calls interleave at the first await only if one event made both:
`SameTick` says whether callers may do that, and `NewEvent` lets nothing else
happen between.

### WalletSession

`meta` and `addresses` are what `localStorage` holds under `wallet-meta` and
`wallet-addresses`; `cache` and `pending` are module variables of
`walletService.ts`; `sessionMnemonic`, `isUnlocked` and `generatedSeed` belong
to the auth store. A recovery phrase stands for everything derived from it, so
the address of a coin *is* the phrase it came from, and "whose address is this"
is a comparison.

A call under way is a record in one of `Slots`: what it is, which `await` it is
at, the phrase it holds, the address map it has read, and whether the revision
it has read still holds (`valid`). Keeping that bit instead of the counter makes
the model finite. `Foreground` calls are those a page waits for: `unlock`,
`restore`, `create`, `finalize` (ConfirmSeed), `change` and then `resave`
(Settings verifies the password with `unlockWallet` and then calls
`changePassword`), and `reveal`. `Background` jobs are the refresh of privacy
addresses, the retry timer, `ensurePublicAddress` of the mining page, and the
coin store's snapshots, which write the address map from outside the service.
A call goes on with the action of its point: `Verified`, `Derived`, `Settled`,
`Loaded`, `PrivacyRefreshed`, `SecretStored` and so on; calls that share code
share the action. `Restart` ends the app anywhere.

The pages decide which calls may be under way together, and the guards of the
actions are theirs. The pages of a restore, a creation and a setup keep their
buttons disabled until their call has returned (`Quiet`). The unlock page does so
with its form only: its link to the restore page, and from there to the welcome
page, and its button that clears the wallet stay enabled (`AtEntry`). Settings
disables nothing, and a lock, by button or timer, is possible whenever the wallet
is open. A page's call that a lock, a removal or a replacement overtakes goes on,
and as the page has gone, any page's call may be started beside it (`Left`).

Two history variables serve the properties. `entered` has the phrases used since
storage was last emptied, and those that pages' calls under way held then.
`slips` says what a wallet was left with that a session forbids: a call that was
*overtaken* in this way; an *unsaved* wallet, opened although another one is
stored; a phrase cached by a login that failed afterwards and was *abandoned*.
The next lock, removal or replacement that overtakes no call resets it
(`Parts`), and so does a restart.

What is abstract: passwords (right or wrong at each check), encryption, the
lockout ladder, balances and history. Legacy wallets and the storage scope of
wallets without a fingerprint are left out. A job that finds no room in the
bounds is not started (`Spawns`), a page's call waits (`Starts`).

### NativeSession

A client is named by its pool (`PoolOf`, from `native-core-routing.cjs`) and by
how often the maps of clients had been emptied (`epoch`) when it was made, so
`Mapped` is what `nativeCore` and the three maps hold. Of a client only its
requests, `sessionClosed`, the grace after an Epic send and whether it has a
helper are kept; `ClientFails` is everything that rejects all it has pending.
`closing` is `closingNativeCores`; `wait`, `waited`, `allow`, `stopAll` are the
variables of the quit guards; `window` and `quit` are Electron's. `ResetBegins`
and `ResetEnds` are the two halves of core:reset-session around its await of the
coin SDKs; the second closes every client of the maps, also one that the next
session made meanwhile. `CloseWindow`, `QuitAsked`, `QuitWaits` and
`QuitProceeds` are the handlers of the window, of the tray and of before-quit;
`PollEnds`, `FlushEnds` and `StopAllEnds` the ends of the waits. `SdkCall`,
`SdkDispatch` and `SdkEnds` are one coin's chain in `coin-sdk.cjs`, `ahead` the
call each is chained to.

`late` and `cut` are history variables: Epic sends begun when the guard had
already listed its clients, and requests that the quit rejected.

Three things the model shows a reader, which no property rules out. A second
request to quit while the guard flushes for 3 s leaves at once (`main.cjs`, line
184): the answered send counts as spared, though its helper may still write. The
guard's wait is the only one of the app's life: a send begun after it, in an app
that stayed because miners refused to stop, is not waited for. And
`waitForEpicSend` gives up after 250 s of wall clock (`client`, line 235), which
is enough as a send is rejected after 240 s and its grace takes 3 s; `PollEnds`
rests on that.

### MiningJobs

A state object of `mining-module-manager.cjs` is a record `st[s]`, with the
threads that work on it: the start call (`start`), evaluations of the runtime
guard by who began them (`eval`), and calls of stopJob by who made them
(`stop`). `running` is the map from job to state object. `owner` and `handler`
belong to a miner process: the object it was launched for, and how far
`handleJobExit` has got. Each action is the code between two awaits of one of
these threads.

Five steps of the code overtake another without looking again (`Overtakes`
names them: for example, `startJob` looks for an entry, awaits its checks, and
enters its object over one that another start entered meanwhile). After such a
step a miner may run that no entry holds. `overtaken` records it, and
`MinersAreHeld` says that these five are the only ways; with `Onwards = FALSE`
an instance ends there.

Objects that nothing refers to are collected at once, so `States` and `Miners`
bound what is in use at a time, not what is ever used. What is abstract: the
mining module's own code (a miner exits whenever it likes; `stop()` resolves
after its exit, or rejects), packages and their verification, the job index,
logs. A crash counts for ever, not for 15 minutes. `Unremovable` says where the
removal of a job's files may fail: after an exit (`mining_jobs`), or in a stop,
which then reports it and leaves the job supervised (`mining_settles`). The
proofs have both.

### CoinLoads

`newest` is the load that holds `coinLoadSeq`: the code compares the sequence
for equality only. A load is a record with its place (`at`, the await it is
in), what its wallet was when it began, and what it has read. `coins` is the
store's list and `disk` the runtime cache by storage scope. A balance is a pair:
the wallet it was read for, and the `moment` it was read at. `SnapshotArrives`,
`Probed`, `Preloaded`, `Commit` are the pieces of `loadCoins`; `Apply` with
`DeferredNetwork`, `DeferredBalances`, `DeferredPreloaded` its part after the
call has returned; `ReadyNetwork`, `ReadyBalances`, `ReadyCommit` are
`loadSendReadyState`; `PrivacyStarts`, `PrivacyScanned`, `PrivacyCommit`
`refreshPrivacyBalances`, which takes no sequence. `StandardTick`, `FastTick`
and `DetailTick` are the loops of `App.tsx` and of `CoinDetails.tsx`.

A load that waited for the history while a newer one began still saves the
coins the history covered (`Outdated`): to the cache, not to the store
(`MaySet`). The cache may hold an older balance than memory afterwards.

What is abstract: what a balance is worth when servers lag (reservations,
floors, repeated reads of zero), which rows cover a rise (any part of the rises
may be covered), the delta a send applies to a balance, privacy caches and
rescans, exceptions between raising and lowering `refreshing`. Loads started by
pages, sends and the history are full loads (`PageLoad`); a restart is not a
step, since nothing but the cache survives it. `loadNetworkStatuses` has no
caller.

## What is checked

| Run | Instance | Shows |
|---|---|---|
| `native_epic` | a scan, a local call, two Epic sends, which preempt each other | the bookkeeping invariants over preemption, crashes, timeouts, lock and quit; `SessionClient` is implemented (209k states) |
| `native_calls` | two chained node reads, two sends that may both be pending | no bytes of a dead helper reach its successor; the countdown of a closed session is exact; calls are settled and a locked session ends; `RequestBroker` is implemented (411k states) |
| `native_session` | two Epic sends, a send of another coin, three SDK calls, one lock, any number of quits | no send the guard waited for is cut off; one SDK call of a session at a time (9.3M states) |
| `native_quits` | an Epic send, a node read, one lock, mining | every helper's client is known, and each client makes steps of `SessionClient`; a quit is decided; a closed client ends (13k states) |
| `store_sends` | two sends, two outpoints, an incoming row, a load that commits at once, one restart | inputs never shared, evidence never lost, refusals leave nothing, an uncertain outcome blocks (368k states) |
| `store_readers` | one send, an incoming row servers may stop reporting, a load that may wait before its commit, a Zano merge, one restart | what survives stale commits; the lock is always released (169k states) |
| `wallet_life` | two phrases, a standard coin and a privacy coin, three calls at a time, two once one was overtaken | the unlocked wallet is the stored one; lock leaves no phrase; no job brings anything of a cleared wallet back (2.0M states) |
| `mining_jobs` | one job that pauses, two state objects, two miners | miners are held, but for the five overtakings; no entry is forgotten; an exit's files may not be removable (3.8M states) |
| `mining_settles` | one job with a startup probe, one state object, two miners, one restart | every start and every stop returns, also of a stop whose files cannot be removed (426k states) |
| `coin_loads` | two wallets, a polled and a privacy coin, two loads, three changes by the user | balances belong to their wallet; preferences survive; a stale load leaves the flag alone (2.2M states) |
| `coin_refresh` | one wallet, a polled and a deferred coin, two loads | what is shown never gets older; the full load goes on completing (250k states) |
| `coin_starved` | as `coin_refresh`, smallest, with a coin page open | a violation: the coin page's poll outdates every full load (1902 states to the end, fewer to the violation) |

### What does not hold

`coin_starved` ends in a violation. "Keep the dedicated XGR poll from
continuously invalidating the slower all-coin snapshot" (`App.tsx`, line 67) is
what `standardPending` is for, and `coin_refresh` shows that it works. The page
of a coin has a poll of its own (`CoinDetails.tsx`, line 101), which looks at
neither flag: with the page open, a full load that takes longer than the poll's
5 s is outdated every time.

Seven more statements of the code fail, in settings that the passing runs leave
out or in ways their properties exempt by name. Where a setting is named here, a
cfg of this directory shows it with that change, and with the named property as
its only one:

* "Only one broadcast can be in flight at a time" (`store`, line 112):
  the flag is read before an await (1914) and set after it (1929), so two calls
  made by one event both pass. No property states it, as the code does not keep
  it. With `SameTick = TRUE` in `StoreSends.cfg` even `InputsLocked` fails: both
  choose the same output. The passing runs have callers separated by an event, as
  the send page's own ref makes them.
* "Before allowing another send" (`store`, line 2425): with
  `ZanoMerges = {zano}` in `StoreSends.cfg` `UncertainBlocksSend` fails, as the
  merge commits over the uncertain row the list it read before (1604).
* "A surviving row here is a successful or transport-uncertain broadcast"
  (`store`, line 722) fails when the app ends between recording (2407) and
  broadcasting: `Restart` after `Prepare` is such a step. The row is kept.
* "Deterministic send failures never reach storage" (`store`, line 786): with
  `Known = {}`, one transaction and no restart `RejectedLeavesNoTrace` fails in
  `StoreSends.cfg`, as the rollback (2430) empties the list and a load falls
  back on what it had read (1237).
* "Cleared on lock/quit" (`store/authStore.ts`, line 32): `unlockWallet` (419-424),
  `getSeedPhrase` (448) and the auth store (123-145) look at nothing after their
  awaits. A wallet locked while Settings decrypts the phrase gets it back into the
  cache, and stays so until the next lock. A login whose balances cannot be loaded
  (`authStore.ts`, 129 and 138) leaves its phrase in both places, in a wallet that
  is not unlocked. `LockForgets` exempts both, by `slips = {}`.
* The same calls bring a wallet back. The unlock page can clear the wallet while
  its unlock is under way: the phrase, its addresses and the unlocked state then
  return over the emptied storage, and beside the next wallet. A restore begun
  from there is overtaken alike. `UnlockedHasPhrase` exempts what follows until
  the next lock or removal; `NothingOfClearedWallet` exempts nothing, and says
  that this is all that returns: the phrases that pages' calls held at the clear.
* "Wallet setup is not ready" (`walletService.ts`, line 352) is not what a second
  confirmation gets when the first attempt has failed and an earlier wallet is
  still stored: `finalizeWalletSetup` (350) takes that one for its own, and the
  page opens a wallet nobody stored, with addresses under the other's. (A
  creation is not kept from starting by a stored wallet, and cancelling one,
  516-519, removes it.) `UnlockedHasPhrase` exempts it as `unsaved`.
* "Builds it once on unlock (or wallet creation/restore) from the mnemonic"
  (`services/walletService.ts`, line 71) fails when a phrase is restored over
  what another one left in storage: the map is overlaid (224, 391), never
  emptied. `RestoreWallet` after a restore that was cut off is such a
  behaviour.

One more thing the supervisor of mining jobs does not keep: when the files of a
miner that has exited cannot be removed, `clearJobRuntime` rejects (line 2065),
which is only logged (2043-2045). The entry stays without a process, a guard or
a restart, and nothing looks at it again until the user does. `EntryHasFuture`
names these entries (`uncleaned`) as its one exception.

`store_sends` has no stale commits, because with them `UncertainBlocksSend` and
`RejectedLeavesNoTrace` fail as said; `store_readers` has
them and checks what is still true. With stale readers a row may be dropped
although its transaction waits in the mempool; its reservation restores it at
the next start for as long as reservations last, which is what
`FreshEvidenceSurvives` relies on. For older rows three overlapping loads can
lose the last trace; that is listed as a hazard.

### Bounds

Three or four requests are enough for a client: the hazards need one request
that is restarted away, one that starts the successor, and one that waits in
the chain or drains. Every request may start a helper, so up to four helpers
exist, several of them dying at once. Two sends and two outpoints are enough
for a double spend, for a lock taken by one and released by the other, and for
a third transaction's place to be taken by an incoming row. One restart is
enough, as recovery reads storage only and nothing remembers an earlier one.
For the wallet, two phrases are one that is forgotten and one that follows it; of
three calls one is the page's and two are jobs of earlier sessions, which differ
in what they check before they write. Once a call was overtaken, two are under
way at a time (`Behind`): that call, and the one it goes on beside. The coins are
one whose address is derived here, again each time, and one whose address comes
from a helper; a job reads and writes the whole map, so more of a kind merge in
no other way. The proofs need none of these bounds.
For the main process, two Epic sends are one the guard waits for and one begun
too late; one end of a session leaves one client closing and one open; quits are
not bounded, nor are refusals by miners. Three SDK calls are one that runs, one
chained to it, and one of the next session. For mining, two state objects are
two starts of one job that both passed the check, and two miners the one that is
lost and the one that is held, or the one that was stopped and its successor;
jobs share nothing but the quit. For balances,
two loads are an outdated one and the one that outdated it; a load that finds
neither slot waits, so three at once are not covered. One moment between reads
makes an older and a newer balance; three changes are a lock, another wallet and
a preference.
Symmetry is used for the safety runs only, over requests of one kind, over SDK
calls, transactions and outpoints, phrases and slots, state objects and miners,
wallets and loads. The `store_sends` run also checks an action
property; it is invariant under the permutations and no liveness property.

Deadlock is not checked for clients and stores: every instance has finitely many
calls, and one that has served them may rest; nor where the bounds or a quit end
the instance. It is checked for the wallet.

### Fairness

`FairSpec` of the client: a timer that is set runs out and fires, the promise
chain moves on, the grace timer fires. These are the event loop's own; nothing
is assumed of helpers, which may hang for ever, and nothing of progress, so
`CallsSettle` leaves out scans, whose progress re-arms their watchdog.
`FairSpec` of the store: every step of a send ends, since native calls have
watchdogs (`CallsSettle` is that promise) and gateway requests have timeouts.
Relay, mining, loads and restarts get no fairness. `WalletSession` states
safety only and assumes none.
`FairSpec` of `NativeSession`: answers come, as the watchdogs see to it
(`CallsSettle`); the grace, the polls, the flush and `stopAll` end
(`StopSettles`); before-quit runs when it is called. These are strong, because
Electron's state between the request to quit and its handler disables them for
one step at a time. Neither the user nor a coin SDK's `close()` gets fairness.
`FairSpec` of `MiningJobs`: promises settle, timers of probes go off, `stop()`
resolves or rejects; no miner has to exit by itself, and no guard's timer has to
go off for a call to return. One assumption is about time (`StopResolves`):
`stop()` of a miner that has exited resolves before a timer of 5 s set after the
exit goes off. `StopSettles` needs it: of two stops of a job one may be refused
and the other succeed, and if the job were restarted in between, the second
would await the exit of a miner nobody told to stop (2112).
`FairSpec` of `CoinLoads`: every request of a load ends (its timeout), and the
15 s interval goes on ticking, whether the tick finds it may load or must wait.
The two faster polls get none, so they may tick as often, or as seldom, as hurts
most.

## What is proved

`NativeCoreClientProofs` proves, from `ClientConstants` alone (finitely many
requests, disjoint kinds), that `IInv` is an invariant: types, and eight facts.
The interesting ones do not stand alone:

* *Requests wait for the current helper* needs that a closed session has no
  helper and that the chain holds only calls nobody has submitted (`QueueWaits`).
* *No helper is forgotten* needs that what runs is current, which every action
  that lets go of a helper must re-establish by telling it to stop, except when
  it is dead.
* *The countdown is exact* needs that each send is settled once: for a set of
  sends settled together, the cardinality of what is left is the difference
  (`SettleCounts`), which is why requests must be finitely many.
* *The buffer is clean* fails after `before-quit`, whose `stop()` leaves half a
  line behind; so the invariant is conditional on `quit`, and on a session that
  still runs.

There is one lemma per action; `Settle` is analysed once (`SettleEffect`,
`SettleCounts`, `SettleKeeps`, `SettleHelpers`, `SettleStep`). The theorems
`TypeCorrect`, `NothingAwaitedFromOldHelpers`, `NoHelperForgotten`,
`WatchdogPerRequest`, `EveryCallerAnswered`, `DrainIsExact` and `BufferIsClean`
follow from `Invariance`, and state the properties that `native_epic` and
`native_calls` check; so does `ClosedIsQuiet`, which no run repeats (the
run checks `ImplementsSessionClient` in its place).

`NativeSessionProofs` proves, from `SessionConstants`, that no Epic send a guard
waited for is cut off (`EpicSendsSpared`), and the types (`TypeCorrect`).
`EpicSendSpared` speaks of the state after the quit only; `IInv` adds what must
be true before: every pending Epic send is at a client the guard can see
(`SendsKnown`: closed clients stay in `closing` until they have drained); while
the guard waits, the early ones are at clients it still waits for
(`WaitCovers`); once it has waited, none of them is left (`AllowCovers`).
Three results add a layer each:

* `HelpersKnown`: the exception for node reads is inductive once a chained
  request is known to be at a client of its own pool (`AtPool`): what is
  dispatched after a quit can only start the helper of a node client.
* `SdkCallsSerial`: no variable of the code is the queue of the SDK calls, only
  the promise each call is chained to. `SerialInv` says that the calls can be
  ranked such that each waits for the one right below it in its session, all but
  the lowest of a session wait, and `pending` has the highest; a call that is
  made takes the next rank. The ranking is quantified, not a history variable.
* `ClientsKeepContract`: each client makes only steps of `SessionClient`. Two
  facts are needed (`ViewInv`): a request is at a client of its own pool, so that
  Epic's clients, and no others, end in a grace; and a client that is being
  closed and not in its grace has a transfer under way, so an answer to another
  client's request cannot be what ends it. For a quit it needs `HelpersAreKnown`
  too: a helper that is stopped without a client the guard knows is of an open
  client, which fails like any other.

`NativeBrokerProofs` proves that the client implements `RequestBroker`
(`ClientImplementsBroker`): under the refinement mapping each action of the
client is a step of the broker or a stutter. Two facts carry it. The status of a
request is read off `outcome`, `pending` and `queue`, which by `IInv` never
claim it twice (`StatusIs`). And the last send that settles in a closed session
stops the client, which leaves whatever else is pending without a result: as the
countdown is exact, no other send is among it (`SettleSends`).

`NativeClientProofs` proves that it implements `SessionClient` as well
(`ClientIsSessionClient`). There the session ends with the last pending
transfer; in the code it ends when a count comes to zero. The two agree by the
exactness of the count, whichever requests are settled together (`LastIs`,
`SettleIs`). A quit, or an exit, of a client without a helper is a stutter, since
nothing is pending without one.

`TransactionStoreProofs` proves the five properties of `store_sends`, the
invariant of `store_readers`, and that the lock is held exactly while a send is
under way (`LockIsHeld`, stated by no run), in three layers:

* `Alone`, from `SameTick = FALSE` only: one send is under way at a time; only
  what was signed has inputs, and only what was broadcast is in the net; **no
  list of rows, however old, calls a send confirmed that is not in a block, or
  failed in its first grace period**; and what may be on its way to the network
  is reserved, also in the copy of the reservations that a send will write back.
  This is why a stale commit cannot lose a fresh transaction
  (`FreshEvidence`): it may drop the row, but not the reservation, since no list
  it could have kept gives the store a reason to.
* `Seen`, where in addition readers commit what they have merged at once
  (`Prompt`): a live transaction of the last day, or of the week when its
  outcome is unknown, has a pending row with its inputs in memory and in
  storage, so the next send either does not start or leaves its inputs alone.
  The theorems about inputs, evidence and uncertain outcomes follow.
* `Gone`, where in addition some transaction stays in the history: a refused
  send has no row, no stored row and no reservation, nor will a copy of the
  reservations bring one back. Without such a transaction the list may become
  empty, and the statement is false (see "What does not hold").

The hypotheses are exactly the settings under which the runs pass.

`CoinLoadsProofs` proves from `CoinConstants` that balances belong to their
wallet, that preferences survive, that the flag is up while the newest load
runs, and that what is shown of a gateway coin never gets older. `IInv` adds:
every load under way, an outdated one too, has computed with coins of its own
wallet (`LoadsSound`), so one that finds its wallet still there brings in no
other's; and the coins the newest load has computed with are still those that
are shown, and none is newer than what it has read (`NewestFresh`), because
only the newest writes.

`WalletSessionProofs` proves the four properties of `wallet_life` for any number
of calls, phrases and coins, from the constants' assumptions, whatever is locked,
cleared or replaced during them. `IInv` has two arguments. Every call under way
is `Good`: one that may still write addresses, because the revision has not
moved, holds only phrases in use, and one that a page waits for holds such a
phrase in any case; what empties the storage moves the revision of all of them
first, and its pages' phrases are what is in use afterwards (`BumpedGood`). So
`ClearedForGood` has no condition. The other argument (`Session`) is for a
`Clean` session, in which nothing was overtaken or opened unsaved: there a login
is the only call a page waits for, or all of them are calls of an open wallet's
Settings, and each *knows* the session (`Knows`): at each of its points the
phrase it holds is the stored and cached one, or none is held yet, so what it
writes on its way to an unlocked wallet agrees. That the next lock or removal
makes a session clean again is part of the step (`PartsStep`).

`MiningJobsProofs` proves, from `JobConstants` alone, that no miner is lost
(`NoMinerLost`) unless something was overtaken, and the types. `MinersAreHeld`
speaks of processes; `IInv` adds what leads to one: a launch that nothing
overtakes belongs to its job's entry, finds no miner there and is the only one
(`Launches`), so the entry holds the miner it starts until that miner's exit is
handled (`Held`); a quit that may go ahead has stopped every entry (`Quits`); and
every process started has a state object, and only a dead one's exit is being
handled (`Owned`), overtaken or not.
`EntriesHaveFuture` proves that no entry is forgotten, by a second invariant
(`FutureInv`) beside the first. `EntryHasFuture` counts a guard, a restart timer, a
call or an exit handler as a future, but the timers look at an entry again only
if it is neither being stopped nor being paused. So `FutureInv` says who comes
back for the mark: a marked stop has its call, a marked pause the timer that set
it or the exit it waits for, and a miner that is held is the object's own and
its exit will be handled (`Attended`, `HoldsOwn`). It does not except
overtakings: an entry keeps a future through all five.

Every invariant and every action property of a passing run, and both
refinements, are theorems. Only model-checked is liveness, as fairness and
`ENABLED` are out of the prover's reach: `SessionCloses` and `CallsSettle`,
`LockReleased`, `StartSettles` and `StopSettles`, `QuitDecides` and `ClosingEnds`,
`StandardRefreshes`; and the violation of `coin_starved`.
What `ClosingEnds` rests on is proved without fairness (`ClosingHasReason`): a
closed client stays in `closingNativeCores` only while a transfer is pending at
it or its grace runs.

## Not modelled

Legacy wallets and their migration; the unlock throttle (the page makes one
attempt at a time); account and privacy sends, notifications and paging of
`transactionStore.ts`; the arithmetic of balances in `coinStore.ts`; the privacy
engines behind the helpers; installation and update of mining packages; the
bridge and gateway wrappers, which hold no state between calls; forms and
texts; the node adapters under `ops/`, which are servers of their own and which
the wallet sees as the gateway; build scripts. `modules/` is empty here.

## Plan

1. `TransactionStore`: account and privacy sends (no recorded inputs, the
   week-long grace), a wallet replaced during a send, notifications.
2. `BalancePolls`: what a read is worth when servers lag, as the rules of
   `coinStore.ts` between 2908 and 3184 with reservations and rows.
3. `UnlockThrottle`, legacy wallets.
4. `PrivacyWallet`: readiness, scan and cache against send and lock.
5. Pure rules as operators against reference definitions: deduplication by
   identity, the maximum-amount plan, fee approval, confirmations.

## Running

    tlc -config NativeEpic.cfg MCNativeCoreClient
    tlc -config StoreSends.cfg MCTransactionStore
    tlc -config WalletLife.cfg MCWalletSession
    tlc -config NativeSession.cfg MCNativeSession
    tlc -config MiningJobs.cfg MCMiningJobs
    tlc -config CoinLoads.cfg MCCoinLoads
    tlapm NativeCoreClientProofs.tla
    tlapm NativeBrokerProofs.tla
    tlapm NativeClientProofs.tla
    tlapm NativeSessionProofs.tla
    tlapm TransactionStoreProofs.tla
    tlapm CoinLoadsProofs.tla
    tlapm WalletSessionProofs.tla
    tlapm MiningJobsProofs.tla

`PROJECT.json` lists every run, what each definition models (file and lines),
and for every property a mutant of the code that breaks it.
