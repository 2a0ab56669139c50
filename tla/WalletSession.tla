---------------------------- MODULE WalletSession ----------------------------
(***************************************************************************)
(* src/services/walletService.ts with src/store/authStore.ts: the session  *)
(* of a stored wallet.  Its recovery phrase is held in two places while    *)
(* the wallet is unlocked, and the addresses derived from it are written   *)
(* to storage by several asynchronous jobs that may outlive the session.   *)
(*                                                                         *)
(* A job that writes addresses remembers walletSessionRevision and writes  *)
(* only if it has not moved since.  The counter itself is not kept: a job  *)
(* is `valid' from the moment it reads the revision until the next bump.   *)
(*                                                                         *)
(* Everything between two awaits is one step.  A phrase stands for all     *)
(* that is derived from it: the address of a coin is the phrase it was     *)
(* derived from.                                                           *)
(***************************************************************************)
EXTENDS Naturals, FiniteSets

CONSTANTS
    Phrases,         \* recovery phrases
    Standard,        \* coins whose address is derived in the renderer
    Privacy,         \* coins whose address comes from a native helper
    AlwaysRederived, \* ALWAYS_REDERIVE_STANDARD_COIN_IDS
    Slots,           \* bound on the calls under way at a time
    Behind,          \* and while one of them goes on behind another page
    None             \* no phrase, no coin, no call

Coins == Standard \cup Privacy

ASSUME SessionConstants ==
    /\ Standard \cap Privacy = {}
    /\ AlwaysRederived \subseteq Standard
    /\ None \notin Phrases \cup Coins
    /\ Behind \in Nat

VARIABLES
    meta,            \* the stored wallet: the phrase of wallet-meta
    addresses,       \* wallet-addresses
    cache,           \* sessionMnemonicCache
    pending,         \* pendingWalletSetup
    sessionMnemonic, \* of the auth store
    isUnlocked,      \* of the auth store
    generatedSeed,   \* of the auth store: a new phrase the user is shown
    calls,           \* the calls under way, with what they hold across an await
    entered,         \* history: the phrases used since storage was last emptied,
                     \* and those that pages' calls under way held then
    slips            \* history: what a wallet was left with that a session forbids

stored == << meta, addresses >>
auth == << sessionMnemonic, isUnlocked, generatedSeed >>
history == << entered, slips >>
vars == << stored, cache, pending, auth, calls, history >>

OrNone(S) == S \cup {None}
Addresses == [Coins -> OrNone(Phrases)]
NoAddresses == [c \in Coins |-> None]

Foreground == {"unlock", "restore", "create", "finalize", "change", "resave", "reveal"}
Background == {"refresh", "retry", "ensure", "snapshot"}
Points == {"verify", "reset", "validate", "generate", "derive", "secret", "decrypt",
           "settle", "recall", "load", "timer", "privacy", "ensure", "snapshot"}

\* `scope' is the stored wallet a snapshot was asked for.
Call == [name : Foreground \cup Background, at : Points, phrase : OrNone(Phrases),
         coin : OrNone(Coins), scope : OrNone(Phrases), read : Addresses, valid : BOOLEAN]

\* "overtaken": the wallet was locked, cleared or replaced while a page's call
\* was under way, which goes on.  "unsaved": a new wallet was opened that was
\* not stored.  "abandoned": a login failed after the phrase was cached.
Slips == {"overtaken", "unsaved", "abandoned"}

ASSUME NoneIsNoCall == None \notin Call

TypeOK ==
    /\ meta \in OrNone(Phrases)
    /\ addresses \in Addresses
    /\ {cache, pending, sessionMnemonic, generatedSeed} \subseteq OrNone(Phrases)
    /\ isUnlocked \in BOOLEAN
    /\ calls \in [Slots -> OrNone(Call)]
    /\ entered \subseteq Phrases
    /\ slips \subseteq Slips

Init ==
    /\ meta = None /\ addresses = NoAddresses
    /\ cache = None /\ pending = None
    /\ sessionMnemonic = None /\ isUnlocked = FALSE /\ generatedSeed = None
    /\ calls = [s \in Slots |-> None]
    /\ entered = {} /\ slips = {}

-----------------------------------------------------------------------------
Active == {s \in Slots : calls[s] # None}

\* Calls that a page waits for, and their names.
Waited == {s \in Active : calls[s].name \in Foreground}
Awaited == {calls[s].name : s \in Waited}

Quiet == Waited = {}

\* A page's call goes on behind another page, or after a lock: what is shown
\* no longer tells which calls are under way.
Left == "overtaken" \in slips

\* The pages before the wallet is open.  That of a restore, a creation or a
\* setup keeps its buttons disabled until its call has returned; the unlock
\* page keeps its links to the others and the button that clears the wallet.
AtEntry == generatedSeed = None /\ Awaited \subseteq {"unlock"}

\* A call that holds nothing yet but its phrase.
Fresh(name, at, phrase) ==
    [name |-> name, at |-> at, phrase |-> phrase, coin |-> None, scope |-> None,
     read |-> NoAddresses, valid |-> FALSE]

\* savePublicAddresses and refreshPrivacyAddresses start by reading the
\* revision and the address map.
Reads(call, point) == [call EXCEPT !.at = point, !.read = addresses, !.valid = TRUE]

\* A call goes on to a point where it holds neither.
MovesTo(call, point) == Fresh(call.name, point, call.phrase)

\* Mutant of Bump: the revision stays.
Unbumped(cs) == cs

\* bumpWalletSessionRevision: what a call has read will not be used.
Bump(cs) ==
    [s \in Slots |-> IF cs[s] = None THEN None
                     ELSE [cs[s] EXCEPT !.valid = FALSE, !.read = NoAddresses]]

\* The bounds allow one more call.
Room(cs) ==
    /\ Left => Cardinality(Active) < Behind
    /\ \E s \in Slots : cs[s] = None

\* It runs beside those of cs.
Starts(cs, call) ==
    /\ Room(cs)
    /\ \E s \in Slots : cs[s] = None /\ calls' = [cs EXCEPT ![s] = call]

\* A step leaves a job behind.  One too many for the bounds is not started, as
\* if its timer or its helpers had come to nothing.
Spawns(cs, job) == Starts(cs, job) \/ (~Room(cs) /\ calls' = cs)

At(s, point) == calls[s] # None /\ calls[s].at = point

Ends(s) ==
    /\ calls' = [calls EXCEPT ![s] = None]
    /\ UNCHANGED << stored, cache, pending, auth, entered >>

\* The wallet is locked, cleared or replaced: from here on a session is what
\* it should be, unless a call goes on.
Parts == slips' = IF Quiet /\ generatedSeed' = None THEN {} ELSE {"overtaken"}

\* Mutant of Overlay: what was read before is not merged in.
NewEntries(read, coins, phrase) == [c \in coins |-> phrase]

\* New entries replace those of the map the caller has read.
Overlay(read, coins, phrase) == [c \in Coins |-> IF c \in coins THEN phrase ELSE read[c]]

\* deriveStandardCoinAddresses: what a call derives.  Only the retry keeps
\* the addresses it has read.
ToDerive(call) ==
    IF call.name = "retry"
    THEN {c \in Standard : call.read[c] = None} \cup AlwaysRederived
    ELSE Standard

Retry(phrase) == [Fresh("retry", "timer", phrase) EXCEPT !.valid = TRUE]

-----------------------------------------------------------------------------
(* Unlocking, and what all calls that derive addresses have in common.      *)

\* authStore.unlock calls walletService.unlockWallet; so does the password
\* form of Settings before it changes the password.
Unlock ==
    /\ meta # None
    /\ \/ /\ ~isUnlocked
          /\ Left \/ (generatedSeed = None /\ Quiet)
          /\ Starts(calls, Fresh("unlock", "verify", meta))
       \/ isUnlocked /\ Starts(calls, Fresh("change", "verify", meta))
    /\ UNCHANGED << stored, cache, pending, auth, history >>

\* The password is right and the phrase decrypted.
Verified(s) ==
    /\ At(s, "verify")
    /\ cache' = calls[s].phrase
    /\ calls' = [Bump(calls) EXCEPT ![s] = Reads(@, "derive")]
    /\ UNCHANGED << stored, pending, auth, history >>

\* The standard addresses that could be derived in time are stored with the
\* ones read before, unless the revision has moved.
Derived(s) ==
    /\ At(s, "derive")
    /\ \E done \in SUBSET ToDerive(calls[s]) :
          addresses' = IF calls[s].valid /\ done # {}
                       THEN Overlay(calls[s].read, done, calls[s].phrase)
                       ELSE addresses
    /\ LET call == calls[s]
           next(point) == [calls EXCEPT ![s] = MovesTo(call, point)]
           retry == Retry(call.phrase)
       IN \/ call.name \in {"unlock", "finalize"} /\ Spawns(next("settle"), retry)
          \/ call.name = "restore" /\ Spawns(next("secret"), retry)
          \/ call.name = "change" /\ Spawns([next("decrypt") EXCEPT ![s].phrase = meta], retry)
          \/ /\ call.name = "resave"
             /\ calls' = [calls EXCEPT ![s] =
                   IF call.valid THEN [Reads(call, "privacy") EXCEPT !.read = addresses'] ELSE None]
          \/ call.name = "retry" /\ calls' = [calls EXCEPT ![s] = None]
    /\ UNCHANGED << meta, cache, pending, auth, history >>

\* The auth store takes the phrase, and the privacy addresses of the cached
\* one are warmed (warmPrivacyAddresses).
Takes(s, phrase) ==
    /\ sessionMnemonic' = phrase
    /\ isUnlocked' = (isUnlocked /\ calls[s].name = "unlock")
    /\ generatedSeed' = IF calls[s].name = "restore" THEN None ELSE generatedSeed
    /\ LET next == [calls EXCEPT ![s] = MovesTo(@, "load")]
       IN IF cache' = None
          THEN calls' = next
          ELSE Spawns(next, Reads(Fresh("refresh", "privacy", cache'), "privacy"))
    /\ UNCHANGED << stored, pending, history >>

\* A new wallet's page takes the phrase it has shown; unlock and restore take
\* the cached one, or ask for the stored one again (getSeedPhrase).
Settled(s) ==
    /\ At(s, "settle")
    /\ UNCHANGED cache
    /\ LET asks == calls[s].name # "finalize" /\ cache = None /\ meta # None
       IN \/ ~asks /\ Takes(s, IF calls[s].name = "finalize" THEN calls[s].phrase ELSE cache)
          \/ /\ asks
             /\ calls' = [calls EXCEPT ![s] = Fresh(@.name, "recall", meta)]
             /\ UNCHANGED << stored, pending, auth, history >>

\* It is decrypted, or the password is another wallet's.
Recalled(s) ==
    /\ At(s, "recall")
    /\ \/ cache' = calls[s].phrase /\ Takes(s, calls[s].phrase)
       \/ UNCHANGED cache /\ Takes(s, None)

\* Balances are loaded: the wallet is open.
Loaded(s) ==
    /\ At(s, "load")
    /\ isUnlocked' = TRUE
    /\ generatedSeed' = IF calls[s].name = "finalize" THEN None ELSE generatedSeed
    /\ calls' = [calls EXCEPT ![s] = None]
    /\ UNCHANGED << stored, cache, pending, sessionMnemonic, history >>

\* refreshPrivacyAddresses: the helpers have answered, each with an address
\* or an error.
PrivacyRefreshed(s) ==
    /\ At(s, "privacy")
    /\ \E done \in SUBSET Privacy :
          LET next == Overlay(calls[s].read, done, calls[s].phrase)
          IN addresses' = IF next # calls[s].read /\ calls[s].valid THEN next ELSE addresses
    /\ calls' = [calls EXCEPT ![s] = None]
    /\ UNCHANGED << meta, cache, pending, auth, history >>

\* retryMissingStandardAddressesInBackground: five seconds have passed.
RetryDue(s) ==
    /\ At(s, "timer")
    /\ calls' = [calls EXCEPT ![s] =
          IF @.valid /\ cache = @.phrase THEN Reads(@, "derive") ELSE None]
    /\ UNCHANGED << stored, cache, pending, auth, history >>

\* ensurePublicAddress, called by the mining page; one request per coin.
Ensure(c) ==
    /\ isUnlocked
    /\ cache # None
    /\ addresses[c] = None
    /\ \A s \in Active : calls[s].name = "ensure" => calls[s].coin # c
    /\ Starts(calls, [Fresh("ensure", "ensure", cache) EXCEPT !.coin = c, !.valid = TRUE])
    /\ UNCHANGED << stored, cache, pending, auth, history >>

Ensured(s) ==
    /\ At(s, "ensure")
    /\ addresses' = IF calls[s].valid /\ cache = calls[s].phrase
                    THEN [addresses EXCEPT ![calls[s].coin] = cache]
                    ELSE addresses
    /\ calls' = [calls EXCEPT ![s] = None]
    /\ UNCHANGED << meta, cache, pending, auth, history >>

\* refreshPrivacyBalances of the coin store, run while the wallet is unlocked,
\* keeps the address a helper's snapshot came with.  It looks at the stored
\* wallet and the cached phrase (stillSameWallet), not at the revision.
LoadSnapshot(c) ==
    /\ isUnlocked
    /\ cache # None
    /\ \A s \in Active : calls[s].name = "snapshot" => calls[s].coin # c
    /\ Starts(calls, [Fresh("snapshot", "snapshot", cache) EXCEPT !.coin = c, !.scope = meta])
    /\ UNCHANGED << stored, cache, pending, auth, history >>

SnapshotApplied(s) ==
    /\ At(s, "snapshot")
    /\ addresses' = IF meta = calls[s].scope /\ cache = calls[s].phrase
                    THEN [addresses EXCEPT ![calls[s].coin] = cache]
                    ELSE addresses
    /\ calls' = [calls EXCEPT ![s] = None]
    /\ UNCHANGED << meta, cache, pending, auth, history >>

-----------------------------------------------------------------------------
(* Lock, replacement and removal of the wallet.                             *)

\* Mutant of Lock: the auth store forgets the phrase, the service does not.
LockStoreOnly ==
    /\ isUnlocked
    /\ sessionMnemonic' = None
    /\ isUnlocked' = FALSE
    /\ UNCHANGED << stored, cache, pending, generatedSeed, calls, entered >>
    /\ Parts

\* authStore.lock: the buttons of Settings and the auto-lock timer of App.tsx,
\* whatever call of Settings is under way.
Lock ==
    /\ isUnlocked
    /\ cache' = None
    /\ sessionMnemonic' = None
    /\ isUnlocked' = FALSE
    /\ calls' = Bump(calls)
    /\ UNCHANGED << stored, pending, generatedSeed, entered >>
    /\ Parts

\* Mutant of Forget: the service forgets the wallet, the auth store does not.
ForgetServiceOnly ==
    /\ meta' = None /\ addresses' = NoAddresses
    /\ cache' = None /\ pending' = None
    /\ calls' = Bump(calls)
    /\ entered' = {calls[s].phrase : s \in Waited} \ {None}
    /\ UNCHANGED auth
    /\ Parts

\* The service and the auth store forget the wallet: clearWallet and
\* cancelWalletSetup with discardWalletSetup.
Forget ==
    /\ meta' = None /\ addresses' = NoAddresses
    /\ cache' = None /\ pending' = None
    /\ sessionMnemonic' = None /\ isUnlocked' = FALSE /\ generatedSeed' = None
    /\ calls' = Bump(calls)
    /\ entered' = {calls[s].phrase : s \in Waited} \ {None}
    /\ Parts

\* Settings and the unlock page clear the wallet.
ClearWallet == (isUnlocked \/ (meta # None /\ (Left \/ AtEntry))) /\ Forget

\* The pages that show a new phrase, and ask for some of its words.
CancelWalletSetup == generatedSeed # None /\ (Left \/ Quiet) /\ Forget

\* authStore.restoreWallet and createWallet first lock the service and reset
\* the other stores.
Replace(name, phrase) ==
    /\ cache' = None
    /\ sessionMnemonic' = None /\ isUnlocked' = FALSE
    /\ Starts(Bump(calls), Fresh(name, "reset", phrase))
    /\ UNCHANGED << stored, pending, generatedSeed >>
    /\ Parts

\* The restore page stays when an unlock that it was reached from ends.
RestoreWallet(p) ==
    /\ Left \/ AtEntry
    /\ Replace("restore", p)
    /\ entered' = entered \cup {p}

\* A stored wallet does not keep the user from creating another one: the
\* restore page leads back to the welcome page.
CreateWallet ==
    /\ Left \/ (AtEntry /\ ~isUnlocked)
    /\ Replace("create", None)
    /\ UNCHANGED entered

\* The service's own part of both begins with another bump.
ResetDone(s) ==
    /\ At(s, "reset")
    /\ calls' = [Bump(calls) EXCEPT ![s] =
          MovesTo(@, IF @.name = "restore" THEN "validate" ELSE "generate")]
    /\ UNCHANGED << stored, cache, pending, auth, history >>

\* A new phrase: nobody has used it.
Generated(s, p) ==
    /\ At(s, "generate")
    /\ p \notin entered /\ \A t \in Active : calls[t].phrase # p
    /\ cache' = p /\ pending' = p
    /\ generatedSeed' = p /\ isUnlocked' = FALSE
    /\ calls' = [calls EXCEPT ![s] = None]
    /\ entered' = entered \cup {p}
    /\ UNCHANGED << stored, sessionMnemonic, slips >>

Validated(s) ==
    /\ At(s, "validate")
    /\ calls' = [calls EXCEPT ![s] = Reads(@, "derive")]
    /\ UNCHANGED << stored, cache, pending, auth, history >>

\* The user has confirmed the words of a new phrase (ConfirmSeed.tsx).  A setup
\* that an earlier attempt has cleared is taken for a finished one if some
\* wallet is stored: the page goes on to derive the addresses of its phrase.
FinalizeWalletSetup ==
    /\ generatedSeed # None /\ (Left \/ Quiet)
    /\ sessionMnemonic' = generatedSeed
    /\ LET call(point) == Fresh("finalize", point, generatedSeed)
       IN \/ /\ pending = generatedSeed
             /\ Starts(calls, call("secret"))
             /\ UNCHANGED << cache, slips >>
          \/ /\ pending = None /\ meta # None
             /\ cache' = generatedSeed
             /\ Starts(calls, Reads(call("derive"), "derive"))
             /\ slips' = slips \cup (IF meta = generatedSeed THEN {} ELSE {"unsaved"})
          \/ /\ pending # generatedSeed /\ (pending # None \/ meta = None)
             /\ UNCHANGED << cache, calls, slips >>
    /\ UNCHANGED << stored, pending, isUnlocked, generatedSeed, entered >>

\* buildWalletMeta has encrypted the phrase, and the wallet is stored, if the
\* setup is still the pending one.
SecretStored(s) ==
    /\ At(s, "secret")
    /\ calls[s].name = "finalize" => pending = calls[s].phrase
    /\ meta' = calls[s].phrase
    /\ \/ /\ calls[s].name = "restore"
          /\ cache' = meta'
          /\ calls' = [Bump(calls) EXCEPT ![s] = MovesTo(@, "settle")]
          /\ UNCHANGED pending
       \/ /\ calls[s].name = "finalize"
          /\ cache' = meta'
          /\ pending' = None
          /\ calls' = [Bump(calls) EXCEPT ![s] = Reads(@, "derive")]
       \/ /\ calls[s].name = "change"
          /\ calls' = [calls EXCEPT ![s] = [Reads(@, "derive") EXCEPT !.name = "resave"]]
          /\ UNCHANGED << cache, pending >>
    /\ UNCHANGED << addresses, auth, history >>

\* It could not, or the setup was cancelled.
SecretFailed(s) ==
    /\ At(s, "secret")
    /\ pending' = IF calls[s].name = "finalize" /\ pending = calls[s].phrase THEN None ELSE pending
    /\ calls' = [calls EXCEPT ![s] = None]
    /\ UNCHANGED << stored, cache, auth, history >>

\* The seed page of Settings: getSeedPhrase.
Reveal ==
    /\ isUnlocked /\ meta # None
    /\ Starts(calls, Fresh("reveal", "decrypt", meta))
    /\ UNCHANGED << stored, cache, pending, auth, history >>

\* getMnemonic has decrypted the stored phrase.  changePassword asks for it
\* again after the password was verified.
Decrypted(s) ==
    /\ At(s, "decrypt") /\ calls[s].phrase # None
    /\ \/ /\ calls[s].name = "reveal"
          /\ cache' = calls[s].phrase
          /\ calls' = [calls EXCEPT ![s] = None]
       \/ /\ calls[s].name = "change"
          /\ calls' = [calls EXCEPT ![s] = MovesTo(@, "secret")]
          /\ UNCHANGED cache
    /\ UNCHANGED << stored, pending, auth, history >>

\* A wrong password, an invalid phrase, a helper, an address or a balance that
\* fails.  The page of a new wallet does not come back from the last.
Fails(s) ==
    /\ calls[s] # None
    /\ \/ /\ \/ calls[s].at \in {"verify", "reset", "validate", "generate", "decrypt",
                               "ensure", "snapshot"}
             \/ calls[s].at = "settle" /\ calls[s].name = "finalize"
          /\ UNCHANGED slips
       \/ /\ calls[s].at \in {"settle", "load"} /\ calls[s].name # "finalize"
          /\ slips' = slips \cup {"abandoned"}
    /\ Ends(s)

\* The app ends and starts again: what is not in storage is gone.
Restart ==
    /\ cache' = None /\ pending' = None
    /\ sessionMnemonic' = None /\ isUnlocked' = FALSE /\ generatedSeed' = None
    /\ calls' = [s \in Slots |-> None]
    /\ slips' = {}
    /\ UNCHANGED << stored, entered >>

Resume(s) ==
    \/ Verified(s) \/ Derived(s) \/ Settled(s) \/ Recalled(s) \/ Loaded(s)
    \/ PrivacyRefreshed(s) \/ RetryDue(s) \/ Ensured(s) \/ SnapshotApplied(s)
    \/ ResetDone(s) \/ Validated(s) \/ SecretStored(s) \/ SecretFailed(s)
    \/ Decrypted(s) \/ Fails(s)
    \/ \E p \in Phrases : Generated(s, p)

Next ==
    \/ Unlock \/ Lock \/ ClearWallet \/ CancelWalletSetup
    \/ CreateWallet \/ FinalizeWalletSetup \/ Reveal \/ Restart
    \/ \E p \in Phrases : RestoreWallet(p)
    \/ \E c \in Coins : Ensure(c)
    \/ \E c \in Privacy : LoadSnapshot(c)
    \/ \E s \in Slots : Resume(s)

Spec == Init /\ [][Next]_vars

-----------------------------------------------------------------------------
(* An unlocked wallet is the stored one, and both copies of its phrase are  *)
(* there: authStore.ts reads them as one when it signs and loads, whatever  *)
(* was unlocked, restored, cleared or revealed before, and with any calls   *)
(* of Settings under way at once.  Promised unless the wallet was locked,   *)
(* cleared or replaced during a page's call, or was opened without being    *)
(* stored; and again from the next lock, clear or replacement that finds no *)
(* such call.                                                               *)
UnlockedHasPhrase ==
    slips \cap {"overtaken", "unsaved"} = {} =>
        (isUnlocked => meta # None /\ cache = meta /\ sessionMnemonic = meta)

(* A locked wallet's phrase is nowhere in memory once the calls a page      *)
(* waits for have returned: lock and the failure paths of unlock, restore   *)
(* and create leave none behind, though jobs of the session still run.      *)
(* Promised unless the lock found a page's call under way, or a login       *)
(* failed after it had cached the phrase.  (While the user is shown a new   *)
(* phrase it is of course there.)                                           *)
LockForgets ==
    slips = {} /\ ~isUnlocked /\ Quiet /\ generatedSeed = None =>
        cache = None /\ sessionMnemonic = None

(* After clearWallet or discardWalletSetup no job that was under way, no    *)
(* refresh, retry, derivation or snapshot, puts a phrase or an address of   *)
(* the removed wallet into the emptied storage or the next wallet's.  What  *)
(* does come back is the phrase of a call that a page was waiting for when  *)
(* the wallet was removed, an unlock for instance, and no other: whatever   *)
(* was locked, cleared or replaced during whatever calls.                   *)
NothingOfClearedWallet ==
    {meta, cache, pending, sessionMnemonic} \cup {addresses[c] : c \in Coins}
        \subseteq OrNone(entered)
=============================================================================
