-------------------------- MODULE TransactionStore --------------------------
(***************************************************************************)
(* src/store/transactionStore.ts with the reservations of coinStore.ts:    *)
(* sending the UTXO coin of one wallet, while history loads rewrite the    *)
(* list of transactions the send relies on.                                *)
(*                                                                         *)
(* A send passes its guards, takes the module's lock, reads the chain and  *)
(* signs, RECORDS the signed transaction (memory, storage and a            *)
(* reservation), and only then broadcasts it.  The recorded row is what    *)
(* keeps the next send from its inputs, or from starting at all while the  *)
(* outcome of a broadcast is unknown.  Everything between two awaits is    *)
(* one step.                                                               *)
(*                                                                         *)
(* A call of sendTransaction is named by the transaction it would sign.    *)
(***************************************************************************)
EXTENDS Integers

CONSTANTS
    Txs,            \* outgoing transactions: the sends the user makes
    Incoming,       \* incoming transactions of the wallet, all on chain
    Known,          \* those in the stored history at the start
    Unsteady,       \* those a history server may stop reporting
    Outpoints,      \* the coin's unspent outputs
    HistoryLoads,   \* concurrent loadTransactions calls
    ZanoMerges,     \* concurrent mergePrivacyTransactions calls for Zano
    BalanceRefresh, \* loads may refresh balances before they commit
    SameTick,       \* two callers may call sendTransaction in one event
    MaxRestarts     \* bound on restarts of the app

Readers == HistoryLoads \cup ZanoMerges

ASSUME StoreConstants ==
    /\ Txs \cap Incoming = {}
    /\ Known \subseteq Incoming
    /\ Unsteady \subseteq Incoming
    /\ HistoryLoads \cap ZanoMerges = {}
    /\ BalanceRefresh \in BOOLEAN
    /\ SameTick \in BOOLEAN
    /\ MaxRestarts \in Nat

VARIABLES
    pc,        \* how far each send has come
    busy,      \* sendInFlight
    cooling,   \* lastSentAt is less than SEND_COOLDOWN_MS ago
    excluded,  \* the excludeOutpoints a send was given
    inputs,    \* the outpoints a signed transaction spends
    age,       \* time since a row was created, in the store's grace periods
    issued,    \* the transactions whose broadcast request was made
    net,       \* what the coin's network has of each transaction
    mem,       \* the store's transactions
    disk,      \* the transactions in storage
    reserved,  \* pending outgoing reservations, in the coin store and in storage
    snapshot,  \* the reservations a send has read and will write back
    rpc,       \* how far each history load has come
    prev,      \* the prevTransactions a load has read
    merged,    \* the list a load is about to commit
    restarts

vars == << pc, busy, cooling, excluded, inputs, age, issued, net, mem, disk,
           reserved, snapshot, rpc, prev, merged, restarts >>

sendVars == << pc, busy, cooling, excluded, inputs, issued, snapshot >>
rowVars  == << mem, disk, reserved >>
loadVars == << rpc, prev, merged >>

\* LOCAL_PENDING_GRACE_MS, SPENT_OUTPOINT_LOCK_MS = ORPHAN_RESERVATION_TTL_MS and
\* LONG_LOCAL_PENDING_GRACE_MS are over at these ages.
TenMinutes == 1
OneDay     == 2
SevenDays  == 3

Row == [status : {"pending", "confirmed", "failed"},
        uncertain : BOOLEAN,    \* broadcastUncertain
        evidence : BOOLEAN]     \* spentOutpoints are recorded

Rows == UNION { [D -> Row] : D \in SUBSET (Txs \cup Incoming) }

NoRows == [t \in {} |-> [status |-> "pending", uncertain |-> FALSE, evidence |-> FALSE]]

TypeOK ==
    /\ pc \in [Txs -> {"new", "called", "locked", "signing", "reserving", "recorded",
                       "broadcasting", "restoring", "sent", "uncertain", "rejected",
                       "failed", "cut"}]
    /\ busy \in BOOLEAN
    /\ cooling \in BOOLEAN
    /\ excluded \in [Txs -> SUBSET Outpoints]
    /\ inputs \in [Txs -> SUBSET Outpoints]
    /\ age \in [Txs -> 0 .. SevenDays]
    /\ issued \subseteq Txs
    /\ net \in [Txs -> {"none", "mempool", "block"}]
    /\ mem \in Rows
    /\ disk \in Rows
    /\ reserved \subseteq Txs
    /\ snapshot \in [Txs -> SUBSET Txs]
    /\ rpc \in [Readers -> {"idle", "reading", "refreshing"}]
    /\ prev \in [Readers -> Rows]
    /\ merged \in [Readers -> Rows]
    /\ restarts \in 0 .. MaxRestarts

ReceivedRow == [status |-> "confirmed", uncertain |-> FALSE, evidence |-> FALSE]

Init ==
    /\ pc = [t \in Txs |-> "new"]
    /\ busy = FALSE
    /\ cooling = FALSE
    /\ excluded = [t \in Txs |-> {}]
    /\ inputs = [t \in Txs |-> {}]
    /\ age = [t \in Txs |-> 0]
    /\ issued = {}
    /\ net = [t \in Txs |-> "none"]
    /\ mem = [i \in Known |-> ReceivedRow]
    /\ disk = [i \in Known |-> ReceivedRow]
    /\ reserved = {}
    /\ snapshot = [t \in Txs |-> {}]
    /\ rpc = [r \in Readers |-> "idle"]
    /\ prev = [r \in Readers |-> NoRows]
    /\ merged = [r \in Readers |-> NoRows]
    /\ restarts = 0

-----------------------------------------------------------------------------
(* What the rows say *)

With(rows, t, row) == [x \in DOMAIN rows \cup {t} |-> IF x = t THEN row ELSE rows[x]]
Without(rows, t)   == [x \in DOMAIN rows \ {t} |-> rows[x]]

\* Mutant: every pending row is taken for a send.
PendingRows(rows) == { t \in DOMAIN rows : rows[t].status = "pending" }
PendingSends(rows) == { t \in Txs \cap DOMAIN rows : rows[t].status = "pending" }

\* pendingOutgoingBlocksSend
\* Mutant: an uncertain broadcast blocks no longer than any other.
BlocksSendBriefly(t) == t \in PendingSends(mem) /\ age[t] < TenMinutes
BlocksSend(t) ==
    /\ t \in PendingSends(mem)
    /\ age[t] < (IF mem[t].uncertain THEN SevenDays ELSE TenMinutes)

\* activeSpentOutpointsForCoin
\* Mutant: outpoints are free again when the row no longer blocks a send.
SpentByBlocking == UNION { inputs[t] : t \in { u \in Txs : BlocksSend(u) /\ mem[u].evidence } }
ActiveSpentOutpoints ==
    UNION { inputs[t] : t \in { u \in Txs \cap DOMAIN mem :
        /\ mem[u].evidence
        /\ mem[u].status # "failed"
        /\ age[u] < (IF mem[u].uncertain THEN SevenDays ELSE OneDay) } }

\* readStoredTransactions: the rows and the reservations, with rows that were
\* once marked failed in spite of their evidence repaired.
Stored ==
    [x \in DOMAIN disk \cup reserved |->
        IF x \notin DOMAIN disk
        THEN [status |-> "pending", uncertain |-> FALSE, evidence |-> TRUE]
        ELSE LET evident == disk[x].evidence \/ x \in reserved
             IN  [disk[x] EXCEPT !.evidence = evident,
                                 !.status = IF @ = "failed" /\ evident THEN "pending" ELSE @]]

-----------------------------------------------------------------------------
(* sendTransaction *)

InFlight ==
    { t \in Txs : pc[t] \in {"locked", "signing", "reserving", "recorded", "broadcasting",
                             "restoring"} }

\* The rollback of a refused transaction is done, or all but the balance.
Refused == { t \in Txs : pc[t] \in {"restoring", "rejected"} }

\* getCoinById answers from a cache, so its callers go on before the next event.
NewEvent == \A t \in Txs : pc[t] # "called"

\* The call, up to its first await.  Another caller has its turn before the
\* first one goes on only if both were called by the same event.
Call(t) ==
    /\ pc[t] = "new"
    /\ ~busy
    /\ SameTick \/ NewEvent
    /\ pc' = [pc EXCEPT ![t] = "called"]
    /\ UNCHANGED << busy, cooling, excluded, inputs, age, issued, snapshot, net, rowVars,
                    loadVars, restarts >>

\* After coinService.getCoinById: the pending and cool-down checks, the lock.
TakeLock(t) ==
    /\ pc[t] = "called"
    /\ IF cooling \/ \E u \in Txs : BlocksSend(u)
       THEN pc' = [pc EXCEPT ![t] = "failed"] /\ UNCHANGED busy
       ELSE pc' = [pc EXCEPT ![t] = "locked"] /\ busy' = TRUE
    /\ UNCHANGED << cooling, excluded, inputs, age, issued, snapshot, net, rowVars, loadVars, restarts >>

\* coinTxService.send is called with the outpoints that are locked now.
ExcludeOutpoints(t) ==
    /\ NewEvent
    /\ pc[t] = "locked"
    /\ pc' = [pc EXCEPT ![t] = "signing"]
    /\ excluded' = [excluded EXCEPT ![t] = ActiveSpentOutpoints]
    /\ UNCHANGED << busy, cooling, inputs, age, issued, snapshot, net, rowVars, loadVars, restarts >>

\* Mutant: the flag is reset where a send ends well, not in a finally block.
FailsLocked(t) ==
    /\ NewEvent
    /\ pc[t] \in {"locked", "signing"}
    /\ pc' = [pc EXCEPT ![t] = "failed"]
    /\ UNCHANGED << busy, cooling, excluded, inputs, age, issued, snapshot, net, rowVars, loadVars, restarts >>
\* No address, no outputs, a fee above what was approved, no signature...
Fails(t) ==
    /\ NewEvent
    /\ pc[t] \in {"locked", "signing"}
    /\ pc' = [pc EXCEPT ![t] = "failed"]
    /\ busy' = FALSE
    /\ UNCHANGED << cooling, excluded, inputs, age, issued, snapshot, net, rowVars, loadVars, restarts >>

\* Mutant: the signed transaction is broadcast first and recorded afterwards.
PrepareUnrecorded(t) ==
    /\ NewEvent
    /\ pc[t] = "signing"
    /\ pc' = [pc EXCEPT ![t] = "recorded"]
    /\ \E chosen \in (SUBSET (Outpoints \ excluded[t])) \ {{}} :
          inputs' = [inputs EXCEPT ![t] = chosen]
    /\ UNCHANGED << busy, cooling, excluded, age, issued, snapshot, net, rowVars,
                    loadVars, restarts >>
\* The inputs are chosen, the transaction signed, and onPrepared records it in
\* memory and in storage.  applyTransactionBalanceDelta reads the reservations.
Prepare(t) ==
    /\ NewEvent
    /\ pc[t] = "signing"
    /\ pc' = [pc EXCEPT ![t] = "reserving"]
    /\ \E chosen \in (SUBSET (Outpoints \ excluded[t])) \ {{}} :
          inputs' = [inputs EXCEPT ![t] = chosen]
    /\ mem' = With(mem, t, [status |-> "pending", uncertain |-> FALSE, evidence |-> TRUE])
    /\ disk' = mem'
    /\ snapshot' = [snapshot EXCEPT ![t] = reserved]
    /\ UNCHANGED << busy, cooling, excluded, age, issued, net, reserved, loadVars, restarts >>

\* It writes them back, with one more, when it knows whose address the coins go to.
Reserve(t) ==
    /\ NewEvent
    /\ pc[t] = "reserving"
    /\ pc' = [pc EXCEPT ![t] = "recorded"]
    /\ reserved' = snapshot[t] \cup {t}
    /\ snapshot' = [snapshot EXCEPT ![t] = {}]
    /\ UNCHANGED << busy, cooling, excluded, inputs, age, issued, net, mem, disk,
                    loadVars, restarts >>

Broadcast(t) ==
    /\ NewEvent
    /\ pc[t] = "recorded"
    /\ pc' = [pc EXCEPT ![t] = "broadcasting"]
    /\ issued' = issued \cup {t}
    /\ UNCHANGED << busy, cooling, excluded, inputs, snapshot, age, net, rowVars, loadVars, restarts >>

\* The end of a send that left its row behind; lastSentAt is now.
Finish(t, end, uncertain) ==
    /\ pc' = [pc EXCEPT ![t] = end]
    /\ busy' = FALSE
    /\ cooling' = TRUE
    /\ mem' = With(mem, t, [status |-> "pending", uncertain |-> uncertain, evidence |-> TRUE])
    /\ disk' = mem'
    /\ UNCHANGED << excluded, inputs, age, issued, snapshot, net, loadVars, restarts >>

\* The gateway took it, or knows it already.  The delta is applied once more
\* when it changed no balance before.
Accepted(t) ==
    /\ NewEvent
    /\ pc[t] = "broadcasting"
    /\ net[t] # "none"
    /\ Finish(t, "sent", FALSE)
    /\ \/ UNCHANGED reserved
       \/ reserved' = reserved \cup {t}

\* A transport error or an answer that proves nothing: UtxoBroadcastError.uncertain.
Uncertain(t) ==
    /\ NewEvent
    /\ pc[t] = "broadcasting"
    /\ Finish(t, "uncertain", TRUE)
    /\ UNCHANGED reserved

\* Mutant: the reservation is not released.
RollbackRow(t) ==
    /\ mem' = Without(mem, t)
    /\ disk' = mem'
    /\ UNCHANGED reserved
\* The rollback of a send that was refused: reservation, row, storage.
Rollback(t) ==
    /\ reserved' = reserved \ {t}
    /\ mem' = Without(mem, t)
    /\ disk' = mem'

\* applyTransactionBalanceDelta gives up before it writes the reservation: the
\* transaction was recorded and is never broadcast.
ReserveFails(t) ==
    /\ NewEvent
    /\ pc[t] = "reserving"
    /\ pc' = [pc EXCEPT ![t] = "rejected"]
    /\ busy' = FALSE
    /\ snapshot' = [snapshot EXCEPT ![t] = {}]
    /\ Rollback(t)
    /\ UNCHANGED << cooling, excluded, inputs, age, issued, net, loadVars, restarts >>

\* isDeterministicBroadcastRejection: the network did not take it and will not.
\* A balance that was changed is restored before the lock is released.
Rejected(t) ==
    /\ NewEvent
    /\ pc[t] = "broadcasting"
    /\ net[t] = "none"
    /\ \/ pc' = [pc EXCEPT ![t] = "restoring"] /\ UNCHANGED busy
       \/ pc' = [pc EXCEPT ![t] = "rejected"] /\ busy' = FALSE
    /\ Rollback(t)
    /\ UNCHANGED << cooling, excluded, inputs, age, issued, snapshot, net, loadVars, restarts >>

\* restoreCoinBalance has ended.
Restored(t) ==
    /\ NewEvent
    /\ pc[t] = "restoring"
    /\ pc' = [pc EXCEPT ![t] = "rejected"]
    /\ busy' = FALSE
    /\ UNCHANGED << cooling, excluded, inputs, age, issued, snapshot, net, rowVars, loadVars,
                    restarts >>

-----------------------------------------------------------------------------
(* The network, the clock, a restart *)

Conflicts(t, u) == t # u /\ inputs[t] \cap inputs[u] # {}

\* The request reaches a node, maybe after the wallet gave up waiting.  A node
\* takes no transaction that spends what another one spends.
Relay(t) ==
    /\ NewEvent
    /\ t \in issued \ Refused
    /\ net[t] = "none"
    /\ \A u \in Txs : Conflicts(t, u) => net[u] = "none"
    /\ net' = [net EXCEPT ![t] = "mempool"]
    /\ UNCHANGED << sendVars, age, rowVars, loadVars, restarts >>

Mine(t) ==
    /\ NewEvent
    /\ net[t] = "mempool"
    /\ net' = [net EXCEPT ![t] = "block"]
    /\ UNCHANGED << sendVars, age, rowVars, loadVars, restarts >>

CoolDown ==
    /\ NewEvent
    /\ cooling
    /\ cooling' = FALSE
    /\ UNCHANGED << pc, busy, excluded, inputs, age, issued, snapshot, net, rowVars, loadVars, restarts >>

\* A grace period goes by, which is longer than any request.
TimePasses ==
    /\ NewEvent
    /\ InFlight = {}
    /\ \A r \in Readers : rpc[r] = "idle"
    /\ \E t \in Txs : inputs[t] # {} /\ age[t] < SevenDays
    /\ age' = [t \in Txs |-> IF inputs[t] # {} /\ age[t] < SevenDays THEN age[t] + 1 ELSE age[t]]
    /\ cooling' = FALSE
    /\ UNCHANGED << pc, busy, excluded, inputs, issued, snapshot, net, rowVars, loadVars, restarts >>

\* The app ends, at any point, and starts again from storage.
Restart ==
    /\ NewEvent
    /\ restarts < MaxRestarts
    /\ restarts' = restarts + 1
    /\ pc' = [t \in Txs |-> IF t \in Refused THEN "rejected"
                           ELSE IF t \in InFlight THEN "cut" ELSE pc[t]]
    /\ busy' = FALSE
    /\ cooling' = FALSE
    /\ mem' = Stored
    /\ rpc' = [r \in Readers |-> "idle"]
    /\ prev' = [r \in Readers |-> NoRows]
    /\ merged' = [r \in Readers |-> NoRows]
    /\ UNCHANGED << excluded, inputs, age, issued, net, disk, reserved, snapshot >>

-----------------------------------------------------------------------------
(* History loads *)

\* prevTransactions
StartLoad(r) ==
    /\ NewEvent
    /\ rpc[r] = "idle"
    /\ rpc' = [rpc EXCEPT ![r] = "reading"]
    /\ prev' = [prev EXCEPT ![r] = IF DOMAIN mem = {} THEN Stored ELSE mem]
    /\ UNCHANGED << sendVars, age, net, rowVars, merged, restarts >>

\* reconcileRemoteTx: the local row's fields survive, the status is the chain's.
Reconciled(t, status, base, before) ==
    LET local == IF t \in DOMAIN base THEN base[t]
                 ELSE IF t \in DOMAIN before THEN before[t]
                 ELSE ReceivedRow
    IN  [status    |-> status,
         uncertain |-> local.uncertain /\ status # "confirmed",
         evidence  |-> local.evidence]

\* isDroppedLocalPending: never with evidence that it was broadcast.
Dropped(t, row) ==
    /\ t \in Txs
    /\ row.status = "pending"
    /\ ~row.evidence
    /\ age[t] >= (IF row.uncertain THEN SevenDays ELSE TenMinutes)

\* mergeRemoteHistory: what the history servers report, some of it `pending`,
\* some of it `confirmed`, over the rows of `base`, of which `gone` are left out.
\* With `prune`, a local row that was dropped is marked failed.
MergeRemoteHistory(base, before, pending, confirmed, gone, prune) ==
    [x \in (DOMAIN base \ gone) \cup pending \cup confirmed |->
        IF x \in confirmed THEN Reconciled(x, "confirmed", base, before)
        ELSE IF x \in pending THEN Reconciled(x, "pending", base, before)
        ELSE IF prune /\ Dropped(x, base[x]) THEN [base[x] EXCEPT !.status = "failed"]
        ELSE base[x]]

\* shouldPruneStaleRemoteHistory, isStaleUnverifiedConfirmedUtxo: rows that may go
\* because the servers did not report them.
Prunable(base, reported) ==
    { x \in DOMAIN base \ reported :
        x \in Unsteady \/ (x \in Txs /\ base[x].status = "confirmed") }

\* syncPendingOutgoingReservations.  (A reservation of a row that was confirmed
\* within the last 90 seconds goes with it; it is not told apart here.)
\* Mutant: the reservations are built anew from the list.
ReservationsOfRows(rows) == reserved' = PendingSends(rows)
SyncReservations(rows) ==
    reserved' = { t \in reserved : age[t] < OneDay } \cup PendingSends(rows)

EndLoad(r) ==
    /\ rpc' = [rpc EXCEPT ![r] = "idle"]
    /\ prev' = [prev EXCEPT ![r] = NoRows]
    /\ merged' = [merged EXCEPT ![r] = NoRows]

Commit(rows) ==
    /\ mem' = rows
    /\ disk' = rows
    /\ SyncReservations(rows)

\* What the history and mempool servers may report: part of what exists, as they
\* lag behind the network, fail, or answer for one page.
Reports == SUBSET ({ t \in Txs : net[t] # "none" } \cup Incoming)

\* The history has arrived.  A load that finds a new incoming transaction may
\* refresh the balances before it commits.
MergeLoad(r) ==
    /\ NewEvent
    /\ rpc[r] = "reading"
    /\ r \in HistoryLoads
    /\ \E reported \in Reports, prune \in BOOLEAN :
       \E confirmed \in SUBSET { t \in reported : t \in Incoming \/ net[t] = "block" } :
         LET base == IF DOMAIN mem = {} THEN prev[r] ELSE mem
         IN  \E gone \in SUBSET (IF prune THEN Prunable(base, reported) ELSE {}) :
               LET rows == MergeRemoteHistory(base, prev[r], reported \ confirmed, confirmed,
                                              gone, prune)
                   found == (Incoming \cap DOMAIN rows) \ DOMAIN prev[r]
               IN  \/ Commit(rows) /\ EndLoad(r)
                   \/ /\ BalanceRefresh /\ found # {}
                      /\ merged' = [merged EXCEPT ![r] = rows]
                      /\ rpc' = [rpc EXCEPT ![r] = "refreshing"]
                      /\ UNCHANGED << rowVars, prev >>
    /\ UNCHANGED << sendVars, age, net, restarts >>

CommitLoad(r) ==
    /\ NewEvent
    /\ rpc[r] = "refreshing"
    /\ Commit(merged[r])
    /\ EndLoad(r)
    /\ UNCHANGED << sendVars, age, net, restarts >>

\* mergePrivacyTransactions asks for the status of pending Zano transactions
\* and then commits what it had read before, if a Zano row has changed.
MergeZano(r) ==
    /\ NewEvent
    /\ rpc[r] = "reading"
    /\ r \in ZanoMerges
    /\ EndLoad(r)
    /\ \/ Commit(prev[r])
       \/ UNCHANGED rowVars
    /\ UNCHANGED << sendVars, age, net, restarts >>

\* loadCoins: reservations of settled rows and of rows a day old go.
PruneReservations ==
    LET pending == PendingSends(disk)
        settled == (Txs \cap DOMAIN disk) \ pending
    IN  /\ NewEvent
        /\ reserved' = { t \in reserved \ settled : age[t] < OneDay } \cup pending
        /\ reserved' # reserved
        /\ UNCHANGED << sendVars, age, net, mem, disk, loadVars, restarts >>

-----------------------------------------------------------------------------
SendStep(t) ==
    \/ ExcludeOutpoints(t)
    \/ Fails(t)
    \/ Prepare(t)
    \/ Reserve(t)
    \/ ReserveFails(t)
    \/ Broadcast(t)
    \/ Accepted(t)
    \/ Uncertain(t)
    \/ Rejected(t)
    \/ Restored(t)

Next ==
    \/ \E t \in Txs : Call(t) \/ TakeLock(t) \/ SendStep(t) \/ Relay(t) \/ Mine(t)
    \/ \E r \in Readers : StartLoad(r) \/ MergeLoad(r) \/ CommitLoad(r) \/ MergeZano(r)
    \/ PruneReservations
    \/ CoolDown
    \/ TimePasses
    \/ Restart

Spec == Init /\ [][Next]_vars

\* Every step of a send ends: the native calls and the gateway requests behind
\* it are bounded by timeouts.
FairSpec == Spec /\ \A t \in Txs : WF_vars(TakeLock(t)) /\ WF_vars(SendStep(t))

-----------------------------------------------------------------------------
(* Properties *)

\* The lock is held exactly while a send is under way: a send that ends releases
\* its own lock and nobody else's.
LockHeld == busy <=> InFlight # {}

\* Two transactions of the last day that were signed and neither refused nor mined
\* spend different outpoints, over restarts, history loads, late and lost answers.
InputsLocked ==
    LET Live == { t \in Txs : /\ inputs[t] # {}
                              /\ t \notin Refused
                              /\ net[t] # "block"
                              /\ age[t] < OneDay }
    IN  \A t, u \in Live : ~Conflicts(t, u)

\* A transaction in the network's mempool is known to the wallet's storage, from
\* its row or its reservation, whatever crashed or was overwritten meanwhile: for
\* a day where loads commit what they merged at once...
Recorded(t) == t \in DOMAIN disk \cup reserved
EvidenceSurvives ==
    \A t \in Txs : net[t] = "mempool" /\ age[t] < OneDay => Recorded(t)

\* ... and for its first grace period where readers commit lists that have become
\* stale while they waited, which drops rows but not reservations.
FreshEvidenceSurvives ==
    \A t \in Txs : net[t] = "mempool" /\ age[t] < TenMinutes => Recorded(t)

\* A refused transaction leaves nothing behind that a later load or restart
\* would bring back as pending.
RejectedLeavesNoTrace ==
    \A t \in Refused : t \notin DOMAIN mem \cup DOMAIN disk \cup reserved

\* "The wallet will monitor transaction ... before allowing another send"
\* (sendTransaction): no send passes the guards within the week after a broadcast
\* whose outcome is unknown, unless the transaction has been mined.
UncertainBlocksSend ==
    [][\A t, u \in Txs :
         pc[t] = "uncertain" /\ age[t] < SevenDays /\ net[t] # "block"
         => ~(pc[u] = "called" /\ pc'[u] = "locked")]_vars

\* The lock is always released.
LockReleased == busy ~> ~busy
=============================================================================
