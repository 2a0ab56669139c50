----------------------- MODULE TransactionStoreProofs -----------------------
(***************************************************************************)
(* What sending a UTXO coin promises, for any number of sends, loads,      *)
(* outputs and restarts.                                                   *)
(*                                                                         *)
(* Three invariants, each resting on the one before.  Alone says that one  *)
(* send is under way at a time, and what every list of rows has in common, *)
(* the outdated ones too; it holds whatever readers commit, as long as two *)
(* callers are never called by one event.  Seen says that the rows of      *)
(* transactions that count are in memory and in storage, and that their    *)
(* inputs differ; it needs readers that commit what they have merged at    *)
(* once (Prompt).  Gone says that a refused send has left nothing; it      *)
(* needs in addition a transaction that stays in the history (Anchors).    *)
(***************************************************************************)
EXTENDS TransactionStore, TLAPS

All == Txs \cup Incoming

\* One send at a time, from the first check to its end.
Exclusive ==
    /\ busy <=> InFlight # {}
    /\ \A t, u \in InFlight : t = u
    /\ \A t, u \in Txs : pc[t] = "called" /\ pc[u] = "called" => t = u
    /\ \A t \in Txs : pc[t] = "called" => ~ busy

\* Only a signed transaction has inputs, and only a broadcast one is in the net.
Signed ==
    \A t \in Txs :
        /\ pc[t] \in {"new", "called", "locked", "signing", "failed"} => inputs[t] = {}
        /\ pc[t] \in {"reserving", "recorded", "broadcasting", "restoring", "sent", "uncertain",
                       "rejected"}
               => inputs[t] # {}
        /\ t \in issued => /\ inputs[t] # {}
                           /\ pc[t] \in {"broadcasting", "restoring", "sent", "uncertain", "rejected", "cut"}
        /\ net[t] # "none" => t \in issued /\ t \notin Refused

\* No list, however old, has a send confirmed that is not in a block, or failed
\* in its first grace period.
TrueRows(rows) ==
    \A t \in Txs \cap DOMAIN rows :
        /\ rows[t].status = "confirmed" => net[t] = "block"
        /\ rows[t].status = "failed" => age[t] >= TenMinutes
AllTrue ==
    /\ TrueRows(mem) /\ TrueRows(disk)
    /\ \A r \in Readers : TrueRows(prev[r]) /\ TrueRows(merged[r])

\* A transaction that may be on its way to the network is reserved in its first
\* grace period, also by what a send will write back.
OnItsWay(t) ==
    /\ t \in issued \/ pc[t] = "recorded"
    /\ t \notin Refused /\ net[t] # "block" /\ age[t] < TenMinutes
FreshReserved ==
    \A t \in Txs : OnItsWay(t) =>
        /\ t \in reserved
        /\ \A u \in Txs : pc[u] = "reserving" => t \in snapshot[u]

Alone == ~ SameTick /\ TypeOK /\ Exclusive /\ Signed /\ AllTrue /\ FreshReserved

USE StoreConstants DEF StoreConstants, Refused

-----------------------------------------------------------------------------
(* Rows.                                                                    *)

LEMMA RowsAre ==
    \A rows : rows \in Rows <=> /\ DOMAIN rows \subseteq All
                                /\ rows \in [DOMAIN rows -> Row]
  BY DEF Rows, All

Adds(rows2, rows, t, row) ==
    /\ rows2 \in Rows
    /\ DOMAIN rows2 = DOMAIN rows \cup {t}
    /\ rows2[t] = row
    /\ \A x \in DOMAIN rows : x # t => rows2[x] = rows[x]

LEMMA WithShape ==
    ASSUME NEW rows \in Rows, NEW t \in All, NEW row \in Row
    PROVE  Adds(With(rows, t, row), rows, t, row)
<1>1. DOMAIN rows \subseteq All /\ rows \in [DOMAIN rows -> Row]
  BY RowsAre
<1>2. /\ DOMAIN With(rows, t, row) = DOMAIN rows \cup {t}
      /\ With(rows, t, row) \in [DOMAIN rows \cup {t} -> Row]
  BY <1>1 DEF With
<1>3. With(rows, t, row) \in Rows
  BY <1>1, <1>2, RowsAre
<1> QED BY <1>2, <1>3 DEF With, Adds

LEMMA WithoutShape ==
    ASSUME NEW rows \in Rows, NEW t
    PROVE  /\ Without(rows, t) \in Rows
           /\ DOMAIN Without(rows, t) = DOMAIN rows \ {t}
           /\ \A x \in DOMAIN rows : x # t => Without(rows, t)[x] = rows[x]
<1>1. DOMAIN rows \subseteq All /\ rows \in [DOMAIN rows -> Row]
  BY RowsAre
<1>2. /\ DOMAIN Without(rows, t) = DOMAIN rows \ {t}
      /\ Without(rows, t) \in [DOMAIN rows \ {t} -> Row]
  BY <1>1 DEF Without
<1>3. Without(rows, t) \in Rows
  BY <1>1, <1>2, RowsAre
<1> QED BY <1>2, <1>3 DEF Without

LEMMA NoRowsShape == NoRows \in Rows /\ DOMAIN NoRows = {}
<1>1. DOMAIN NoRows = {} /\ NoRows \in [{} -> Row]
  BY DEF NoRows
<1> QED BY <1>1, RowsAre

\* What is read from storage: all of it, and a row for each reservation.
LEMMA StoredShape ==
    ASSUME disk \in Rows, reserved \subseteq Txs
    PROVE  /\ Stored \in Rows
           /\ DOMAIN Stored = DOMAIN disk \cup reserved
           /\ \A x \in DOMAIN Stored \ DOMAIN disk : Stored[x].status = "pending"
           /\ \A x \in DOMAIN disk :
                 /\ Stored[x].status = disk[x].status \/ Stored[x].status = "pending"
                 /\ disk[x].evidence => Stored[x].evidence /\ Stored[x].status # "failed"
                 /\ Stored[x].uncertain = disk[x].uncertain
<1>1. DOMAIN disk \subseteq All /\ \A x \in DOMAIN disk : disk[x] \in Row
  BY RowsAre
<1> DEFINE evident(x) == disk[x].evidence \/ x \in reserved
           row(x) == IF x \notin DOMAIN disk
                     THEN [status |-> "pending", uncertain |-> FALSE, evidence |-> TRUE]
                     ELSE [disk[x] EXCEPT !.evidence = evident(x),
                                          !.status = IF @ = "failed" /\ evident(x) THEN "pending"
                                                     ELSE @]
<1>2. Stored = [x \in DOMAIN disk \cup reserved |-> row(x)]
  BY DEF Stored
<1>3. ASSUME NEW x \in DOMAIN disk \cup reserved
      PROVE  /\ row(x) \in Row
             /\ x \notin DOMAIN disk => row(x).status = "pending"
             /\ x \in DOMAIN disk =>
                   /\ row(x).status = disk[x].status \/ row(x).status = "pending"
                   /\ disk[x].evidence => row(x).evidence /\ row(x).status # "failed"
                   /\ row(x).uncertain = disk[x].uncertain
  <2>1. CASE x \notin DOMAIN disk
    BY <2>1 DEF Row
  <2>2. CASE x \in DOMAIN disk
    <3>1. disk[x] \in Row
      BY <1>1, <2>2
    <3>2. evident(x) \in BOOLEAN /\ (disk[x].evidence => evident(x))
      BY <3>1 DEF Row
    <3> HIDE DEF evident
    <3> QED BY <2>2, <3>1, <3>2 DEF Row
  <2> QED BY <2>1, <2>2
<1> HIDE DEF row
<1>4. DOMAIN Stored = DOMAIN disk \cup reserved /\ Stored \in [DOMAIN disk \cup reserved -> Row]
  BY <1>2, <1>3
<1>5. DOMAIN disk \cup reserved \subseteq All
  BY <1>1 DEF All
<1>6. Stored \in Rows
  BY <1>4, <1>5, RowsAre
<1> QED BY <1>2, <1>3, <1>4, <1>6

\* What a load makes of the rows it has and of what the servers report.
Merges(rows, base, pending, confirmed, gone) ==
    /\ rows \in Rows
    /\ DOMAIN rows = (DOMAIN base \ gone) \cup pending \cup confirmed
    /\ \A x \in DOMAIN rows :
          /\ rows[x].status = "confirmed" =>
                 x \in confirmed \/ (x \in DOMAIN base /\ base[x].status = "confirmed")
          /\ rows[x].status = "failed" =>
                 x \in DOMAIN base /\ (base[x].status = "failed" \/ Dropped(x, base[x]))
          /\ x \in DOMAIN base \ confirmed /\ base[x].evidence =>
                 /\ rows[x].evidence
                 /\ base[x].uncertain => rows[x].uncertain
                 /\ base[x].status # "failed" => rows[x].status # "failed"

LEMMA MergeShape ==
    ASSUME NEW base \in Rows, NEW before \in Rows, NEW pending \in SUBSET All,
           NEW confirmed \in SUBSET All, NEW gone, NEW prune
    PROVE  Merges(MergeRemoteHistory(base, before, pending, confirmed, gone, prune),
                  base, pending, confirmed, gone)
<1>1. /\ DOMAIN base \subseteq All /\ \A x \in DOMAIN base : base[x] \in Row
      /\ DOMAIN before \subseteq All /\ \A x \in DOMAIN before : before[x] \in Row
  BY RowsAre
<1> DEFINE row(x) ==
        IF x \in confirmed THEN Reconciled(x, "confirmed", base, before)
        ELSE IF x \in pending THEN Reconciled(x, "pending", base, before)
        ELSE IF prune /\ Dropped(x, base[x]) THEN [base[x] EXCEPT !.status = "failed"]
        ELSE base[x]
           D == (DOMAIN base \ gone) \cup pending \cup confirmed
           rows == MergeRemoteHistory(base, before, pending, confirmed, gone, prune)
<1>2. rows = [x \in D |-> row(x)]
  BY DEF MergeRemoteHistory
<1>3. ASSUME NEW x, NEW status \in {"pending", "confirmed", "failed"}
      PROVE  /\ Reconciled(x, status, base, before) \in Row
             /\ Reconciled(x, status, base, before).status = status
             /\ x \in DOMAIN base =>
                   /\ base[x].evidence => Reconciled(x, status, base, before).evidence
                   /\ base[x].uncertain /\ status # "confirmed"
                          => Reconciled(x, status, base, before).uncertain
  <2> DEFINE local == IF x \in DOMAIN base THEN base[x]
                      ELSE IF x \in DOMAIN before THEN before[x]
                      ELSE ReceivedRow
             row1 == [status |-> status,
                      uncertain |-> local.uncertain /\ status # "confirmed",
                      evidence |-> local.evidence]
  <2>1. local \in Row
    BY <1>1 DEF Row, ReceivedRow
  <2>2. Reconciled(x, status, base, before) = row1
    BY DEF Reconciled
  <2>3. (local.uncertain /\ status # "confirmed") \in BOOLEAN /\ local.evidence \in BOOLEAN
    BY <2>1 DEF Row
  <2>4. x \in DOMAIN base => local = base[x]
    OBVIOUS
  <2> HIDE DEF local
  <2>5. row1 \in Row
    BY <2>3 DEF Row
  <2>6. /\ row1.status = status /\ row1.evidence = local.evidence
        /\ local.uncertain /\ status # "confirmed" => row1.uncertain
    OBVIOUS
  <2> HIDE DEF row1
  <2> QED BY <2>2, <2>4, <2>5, <2>6
<1>4. ASSUME NEW x \in D
      PROVE  /\ row(x) \in Row
             /\ row(x).status = "confirmed" =>
                    x \in confirmed \/ (x \in DOMAIN base /\ base[x].status = "confirmed")
             /\ row(x).status = "failed" =>
                    x \in DOMAIN base /\ (base[x].status = "failed" \/ Dropped(x, base[x]))
             /\ x \in DOMAIN base \ confirmed /\ base[x].evidence =>
                    /\ row(x).evidence
                    /\ base[x].uncertain => row(x).uncertain
                    /\ base[x].status # "failed" => row(x).status # "failed"
  <2>1. CASE x \in confirmed
    BY <1>3, <2>1
  <2>2. CASE x \notin confirmed /\ x \in pending
    BY <1>3, <2>2
  <2>3. CASE x \notin confirmed /\ x \notin pending
    <3>1. x \in DOMAIN base /\ base[x] \in Row
      BY <1>1, <2>3
    <3>2. base[x].evidence => ~ Dropped(x, base[x])
      BY DEF Dropped
    <3>3. \/ row(x) = [base[x] EXCEPT !.status = "failed"] /\ Dropped(x, base[x])
          \/ row(x) = base[x]
      BY <2>3
    <3> HIDE DEF row
    <3> QED BY <3>1, <3>2, <3>3 DEF Row
  <2> QED BY <2>1, <2>2, <2>3
<1>5. D \subseteq All
  BY <1>1
<1> HIDE DEF row, D
<1>6. DOMAIN rows = D /\ rows \in [D -> Row]
  BY <1>2, <1>4
<1>7. rows \in Rows
  BY <1>5, <1>6, RowsAre
<1>9. Merges(rows, base, pending, confirmed, gone)
  BY <1>4, <1>6, <1>7, <1>2 DEF Merges, D
<1> QED BY <1>9 DEF rows

-----------------------------------------------------------------------------
(* Alone is invariant.                                                      *)

\* What each row of a signed send says.
LEMMA SentRow == \A b \in BOOLEAN : [status |-> "pending", uncertain |-> b, evidence |-> TRUE] \in Row
  BY DEF Row

LEMMA TrueWith ==
    ASSUME NEW rows \in Rows, NEW t \in Txs, NEW b \in BOOLEAN, TrueRows(rows)
    PROVE  LET rows2 == With(rows, t, [status |-> "pending", uncertain |-> b, evidence |-> TRUE])
           IN  rows2 \in Rows /\ TrueRows(rows2)
<1> DEFINE row == [status |-> "pending", uncertain |-> b, evidence |-> TRUE]
<1>1. row \in Row /\ row.status = "pending"
  BY SentRow
<1> HIDE DEF row
<1> DEFINE rows2 == With(rows, t, row)
<1>2. t \in All
  BY DEF All
<1>3. Adds(rows2, rows, t, row)
  BY <1>1, <1>2, WithShape
<1> HIDE DEF rows2
<1>4. rows2 \in Rows /\ TrueRows(rows2)
  BY <1>1, <1>3 DEF TrueRows, Adds
<1> QED BY <1>4 DEF rows2, row

LEMMA TrueWithout ==
    ASSUME NEW rows \in Rows, NEW t, TrueRows(rows)
    PROVE  Without(rows, t) \in Rows /\ TrueRows(Without(rows, t))
<1> DEFINE rows2 == Without(rows, t)
<1>1. /\ rows2 \in Rows /\ DOMAIN rows2 = DOMAIN rows \ {t}
      /\ \A x \in DOMAIN rows : x # t => rows2[x] = rows[x]
  BY WithoutShape
<1> HIDE DEF rows2
<1>2. TrueRows(rows2)
  BY <1>1 DEF TrueRows
<1> QED BY <1>1, <1>2 DEF rows2

LEMMA TrueStored ==
    ASSUME TypeOK, TrueRows(disk)
    PROVE  Stored \in Rows /\ TrueRows(Stored)
<1>1. disk \in Rows /\ reserved \subseteq Txs
  BY DEF TypeOK
<1> QED BY <1>1, StoredShape DEF TrueRows

LEMMA TrueNoRows == NoRows \in Rows /\ TrueRows(NoRows)
  BY NoRowsShape DEF TrueRows

\* What a load commits is no less true than what it has read.
LEMMA TrueMerge ==
    ASSUME TypeOK, AllTrue, NEW r \in Readers, NEW reported \in Reports, NEW prune,
           NEW confirmed \in SUBSET { t \in reported : t \in Incoming \/ net[t] = "block" },
           NEW gone
    PROVE  LET base == IF DOMAIN mem = {} THEN prev[r] ELSE mem
               rows == MergeRemoteHistory(base, prev[r], reported \ confirmed, confirmed,
                                          gone, prune)
           IN  rows \in Rows /\ TrueRows(rows)
<1> DEFINE base == IF DOMAIN mem = {} THEN prev[r] ELSE mem
           before == prev[r]
           pending == reported \ confirmed
           rows == MergeRemoteHistory(base, before, pending, confirmed, gone, prune)
<1>1. base \in Rows /\ before \in Rows /\ TrueRows(base)
  BY DEF TypeOK, AllTrue
<1>2. reported \subseteq All
  BY DEF Reports, All
<1>3. pending \in SUBSET All /\ confirmed \in SUBSET All
  BY <1>2
<1>4. \A t \in Txs \cap confirmed : net[t] = "block"
  OBVIOUS
<1>5. \A t \in Txs : Dropped(t, base[t]) => age[t] >= TenMinutes
  BY DEF Dropped, TypeOK, TenMinutes, SevenDays
<1>6. \A t \in Txs \cap DOMAIN base :
         /\ base[t].status = "confirmed" => net[t] = "block"
         /\ base[t].status = "failed" => age[t] >= TenMinutes
  BY <1>1 DEF TrueRows
<1> HIDE DEF base, before, pending
<1>7. Merges(rows, base, pending, confirmed, gone)
  BY <1>1, <1>3, MergeShape
<1> HIDE DEF rows
<1>8. TrueRows(rows)
  BY <1>4, <1>5, <1>6, <1>7 DEF TrueRows, Merges
<1>9. rows \in Rows
  BY <1>7 DEF Merges
<1> QED BY <1>8, <1>9 DEF rows, base, before, pending

\* A list stays true, as blocks stay and rows grow older.
LEMMA StaysTrue ==
    ASSUME NEW rows, TrueRows(rows),
           \A t \in Txs : net[t] = "block" => net'[t] = "block",
           \A t \in Txs : age[t] >= TenMinutes => age'[t] >= TenMinutes
    PROVE  \A t \in Txs \cap DOMAIN rows :
               /\ rows[t].status = "confirmed" => net'[t] = "block"
               /\ rows[t].status = "failed" => age'[t] >= TenMinutes
  BY DEF TrueRows

\* Types, and what every list has in common, survive each action.
LEMMA TrueStep ==
    ASSUME TypeOK, AllTrue, [Next]_vars
    PROVE  TypeOK' /\ AllTrue'
<1> USE DEF TenMinutes, OneDay, SevenDays
<1>0. ASSUME NEW t \in Txs, Call(t) \/ TakeLock(t) \/ ExcludeOutpoints(t) \/ Fails(t)
                            \/ Reserve(t) \/ Broadcast(t) \/ Restored(t)
      PROVE  TypeOK' /\ AllTrue'
  <2>1. /\ pc[t] \in {"new", "called", "locked", "signing", "reserving", "recorded", "restoring"}
        /\ UNCHANGED << cooling, inputs, age, net, mem, disk, loadVars, restarts >>
    BY <1>0 DEF Call, TakeLock, ExcludeOutpoints, Fails, Reserve, Broadcast, Restored, rowVars
  <2>2. AllTrue'
    BY <2>1 DEF AllTrue, TrueRows, loadVars
  <2>3. ActiveSpentOutpoints \subseteq Outpoints
    BY DEF ActiveSpentOutpoints, TypeOK
  <2>4. /\ pc' \in [Txs -> {"new", "called", "locked", "signing", "reserving", "recorded",
                            "broadcasting", "restoring", "sent", "uncertain", "rejected", "failed", "cut"}]
        /\ busy' \in BOOLEAN
    BY <1>0 DEF Call, TakeLock, ExcludeOutpoints, Fails, Reserve, Broadcast, Restored, TypeOK
  <2>5. excluded' \in [Txs -> SUBSET Outpoints]
    BY <1>0, <2>3 DEF Call, TakeLock, ExcludeOutpoints, Fails, Reserve, Broadcast, Restored, TypeOK
  <2>6. /\ issued' \subseteq Txs /\ reserved' \subseteq Txs
        /\ snapshot' \in [Txs -> SUBSET Txs]
    BY <1>0 DEF Call, TakeLock, ExcludeOutpoints, Fails, Reserve, Broadcast, Restored, TypeOK, rowVars
  <2> QED BY <2>1, <2>2, <2>4, <2>5, <2>6 DEF TypeOK, loadVars
<1>1. ASSUME NEW t \in Txs, NEW b \in BOOLEAN,
             mem' = With(mem, t, [status |-> "pending", uncertain |-> b, evidence |-> TRUE]),
             disk' = mem', UNCHANGED << age, net, loadVars >>
      PROVE  mem' \in Rows /\ disk' \in Rows /\ AllTrue'
  <2>1. mem \in Rows /\ TrueRows(mem)
    BY DEF TypeOK, AllTrue
  <2>2. mem' \in Rows /\ TrueRows(mem')
    BY <1>1, <2>1, TrueWith
  <2>3. AllTrue'
    BY <1>1, <2>2 DEF AllTrue, TrueRows, loadVars
  <2> QED BY <1>1, <2>2, <2>3
<1>2. ASSUME NEW t \in Txs, Prepare(t)
      PROVE  TypeOK' /\ AllTrue'
  <2>1. mem' \in Rows /\ disk' \in Rows /\ AllTrue'
    BY <1>1, <1>2 DEF Prepare
  <2>2. inputs' \in [Txs -> SUBSET Outpoints]
    BY <1>2 DEF Prepare, TypeOK
  <2> QED BY <1>2, <2>1, <2>2 DEF Prepare, TypeOK, loadVars
<1>3. ASSUME NEW t \in Txs, Accepted(t) \/ Uncertain(t)
      PROVE  TypeOK' /\ AllTrue'
  <2>1. PICK b \in BOOLEAN, end \in {"sent", "uncertain"} : Finish(t, end, b)
    BY <1>3 DEF Accepted, Uncertain
  <2>2. reserved' \subseteq Txs
    BY <1>3 DEF Accepted, Uncertain, TypeOK
  <2>3. mem' \in Rows /\ disk' \in Rows /\ AllTrue'
    BY <1>1, <2>1 DEF Finish
  <2> QED BY <2>1, <2>2, <2>3 DEF Finish, TypeOK, loadVars
<1>4. ASSUME NEW t \in Txs, ReserveFails(t) \/ Rejected(t)
      PROVE  TypeOK' /\ AllTrue'
  <2>1. mem \in Rows /\ TrueRows(mem)
    BY DEF TypeOK, AllTrue
  <2>2. mem' \in Rows /\ TrueRows(mem') /\ disk' = mem'
    BY <1>4, <2>1, TrueWithout DEF ReserveFails, Rejected, Rollback
  <2>3. AllTrue'
    BY <1>4, <2>2 DEF ReserveFails, Rejected, AllTrue, TrueRows, loadVars
  <2> QED BY <1>4, <2>2, <2>3 DEF ReserveFails, Rejected, Rollback, TypeOK, loadVars
<1>5. ASSUME NEW t \in Txs, Relay(t) \/ Mine(t)
      PROVE  TypeOK' /\ AllTrue'
  <2>1. /\ \A u \in Txs : net[u] = "block" => net'[u] = "block"
        /\ net' \in [Txs -> {"none", "mempool", "block"}]
        /\ UNCHANGED << sendVars, age, rowVars, loadVars, restarts >>
    BY <1>5 DEF Relay, Mine, TypeOK
  <2>2. AllTrue'
    BY <2>1 DEF AllTrue, TrueRows, rowVars, loadVars
  <2> QED BY <2>1, <2>2 DEF TypeOK, sendVars, rowVars, loadVars
<1>6. CASE PruneReservations \/ CoolDown
  <2>1. /\ UNCHANGED << pc, busy, excluded, inputs, age, issued, snapshot, net, mem, disk, loadVars,
                        restarts >>
        /\ cooling' \in BOOLEAN
        /\ reserved' \subseteq Txs
    BY <1>6 DEF PruneReservations, CoolDown, TypeOK, sendVars, rowVars, PendingSends
  <2>2. AllTrue'
    BY <2>1 DEF AllTrue, TrueRows, loadVars
  <2> QED BY <2>1, <2>2 DEF TypeOK, loadVars
<1>7. CASE TimePasses
  <2>1. /\ age' \in [Txs -> 0 .. SevenDays]
        /\ \A t \in Txs : age'[t] >= age[t]
    BY <1>7 DEF TimePasses, TypeOK
  <2>2. \A t \in Txs : age[t] >= TenMinutes => age'[t] >= TenMinutes
    BY <2>1 DEF TypeOK
  <2>3. AllTrue'
    BY <1>7, <2>2 DEF TimePasses, AllTrue, TrueRows, rowVars, loadVars
  <2> QED BY <1>7, <2>1, <2>3 DEF TimePasses, TypeOK, rowVars, loadVars
<1>8. CASE Restart
  <2>1. Stored \in Rows /\ TrueRows(Stored)
    BY TrueStored DEF AllTrue
  <2>2. pc' \in [Txs -> {"new", "called", "locked", "signing", "reserving", "recorded",
                         "broadcasting", "restoring", "sent", "uncertain", "rejected", "failed", "cut"}]
    BY <1>8 DEF Restart, TypeOK
  <2>3. restarts' \in 0 .. MaxRestarts
    BY <1>8 DEF Restart, TypeOK
  <2>4. AllTrue'
    BY <1>8, <2>1, TrueNoRows DEF Restart, AllTrue, TrueRows
  <2> QED BY <1>8, <2>1, <2>2, <2>3, <2>4, TrueNoRows DEF Restart, TypeOK
<1>9. ASSUME NEW r \in Readers, StartLoad(r)
      PROVE  TypeOK' /\ AllTrue'
  <2>1. PICK rows : rows \in Rows /\ TrueRows(rows) /\ prev' = [prev EXCEPT ![r] = rows]
    BY <1>9, TrueStored DEF StartLoad, AllTrue, TypeOK
  <2>2. AllTrue'
    BY <1>9, <2>1 DEF StartLoad, AllTrue, TrueRows, TypeOK, rowVars
  <2> QED BY <1>9, <2>1, <2>2 DEF StartLoad, TypeOK, sendVars, rowVars
<1>10. ASSUME NEW r \in Readers, NEW rows \in Rows, TrueRows(rows), Commit(rows), EndLoad(r),
              UNCHANGED << sendVars, age, net, restarts >>
       PROVE  TypeOK' /\ AllTrue'
  <2>1. reserved' \subseteq Txs
    BY <1>10 DEF Commit, SyncReservations, PendingSends, TypeOK
  <2>2. /\ prev' \in [Readers -> Rows] /\ merged' \in [Readers -> Rows]
        /\ rpc' \in [Readers -> {"idle", "reading", "refreshing"}]
    BY <1>10, TrueNoRows DEF EndLoad, TypeOK
  <2>3. AllTrue'
    BY <1>10, TrueNoRows DEF Commit, EndLoad, AllTrue, TrueRows, TypeOK
  <2> QED BY <1>10, <2>1, <2>2, <2>3 DEF Commit, TypeOK, sendVars
<1>11. ASSUME NEW r \in Readers, MergeLoad(r)
       PROVE  TypeOK' /\ AllTrue'
  <2>1. UNCHANGED << sendVars, age, net, restarts >>
    BY <1>11 DEF MergeLoad
  <2>2. PICK rows \in Rows :
           /\ TrueRows(rows)
           /\ \/ Commit(rows) /\ EndLoad(r)
              \/ /\ merged' = [merged EXCEPT ![r] = rows]
                 /\ rpc' = [rpc EXCEPT ![r] = "refreshing"]
                 /\ UNCHANGED << rowVars, prev >>
    BY <1>11, TrueMerge DEF MergeLoad
  <2>3. CASE Commit(rows) /\ EndLoad(r)
    BY <1>10, <2>1, <2>2, <2>3
  <2>4. CASE /\ merged' = [merged EXCEPT ![r] = rows]
             /\ rpc' = [rpc EXCEPT ![r] = "refreshing"]
             /\ UNCHANGED << rowVars, prev >>
    <3>1. AllTrue'
      BY <2>1, <2>2, <2>4 DEF AllTrue, TrueRows, TypeOK, rowVars
    <3> QED BY <2>1, <2>2, <2>4, <3>1 DEF TypeOK, sendVars, rowVars
  <2> QED BY <2>2, <2>3, <2>4
<1>12. ASSUME NEW r \in Readers, CommitLoad(r)
       PROVE  TypeOK' /\ AllTrue'
  <2>1. merged[r] \in Rows /\ TrueRows(merged[r])
    BY DEF TypeOK, AllTrue
  <2> QED BY <1>10, <1>12, <2>1 DEF CommitLoad
<1>13. ASSUME NEW r \in Readers, MergeZano(r)
       PROVE  TypeOK' /\ AllTrue'
  <2>1. prev[r] \in Rows /\ TrueRows(prev[r])
    BY DEF TypeOK, AllTrue
  <2>2. CASE Commit(prev[r])
    BY <1>10, <1>13, <2>1, <2>2 DEF MergeZano
  <2>3. CASE UNCHANGED rowVars
    <3>1. AllTrue'
      BY <1>13, <2>3, TrueNoRows DEF MergeZano, EndLoad, AllTrue, TrueRows, TypeOK, rowVars
    <3> QED BY <1>13, <2>3, <3>1, TrueNoRows DEF MergeZano, EndLoad, TypeOK, sendVars, rowVars
  <2> QED BY <1>13, <2>2, <2>3 DEF MergeZano
<1>14. CASE UNCHANGED vars
  BY <1>14 DEF vars, TypeOK, AllTrue, TrueRows
<1> QED
  BY <1>0, <1>2, <1>3, <1>4, <1>5, <1>6, <1>7, <1>8, <1>9, <1>11, <1>12, <1>13, <1>14
     DEF Next, SendStep

\* Where no two callers share an event, one send at a time is under way.
LEMMA ExclusiveStep ==
    ASSUME Alone, [Next]_vars
    PROVE  Exclusive'
<1> USE DEF Exclusive, InFlight
<1>0. /\ pc \in [Txs -> {"new", "called", "locked", "signing", "reserving", "recorded",
                         "broadcasting", "restoring", "sent", "uncertain", "rejected", "failed", "cut"}]
      /\ Exclusive /\ ~ SameTick
  BY DEF Alone, TypeOK
<1>1. CASE UNCHANGED << pc, busy >>
  BY <1>0, <1>1
<1>2. ASSUME NEW t \in Txs, Call(t)
      PROVE  Exclusive'
  BY <1>0, <1>2 DEF Call, NewEvent
<1>3. ASSUME NEW t \in Txs, TakeLock(t)
      PROVE  Exclusive'
  <2>1. CASE pc' = [pc EXCEPT ![t] = "failed"] /\ UNCHANGED busy
    BY <1>0, <1>3, <2>1 DEF TakeLock
  <2>2. CASE pc' = [pc EXCEPT ![t] = "locked"] /\ busy' = TRUE
    BY <1>0, <1>3, <2>2 DEF TakeLock
  <2> QED BY <1>3, <2>1, <2>2 DEF TakeLock
<1>4. ASSUME NEW t \in Txs, NewEvent, t \in InFlight, busy' = busy,
             \/ pc' = [pc EXCEPT ![t] = "signing"]
             \/ pc' = [pc EXCEPT ![t] = "reserving"]
             \/ pc' = [pc EXCEPT ![t] = "recorded"]
             \/ pc' = [pc EXCEPT ![t] = "broadcasting"]
             \/ pc' = [pc EXCEPT ![t] = "restoring"]
      PROVE  Exclusive'
  BY <1>0, <1>4 DEF NewEvent
<1>5. ASSUME NEW t \in Txs, NewEvent, t \in InFlight, busy' = FALSE,
             \/ pc' = [pc EXCEPT ![t] = "failed"]
             \/ pc' = [pc EXCEPT ![t] = "sent"]
             \/ pc' = [pc EXCEPT ![t] = "uncertain"]
             \/ pc' = [pc EXCEPT ![t] = "rejected"]
      PROVE  Exclusive'
  BY <1>0, <1>5 DEF NewEvent
<1>6. ASSUME NEW t \in Txs, SendStep(t)
      PROVE  Exclusive'
  <2>1. CASE ExcludeOutpoints(t) \/ Prepare(t) \/ Reserve(t) \/ Broadcast(t)
    BY <1>4, <2>1 DEF ExcludeOutpoints, Prepare, Reserve, Broadcast
  <2>2. CASE Fails(t) \/ ReserveFails(t) \/ Accepted(t) \/ Uncertain(t) \/ Restored(t)
    BY <1>5, <2>2 DEF Fails, ReserveFails, Accepted, Uncertain, Restored, Finish
  <2>3. CASE Rejected(t)
    BY <1>4, <1>5, <2>3 DEF Rejected
  <2> QED BY <1>6, <2>1, <2>2, <2>3 DEF SendStep
<1>7. CASE Restart
  BY <1>0, <1>7 DEF Restart, NewEvent
<1>8. ASSUME NEW t \in Txs, Relay(t) \/ Mine(t)
      PROVE  UNCHANGED << pc, busy >>
  BY <1>8 DEF Relay, Mine, sendVars
<1>9. ASSUME NEW r \in Readers, StartLoad(r) \/ MergeLoad(r) \/ CommitLoad(r) \/ MergeZano(r)
      PROVE  UNCHANGED << pc, busy >>
  BY <1>9 DEF StartLoad, MergeLoad, CommitLoad, MergeZano, sendVars
<1>10. CASE PruneReservations \/ CoolDown \/ TimePasses \/ UNCHANGED vars
  BY <1>1, <1>10 DEF PruneReservations, CoolDown, TimePasses, vars, sendVars
<1> QED BY <1>1, <1>2, <1>3, <1>6, <1>7, <1>8, <1>9, <1>10 DEF Next

\* Inputs are chosen before, and the network asked after, the recording.
LEMMA SignedStep ==
    ASSUME Alone, [Next]_vars
    PROVE  Signed'
<1>0. /\ TypeOK /\ Signed
  BY DEF Alone
<1>1. CASE UNCHANGED << pc, inputs, issued, net >>
  BY <1>0, <1>1 DEF Signed
<1>2. ASSUME NEW t \in Txs, UNCHANGED << inputs, issued, net >>,
             \/ /\ pc[t] \in {"new", "called", "locked", "signing"}
                /\ pc' = [pc EXCEPT ![t] = "called"] \/ pc' = [pc EXCEPT ![t] = "locked"]
                   \/ pc' = [pc EXCEPT ![t] = "signing"] \/ pc' = [pc EXCEPT ![t] = "failed"]
             \/ /\ pc[t] = "reserving"
                /\ pc' = [pc EXCEPT ![t] = "recorded"] \/ pc' = [pc EXCEPT ![t] = "rejected"]
             \/ pc[t] = "restoring" /\ pc' = [pc EXCEPT ![t] = "rejected"]
             \/ /\ pc[t] = "broadcasting"
                /\ \/ pc' = [pc EXCEPT ![t] = "sent"]
                   \/ pc' = [pc EXCEPT ![t] = "uncertain"]
                   \/ /\ net[t] = "none"
                      /\ pc' = [pc EXCEPT ![t] = "restoring"] \/ pc' = [pc EXCEPT ![t] = "rejected"]
      PROVE  Signed'
  BY <1>0, <1>2 DEF Signed, TypeOK
<1>3. ASSUME NEW t \in Txs, Call(t) \/ TakeLock(t) \/ ExcludeOutpoints(t) \/ Fails(t) \/ Reserve(t)
                            \/ ReserveFails(t) \/ Accepted(t) \/ Uncertain(t) \/ Rejected(t)
                            \/ Restored(t)
      PROVE  Signed'
  BY <1>2, <1>3 DEF Call, TakeLock, ExcludeOutpoints, Fails, Reserve, ReserveFails, Accepted,
                    Uncertain, Rejected, Restored, Finish
<1>4. ASSUME NEW t \in Txs, Prepare(t)
      PROVE  Signed'
  <2>1. PICK chosen \in (SUBSET (Outpoints \ excluded[t])) \ {{}} :
            chosen # {} /\ inputs' = [inputs EXCEPT ![t] = chosen]
    BY <1>4 DEF Prepare
  <2>2. /\ pc[t] = "signing" /\ pc' = [pc EXCEPT ![t] = "reserving"]
        /\ UNCHANGED << issued, net >>
    BY <1>4 DEF Prepare
  <2> QED BY <1>0, <2>1, <2>2 DEF Signed, TypeOK
<1>5. ASSUME NEW t \in Txs, Broadcast(t)
      PROVE  Signed'
  BY <1>0, <1>5 DEF Broadcast, Signed, TypeOK
<1>6. ASSUME NEW t \in Txs, Relay(t) \/ Mine(t)
      PROVE  Signed'
  BY <1>0, <1>6 DEF Relay, Mine, Signed, TypeOK, sendVars
<1>7. CASE Restart
  BY <1>0, <1>7 DEF Restart, InFlight, Signed, TypeOK
<1>8. ASSUME NEW r \in Readers, StartLoad(r) \/ MergeLoad(r) \/ CommitLoad(r) \/ MergeZano(r)
      PROVE  UNCHANGED << pc, inputs, issued, net >>
  BY <1>8 DEF StartLoad, MergeLoad, CommitLoad, MergeZano, sendVars
<1>9. CASE PruneReservations \/ CoolDown \/ TimePasses \/ UNCHANGED vars
  BY <1>1, <1>9 DEF PruneReservations, CoolDown, TimePasses, vars, sendVars
<1> QED BY <1>1, <1>3, <1>4, <1>5, <1>6, <1>7, <1>8, <1>9 DEF Next, SendStep

\* A reservation is not given up in the first grace period of a transaction
\* that was not refused.
LEMMA ReservedStep ==
    ASSUME Alone, [Next]_vars
    PROVE  FreshReserved'
<1> USE DEF TenMinutes, OneDay, SevenDays
<1>0. /\ TypeOK /\ Exclusive /\ Signed /\ AllTrue /\ FreshReserved
      /\ \A t, u \in InFlight : t = u
  BY DEF Alone, Exclusive
<1>1. ASSUME \A t \in Txs : OnItsWay(t)' => OnItsWay(t),
             \A t \in Txs : OnItsWay(t) /\ t \in reserved => t \in reserved',
             \A u \in Txs : pc'[u] = "reserving" => pc[u] = "reserving" /\ snapshot'[u] = snapshot[u]
      PROVE  FreshReserved'
  BY <1>0, <1>1 DEF FreshReserved
<1>2. ASSUME NEW t \in Txs, Call(t) \/ TakeLock(t) \/ ExcludeOutpoints(t) \/ Fails(t)
                            \/ Accepted(t) \/ Uncertain(t) \/ Restored(t)
      PROVE  FreshReserved'
  <2>1. /\ UNCHANGED << issued, net, age, snapshot >>
        /\ reserved \subseteq reserved'
    BY <1>2 DEF Call, TakeLock, ExcludeOutpoints, Fails, Accepted, Uncertain, Restored, Finish, rowVars
  <2>2. \A u \in Txs : /\ pc'[u] = "reserving" => pc[u] = "reserving"
                       /\ pc'[u] = "recorded" => pc[u] = "recorded"
                       /\ u \in Refused => u \in Refused'
    BY <1>0, <1>2 DEF Call, TakeLock, ExcludeOutpoints, Fails, Accepted, Uncertain, Restored, Finish, TypeOK
  <2> QED BY <1>1, <2>1, <2>2 DEF OnItsWay
<1>3. ASSUME NEW t \in Txs, Prepare(t)
      PROVE  FreshReserved'
  <2>1. /\ UNCHANGED << issued, net, age, reserved >>
        /\ pc[t] = "signing" /\ pc' = [pc EXCEPT ![t] = "reserving"]
        /\ snapshot' = [snapshot EXCEPT ![t] = reserved]
    BY <1>3 DEF Prepare
  <2>2. \A u \in Txs : OnItsWay(u)' => OnItsWay(u)
    BY <1>0, <2>1 DEF OnItsWay, TypeOK
  <2>3. \A u \in Txs \ {t} : pc'[u] = "reserving" => /\ pc[u] = "reserving"
                                                     /\ snapshot'[u] = snapshot[u]
    BY <1>0, <2>1 DEF TypeOK
  <2>4. snapshot'[t] = reserved
    BY <1>0, <2>1 DEF TypeOK
  <2> QED BY <1>0, <2>1, <2>2, <2>3, <2>4 DEF FreshReserved
<1>4. ASSUME NEW t \in Txs, Reserve(t)
      PROVE  FreshReserved'
  <2>1. /\ UNCHANGED << issued, net, age >>
        /\ pc[t] = "reserving" /\ pc' = [pc EXCEPT ![t] = "recorded"]
        /\ reserved' = snapshot[t] \cup {t}
    BY <1>4 DEF Reserve
  <2>2. \A u \in Txs : pc'[u] # "reserving"
    BY <1>0, <2>1 DEF TypeOK, InFlight
  <2>3. \A u \in Txs : OnItsWay(u)' => u = t \/ OnItsWay(u)
    BY <1>0, <2>1 DEF OnItsWay, TypeOK
  <2> QED BY <1>0, <2>1, <2>2, <2>3 DEF FreshReserved
<1>5. ASSUME NEW t \in Txs, Broadcast(t)
      PROVE  FreshReserved'
  <2>1. /\ UNCHANGED << net, age, snapshot, reserved >>
        /\ pc[t] = "recorded" /\ pc' = [pc EXCEPT ![t] = "broadcasting"]
        /\ issued' = issued \cup {t}
    BY <1>5 DEF Broadcast, rowVars
  <2> QED BY <1>0, <1>1, <2>1 DEF OnItsWay, TypeOK
<1>6. ASSUME NEW t \in Txs, ReserveFails(t) \/ Rejected(t)
      PROVE  FreshReserved'
  <2>1. /\ UNCHANGED << issued, net, age >>
        /\ \A u \in Txs \ {t} : snapshot'[u] = snapshot[u]
        /\ pc' = [pc EXCEPT ![t] = "restoring"] \/ pc' = [pc EXCEPT ![t] = "rejected"]
        /\ reserved' = reserved \ {t}
    BY <1>0, <1>6 DEF ReserveFails, Rejected, Rollback, TypeOK
  <2>2. ~ OnItsWay(t)'
    BY <1>0, <2>1 DEF OnItsWay, TypeOK
  <2>3. \A u \in Txs \ {t} : pc'[u] = pc[u]
    BY <1>0, <2>1 DEF TypeOK
  <2>4. pc'[t] # "reserving"
    BY <1>0, <2>1 DEF TypeOK
  <2> QED BY <1>0, <2>1, <2>2, <2>3, <2>4 DEF FreshReserved, OnItsWay
<1>7. ASSUME NEW t \in Txs, Relay(t) \/ Mine(t)
      PROVE  FreshReserved'
  <2>1. /\ UNCHANGED << pc, issued, age, snapshot, reserved >>
        /\ \A u \in Txs : net[u] = "block" => net'[u] = "block"
    BY <1>0, <1>7 DEF Relay, Mine, TypeOK, sendVars, rowVars
  <2> QED BY <1>1, <2>1 DEF OnItsWay
<1>8. CASE CoolDown \/ UNCHANGED vars
  <2>1. UNCHANGED << pc, issued, net, age, snapshot, reserved >>
    BY <1>8 DEF CoolDown, vars, rowVars
  <2> QED BY <1>1, <2>1 DEF OnItsWay
<1>9. CASE TimePasses
  <2>1. UNCHANGED << pc, issued, net, snapshot, reserved >>
    BY <1>9 DEF TimePasses, rowVars
  <2>2. \A t \in Txs : age'[t] >= age[t] /\ age'[t] \in 0 .. 3
    BY <1>0, <1>9 DEF TimePasses, TypeOK
  <2>3. \A t \in Txs : OnItsWay(t)' => OnItsWay(t)
    BY <1>0, <2>1, <2>2 DEF OnItsWay, TypeOK
  <2> QED BY <1>1, <2>1, <2>3
<1>10. CASE Restart
  <2>1. UNCHANGED << issued, net, age, snapshot, reserved >>
    BY <1>10 DEF Restart
  <2>2. \A u \in Txs : /\ pc'[u] # "reserving" /\ pc'[u] # "recorded"
                       /\ u \in Refused => u \in Refused'
    BY <1>0, <1>10 DEF Restart, TypeOK, InFlight
  <2> QED BY <1>1, <2>1, <2>2 DEF OnItsWay
<1>11. CASE PruneReservations
  <2>1. UNCHANGED << pc, issued, net, age, snapshot >>
    BY <1>11 DEF PruneReservations, sendVars
  <2>2. TrueRows(disk)
    BY <1>0 DEF AllTrue
  <2>3. disk \in Rows
    BY <1>0 DEF TypeOK
  <2>4. \A x \in DOMAIN disk : disk[x].status \in {"pending", "confirmed", "failed"}
    BY <2>3, RowsAre DEF Row
  <2>5. ASSUME NEW t \in Txs, OnItsWay(t), t \in reserved
        PROVE  t \in reserved'
    <3>1. t \in DOMAIN disk => t \in PendingSends(disk)
      BY <1>0, <2>2, <2>4, <2>5 DEF TrueRows, OnItsWay, PendingSends, TypeOK
    <3>2. age[t] < OneDay
      BY <1>0, <2>5 DEF OnItsWay, TypeOK
    <3> QED BY <1>11, <2>5, <3>1, <3>2 DEF PruneReservations
  <2> QED BY <1>1, <2>1, <2>5 DEF OnItsWay
<1>12. ASSUME NEW r \in Readers, StartLoad(r) \/ MergeLoad(r) \/ CommitLoad(r) \/ MergeZano(r)
       PROVE  FreshReserved'
  <2>1. /\ UNCHANGED << pc, issued, net, age, snapshot >>
        /\ UNCHANGED reserved \/ \E rows : SyncReservations(rows)
    BY <1>12 DEF StartLoad, MergeLoad, CommitLoad, MergeZano, sendVars, rowVars, Commit
  <2>2. \A t \in Txs : OnItsWay(t) => age[t] < OneDay
    BY <1>0 DEF OnItsWay, TypeOK
  <2>3. \A t \in Txs : OnItsWay(t) /\ t \in reserved => t \in reserved'
    BY <2>1, <2>2 DEF SyncReservations
  <2> QED BY <1>1, <2>1, <2>3 DEF OnItsWay
<1> QED
  BY <1>2, <1>3, <1>4, <1>5, <1>6, <1>7, <1>8, <1>9, <1>10, <1>11, <1>12 DEF Next, SendStep

LEMMA AloneAtFirst == ~ SameTick /\ Init => Alone
<1> SUFFICES ASSUME ~ SameTick, Init PROVE Alone
  OBVIOUS
<1> DEFINE first == [i \in Known |-> ReceivedRow]
<1>1. Known \subseteq All /\ ReceivedRow \in Row /\ ReceivedRow.status = "confirmed"
  BY DEF All, ReceivedRow, Row
<1>2. DOMAIN first = Known /\ first \in [Known -> Row]
  BY <1>1
<1>3. first \in Rows
  BY <1>1, <1>2, RowsAre
<1>4. Txs \cap Known = {}
  OBVIOUS
<1>5. TrueRows(first)
  BY <1>2, <1>4 DEF TrueRows
<1>6. mem = first /\ disk = first
  BY DEF Init
<1> HIDE DEF first
<1>7. TypeOK
  <2>1. mem \in Rows /\ disk \in Rows
    BY <1>3, <1>6
  <2>2. prev \in [Readers -> Rows] /\ merged \in [Readers -> Rows]
    BY NoRowsShape DEF Init
  <2>3. {} \in SUBSET Outpoints /\ {} \in SUBSET Txs
    OBVIOUS
  <2>4. 0 \in 0 .. SevenDays /\ 0 \in 0 .. MaxRestarts
    BY DEF SevenDays
  <2> QED BY <2>1, <2>2, <2>3, <2>4 DEF Init, TypeOK
<1>8. AllTrue
  BY <1>5, <1>6, TrueNoRows DEF Init, AllTrue
<1>9. Exclusive /\ Signed /\ FreshReserved
  BY DEF Init, Exclusive, InFlight, Signed, FreshReserved, OnItsWay
<1> QED BY <1>7, <1>8, <1>9 DEF Alone

\* Alone holds in every behaviour, where no two callers share an event.
THEOREM OneSendAtATime == ~ SameTick => (Spec => []Alone)
<1>1. Alone /\ [Next]_vars => Alone'
  BY TrueStep, ExclusiveStep, SignedStep, ReservedStep DEF Alone
<1>2. ~ SameTick /\ Init => Alone
  BY AloneAtFirst
<1> QED BY <1>1, <1>2, PTL DEF Spec

-----------------------------------------------------------------------------
(* What Alone says.                                                         *)

\* The store keeps its types, its rows theirs.
THEOREM TypeCorrect == ~ SameTick => (Spec => []TypeOK)
<1>1. Alone => TypeOK
  BY DEF Alone
<1> QED BY <1>1, OneSendAtATime, PTL

\* sendInFlight is set while, and only while, a send is under way.
THEOREM LockIsHeld == ~ SameTick => (Spec => []LockHeld)
<1>1. Alone => LockHeld
  BY DEF Alone, Exclusive, LockHeld
<1> QED BY <1>1, OneSendAtATime, PTL

\* Whatever readers overwrite: the transaction of a send that the network has is
\* in storage for its first grace period.
THEOREM FreshEvidence == ~ SameTick => (Spec => []FreshEvidenceSurvives)
<1>1. ASSUME Alone PROVE FreshEvidenceSurvives
  <2>1. ASSUME NEW t \in Txs, net[t] = "mempool", age[t] < TenMinutes
        PROVE  OnItsWay(t)
    BY <1>1, <2>1 DEF Alone, Signed, OnItsWay
  <2> QED BY <1>1, <2>1 DEF Alone, FreshReserved, FreshEvidenceSurvives, Recorded
<1> QED BY <1>1, OneSendAtATime, PTL

-----------------------------------------------------------------------------
(* What holds where readers commit what they have merged at once.           *)

Prompt == ~ SameTick /\ ~ BalanceRefresh /\ ZanoMerges = {}

\* The transactions the wallet may not lose sight of, and what a list of rows
\* has to say of each.
Must(t) ==
    /\ inputs[t] # {} /\ t \notin Refused /\ net[t] # "block"
    /\ age[t] < OneDay \/ (pc[t] = "uncertain" /\ age[t] < SevenDays)
KeptIn(t, rows) ==
    /\ t \in DOMAIN rows
    /\ rows[t].evidence /\ rows[t].status = "pending"
    /\ pc[t] = "uncertain" => rows[t].uncertain
Kept == \A t \in Txs : Must(t) => KeptIn(t, mem) /\ KeptIn(t, disk)

\* Two transactions of the last day spend different outputs, and one that is
\* being signed was told which ones to leave.
Live(t) ==
    inputs[t] # {} /\ t \notin Refused /\ net[t] # "block" /\ age[t] < OneDay
Apart ==
    \A t \in Txs : Live(t) => \A u \in Txs \ {t} :
        /\ pc[u] = "signing" => inputs[t] \subseteq excluded[u]
        /\ Live(u) => inputs[t] \cap inputs[u] = {}

NoneWaits == \A r \in Readers : rpc[r] # "refreshing"

Seen == Prompt /\ Alone /\ NoneWaits /\ Kept /\ Apart

LEMMA KeptWith ==
    ASSUME NEW rows \in Rows, NEW t \in Txs, NEW b \in BOOLEAN
    PROVE  LET rows2 == With(rows, t, [status |-> "pending", uncertain |-> b, evidence |-> TRUE])
           IN  /\ t \in DOMAIN rows2 /\ rows2[t].evidence /\ rows2[t].status = "pending"
               /\ b => rows2[t].uncertain
               /\ \A u \in DOMAIN rows \ {t} : u \in DOMAIN rows2 /\ rows2[u] = rows[u]
<1> DEFINE row == [status |-> "pending", uncertain |-> b, evidence |-> TRUE]
<1>0. row \in Row /\ row.status = "pending"
  BY SentRow
<1>1. row.evidence /\ (b => row.uncertain)
  OBVIOUS
<1>2. t \in All
  BY DEF All
<1> HIDE DEF row
<1> DEFINE rows2 == With(rows, t, row)
<1>3. Adds(rows2, rows, t, row)
  BY <1>0, <1>2, WithShape
<1> HIDE DEF rows2
<1>4. /\ t \in DOMAIN rows2 /\ rows2[t].evidence /\ rows2[t].status = "pending"
      /\ b => rows2[t].uncertain
      /\ \A u \in DOMAIN rows \ {t} : u \in DOMAIN rows2 /\ rows2[u] = rows[u]
  BY <1>0, <1>1, <1>3 DEF Adds
<1> QED BY <1>4 DEF rows2, row

\* A load keeps the rows that count.
LEMMA KeptMerge ==
    ASSUME Seen, NEW r \in Readers, NEW reported \in Reports, NEW prune,
           NEW confirmed \in SUBSET { t \in reported : t \in Incoming \/ net[t] = "block" },
           NEW gone,
           LET base == IF DOMAIN mem = {} THEN prev[r] ELSE mem
           IN  gone \subseteq Prunable(base, reported),
           NEW t \in Txs, Must(t)
    PROVE  LET base == IF DOMAIN mem = {} THEN prev[r] ELSE mem
           IN  KeptIn(t, MergeRemoteHistory(base, prev[r], reported \ confirmed, confirmed,
                                            gone, prune))
<1>1. TypeOK /\ KeptIn(t, mem)
  BY DEF Seen, Alone, Kept
<1> DEFINE before == prev[r]
           pending == reported \ confirmed
           rows == MergeRemoteHistory(mem, before, pending, confirmed, gone, prune)
<1>2. t \in DOMAIN mem /\ mem[t].evidence /\ mem[t].status = "pending"
      /\ (pc[t] = "uncertain" => mem[t].uncertain)
  BY <1>1 DEF KeptIn
<1>3. t \notin confirmed
  BY DEF Must
<1>4. t \notin gone
  BY <1>2 DEF Prunable
<1>5. reported \subseteq All
  BY DEF Reports, All
<1>6. pending \in SUBSET All /\ confirmed \in SUBSET All /\ mem \in Rows /\ before \in Rows
  BY <1>1, <1>5 DEF TypeOK
<1> HIDE DEF before, pending
<1>7. Merges(rows, mem, pending, confirmed, gone)
  BY <1>6, MergeShape
<1> HIDE DEF rows
<1>8. t \in DOMAIN rows
  BY <1>2, <1>4, <1>7 DEF Merges
<1>9. rows[t].status \in {"pending", "confirmed", "failed"}
  BY <1>7, <1>8, RowsAre DEF Row, Merges
<1>10. KeptIn(t, rows)
  BY <1>2, <1>3, <1>7, <1>8, <1>9 DEF KeptIn, Merges
<1> QED BY <1>2, <1>10 DEF rows, before, pending

\* What steps that write no rows do to a transaction that counts.
SameSends ==
    \A t \in Txs :
        /\ inputs'[t] = inputs[t]
        /\ t \in Refused => t \in Refused'
        /\ pc'[t] = "uncertain" => pc[t] = "uncertain"
        /\ net[t] = "block" => net'[t] = "block"
        /\ age'[t] \in 0 .. SevenDays /\ age'[t] >= age[t]

LEMMA SameMust ==
    ASSUME TypeOK, SameSends, NEW t \in Txs
    PROVE  (Must(t)' => Must(t)) /\ (Live(t)' => Live(t))
<1> USE DEF OneDay, SevenDays
<1>1. age[t] \in 0 .. 3 /\ age'[t] \in 0 .. 3 /\ age'[t] >= age[t]
  BY DEF TypeOK, SameSends
<1>2. (age'[t] < 2 => age[t] < 2) /\ (age'[t] < 3 => age[t] < 3)
  BY <1>1
<1> QED BY <1>2 DEF SameSends, Must, Live

\* A row that counts stays in memory and in storage.
LEMMA KeptStep ==
    ASSUME Seen, [Next]_vars
    PROVE  Kept'
<1>0. /\ TypeOK /\ Signed /\ Kept /\ Prompt /\ NoneWaits
  BY DEF Seen, Alone
<1>1. ASSUME SameSends, UNCHANGED << mem, disk >>
      PROVE  Kept'
  <2>1. ASSUME NEW t \in Txs, Must(t)'
        PROVE  KeptIn(t, mem)' /\ KeptIn(t, disk)'
    <3>1. KeptIn(t, mem) /\ KeptIn(t, disk)
      BY <1>0, <1>1, <2>1, SameMust DEF Kept
    <3> QED BY <1>1, <3>1 DEF KeptIn, SameSends
  <2> QED BY <2>1 DEF Kept
<1>2. ASSUME NEW t \in Txs, Call(t) \/ TakeLock(t) \/ ExcludeOutpoints(t) \/ Fails(t)
                            \/ Reserve(t) \/ Broadcast(t) \/ Restored(t)
      PROVE  Kept'
  <2>1. UNCHANGED << inputs, age, net, mem, disk >>
    BY <1>2 DEF Call, TakeLock, ExcludeOutpoints, Fails, Reserve, Broadcast, Restored, rowVars
  <2>2. \A u \in Txs : /\ u \in Refused => u \in Refused'
                       /\ pc'[u] = "uncertain" => pc[u] = "uncertain"
    BY <1>0, <1>2 DEF Call, TakeLock, ExcludeOutpoints, Fails, Reserve, Broadcast, Restored, TypeOK
  <2>3. \A u \in Txs : age[u] \in 0 .. SevenDays /\ age[u] >= age[u]
    BY <1>0 DEF TypeOK, SevenDays
  <2> QED BY <1>1, <2>1, <2>2, <2>3 DEF SameSends
<1>3. ASSUME NEW t \in Txs, NEW b \in BOOLEAN,
             mem' = With(mem, t, [status |-> "pending", uncertain |-> b, evidence |-> TRUE]),
             disk' = mem', UNCHANGED << age, net >>,
             pc'[t] = "uncertain" => b,
             \A u \in Txs \ {t} : pc'[u] = pc[u] /\ inputs'[u] = inputs[u]
      PROVE  Kept'
  <2>1. mem \in Rows
    BY <1>0 DEF TypeOK
  <2>2. KeptIn(t, mem)'
    BY <1>3, <2>1, KeptWith DEF KeptIn
  <2>3. ASSUME NEW u \in Txs \ {t}, Must(u)'
        PROVE  KeptIn(u, mem)'
    <3>1. KeptIn(u, mem)
      BY <1>0, <1>3, <2>3 DEF Must, Kept
    <3>2. u \in DOMAIN mem' /\ mem'[u] = mem[u]
      BY <1>3, <2>1, <3>1, KeptWith DEF KeptIn
    <3> QED BY <1>3, <3>1, <3>2 DEF KeptIn
  <2>4. \A u \in Txs : Must(u)' => KeptIn(u, mem)'
    BY <2>2, <2>3
  <2> QED BY <1>3, <2>4 DEF Kept, KeptIn
<1>4. ASSUME NEW t \in Txs, Prepare(t)
      PROVE  Kept'
  <2>1. /\ mem' = With(mem, t, [status |-> "pending", uncertain |-> FALSE, evidence |-> TRUE])
        /\ disk' = mem' /\ UNCHANGED << age, net >>
    BY <1>4 DEF Prepare
  <2>2. /\ pc'[t] # "uncertain"
        /\ \A u \in Txs \ {t} : pc'[u] = pc[u] /\ inputs'[u] = inputs[u]
    BY <1>0, <1>4 DEF Prepare, TypeOK
  <2> QED BY <1>3, <2>1, <2>2
<1>5. ASSUME NEW t \in Txs, Accepted(t) \/ Uncertain(t)
      PROVE  Kept'
  <2>1. PICK b \in BOOLEAN, end \in {"sent", "uncertain"} :
            Finish(t, end, b) /\ (end = "uncertain" => b)
    BY <1>5 DEF Accepted, Uncertain
  <2>2. /\ mem' = With(mem, t, [status |-> "pending", uncertain |-> b, evidence |-> TRUE])
        /\ disk' = mem' /\ UNCHANGED << age, net >>
    BY <2>1 DEF Finish
  <2>3. /\ pc'[t] = "uncertain" => b
        /\ \A u \in Txs \ {t} : pc'[u] = pc[u] /\ inputs'[u] = inputs[u]
    BY <1>0, <2>1 DEF Finish, TypeOK
  <2> QED BY <1>3, <2>2, <2>3
<1>6. ASSUME NEW t \in Txs, ReserveFails(t) \/ Rejected(t)
      PROVE  Kept'
  <2>1. /\ mem' = Without(mem, t) /\ disk' = mem' /\ UNCHANGED << inputs, age, net >>
    BY <1>6 DEF ReserveFails, Rejected, Rollback
  <2>2. t \in Refused' /\ \A u \in Txs \ {t} : pc'[u] = pc[u]
    BY <1>0, <1>6 DEF ReserveFails, Rejected, TypeOK
  <2>4. mem \in Rows
    BY <1>0 DEF TypeOK
  <2>5. /\ DOMAIN mem' = DOMAIN mem \ {t}
        /\ \A x \in DOMAIN mem : x # t => mem'[x] = mem[x]
    BY <2>1, <2>4, WithoutShape
  <2>3. ASSUME NEW u \in Txs, Must(u)'
        PROVE  KeptIn(u, mem)'
    <3>1. u # t
      BY <2>2, <2>3 DEF Must
    <3>2. KeptIn(u, mem)
      BY <1>0, <2>1, <2>2, <2>3, <3>1 DEF Must, Kept
    <3>3. u \in DOMAIN mem' /\ mem'[u] = mem[u]
      BY <2>5, <3>1, <3>2 DEF KeptIn
    <3> QED BY <2>2, <3>1, <3>2, <3>3 DEF KeptIn
  <2> QED BY <2>1, <2>3 DEF Kept, KeptIn
<1>7. ASSUME NEW t \in Txs, Relay(t) \/ Mine(t)
      PROVE  Kept'
  <2>1. UNCHANGED << inputs, pc, age, mem, disk >>
    BY <1>7 DEF Relay, Mine, sendVars, rowVars
  <2>2. \A u \in Txs : net[u] = "block" => net'[u] = "block"
    BY <1>0, <1>7 DEF Relay, Mine, TypeOK
  <2>3. \A u \in Txs : age[u] \in 0 .. SevenDays /\ age[u] >= age[u]
    BY <1>0 DEF TypeOK, SevenDays
  <2> QED BY <1>1, <2>1, <2>2, <2>3 DEF SameSends
<1>8. CASE CoolDown \/ PruneReservations \/ UNCHANGED vars
  <2>1. UNCHANGED << inputs, pc, net, age, mem, disk >>
    BY <1>8 DEF CoolDown, PruneReservations, vars, sendVars, rowVars
  <2>2. \A u \in Txs : age[u] \in 0 .. SevenDays /\ age[u] >= age[u]
    BY <1>0 DEF TypeOK, SevenDays
  <2> QED BY <1>1, <2>1, <2>2 DEF SameSends
<1>9. CASE TimePasses
  <2>1. UNCHANGED << inputs, pc, net, mem, disk >>
    BY <1>9 DEF TimePasses, rowVars
  <2>2. \A u \in Txs : age'[u] \in 0 .. SevenDays /\ age'[u] >= age[u]
    BY <1>0, <1>9 DEF TimePasses, TypeOK, SevenDays
  <2> QED BY <1>1, <2>1, <2>2 DEF SameSends
<1>10. CASE Restart
  <2>1. UNCHANGED << inputs, net, age, disk >> /\ mem' = Stored
    BY <1>10 DEF Restart
  <2>2. \A u \in Txs : /\ u \in Refused => u \in Refused'
                       /\ pc'[u] = "uncertain" => pc[u] = "uncertain"
    BY <1>0, <1>10 DEF Restart, TypeOK, InFlight
  <2>3. ASSUME NEW u \in Txs, Must(u)'
        PROVE  KeptIn(u, mem)' /\ KeptIn(u, disk)'
    <3>1. KeptIn(u, disk)
      BY <1>0, <2>1, <2>2, <2>3 DEF Must, Kept
    <3>2. /\ u \in DOMAIN Stored
          /\ Stored[u].status = disk[u].status \/ Stored[u].status = "pending"
          /\ disk[u].evidence => Stored[u].evidence
          /\ Stored[u].uncertain = disk[u].uncertain
      BY <1>0, <3>1, StoredShape DEF KeptIn, TypeOK
    <3> QED BY <2>1, <2>2, <3>1, <3>2 DEF KeptIn
  <2> QED BY <2>3 DEF Kept
<1>11. ASSUME NEW r \in Readers, StartLoad(r) \/ CommitLoad(r) \/ MergeZano(r)
       PROVE  Kept'
  <2>1. StartLoad(r)
    BY <1>0, <1>11 DEF CommitLoad, MergeZano, NoneWaits, Prompt
  <2>2. UNCHANGED << inputs, pc, net, age, mem, disk >>
    BY <2>1 DEF StartLoad, sendVars, rowVars
  <2>3. \A u \in Txs : age[u] \in 0 .. SevenDays /\ age[u] >= age[u]
    BY <1>0 DEF TypeOK, SevenDays
  <2> QED BY <1>1, <2>2, <2>3 DEF SameSends
<1>12. ASSUME NEW r \in Readers, MergeLoad(r)
       PROVE  Kept'
  <2>1. UNCHANGED << inputs, pc, net, age >>
    BY <1>12 DEF MergeLoad, sendVars
  <2> DEFINE base == IF DOMAIN mem = {} THEN prev[r] ELSE mem
  <2>2. PICK reported \in Reports, prune \in BOOLEAN :
          \E confirmed \in SUBSET { t \in reported : t \in Incoming \/ net[t] = "block" },
             gone \in SUBSET (IF prune THEN Prunable(base, reported) ELSE {}) :
             Commit(MergeRemoteHistory(base, prev[r], reported \ confirmed, confirmed, gone, prune))
    BY <1>0, <1>12 DEF MergeLoad, Prompt
  <2>3. PICK confirmed \in SUBSET { t \in reported : t \in Incoming \/ net[t] = "block" },
             gone \in SUBSET (IF prune THEN Prunable(base, reported) ELSE {}) :
             Commit(MergeRemoteHistory(base, prev[r], reported \ confirmed, confirmed, gone, prune))
    BY <2>2
  <2>4. gone \subseteq Prunable(base, reported)
    OBVIOUS
  <2> DEFINE rows == MergeRemoteHistory(base, prev[r], reported \ confirmed, confirmed, gone, prune)
  <2>5. ASSUME NEW t \in Txs, Must(t)
        PROVE  KeptIn(t, rows)
    BY <2>4, <2>5, KeptMerge
  <2>6. mem' = rows /\ disk' = rows
    BY <2>3 DEF Commit
  <2> HIDE DEF rows
  <2>7. ASSUME NEW t \in Txs, Must(t)'
        PROVE  KeptIn(t, mem)' /\ KeptIn(t, disk)'
    <3>1. KeptIn(t, rows)
      BY <2>1, <2>5, <2>7 DEF Must
    <3> QED BY <2>1, <2>6, <3>1 DEF KeptIn
  <2> QED BY <2>7 DEF Kept
<1> QED
  BY <1>2, <1>4, <1>5, <1>6, <1>7, <1>8, <1>9, <1>10, <1>11, <1>12 DEF Next, SendStep

\* What a send may spend is what no other send of the last day spends.
LEMMA ApartStep ==
    ASSUME Seen, [Next]_vars
    PROVE  Apart'
<1>0. /\ TypeOK /\ Signed /\ Exclusive /\ Kept /\ Apart
  BY DEF Seen, Alone
<1>1. ASSUME SameSends,
             \A u \in Txs : pc'[u] = "signing" => pc[u] = "signing" /\ excluded'[u] = excluded[u]
      PROVE  Apart'
  <2>1. ASSUME NEW t \in Txs, Live(t)', NEW u \in Txs \ {t}
        PROVE  /\ pc'[u] = "signing" => inputs'[t] \subseteq excluded'[u]
               /\ Live(u)' => inputs'[t] \cap inputs'[u] = {}
    <3>1. Live(t) /\ (Live(u)' => Live(u))
      BY <1>0, <1>1, <2>1, SameMust
    <3>2. /\ pc[u] = "signing" => inputs[t] \subseteq excluded[u]
          /\ Live(u) => inputs[t] \cap inputs[u] = {}
      BY <1>0, <2>1, <3>1 DEF Apart
    <3> QED BY <1>1, <2>1, <3>1, <3>2 DEF SameSends
  <2> QED BY <2>1 DEF Apart
<1>2. \A u \in Txs : age[u] \in 0 .. SevenDays /\ age[u] >= age[u]
  BY <1>0 DEF TypeOK, SevenDays
<1>3. ASSUME NEW t \in Txs, Call(t) \/ TakeLock(t) \/ Fails(t) \/ Reserve(t) \/ Broadcast(t)
                            \/ Restored(t)
      PROVE  Apart'
  <2>1. UNCHANGED << inputs, age, net, excluded >>
    BY <1>3 DEF Call, TakeLock, Fails, Reserve, Broadcast, Restored
  <2>2. \A u \in Txs : /\ u \in Refused => u \in Refused'
                       /\ pc'[u] = "uncertain" => pc[u] = "uncertain"
                       /\ pc'[u] = "signing" => pc[u] = "signing"
    BY <1>0, <1>3 DEF Call, TakeLock, Fails, Reserve, Broadcast, Restored, TypeOK
  <2> QED BY <1>1, <1>2, <2>1, <2>2 DEF SameSends
<1>4. ASSUME NEW t \in Txs, ExcludeOutpoints(t)
      PROVE  Apart'
  <2>1. /\ pc' = [pc EXCEPT ![t] = "signing"] /\ pc[t] = "locked"
        /\ excluded' = [excluded EXCEPT ![t] = ActiveSpentOutpoints]
        /\ UNCHANGED << inputs, age, net >>
    BY <1>4 DEF ExcludeOutpoints
  <2>2. ASSUME NEW u \in Txs, Live(u)
        PROVE  inputs[u] \subseteq ActiveSpentOutpoints
    <3>1. Must(u)
      BY <2>2 DEF Live, Must
    <3>2. u \in DOMAIN mem /\ mem[u].evidence /\ mem[u].status # "failed"
      BY <1>0, <3>1 DEF Kept, KeptIn
    <3>3. age[u] < (IF mem[u].uncertain THEN SevenDays ELSE OneDay)
      BY <1>0, <2>2 DEF Live, TypeOK, OneDay, SevenDays
    <3> QED BY <3>2, <3>3 DEF ActiveSpentOutpoints
  <2>3. \A u \in Txs : Live(u)' <=> Live(u)
    BY <1>0, <2>1 DEF Live, TypeOK
  <2>4. ASSUME NEW u \in Txs, Live(u), NEW v \in Txs \ {u}
        PROVE  /\ pc'[v] = "signing" => inputs[u] \subseteq excluded'[v]
               /\ Live(v) => inputs[u] \cap inputs[v] = {}
    <3>1. CASE v = t
      BY <1>0, <2>1, <2>2, <2>4, <3>1 DEF Apart, TypeOK
    <3>2. CASE v # t
      BY <1>0, <2>1, <2>4, <3>2 DEF Apart, TypeOK
    <3> QED BY <3>1, <3>2
  <2> QED BY <2>1, <2>3, <2>4 DEF Apart
<1>5. ASSUME NEW t \in Txs, Prepare(t)
      PROVE  Apart'
  <2>1. PICK chosen \in (SUBSET (Outpoints \ excluded[t])) \ {{}} :
            inputs' = [inputs EXCEPT ![t] = chosen]
    BY <1>5 DEF Prepare
  <2>2. /\ pc[t] = "signing" /\ pc' = [pc EXCEPT ![t] = "reserving"]
        /\ UNCHANGED << age, net, excluded >>
    BY <1>5 DEF Prepare
  <2>3. /\ inputs'[t] \cap excluded[t] = {}
        /\ pc'[t] # "signing"
        /\ \A u \in Txs \ {t} : inputs'[u] = inputs[u] /\ pc'[u] = pc[u]
    BY <1>0, <2>1, <2>2 DEF TypeOK
  <2>4. \A u \in Txs \ {t} : Live(u)' => Live(u)
    BY <2>2, <2>3 DEF Live
  <2>5. \A u \in Txs \ {t} : Live(u) => inputs[u] \subseteq excluded[t]
    BY <1>0, <2>2 DEF Apart
  <2>6. \A u \in Txs \ {t} : pc[u] # "signing"
    BY <1>0, <2>2 DEF Exclusive, InFlight
  <2>7. ASSUME NEW u \in Txs, Live(u)', NEW v \in Txs \ {u}, Live(v)'
        PROVE  inputs'[u] \cap inputs'[v] = {}
    <3>1. CASE u = t
      BY <2>3, <2>4, <2>5, <2>7, <3>1
    <3>2. CASE v = t
      BY <2>3, <2>4, <2>5, <2>7, <3>2
    <3>3. CASE u # t /\ v # t
      BY <1>0, <2>3, <2>4, <2>7, <3>3 DEF Apart
    <3> QED BY <3>1, <3>2, <3>3
  <2> QED BY <2>3, <2>6, <2>7 DEF Apart
<1>6. ASSUME NEW t \in Txs, ReserveFails(t) \/ Accepted(t) \/ Uncertain(t) \/ Rejected(t)
      PROVE  Apart'
  <2>1. /\ UNCHANGED << inputs, age, net, excluded >>
        /\ pc[t] \in {"reserving", "broadcasting"}
        /\ \A u \in Txs \ {t} : pc'[u] = pc[u]
        /\ pc'[t] \in {"restoring", "sent", "uncertain", "rejected"}
    BY <1>0, <1>6 DEF ReserveFails, Accepted, Uncertain, Rejected, Finish, TypeOK
  <2>2. \A u \in Txs : /\ pc'[u] = "signing" => pc[u] = "signing"
                       /\ Live(u)' => Live(u)
    BY <2>1 DEF Live
  <2> QED BY <1>0, <2>1, <2>2 DEF Apart
<1>7. ASSUME NEW t \in Txs, Relay(t) \/ Mine(t)
      PROVE  Apart'
  <2>1. UNCHANGED << inputs, pc, age, excluded >>
    BY <1>7 DEF Relay, Mine, sendVars
  <2>2. \A u \in Txs : net[u] = "block" => net'[u] = "block"
    BY <1>0, <1>7 DEF Relay, Mine, TypeOK
  <2> QED BY <1>1, <1>2, <2>1, <2>2 DEF SameSends
<1>8. CASE CoolDown \/ PruneReservations \/ UNCHANGED vars
  <2>1. UNCHANGED << inputs, pc, net, age, excluded >>
    BY <1>8 DEF CoolDown, PruneReservations, vars, sendVars
  <2> QED BY <1>1, <1>2, <2>1 DEF SameSends
<1>9. CASE TimePasses
  <2>1. UNCHANGED << inputs, pc, net, excluded >>
    BY <1>9 DEF TimePasses
  <2>2. \A u \in Txs : age'[u] \in 0 .. SevenDays /\ age'[u] >= age[u]
    BY <1>0, <1>9 DEF TimePasses, TypeOK, SevenDays
  <2> QED BY <1>1, <2>1, <2>2 DEF SameSends
<1>10. CASE Restart
  <2>1. UNCHANGED << inputs, net, age, excluded >>
    BY <1>10 DEF Restart
  <2>2. \A u \in Txs : /\ u \in Refused => u \in Refused'
                       /\ pc'[u] = "uncertain" => pc[u] = "uncertain"
                       /\ pc'[u] # "signing"
    BY <1>0, <1>10 DEF Restart, TypeOK, InFlight
  <2> QED BY <1>1, <1>2, <2>1, <2>2 DEF SameSends
<1>11. ASSUME NEW r \in Readers, StartLoad(r) \/ MergeLoad(r) \/ CommitLoad(r) \/ MergeZano(r)
       PROVE  Apart'
  <2>1. UNCHANGED << inputs, pc, net, age, excluded >>
    BY <1>11 DEF StartLoad, MergeLoad, CommitLoad, MergeZano, sendVars
  <2> QED BY <1>1, <1>2, <2>1 DEF SameSends
<1> QED
  BY <1>3, <1>4, <1>5, <1>6, <1>7, <1>8, <1>9, <1>10, <1>11 DEF Next, SendStep

\* No load waits with a merged list in its hands.
LEMMA NoneWaitsStep ==
    ASSUME Seen, [Next]_vars
    PROVE  NoneWaits'
<1>0. rpc \in [Readers -> {"idle", "reading", "refreshing"}] /\ NoneWaits /\ ~ BalanceRefresh
  BY DEF Seen, Alone, TypeOK, Prompt
<1>1. ASSUME NEW r \in Readers, StartLoad(r) \/ MergeLoad(r) \/ CommitLoad(r) \/ MergeZano(r)
      PROVE  NoneWaits'
  BY <1>0, <1>1 DEF StartLoad, MergeLoad, CommitLoad, MergeZano, EndLoad, NoneWaits
<1>2. CASE Restart
  BY <1>0, <1>2 DEF Restart, NoneWaits
<1>3. ASSUME NEW t \in Txs, Call(t) \/ TakeLock(t) \/ SendStep(t) \/ Relay(t) \/ Mine(t)
      PROVE  UNCHANGED rpc
  BY <1>3 DEF Call, TakeLock, SendStep, ExcludeOutpoints, Fails, Prepare, Reserve, ReserveFails,
              Broadcast, Accepted, Uncertain, Rejected, Restored, Finish, Relay, Mine, loadVars
<1>4. CASE PruneReservations \/ CoolDown \/ TimePasses \/ UNCHANGED vars
  BY <1>0, <1>4 DEF PruneReservations, CoolDown, TimePasses, vars, loadVars, NoneWaits
<1> QED BY <1>0, <1>1, <1>2, <1>3, <1>4 DEF Next, NoneWaits

\* Seen holds in every behaviour, where readers commit at once.
THEOREM NothingOverlooked == Prompt => (Spec => []Seen)
<1>1. Prompt /\ Init => Seen
  <2> SUFFICES ASSUME Prompt, Init PROVE Seen
    OBVIOUS
  <2>1. Alone
    BY AloneAtFirst DEF Prompt
  <2>2. Kept /\ Apart /\ NoneWaits
    BY DEF Init, Kept, Must, Apart, Live, NoneWaits
  <2> QED BY <2>1, <2>2 DEF Seen
<1>2. Seen /\ [Next]_vars => Seen'
  <2> SUFFICES ASSUME Seen, [Next]_vars PROVE Seen'
    OBVIOUS
  <2>1. Alone'
    BY TrueStep, ExclusiveStep, SignedStep, ReservedStep DEF Alone, Seen
  <2>2. Prompt'
    BY DEF Seen, Prompt
  <2> QED BY <2>1, <2>2, KeptStep, ApartStep, NoneWaitsStep DEF Seen
<1> QED BY <1>1, <1>2, PTL DEF Spec

\* Signed transactions of the last day spend different outputs.
THEOREM InputsStayLocked == Prompt => (Spec => []InputsLocked)
<1>1. Seen => InputsLocked
  BY DEF Seen, Apart, Live, InputsLocked, Conflicts
<1> QED BY <1>1, NothingOverlooked, PTL

\* The wallet's storage knows each transaction in the mempool for a day.
THEOREM EvidenceIsKept == Prompt => (Spec => []EvidenceSurvives)
<1>1. ASSUME Seen PROVE EvidenceSurvives
  <2>1. ASSUME NEW t \in Txs, net[t] = "mempool", age[t] < OneDay
        PROVE  Recorded(t)
    <3>1. Must(t)
      BY <1>1, <2>1 DEF Seen, Alone, Signed, Must
    <3> QED BY <1>1, <3>1 DEF Seen, Kept, KeptIn, Recorded
  <2> QED BY <2>1 DEF EvidenceSurvives
<1> QED BY <1>1, NothingOverlooked, PTL

\* For a week no send passes the guards after a broadcast of unknown outcome.
THEOREM UncertainBlocks == Prompt => (Spec => UncertainBlocksSend)
<1>1. ASSUME Seen, [Next]_vars, NEW t \in Txs, NEW u \in Txs,
             pc[t] = "uncertain", age[t] < SevenDays, net[t] # "block",
             pc[u] = "called", pc'[u] = "locked"
      PROVE  FALSE
  <2>1. Must(t)
    BY <1>1 DEF Seen, Alone, Signed, Must
  <2>2. t \in DOMAIN mem /\ mem[t].status = "pending" /\ mem[t].uncertain
    BY <1>1, <2>1 DEF Seen, Kept, KeptIn
  <2>3. BlocksSend(t)
    BY <1>1, <2>2 DEF BlocksSend, PendingSends
  <2>4. pc \in [Txs -> {"new", "called", "locked", "signing", "reserving", "recorded",
                        "broadcasting", "restoring", "sent", "uncertain", "rejected", "failed", "cut"}]
    BY <1>1 DEF Seen, Alone, TypeOK
  <2>5. ASSUME NEW v \in Txs, TakeLock(v)
        PROVE  FALSE
    BY <1>1, <2>3, <2>4, <2>5 DEF TakeLock
  <2>6. ASSUME NEW v \in Txs, Call(v) \/ SendStep(v) \/ Relay(v) \/ Mine(v)
        PROVE  FALSE
    BY <1>1, <2>4, <2>6 DEF Call, SendStep, ExcludeOutpoints, Fails, Prepare, Reserve,
                            ReserveFails, Broadcast, Accepted, Uncertain, Rejected, Restored, Finish, Relay, Mine, sendVars
  <2>7. ASSUME NEW r \in Readers, StartLoad(r) \/ MergeLoad(r) \/ CommitLoad(r) \/ MergeZano(r)
        PROVE  FALSE
    BY <1>1, <2>7 DEF StartLoad, MergeLoad, CommitLoad, MergeZano, sendVars
  <2>8. CASE PruneReservations \/ CoolDown \/ TimePasses \/ UNCHANGED vars
    BY <1>1, <2>8 DEF PruneReservations, CoolDown, TimePasses, vars, sendVars
  <2>9. CASE Restart
    BY <1>1, <2>4, <2>9 DEF Restart
  <2> QED BY <1>1, <2>5, <2>6, <2>7, <2>8, <2>9 DEF Next
<1>2. Seen /\ [Next]_vars =>
        [\A t, u \in Txs : pc[t] = "uncertain" /\ age[t] < SevenDays /\ net[t] # "block"
                           => ~(pc[u] = "called" /\ pc'[u] = "locked")]_vars
  BY <1>1
<1> QED BY <1>2, NothingOverlooked, PTL DEF Spec, UncertainBlocksSend

-----------------------------------------------------------------------------
(* A refused send.  A list that has become empty is filled again with what  *)
(* a load has read before; a transaction that stays in the history keeps    *)
(* the list from becoming empty.                                            *)

Anchors == Known \ Unsteady

Gone ==
    /\ Anchors \subseteq DOMAIN mem /\ Anchors \subseteq DOMAIN disk
    /\ \A t \in Txs : t \in Refused =>
          /\ t \notin DOMAIN mem /\ t \notin DOMAIN disk /\ t \notin reserved
          /\ \A u \in Txs : pc[u] = "reserving" => t \notin snapshot[u]

LEMMA GoneStep ==
    ASSUME Seen, Anchors # {}, Gone, [Next]_vars
    PROVE  Gone'
<1>0. /\ TypeOK /\ Signed /\ Exclusive /\ Prompt /\ NoneWaits
      /\ \A t \in Txs : t \notin Anchors
  BY DEF Seen, Alone, Anchors
<1>1. ASSUME \A t \in Txs : /\ t \in Refused' => t \in Refused
                            /\ pc'[t] = "reserving" => pc[t] = "reserving",
             UNCHANGED << mem, disk, reserved, snapshot >>
      PROVE  Gone'
  BY <1>1 DEF Gone
<1>2. ASSUME NEW t \in Txs, Call(t) \/ TakeLock(t) \/ ExcludeOutpoints(t) \/ Fails(t) \/ Broadcast(t)
                            \/ Restored(t)
      PROVE  Gone'
  <2>1. UNCHANGED << mem, disk, reserved, snapshot >>
    BY <1>2 DEF Call, TakeLock, ExcludeOutpoints, Fails, Broadcast, Restored, rowVars
  <2>2. \A u \in Txs : /\ u \in Refused' => u \in Refused
                       /\ pc'[u] = "reserving" => pc[u] = "reserving"
    BY <1>0, <1>2 DEF Call, TakeLock, ExcludeOutpoints, Fails, Broadcast, Restored, TypeOK
  <2> QED BY <1>1, <2>1, <2>2
<1>3. ASSUME NEW t \in Txs, NEW b \in BOOLEAN, t \notin Refused,
             mem' = With(mem, t, [status |-> "pending", uncertain |-> b, evidence |-> TRUE])
      PROVE  DOMAIN mem' = DOMAIN mem \cup {t}
  BY <1>3 DEF With
<1>4. ASSUME NEW t \in Txs, Prepare(t)
      PROVE  Gone'
  <2>1. /\ pc[t] = "signing" /\ pc' = [pc EXCEPT ![t] = "reserving"]
        /\ snapshot' = [snapshot EXCEPT ![t] = reserved]
        /\ disk' = mem' /\ UNCHANGED reserved
    BY <1>4 DEF Prepare
  <2>2. DOMAIN mem' = DOMAIN mem \cup {t}
    BY <1>3, <1>4, <2>1 DEF Prepare
  <2>3. ASSUME NEW u \in Txs, u \in Refused'
        PROVE  u \in Refused /\ u # t
    BY <1>0, <2>1, <2>3 DEF TypeOK
  <2>4. ASSUME NEW u \in Txs, u \in Refused', NEW v \in Txs, pc'[v] = "reserving"
        PROVE  u \notin snapshot'[v]
    <3>1. CASE v = t
      BY <1>0, <2>1, <2>3, <2>4, <3>1 DEF Gone, TypeOK
    <3>2. CASE v # t
      BY <1>0, <2>1, <2>3, <2>4, <3>2 DEF Gone, TypeOK
    <3> QED BY <3>1, <3>2
  <2> QED BY <2>1, <2>2, <2>3, <2>4 DEF Gone
<1>5. ASSUME NEW t \in Txs, Reserve(t)
      PROVE  Gone'
  <2>1. /\ pc[t] = "reserving" /\ pc' = [pc EXCEPT ![t] = "recorded"]
        /\ reserved' = snapshot[t] \cup {t} /\ UNCHANGED << mem, disk >>
    BY <1>5 DEF Reserve
  <2>2. \A u \in Txs : pc'[u] # "reserving"
    BY <1>0, <2>1 DEF Exclusive, InFlight, TypeOK
  <2>3. \A u \in Txs : u \in Refused' => u \in Refused /\ u # t
    BY <1>0, <2>1 DEF TypeOK
  <2> QED BY <2>1, <2>2, <2>3 DEF Gone
<1>6. ASSUME NEW t \in Txs, Accepted(t) \/ Uncertain(t)
      PROVE  Gone'
  <2>1. PICK b \in BOOLEAN, end \in {"sent", "uncertain"} : Finish(t, end, b)
    BY <1>6 DEF Accepted, Uncertain
  <2>2. /\ pc[t] = "broadcasting" /\ pc' = [pc EXCEPT ![t] = end]
        /\ disk' = mem' /\ UNCHANGED snapshot
        /\ reserved' \subseteq reserved \cup {t}
    BY <1>6, <2>1 DEF Accepted, Uncertain, Finish
  <2>3. DOMAIN mem' = DOMAIN mem \cup {t}
    BY <1>3, <2>1, <2>2 DEF Finish
  <2>4. \A u \in Txs : /\ u \in Refused' => u \in Refused /\ u # t
                       /\ pc'[u] = "reserving" => pc[u] = "reserving"
    BY <1>0, <2>2 DEF TypeOK
  <2> QED BY <2>2, <2>3, <2>4 DEF Gone
<1>7. ASSUME NEW t \in Txs, ReserveFails(t) \/ Rejected(t)
      PROVE  Gone'
  <2>1. /\ pc[t] \in {"reserving", "broadcasting"}
        /\ pc' = [pc EXCEPT ![t] = "restoring"] \/ pc' = [pc EXCEPT ![t] = "rejected"]
        /\ mem' = Without(mem, t) /\ disk' = mem' /\ reserved' = reserved \ {t}
    BY <1>7 DEF ReserveFails, Rejected, Rollback
  <2>2. DOMAIN mem' = DOMAIN mem \ {t}
    BY <2>1 DEF Without
  <2>3. \A u \in Txs : pc'[u] # "reserving"
    BY <1>0, <2>1 DEF Exclusive, InFlight, TypeOK
  <2>4. \A u \in Txs : u \in Refused' => u \in Refused \/ u = t
    BY <1>0, <2>1 DEF TypeOK
  <2>5. \A u \in Txs : u \in Refused' =>
            u \notin DOMAIN mem' /\ u \notin DOMAIN disk' /\ u \notin reserved'
    BY <2>1, <2>2, <2>4 DEF Gone
  <2> QED BY <1>0, <2>1, <2>2, <2>3, <2>5 DEF Gone
<1>8. ASSUME NEW t \in Txs, Relay(t) \/ Mine(t)
      PROVE  Gone'
  <2>1. UNCHANGED << pc, mem, disk, reserved, snapshot >>
    BY <1>8 DEF Relay, Mine, sendVars, rowVars
  <2> QED BY <1>1, <2>1
<1>9. CASE CoolDown \/ TimePasses \/ UNCHANGED vars
  <2>1. UNCHANGED << pc, mem, disk, reserved, snapshot >>
    BY <1>9 DEF CoolDown, TimePasses, vars, rowVars
  <2> QED BY <1>1, <2>1
<1>10. CASE Restart
  <2>1. mem' = Stored /\ UNCHANGED << disk, reserved >>
    BY <1>10 DEF Restart
  <2>2. DOMAIN Stored = DOMAIN disk \cup reserved
    BY DEF Stored
  <2>3. \A u \in Txs : /\ u \in Refused' => u \in Refused
                       /\ pc'[u] # "reserving"
    BY <1>0, <1>10 DEF Restart, TypeOK, InFlight
  <2> QED BY <2>1, <2>2, <2>3 DEF Gone
<1>11. CASE PruneReservations
  <2>1. UNCHANGED << pc, mem, disk, snapshot >>
    BY <1>11 DEF PruneReservations, sendVars
  <2>2. reserved' \subseteq reserved \cup DOMAIN disk
    BY <1>11 DEF PruneReservations, PendingSends
  <2> QED BY <2>1, <2>2 DEF Gone
<1>12. ASSUME NEW r \in Readers, StartLoad(r) \/ CommitLoad(r) \/ MergeZano(r)
       PROVE  Gone'
  <2>1. StartLoad(r)
    BY <1>0, <1>12 DEF CommitLoad, MergeZano, NoneWaits, Prompt
  <2>2. UNCHANGED << pc, mem, disk, reserved, snapshot >>
    BY <2>1 DEF StartLoad, sendVars, rowVars
  <2> QED BY <1>1, <2>2
<1>13. ASSUME NEW r \in Readers, MergeLoad(r)
       PROVE  Gone'
  <2>1. UNCHANGED << pc, snapshot >>
    BY <1>13 DEF MergeLoad, sendVars
  <2>2. DOMAIN mem # {}
    BY DEF Gone
  <2>3. PICK reported \in Reports, prune \in BOOLEAN :
          \E confirmed \in SUBSET { t \in reported : t \in Incoming \/ net[t] = "block" },
             gone \in SUBSET (IF prune THEN Prunable(mem, reported) ELSE {}) :
             Commit(MergeRemoteHistory(mem, prev[r], reported \ confirmed, confirmed, gone, prune))
    BY <1>0, <1>13, <2>2 DEF MergeLoad, Prompt
  <2>4. PICK confirmed \in SUBSET { t \in reported : t \in Incoming \/ net[t] = "block" },
             gone \in SUBSET (IF prune THEN Prunable(mem, reported) ELSE {}) :
             Commit(MergeRemoteHistory(mem, prev[r], reported \ confirmed, confirmed, gone, prune))
    BY <2>3
  <2> DEFINE rows == MergeRemoteHistory(mem, prev[r], reported \ confirmed, confirmed, gone, prune)
  <2>5. DOMAIN rows = (DOMAIN mem \ gone) \cup (reported \ confirmed) \cup confirmed
    BY DEF MergeRemoteHistory
  <2>6. mem' = rows /\ disk' = rows /\ SyncReservations(rows)
    BY <2>4 DEF Commit
  <2> HIDE DEF rows
  <2>7. Anchors \cap gone = {}
    <3>1. gone \subseteq Prunable(mem, reported)
      OBVIOUS
    <3> QED BY <1>0, <3>1 DEF Prunable, Anchors
  <2>8. ASSUME NEW t \in Txs, t \in Refused
        PROVE  t \notin DOMAIN rows
    <3>1. net[t] = "none"
      BY <1>0, <2>8 DEF Signed
    <3>2. t \notin reported
      BY <3>1 DEF Reports
    <3> QED BY <2>5, <2>8, <3>2 DEF Gone
  <2>9. reserved' \subseteq reserved \cup DOMAIN rows
    BY <2>6 DEF SyncReservations, PendingSends
  <2>10. Anchors \subseteq DOMAIN rows
    BY <2>5, <2>7 DEF Gone
  <2> QED BY <2>1, <2>6, <2>8, <2>9, <2>10 DEF Gone
<1> QED
  BY <1>2, <1>4, <1>5, <1>6, <1>7, <1>8, <1>9, <1>10, <1>11, <1>12, <1>13 DEF Next, SendStep

\* A refused send leaves no row, no stored row and no reservation, as long as
\* one transaction stays in the history.
THEOREM RefusalLeavesNothing ==
    Prompt /\ Anchors # {} => (Spec => []RejectedLeavesNoTrace)
<1> DEFINE Inv == Anchors # {} /\ Gone
<1>1. Anchors # {} /\ Init => Inv
  <2>1. ASSUME Init PROVE Gone
    <3>1. DOMAIN mem = Known /\ DOMAIN disk = Known
      BY <2>1 DEF Init
    <3>2. \A t \in Txs : t \notin Refused
      BY <2>1 DEF Init
    <3> QED BY <3>1, <3>2 DEF Gone, Anchors
  <2> QED BY <2>1
<1>2. Seen /\ Inv /\ [Next]_vars => Inv'
  BY GoneStep DEF Anchors
<1>3. Inv => RejectedLeavesNoTrace
  BY DEF Gone, RejectedLeavesNoTrace
<1>4. Prompt => (Spec => []Seen)
  BY NothingOverlooked
<1> HIDE DEF Inv
<1> QED BY <1>1, <1>2, <1>3, <1>4, PTL DEF Spec
=============================================================================
