------------------------- MODULE NativeBrokerProofs -------------------------
(***************************************************************************)
(* NativeCoreClient implements RequestBroker, for any sets of requests:    *)
(* whatever happens to helpers, timers and the line buffer, what a caller  *)
(* sees of its request is a step the broker may take.                      *)
(*                                                                         *)
(* The promise that carries the weight is the one about transfers.  A      *)
(* result may leave other requests without one (the last send of a closed  *)
(* session stops the client), but no transfer: that the count of sends has *)
(* come to zero means that none of them is pending (SettleSends).          *)
(***************************************************************************)
EXTENDS NativeCoreClientProofs

\* What the broker knows of each request.
Status ==
    [r \in Requests |->
        IF outcome[r] # "none" THEN outcome[r]
        ELSE IF r \in pending THEN "active"
        ELSE IF r \in Queued THEN "waiting"
        ELSE "new"]

BrokerStep == [Broker!Next]_<< Status, session = "open" >>

LEMMA StatusIs ==
    ASSUME IInv, NEW r \in Requests
    PROVE  /\ r \in pending <=> Status[r] = "active"
           /\ outcome[r] # "none" <=> Status[r] \in {"ok", "error"}
           /\ r \in Queued => Status[r] = "waiting"
           /\ Fresh(r) => Status[r] = "new"
<1>1. outcome[r] \in {"none", "ok", "error"}
  BY DEF IInv, TypeOK
<1>2. r \in pending => outcome[r] = "none"
  BY ClientConstants DEF IInv, TypeOK, PendingOnCurrentHelper, NoCallerForgotten, Helpers
<1>3. r \in Queued => r \notin pending /\ outcome[r] = "none"
  <2>1. ASSUME r \in Queued PROVE \E i \in 1 .. Len(queue) : queue[i] = r
    BY <2>1 DEF Queued, IInv, TypeOK
  <2> QED BY <2>1 DEF IInv, QueueWaits
<1>4. Status[r] = IF outcome[r] # "none" THEN outcome[r]
                  ELSE IF r \in pending THEN "active"
                  ELSE IF r \in Queued THEN "waiting"
                  ELSE "new"
  BY DEF Status
<1> QED BY <1>1, <1>2, <1>3, <1>4 DEF Fresh

\* The same of the next state, as far as it follows from the definition.
LEMMA StatusNext ==
    ASSUME NEW r \in Requests
    PROVE  Status'[r] = IF outcome'[r] # "none" THEN outcome'[r]
                        ELSE IF r \in pending' THEN "active"
                        ELSE IF r \in Queued' THEN "waiting"
                        ELSE "new"
  BY DEF Status

-----------------------------------------------------------------------------
(* The broker's steps, in terms of the client.                              *)

LEMMA Nothing ==
    ASSUME Status' = Status, session' = "open" <=> session = "open"
    PROVE  BrokerStep
  BY Zenon DEF BrokerStep

LEMMA CallsAre ==
    /\ Broker!Calls = Requests
    /\ IInv => /\ Broker!Active = pending
               /\ Broker!Settled = {r \in Requests : outcome[r] # "none"}
<1>1. Broker!Calls = Requests
  BY DEF Broker!Calls, Requests
<1>2. ASSUME IInv
      PROVE  /\ Broker!Active = pending
             /\ Broker!Settled = {r \in Requests : outcome[r] # "none"}
  <2>1. pending \subseteq Requests
    BY <1>2 DEF IInv, TypeOK
  <2>2. Broker!Active = {r \in Requests : Status[r] = "active"}
    BY <1>1 DEF Broker!Active, Status
  <2>3. Broker!Settled = {r \in Requests : Status[r] \in {"ok", "error"}}
    BY <1>1 DEF Broker!Settled, Status
  <2> QED BY <1>2, <2>1, <2>2, <2>3, StatusIs
<1> QED BY <1>1, <1>2

LEMMA FailMaps ==
    ASSUME IInv, NEW gone \in SUBSET Requests,
           \A x \in gone : outcome[x] = "none",
           gone # {} => \/ pending \subseteq gone
                        \/ \E r \in gone : gone \cap AllSends \subseteq {r},
           \A x \in Requests : Status'[x] = IF x \in gone THEN "error" ELSE Status[x],
           session' = "open" <=> session = "open"
    PROVE  BrokerStep
<1>1. Status' = [x \in Requests |-> IF x \in gone THEN "error" ELSE Status[x]]
  BY DEF Status
<1>2. CASE gone = {}
  <2>1. Status' = Status
    BY <1>1, <1>2 DEF Status
  <2> QED BY <2>1, Nothing
<1>3. CASE gone # {}
  <2>1. /\ Broker!Calls = Requests /\ Broker!Active = pending
        /\ Broker!Settled = {r \in Requests : outcome[r] # "none"}
    BY CallsAre
  <2>2. gone \in SUBSET (Broker!Calls \ Broker!Settled)
    BY <2>1
  <2>3. (session' = "open") = (session = "open")
    BY Zenon
  <2>4. Broker!Fail(gone)
    BY <1>1, <1>3, <2>1, <2>3 DEF Broker!Fail, Status
  <2>5. Broker!Next
    BY <2>2, <2>4 DEF Broker!Next
  <2> QED BY <2>5 DEF BrokerStep
<1> QED BY <1>2, <1>3

LEMMA StartMaps ==
    ASSUME IInv, NEW r \in Requests, NEW gone \in SUBSET pending,
           session = "open", session' = "open",
           Status[r] = IF r \in NodeReads THEN "waiting" ELSE "new",
           r \in NodeReads => pending \cap NodeReads \subseteq gone,
           \A x \in Requests : Status'[x] = IF x = r THEN "active"
                                            ELSE IF x \in gone THEN "error" ELSE Status[x]
    PROVE  BrokerStep
<1>1. Status' = [x \in Requests |-> IF x = r THEN "active"
                                    ELSE IF x \in gone THEN "error" ELSE Status[x]]
  BY DEF Status
<1>2. Broker!Calls = Requests /\ Broker!Active = pending
  BY CallsAre
<1>3. Broker!Becomes(r, "active", gone) =
          [x \in Requests |-> IF x = r THEN "active"
                              ELSE IF x \in gone THEN "error" ELSE Status[x]]
  BY <1>2 DEF Broker!Becomes, Status
<1>4. Broker!Start(r, gone)
  BY <1>1, <1>2, <1>3 DEF Broker!Start, Status
<1>5. Broker!Next
  BY <1>2, <1>4 DEF Broker!Next
<1> QED BY <1>5 DEF BrokerStep

LEMMA AnswerMaps ==
    ASSUME IInv, NEW r \in pending, NEW gone \in SUBSET pending,
           gone \cap AllSends \subseteq {r},
           session' = "open" <=> session = "open",
           \A x \in Requests : Status'[x] = IF x = r THEN "ok"
                                            ELSE IF x \in gone THEN "error" ELSE Status[x]
    PROVE  BrokerStep
<1>1. Status' = [x \in Requests |-> IF x = r THEN "ok"
                                    ELSE IF x \in gone THEN "error" ELSE Status[x]]
  BY DEF Status
<1>2. Broker!Calls = Requests /\ Broker!Active = pending /\ r \in Requests
  BY CallsAre DEF IInv, TypeOK
<1>3. Broker!Becomes(r, "ok", gone \ {r}) =
          [x \in Requests |-> IF x = r THEN "ok"
                              ELSE IF x \in gone THEN "error" ELSE Status[x]]
  BY <1>2 DEF Broker!Becomes, Status
<1>4. (session' = "open") = (session = "open")
  BY Zenon
<1>5. Broker!Answer(r, gone)
  BY <1>1, <1>2, <1>3, <1>4 DEF Broker!Answer, Status
<1>6. Broker!Next
  BY <1>2, <1>5 DEF Broker!Next
<1> QED BY <1>6 DEF BrokerStep

LEMMA WaitMaps ==
    ASSUME IInv, NEW r \in NodeReads, Status[r] = "new",
           session' = "open" <=> session = "open",
           \A x \in Requests : Status'[x] = IF x = r THEN "waiting" ELSE Status[x]
    PROVE  BrokerStep
<1>1. Status' = [Status EXCEPT ![r] = "waiting"]
  BY DEF Status
<1>2. Broker!Calls = Requests /\ r \in Requests
  BY CallsAre DEF Requests
<1>3. (session' = "open") = (session = "open")
  BY Zenon
<1>4. Broker!Wait(r)
  BY <1>1, <1>2, <1>3 DEF Broker!Wait, Status
<1>5. Broker!Next
  BY <1>2, <1>4 DEF Broker!Next
<1> QED BY <1>5 DEF BrokerStep

LEMMA CloseMaps ==
    ASSUME IInv, session = "open", session' # "open",
           NEW gone \in SUBSET pending, gone \cap AllSends = {},
           \A x \in Requests : Status'[x] = IF x \in gone THEN "error" ELSE Status[x]
    PROVE  BrokerStep
<1>1. Status' = [x \in Requests |-> IF x \in gone THEN "error" ELSE Status[x]]
  BY DEF Status
<1>2. Broker!Calls = Requests /\ Broker!Active = pending
  BY CallsAre
<1>3. (session' = "open") = FALSE
  BY Zenon
<1>4. Broker!Close(gone)
  BY <1>1, <1>2, <1>3 DEF Broker!Close, Status
<1>5. Broker!Next
  BY <1>2, <1>4 DEF Broker!Next
<1> QED BY <1>5 DEF BrokerStep

-----------------------------------------------------------------------------
(* Settling.                                                                *)

LEMMA Booked == ASSUME IInv PROVE Bookkeeping
  BY DEF IInv, TypeOK, Bookkeeping, WatchdogsMatchPending

\* Without a reset no transfer is settled but those that were answered: when
\* the last one is, there is no other.
LEMMA SettleSends ==
    ASSUME Bookkeeping,
           NEW ok \in SUBSET pending, NEW failed \in SUBSET pending, NEW kills,
           Settle(ok, failed, FALSE, kills)
    PROVE  (pending \ pending') \cap AllSends \subseteq ok \cup failed
<1> DEFINE gone    == ok \cup failed
           settled == gone \cap AllSends
           sends   == pending \cap AllSends
           drained == LastSendSettles(gone)
           stops   == drained /\ ~needsGrace
           lost    == failed \cup (IF stops THEN pending \ ok ELSE {})
<1>1. pending' = pending \ (ok \cup lost)
  BY DEF Settle
<1>2. CASE stops
  <2>1. /\ session = "draining" /\ remaining = Cardinality(settled)
        /\ remaining = Cardinality(sends)
    BY <1>2 DEF LastSendSettles, Bookkeeping, DrainCountExact
  <2>2. settled \subseteq sends /\ IsFiniteSet(sends)
    BY FewRequests DEF Bookkeeping
  <2> HIDE DEF settled, sends
  <2>3. /\ Cardinality(sends \ settled) = Cardinality(sends) - Cardinality(settled)
        /\ Cardinality(sends) \in Nat
        /\ Cardinality(sends \ settled) = 0 <=> sends \ settled = {}
    BY <2>2, Removing
  <2>4. sends \ settled = {}
    BY <2>1, <2>3
  <2> QED BY <2>4 DEF sends, settled
<1>3. CASE ~ stops
  BY <1>1, <1>3
<1> QED BY <1>2, <1>3

\* What settling changes of the status, and that a session does not reopen.
LEMMA SettleStatus ==
    ASSUME IInv,
           NEW ok \in SUBSET pending, NEW failed \in SUBSET pending,
           NEW reset \in BOOLEAN, NEW kills,
           Settle(ok, failed, reset, kills)
    PROVE  /\ pending' \subseteq pending
           /\ ok \cup failed \subseteq pending \ pending'
           /\ reset => pending' = {}
           /\ session' = "open" <=> session = "open"
           /\ \A x \in Requests :
                  Status'[x] = IF x \in pending \ pending'
                               THEN IF x \in ok THEN "ok" ELSE "error"
                               ELSE Status[x]
<1>1. Settled(ok)
  BY Booked, SettleEffect
<1>2. Queued' = Queued
  BY <1>1 DEF Settled, Queued
<1>3. ok \cup failed \subseteq pending \ pending' /\ (reset => pending' = {})
  BY DEF Settle
<1>4. session' = "open" <=> session = "open"
  BY DEF Settle, LastSendSettles
<1>5. ASSUME NEW x \in Requests
      PROVE  Status'[x] = IF x \in pending \ pending'
                          THEN IF x \in ok THEN "ok" ELSE "error"
                          ELSE Status[x]
  <2>1. outcome'[x] = IF x \in pending \ pending'
                      THEN IF x \in ok THEN "ok" ELSE "error"
                      ELSE outcome[x]
    BY <1>1 DEF Settled
  <2>2. x \in pending' => x \in pending
    BY <1>1 DEF Settled
  <2>3. Status[x] = IF outcome[x] # "none" THEN outcome[x]
                    ELSE IF x \in pending THEN "active"
                    ELSE IF x \in Queued THEN "waiting"
                    ELSE "new"
    BY DEF Status
  <2>4. Status'[x] = IF outcome'[x] # "none" THEN outcome'[x]
                     ELSE IF x \in pending' THEN "active"
                     ELSE IF x \in Queued' THEN "waiting"
                     ELSE "new"
    BY StatusNext
  <2> QED BY <1>2, <2>1, <2>2, <2>3, <2>4
<1> QED BY <1>1, <1>3, <1>4, <1>5 DEF Settled

\* A pending request's caller waits.
LEMMA PendingUnsettled ==
    ASSUME IInv
    PROVE  pending \subseteq Requests /\ \A x \in pending : outcome[x] = "none"
<1>1. pending \subseteq Requests
  BY DEF IInv, TypeOK
<1>2. ASSUME NEW x \in pending PROVE outcome[x] = "none"
  <2>1. x \in Requests /\ Status[x] = "active"
    BY <1>1, StatusIs
  <2> QED BY <2>1, StatusIs
<1> QED BY <1>1, <1>2

\* All that is pending fails: restarts, exits and errors of the helper.
LEMMA ResetMaps ==
    ASSUME IInv, NEW failed \in SUBSET pending, NEW kills,
           Settle({}, failed, TRUE, kills)
    PROVE  BrokerStep
<1>1. /\ pending' = {}
      /\ session' = "open" <=> session = "open"
      /\ \A x \in Requests : Status'[x] = IF x \in pending \ pending'
                                          THEN IF x \in {} THEN "ok" ELSE "error"
                                          ELSE Status[x]
  BY SettleStatus
<1>2. \A x \in Requests : Status'[x] = IF x \in pending THEN "error" ELSE Status[x]
  BY <1>1
<1> QED BY <1>1, <1>2, PendingUnsettled, FailMaps

LEMMA GoodAnswerMaps ==
    ASSUME IInv, NEW r \in Requests, NEW good \in BOOLEAN, Answer(r, good)
    PROVE  BrokerStep
<1> DEFINE ok == IF good THEN {r} ELSE {}
           failed == IF good THEN {} ELSE {r}
           gone == pending \ pending'
<1>1. /\ r \in pending
      /\ ok \in SUBSET pending /\ failed \in SUBSET pending /\ ok \cup failed = {r}
      /\ Settle(ok, failed, FALSE, {})
  BY DEF Answer
<1>2. /\ r \in gone /\ gone \in SUBSET pending
      /\ session' = "open" <=> session = "open"
      /\ \A x \in Requests : Status'[x] = IF x \in gone THEN IF x \in ok THEN "ok" ELSE "error"
                                          ELSE Status[x]
  <2> HIDE DEF ok, failed
  <2> QED BY <1>1, SettleStatus
<1>3. gone \cap AllSends \subseteq {r}
  <2> HIDE DEF ok, failed
  <2> QED BY <1>1, Booked, SettleSends
<1>4. CASE good
  <2>1. \A x \in Requests : Status'[x] = IF x = r THEN "ok"
                                         ELSE IF x \in gone THEN "error" ELSE Status[x]
    BY <1>2, <1>4
  <2> HIDE DEF ok, failed, gone
  <2> QED BY <1>1, <1>2, <1>3, <2>1, AnswerMaps
<1>5. CASE ~ good
  <2>1. \A x \in Requests : Status'[x] = IF x \in gone THEN "error" ELSE Status[x]
    BY <1>2, <1>5
  <2> HIDE DEF ok, failed, gone
  <2>2. gone \in SUBSET Requests /\ \A x \in gone : outcome[x] = "none"
    BY <1>2, PendingUnsettled
  <2>3. \E x \in gone : gone \cap AllSends \subseteq {x}
    BY <1>2, <1>3
  <2> QED BY <1>2, <2>1, <2>2, <2>3, FailMaps
<1> QED BY <1>4, <1>5

-----------------------------------------------------------------------------
(* Starting.                                                                *)

\* `r' is at its turn, and its caller takes it out of the chain.
LEMMA RequestNowMaps ==
    ASSUME IInv, NEW r \in Requests, RequestNow(r),
           r \notin pending, outcome[r] = "none",
           Status[r] = IF r \in NodeReads THEN "waiting" ELSE "new",
           r \in NodeReads => pending \cap NodeReads = {},
           Queued' = Queued \ {r}
    PROVE  BrokerStep
<1> DEFINE gone == Preempted(r)
<1>1. gone \in SUBSET pending /\ (gone = pending \/ gone = {})
  BY PreemptedIsAllOrNothing
<1>2. pending \subseteq Requests /\ \A x \in pending : outcome[x] = "none"
  BY PendingUnsettled
<1>3. outcome \in [Requests -> {"none", "ok", "error"}]
  BY DEF IInv, TypeOK
<1> HIDE DEF gone
<1>4. \A x \in Requests :
          /\ Status[x] = IF outcome[x] # "none" THEN outcome[x]
                         ELSE IF x \in pending THEN "active"
                         ELSE IF x \in Queued THEN "waiting" ELSE "new"
          /\ Status'[x] = IF outcome'[x] # "none" THEN outcome'[x]
                          ELSE IF x \in pending' THEN "active"
                          ELSE IF x \in Queued' THEN "waiting" ELSE "new"
  BY DEF Status
<1>5. CASE Refuse(r)
  <2>1. /\ outcome' = [x \in Requests |-> IF x \in {r} THEN "error" ELSE outcome[x]]
        /\ pending' = pending /\ session' = session
    BY <1>5 DEF Refuse, Failed, sessionVars
  <2>2. \A x \in Requests : Status'[x] = IF x \in {r} THEN "error" ELSE Status[x]
    BY <1>3, <1>4, <2>1
  <2> QED BY <2>1, <2>2, FailMaps
<1>6. CASE Submit(r)
  <2>1. /\ outcome' = [x \in Requests |-> IF x \in gone THEN "error" ELSE outcome[x]]
        /\ pending' = (pending \ gone) \cup {r}
        /\ session = "open" /\ session' = "open"
    BY <1>6 DEF Submit, Failed, SessionClosed, sessionVars, gone
  <2>2. \A x \in Requests : Status'[x] = IF x = r THEN "active"
                                         ELSE IF x \in gone THEN "error" ELSE Status[x]
    BY <1>1, <1>2, <1>3, <1>4, <2>1
  <2> QED BY <1>1, <2>1, <2>2, StartMaps
<1>7. CASE StartThrows(r)
  <2>1. /\ outcome' = [x \in Requests |-> IF x \in gone \cup {r} THEN "error" ELSE outcome[x]]
        /\ pending' = pending \ gone
        /\ session' = session
    BY <1>7 DEF StartThrows, Failed, sessionVars, gone
  <2>2. \A x \in Requests : Status'[x] = IF x \in gone \cup {r} THEN "error" ELSE Status[x]
    BY <1>1, <1>2, <1>3, <1>4, <2>1
  <2>3. gone \cup {r} \in SUBSET Requests /\ \A x \in gone \cup {r} : outcome[x] = "none"
    BY <1>1, <1>2
  <2>4. \/ pending \subseteq gone \cup {r}
        \/ \E x \in gone \cup {r} : (gone \cup {r}) \cap AllSends \subseteq {x}
    BY <1>1
  <2> QED BY <2>1, <2>2, <2>3, <2>4, FailMaps
<1> QED BY <1>5, <1>6, <1>7 DEF RequestNow

LEMMA RequestMaps ==
    ASSUME IInv, NEW r \in Requests, Request(r)
    PROVE  BrokerStep
<1>1. /\ Fresh(r) /\ Status[r] = "new"
      /\ r \notin pending /\ outcome[r] = "none" /\ r \notin Queued
  BY StatusIs DEF Request, Fresh
<1>2. CASE r \in NodeReads
  <2>1. /\ queue' = Append(queue, r) /\ queue \in Seq(NodeReads)
        /\ pending' = pending /\ outcome' = outcome /\ session' = session
    BY <1>2 DEF Request, sessionVars, IInv, TypeOK
  <2>2. Queued' = Queued \cup {r}
    BY <1>2, <2>1 DEF Queued
  <2>3. ASSUME NEW x \in Requests
        PROVE  Status'[x] = IF x = r THEN "waiting" ELSE Status[x]
    BY <1>1, <2>1, <2>2 DEF Status
  <2> QED BY <1>1, <1>2, <2>1, <2>3, WaitMaps
<1>3. CASE r \notin NodeReads
  <2>1. RequestNow(r) /\ queue' = queue
    BY <1>3 DEF Request
  <2>2. Queued' = Queued \ {r}
    BY <1>1, <2>1 DEF Queued
  <2> QED BY <1>1, <1>3, <2>1, <2>2, RequestNowMaps
<1> QED BY <1>2, <1>3

\* The head of the chain leaves it, and nothing else does.
LEMMA HeadLeaves ==
    ASSUME IInv, queue # << >>, queue' = Tail(queue), NEW r, r = Head(queue)
    PROVE  Queued' = Queued \ {r}
<1>1. \A i, j \in 1 .. Len(queue) : i # j => queue[i] # queue[j]
  BY DEF IInv, QueueWaits
<1>2. /\ Len(queue) \in Nat /\ Len(queue') = Len(queue) - 1 /\ Len(queue) > 0
      /\ DOMAIN queue = 1 .. Len(queue) /\ DOMAIN queue' = 1 .. Len(queue')
      /\ \A i \in 1 .. Len(queue') : queue'[i] = queue[i + 1]
      /\ r = queue[1]
  BY HeadTailProperties DEF IInv, TypeOK
<1>3. \A x : x \in Queued' <=> \E i \in 1 .. Len(queue') : x = queue'[i]
  BY <1>2 DEF Queued
<1>4. \A x : x \in Queued <=> \E i \in 1 .. Len(queue) : x = queue[i]
  BY <1>2 DEF Queued
<1>5. ASSUME NEW x \in Queued' PROVE x \in Queued \ {r}
  <2>1. PICK i \in 1 .. Len(queue') : x = queue'[i]
    BY <1>3, <1>5
  <2>2. i + 1 \in 1 .. Len(queue) /\ i + 1 # 1 /\ 1 \in 1 .. Len(queue)
    BY <1>2, <2>1
  <2>3. x = queue[i + 1]
    BY <1>2, <2>1
  <2> QED BY <1>1, <1>2, <1>4, <2>2, <2>3
<1>6. ASSUME NEW x \in Queued \ {r} PROVE x \in Queued'
  <2>1. PICK i \in 1 .. Len(queue) : x = queue[i]
    BY <1>4, <1>6
  <2>2. i # 1
    BY <1>2, <1>6, <2>1
  <2>3. i - 1 \in 1 .. Len(queue') /\ (i - 1) + 1 = i
    BY <1>2, <2>1, <2>2
  <2>4. queue'[i - 1] = queue[i]
    BY <1>2, <2>3
  <2> QED BY <1>3, <2>1, <2>3, <2>4
<1> QED BY <1>5, <1>6

LEMMA DispatchMaps ==
    ASSUME IInv, Dispatch
    PROVE  BrokerStep
<1> DEFINE r == Head(queue)
<1>1. /\ queue \in Seq(NodeReads) /\ queue # << >> /\ queue' = Tail(queue)
      /\ RequestNow(r) /\ pending \cap NodeReads = {}
  BY DEF Dispatch, ChainFree, IInv, TypeOK
<1>2. r \in NodeReads /\ r \in Requests /\ r \in Queued
  BY <1>1 DEF Queued, Requests
<1>3. Status[r] = "waiting"
  BY <1>2, StatusIs
<1>4. r \notin pending /\ outcome[r] = "none"
  BY <1>2, <1>3, StatusIs
<1>5. Queued' = Queued \ {r}
  BY <1>1, HeadLeaves
<1> HIDE DEF r
<1> QED BY <1>1, <1>2, <1>3, <1>4, <1>5, RequestNowMaps

-----------------------------------------------------------------------------
(* Closing, and the steps a caller does not see.                            *)

\* Stop fails what is pending.
LEMMA StopStatus ==
    ASSUME IInv, Stop, queue' = queue
    PROVE  \A x \in Requests : Status'[x] = IF x \in pending THEN "error" ELSE Status[x]
<1>1. /\ pending' = {}
      /\ outcome' = [r \in Requests |-> IF r \in pending THEN "error" ELSE outcome[r]]
  BY DEF Stop, Failed
<1>2. Queued' = Queued
  BY DEF Queued
<1> QED BY <1>1, <1>2, PendingUnsettled DEF Status

LEMMA CloseSessionMaps ==
    ASSUME IInv, CloseSession
    PROVE  BrokerStep
<1>1. session = "open" /\ queue' = queue
  BY DEF CloseSession
<1>2. CASE SubmittedSends = {}
  <2>1. session' # "open" /\ Stop
    BY <1>2 DEF CloseSession
  <2>2. pending \cap AllSends = {}
    BY <1>2 DEF SubmittedSends
  <2> QED BY <1>1, <2>1, <2>2, StopStatus, CloseMaps
<1>3. CASE SubmittedSends # {}
  <2>1. session' # "open" /\ pending' = pending /\ outcome' = outcome
    BY <1>3 DEF CloseSession
  <2>2. Queued' = Queued
    BY <1>1 DEF Queued
  <2>3. \A x \in Requests : Status'[x] = IF x \in {} THEN "error" ELSE Status[x]
    BY <2>1, <2>2 DEF Status
  <2>4. {} \in SUBSET pending /\ {} \cap AllSends = {}
    OBVIOUS
  <2> QED BY <1>1, <2>1, <2>3, <2>4, CloseMaps
<1> QED BY <1>2, <1>3

LEMMA GraceEndsMaps ==
    ASSUME IInv, GraceEnds
    PROVE  BrokerStep
<1>1. session # "open" /\ session' # "open" /\ Stop /\ queue' = queue
  BY DEF GraceEnds
<1> QED BY <1>1, StopStatus, PendingUnsettled, FailMaps

LEMMA UnseenMaps ==
    ASSUME pending' = pending, outcome' = outcome, queue' = queue, session' = session
    PROVE  BrokerStep
<1>1. Queued' = Queued
  BY DEF Queued
<1>2. Status' = Status
  BY <1>1 DEF Status
<1> QED BY <1>2, Nothing

-----------------------------------------------------------------------------
LEMMA InitMaps == Init => Broker!Init
<1> SUFFICES ASSUME Init PROVE Broker!Init
  OBVIOUS
<1>1. pending = {} /\ outcome = [r \in Requests |-> "none"] /\ session = "open" /\ Queued = {}
  BY DEF Init, Queued
<1>2. Broker!Calls = Requests
  BY CallsAre
<1> QED BY <1>1, <1>2 DEF Broker!Init

\* Every step of the client is a step of the broker, or none.
LEMMA NextMaps == IInv /\ [Next]_vars => BrokerStep
<1> SUFFICES ASSUME IInv, [Next]_vars PROVE BrokerStep
  OBVIOUS
<1>1. ASSUME NEW r \in Requests, Request(r) PROVE BrokerStep
  BY <1>1, RequestMaps
<1>2. ASSUME NEW r \in Requests, NEW ok \in BOOLEAN, Answer(r, ok) PROVE BrokerStep
  BY <1>2, GoodAnswerMaps
<1>3. ASSUME NEW r \in Requests, Progress(r) \/ TimePasses(r) PROVE BrokerStep
  BY <1>3, UnseenMaps DEF Progress, TimePasses, sessionVars
<1>4. ASSUME NEW r \in Requests, Expire(r) PROVE BrokerStep
  <2>1. {r} \in SUBSET pending
    BY <1>4 DEF Expire, IInv, TypeOK, WatchdogsMatchPending
  <2> QED BY <1>4, <2>1, ResetMaps DEF Expire
<1>5. ASSUME NEW r \in Requests, WriteFails(r) PROVE BrokerStep
  BY <1>5, ResetMaps DEF WriteFails, Restart
<1>6. ASSUME NEW c \in Helpers, Die(c) \/ ForceKill(c) PROVE BrokerStep
  BY <1>6, UnseenMaps DEF Die, ForceKill, sessionVars
<1>7. ASSUME NEW c \in Helpers, ExitEvent(c) PROVE BrokerStep
  <2>1. CASE Settle({}, {}, TRUE, {})
    BY <2>1, ResetMaps
  <2>2. CASE UNCHANGED << child, proc, pending, writtenTo, armed, due, outcome, queue,
                          buffer, sessionVars >>
    BY <2>2, UnseenMaps DEF sessionVars
  <2> QED BY <1>7, <2>1, <2>2 DEF ExitEvent
<1>8. ASSUME NEW c \in Helpers, ErrorEvent(c) PROVE BrokerStep
  BY <1>8, ResetMaps DEF ErrorEvent
<1>9. CASE Dispatch
  BY <1>9, DispatchMaps
<1>10. CASE HalfLine \/ GarbledLine
  BY <1>10, UnseenMaps DEF HalfLine, GarbledLine, sessionVars
<1>11. CASE CloseSession
  BY <1>11, CloseSessionMaps
<1>12. CASE GraceEnds
  BY <1>12, GraceEndsMaps
<1>13. CASE Quit
  BY <1>13, ResetMaps DEF Quit, Restart
<1>14. CASE UNCHANGED vars
  BY <1>14, UnseenMaps DEF vars
<1> QED BY <1>1, <1>2, <1>3, <1>4, <1>5, <1>6, <1>7, <1>8, <1>9, <1>10, <1>11, <1>12,
           <1>13, <1>14 DEF Next

\* The client keeps what RequestBroker promises: a request is started and
\* settled at most once, node reads run one at a time, nothing starts after the
\* session is closed, and closing it fails no transfer.
THEOREM ClientImplementsBroker == Spec => ImplementsBroker
<1>1. Init => Broker!Init
  BY InitMaps
<1>2. IInv /\ [Next]_vars => [Broker!Next]_<< Status, session = "open" >>
  BY NextMaps DEF BrokerStep
<1>3. Spec => []IInv
  BY Invariance
<1> QED BY <1>1, <1>2, <1>3, PTL DEF Spec, ImplementsBroker, Broker!Spec, Status
=============================================================================
