------------------------- MODULE NativeClientProofs -------------------------
(***************************************************************************)
(* NativeCoreClient implements SessionClient, for any sets of requests:    *)
(* what NativeSession takes its clients to be is what the client of one    *)
(* helper is, with all its helpers, timers, buffer and counts.             *)
(*                                                                         *)
(* SessionClient says when a closed session ends by what is pending; the   *)
(* code counts.  That the two agree (SettleIs) rests on the exactness of   *)
(* the count, over every way in which several requests end at once.        *)
(***************************************************************************)
EXTENDS NativeBrokerProofs

\* Where each request is, and how far the end of the session has got.
Fate ==
    [r \in Requests |->
        IF outcome[r] # "none" THEN "over"
        ELSE IF r \in pending THEN "pending"
        ELSE IF r \in Queued THEN "chained"
        ELSE "new"]
Phase == IF session # "draining" THEN session
         ELSE IF needsGrace THEN "drainsEpic" ELSE "drains"

ClientStep == [Client!Next]_<< Fate, Phase, child # None >>

\* A caller cannot tell apart how its request ended.
LEMMA FateIs ==
    ASSUME NEW r \in Requests
    PROVE  /\ Fate[r] = IF outcome[r] # "none" THEN "over"
                        ELSE IF r \in pending THEN "pending"
                        ELSE IF r \in Queued THEN "chained" ELSE "new"
           /\ Fate'[r] = IF outcome'[r] # "none" THEN "over"
                         ELSE IF r \in pending' THEN "pending"
                         ELSE IF r \in Queued' THEN "chained" ELSE "new"
  BY DEF Fate

LEMMA ClientIs ==
    /\ Client!Calls = Requests
    /\ Client!Transfers = AllSends
    /\ IInv => Client!Pending = pending
    /\ \A rs : Client!Over(rs) = [x \in Requests |-> IF x \in rs THEN "over" ELSE Fate[x]]
<1>1. Client!Calls = Requests /\ Client!Transfers = AllSends
  BY DEF Client!Calls, Client!Transfers, Requests, AllSends
<1>2. ASSUME IInv PROVE Client!Pending = pending
  <2>1. Client!Pending = {r \in Requests : Fate[r] = "pending"}
    BY <1>1 DEF Client!Pending, Fate
  <2>2. \A r \in Requests : Fate[r] = "pending" <=> r \in pending
    BY <1>2, FateIs, PendingUnsettled
  <2> QED BY <1>2, <2>1, <2>2, PendingUnsettled
<1>3. \A rs : Client!Over(rs) = [x \in Requests |-> IF x \in rs THEN "over" ELSE Fate[x]]
  BY <1>1 DEF Client!Over, Fate
<1> QED BY <1>1, <1>2, <1>3

\* A step that changes nothing of what SessionClient has.
LEMMA Unseen ==
    ASSUME UNCHANGED << pending, outcome, queue, session, needsGrace, child >>
    PROVE  ClientStep
<1>1. Queued' = Queued
  BY DEF Queued
<1>2. Fate' = Fate /\ Phase' = Phase
  BY <1>1 DEF Fate, Phase
<1>3. (child # None)' = (child # None)
  OBVIOUS
<1> QED BY <1>2, <1>3 DEF ClientStep

-----------------------------------------------------------------------------
(* Settling.                                                                *)

\* The count has come to zero when no transfer is left.
LEMMA LastIs ==
    ASSUME IInv, NEW gone \in SUBSET pending
    PROVE  LastSendSettles(gone) <=>
               session = "draining" /\ pending \cap AllSends \subseteq gone
<1> DEFINE settled == gone \cap AllSends
           sends   == pending \cap AllSends
<1>1. /\ settled \subseteq sends
      /\ sends \subseteq gone <=> sends \ settled = {}
      /\ sends \subseteq gone <=> settled = sends
  OBVIOUS
<1>2. /\ Cardinality(sends \ settled) = Cardinality(sends) - Cardinality(settled)
      /\ Cardinality(sends \ settled) = 0 <=> sends \ settled = {}
      /\ Cardinality(sends) \in Nat /\ Cardinality(settled) \in Nat
      /\ settled = {} => Cardinality(settled) = 0
  <2>1. IsFiniteSet(sends)
    BY FewRequests DEF IInv, TypeOK
  <2> HIDE DEF settled, sends
  <2> QED BY <1>1, <2>1, Removing
<1>3. session = "draining" => remaining = Cardinality(sends) /\ remaining > 0
  BY DEF IInv, DrainCountExact
<1>4. LastSendSettles(gone) <=> /\ session = "draining" /\ settled # {}
                                /\ remaining = Cardinality(settled)
  BY DEF LastSendSettles
<1> HIDE DEF settled, sends
<1>5. LastSendSettles(gone) <=> session = "draining" /\ sends \subseteq gone
  BY <1>1, <1>2, <1>3, <1>4
<1> QED BY <1>5 DEF sends

\* A settled set of requests is settled in SessionClient too.
LEMMA SettleIs ==
    ASSUME IInv,
           NEW ok \in SUBSET pending, NEW failed \in SUBSET pending,
           NEW reset \in BOOLEAN, NEW kills,
           Settle(ok, failed, reset, kills),
           NEW gone, gone = IF reset THEN pending ELSE ok \cup failed,
           NEW live \in BOOLEAN, live <=> ~ reset /\ child # None
    PROVE  Client!Settle(gone, live)
<1> DEFINE drained == LastSendSettles(gone)
           stops   == drained /\ ~needsGrace
<1>1. /\ pending' = pending \ (IF stops THEN pending ELSE gone)
      /\ child' = IF reset \/ stops THEN None ELSE child
      /\ session' = IF ~drained THEN session ELSE IF needsGrace THEN "grace" ELSE "closed"
      /\ needsGrace' = needsGrace /\ queue' = queue
  BY DEF Settle
<1>2. gone \in SUBSET pending /\ needsGrace \in BOOLEAN
      /\ session \in {"open", "draining", "grace", "closed"}
  BY DEF IInv, TypeOK
<1>3. drained <=> session = "draining" /\ pending \cap AllSends \subseteq gone
  BY <1>2, LastIs
<1>4. drained <=> Phase \in {"drains", "drainsEpic"} /\ pending \cap AllSends \subseteq gone
  BY <1>2, <1>3 DEF Phase
<1>5. stops <=> drained /\ Phase = "drains"
  BY <1>2, <1>3 DEF Phase
<1>6. Phase' = IF stops THEN "closed" ELSE IF drained THEN "grace" ELSE Phase
  BY <1>1, <1>3 DEF Phase
<1>7. (child # None)' = (live /\ ~ stops)
  BY <1>1
<1>8. ASSUME NEW x \in Requests
      PROVE  Fate'[x] = IF x \in (IF stops THEN pending ELSE gone) THEN "over" ELSE Fate[x]
  <2>1. Status'[x] = IF x \in pending \ pending' THEN IF x \in ok THEN "ok" ELSE "error"
                     ELSE Status[x]
    BY SettleStatus
  <2>2. pending \ pending' = IF stops THEN pending ELSE gone
    BY <1>1, <1>2
  <2>3. outcome[x] \in {"none", "ok", "error"} /\ outcome'[x] \in {"none", "ok", "error"}
    BY Booked, SettleEffect DEF IInv, TypeOK, Settled
  <2>4. /\ Fate[x] = IF Status[x] \in {"ok", "error"} THEN "over"
                     ELSE IF Status[x] = "active" THEN "pending"
                     ELSE IF Status[x] = "waiting" THEN "chained" ELSE "new"
        /\ Fate'[x] = IF Status'[x] \in {"ok", "error"} THEN "over"
                      ELSE IF Status'[x] = "active" THEN "pending"
                      ELSE IF Status'[x] = "waiting" THEN "chained" ELSE "new"
    BY <2>3 DEF Fate, Status
  <2> HIDE DEF stops, drained
  <2> QED BY <2>1, <2>2, <2>4
<1> HIDE DEF stops, drained
<1>9. Fate' = Client!Over(IF stops THEN pending ELSE gone)
  BY <1>8, ClientIs DEF Fate
<1>10. Client!Transfers = AllSends /\ Client!Pending = pending
  BY ClientIs
<1> QED BY <1>4, <1>5, <1>6, <1>7, <1>9, <1>10 DEF Client!Settle, Fate, Phase

LEMMA AnswerSteps ==
    ASSUME IInv, NEW r \in Requests, NEW good \in BOOLEAN, Answer(r, good)
    PROVE  ClientStep
<1> DEFINE ok == IF good THEN {r} ELSE {}
           failed == IF good THEN {} ELSE {r}
<1>1. /\ r \in pending /\ child # None
      /\ ok \in SUBSET pending /\ failed \in SUBSET pending /\ {r} = ok \cup failed
      /\ Settle(ok, failed, FALSE, {})
  BY DEF Answer
<1>2. Client!Settle({r}, child # None)
  <2>1. Client!Settle({r}, TRUE)
    <3> HIDE DEF ok, failed
    <3> QED BY <1>1, SettleIs
  <2>2. (child # None) = TRUE
    BY <1>1
  <2> QED BY <2>1, <2>2 DEF Client!Settle
<1>3. Client!Answer(r)
  BY <1>1, <1>2, ClientIs DEF Client!Answer
<1> QED BY <1>3, ClientIs DEF ClientStep, Client!Next

\* Restarts, exits and errors of the helper; a quit may find none.
LEMMA ResetSteps ==
    ASSUME IInv, NEW failed \in SUBSET pending, NEW kills,
           Settle({}, failed, TRUE, kills)
    PROVE  ClientStep
<1>1. CASE child # None
  <2>1. PICK P : P = pending
    OBVIOUS
  <2>2. Client!Settle(P, FALSE)
    BY <2>1, SettleIs
  <2>3. (child # None) = TRUE /\ Client!Pending = P
    BY <1>1, <2>1, ClientIs
  <2>4. Client!Fails
    BY <2>2, <2>3 DEF Client!Fails
  <2> QED BY <2>4 DEF ClientStep, Client!Next
<1>2. CASE child = None
  <2>1. pending = {}
    BY <1>2 DEF IInv, PendingOnCurrentHelper
  <2>2. ~ LastSendSettles(pending)
    BY <2>1 DEF LastSendSettles
  <2>3. UNCHANGED << pending, session, needsGrace, child, queue >>
    BY <1>2, <2>1, <2>2 DEF Settle
  <2>4. \A x \in Requests : outcome'[x] = outcome[x]
    <3>1. Settled({})
      BY Booked, SettleEffect
    <3> QED BY <2>1, <3>1 DEF Settled
  <2>5. Queued' = Queued
    BY <2>3 DEF Queued
  <2>6. Fate' = Fate /\ Phase' = Phase
    BY <2>3, <2>4, <2>5 DEF Fate, Phase
  <2>7. (child # None)' = (child # None)
    BY <2>3
  <2> QED BY <2>6, <2>7 DEF ClientStep
<1> QED BY <1>1, <1>2

-----------------------------------------------------------------------------
(* Starting.                                                                *)

\* `r' is at its turn, and its caller takes it out of the chain.
LEMMA RequestNowSteps ==
    ASSUME IInv, NEW r \in Requests, RequestNow(r),
           r \notin pending, outcome[r] = "none",
           r \in NodeReads <=> r \in Queued,
           r \in NodeReads => pending \cap NodeReads = {},
           Queued' = Queued \ {r}
    PROVE  ClientStep
<1>1. PICK gone \in SUBSET pending : gone = Preempted(r)
  BY PreemptedIsAllOrNothing
<1>2. outcome \in [Requests -> {"none", "ok", "error"}]
      /\ session \in {"open", "draining", "grace", "closed"}
  BY DEF IInv, TypeOK
<1>3. /\ Client!Calls = Requests /\ Client!Pending = pending
      /\ \A rs : Client!Over(rs) = [x \in Requests |-> IF x \in rs THEN "over" ELSE Fate[x]]
  BY ClientIs
<1>4. Client!Due(r)
  <2>1. Fate[r] = IF r \in NodeReads THEN "chained" ELSE "new"
    BY FateIs
  <2> QED BY <1>3, <2>1 DEF Client!Due, Fate
<1>5. Client!Preempted(r) = gone
  BY <1>1, <1>3 DEF Client!Preempted, Preempted, Preempts
<1>6. session = "open" <=> Phase = "open"
  BY <1>2 DEF Phase
<1>7. ASSUME Refuse(r) PROVE Client!Refuse(r)
  <2>1. /\ session # "open"
        /\ outcome' = [x \in Requests |-> IF x \in {r} THEN "error" ELSE outcome[x]]
        /\ UNCHANGED << pending, session, needsGrace, child >>
    BY <1>7 DEF Refuse, SessionClosed, Failed, sessionVars, helperVars
  <2>2. \A x \in Requests : Fate'[x] = IF x \in {r} THEN "over" ELSE Fate[x]
    BY <1>2, <2>1, FateIs
  <2>3. Fate' = Client!Over({r})
    BY <1>3, <2>2 DEF Fate
  <2>4. Phase' = Phase /\ (child # None)' = (child # None)
    BY <2>1 DEF Phase
  <2> QED BY <1>4, <1>6, <2>1, <2>3, <2>4 DEF Client!Refuse, Fate, Phase
<1>8. ASSUME Submit(r) PROVE Client!Start(r)
  <2>1. /\ outcome' = [x \in Requests |-> IF x \in gone THEN "error" ELSE outcome[x]]
        /\ pending' = (pending \ gone) \cup {r}
        /\ session = "open" /\ UNCHANGED << session, needsGrace >>
    BY <1>1, <1>8 DEF Submit, Failed, SessionClosed, sessionVars
  <2>2. ASSUME NEW x \in Requests
        PROVE  Fate'[x] = IF x = r THEN "pending" ELSE IF x \in gone THEN "over" ELSE Fate[x]
    BY <1>1, <1>2, <2>1, FateIs
  <2>3. Fate' = [Client!Over(gone) EXCEPT ![r] = "pending"]
    BY <1>3, <2>2 DEF Fate
  <2>4. Phase' = Phase /\ Phase = "open"
    BY <2>1 DEF Phase
  <2>5. (child # None)' = TRUE
    BY <1>8, ClientConstants DEF Submit, Helpers, IInv, TypeOK
  <2> QED BY <1>4, <1>5, <2>3, <2>4, <2>5 DEF Client!Start, Fate, Phase
<1>9. ASSUME StartThrows(r) PROVE Client!StartFails(r)
  <2>1. /\ outcome' = [x \in Requests |-> IF x \in gone \cup {r} THEN "error" ELSE outcome[x]]
        /\ pending' = pending \ gone
        /\ session = "open" /\ UNCHANGED << session, needsGrace >>
        /\ child' = None /\ (child = None \/ Preempts(r))
    BY <1>1, <1>9 DEF StartThrows, Failed, SessionClosed, sessionVars
  <2>2. child # None => gone # {}
    BY <1>1, <2>1 DEF Preempts, Preempted
  <2>3. ASSUME NEW x \in Requests
        PROVE  Fate'[x] = IF x \in gone \cup {r} THEN "over" ELSE Fate[x]
    BY <1>1, <1>2, <2>1, FateIs
  <2>4. Fate' = Client!Over(gone \cup {r})
    BY <1>3, <2>3 DEF Fate
  <2>5. Phase' = Phase /\ Phase = "open" /\ (child # None)' = FALSE
    BY <2>1 DEF Phase
  <2> QED BY <1>4, <1>5, <2>2, <2>4, <2>5 DEF Client!StartFails, Fate, Phase
<1>10. Client!Next
  BY <1>3, <1>7, <1>8, <1>9 DEF RequestNow, Client!Next
<1> QED BY <1>10 DEF ClientStep

LEMMA RequestSteps ==
    ASSUME IInv, NEW r \in Requests, Request(r)
    PROVE  ClientStep
<1>1. r \notin pending /\ outcome[r] = "none" /\ r \notin Queued
  BY DEF Request, Fresh
<1>2. CASE r \in NodeReads
  <2>1. /\ queue' = Append(queue, r) /\ queue \in Seq(NodeReads)
        /\ UNCHANGED << pending, outcome, session, needsGrace, child >>
    BY <1>2 DEF Request, helperVars, sessionVars, IInv, TypeOK
  <2>2. Queued' = Queued \cup {r}
    BY <1>2, <2>1 DEF Queued
  <2>3. ASSUME NEW x \in Requests
        PROVE  Fate'[x] = IF x = r THEN "chained" ELSE Fate[x]
    BY <1>1, <2>1, <2>2, FateIs
  <2>4. Fate[r] = "new" /\ Fate' = [Fate EXCEPT ![r] = "chained"]
    BY <1>1, <2>3 DEF Fate
  <2>5. Phase' = Phase /\ (child # None)' = (child # None)
    BY <2>1 DEF Phase
  <2>6. Client!Enqueue(r)
    BY <1>2, <2>4, <2>5 DEF Client!Enqueue, Fate, Phase
  <2> QED BY <2>6, ClientIs DEF ClientStep, Client!Next
<1>3. CASE r \notin NodeReads
  <2>1. RequestNow(r) /\ queue' = queue
    BY <1>3 DEF Request
  <2>2. Queued' = Queued \ {r}
    BY <1>1, <2>1 DEF Queued
  <2> QED BY <1>1, <1>3, <2>1, <2>2, RequestNowSteps
<1> QED BY <1>2, <1>3

LEMMA DispatchSteps ==
    ASSUME IInv, Dispatch
    PROVE  ClientStep
<1>1. PICK r : r = Head(queue)
  OBVIOUS
<1>2. r \in NodeReads /\ r \in Queued /\ RequestNow(r) /\ pending \cap NodeReads = {}
  BY <1>1 DEF Dispatch, ChainFree, Queued, IInv, TypeOK
<1>3. r \in Requests /\ Status[r] = "waiting"
  BY <1>2, StatusIs DEF Requests
<1>4. r \notin pending /\ outcome[r] = "none"
  BY <1>3, StatusIs
<1>5. Queued' = Queued \ {r}
  BY <1>1, HeadLeaves DEF Dispatch
<1> QED BY <1>2, <1>3, <1>4, <1>5, RequestNowSteps

-----------------------------------------------------------------------------
(* Closing.                                                                 *)

LEMMA StopIs ==
    ASSUME IInv, Stop, queue' = queue, session' = "closed"
    PROVE  Client!Stop
<1>1. pending' = {} /\ outcome' = [r \in Requests |-> IF r \in pending THEN "error" ELSE outcome[r]]
      /\ child' = None
  BY DEF Stop, Failed
<1>2. Queued' = Queued
  BY DEF Queued
<1>3. \A x \in Requests : Fate'[x] = IF x \in pending THEN "over" ELSE Fate[x]
  BY <1>1, <1>2, FateIs
<1>4. Fate' = Client!Over(pending) /\ Client!Pending = pending
  BY <1>3, ClientIs DEF Fate
<1>5. Phase' = "closed" /\ (child # None)' = FALSE
  BY <1>1 DEF Phase
<1> QED BY <1>4, <1>5 DEF Client!Stop, Fate, Phase

LEMMA CloseSteps ==
    ASSUME IInv, CloseSession
    PROVE  ClientStep
<1>1. session = "open" /\ queue' = queue /\ Phase = "open"
  BY DEF CloseSession, Phase
<1>2. Client!Pending = pending /\ Client!Transfers = AllSends
  BY ClientIs
<1>3. CASE SubmittedSends = {}
  <2>1. session' = "closed" /\ Stop
    BY <1>3 DEF CloseSession
  <2>2. Client!Stop
    BY <1>1, <2>1, StopIs
  <2>3. Client!Close
    BY <1>1, <1>2, <1>3, <2>2 DEF Client!Close, SubmittedSends, Phase
  <2> QED BY <2>3 DEF ClientStep, Client!Next
<1>4. CASE SubmittedSends # {}
  <2>1. /\ session' = "draining" /\ needsGrace' = (pending \cap EpicSends # {})
        /\ UNCHANGED << pending, outcome, child >>
    BY <1>4 DEF CloseSession, helperVars
  <2>2. Queued' = Queued
    BY <1>1 DEF Queued
  <2>3. Fate' = Fate /\ (child # None)' = (child # None)
    BY <2>1, <2>2 DEF Fate
  <2>4. Phase' = IF pending \cap EpicSends # {} THEN "drainsEpic" ELSE "drains"
    BY <2>1 DEF Phase
  <2>5. Client!Close
    BY <1>1, <1>2, <1>4, <2>3, <2>4 DEF Client!Close, SubmittedSends, Fate, Phase
  <2> QED BY <2>5 DEF ClientStep, Client!Next
<1> QED BY <1>3, <1>4

LEMMA GraceSteps ==
    ASSUME IInv, GraceEnds
    PROVE  ClientStep
<1>1. session = "grace" /\ session' = "closed" /\ Stop /\ queue' = queue
  BY DEF GraceEnds
<1>2. Client!Stop /\ Phase = "grace"
  BY <1>1, StopIs DEF Phase
<1> QED BY <1>2 DEF ClientStep, Client!Next, Client!GraceEnds, Phase

-----------------------------------------------------------------------------
LEMMA InitIs == Init => Client!Init
<1> SUFFICES ASSUME Init PROVE Client!Init
  OBVIOUS
<1>1. pending = {} /\ outcome = [r \in Requests |-> "none"] /\ Queued = {}
      /\ session = "open" /\ child = None
  BY DEF Init, Queued
<1>2. Client!Calls = Requests
  BY ClientIs
<1> QED BY <1>1, <1>2 DEF Client!Init

\* Every step of the client is a step of the session client, or none.
LEMMA NextSteps == IInv /\ [Next]_vars => ClientStep
<1> SUFFICES ASSUME IInv, [Next]_vars PROVE ClientStep
  OBVIOUS
<1>1. ASSUME NEW r \in Requests, Request(r) PROVE ClientStep
  BY <1>1, RequestSteps
<1>2. ASSUME NEW r \in Requests, NEW ok \in BOOLEAN, Answer(r, ok) PROVE ClientStep
  BY <1>2, AnswerSteps
<1>3. ASSUME NEW r \in Requests, Progress(r) \/ TimePasses(r) PROVE ClientStep
  BY <1>3, Unseen DEF Progress, TimePasses, helperVars, sessionVars
<1>4. ASSUME NEW r \in Requests, Expire(r) PROVE ClientStep
  <2>1. {r} \in SUBSET pending
    BY <1>4 DEF Expire, IInv, TypeOK, WatchdogsMatchPending
  <2> QED BY <1>4, <2>1, ResetSteps DEF Expire
<1>5. ASSUME NEW r \in Requests, WriteFails(r) PROVE ClientStep
  BY <1>5, ResetSteps DEF WriteFails, Restart
<1>6. ASSUME NEW c \in Helpers, Die(c) \/ ForceKill(c) PROVE ClientStep
  BY <1>6, Unseen DEF Die, ForceKill, sessionVars
<1>7. ASSUME NEW c \in Helpers, ExitEvent(c) PROVE ClientStep
  <2>1. CASE Settle({}, {}, TRUE, {})
    BY <2>1, ResetSteps
  <2>2. CASE UNCHANGED << child, proc, pending, writtenTo, armed, due, outcome, queue,
                          buffer, sessionVars >>
    BY <2>2, Unseen DEF sessionVars
  <2> QED BY <1>7, <2>1, <2>2 DEF ExitEvent
<1>8. ASSUME NEW c \in Helpers, ErrorEvent(c) PROVE ClientStep
  BY <1>8, ResetSteps DEF ErrorEvent
<1>9. CASE Dispatch
  BY <1>9, DispatchSteps
<1>10. CASE HalfLine \/ GarbledLine
  BY <1>10, Unseen DEF HalfLine, GarbledLine, helperVars, sessionVars
<1>11. CASE CloseSession
  BY <1>11, CloseSteps
<1>12. CASE GraceEnds
  BY <1>12, GraceSteps
<1>13. CASE Quit
  BY <1>13, ResetSteps DEF Quit, Restart
<1>14. CASE UNCHANGED vars
  BY <1>14, Unseen DEF vars
<1> QED BY <1>1, <1>2, <1>3, <1>4, <1>5, <1>6, <1>7, <1>8, <1>9, <1>10, <1>11, <1>12,
           <1>13, <1>14 DEF Next

\* What NativeSession takes a client to be is what this client is: its session
\* ends at once, with its last transfer, or after the grace of Epic, and what it
\* lets go of with a helper has failed.
THEOREM ClientIsSessionClient == Spec => ImplementsSessionClient
<1>1. Init => Client!Init
  BY InitIs
<1>2. IInv /\ [Next]_vars => [Client!Next]_<< Fate, Phase, child # None >>
  BY NextSteps DEF ClientStep
<1>3. Spec => []IInv
  BY Invariance
<1> QED BY <1>1, <1>2, <1>3, PTL
        DEF Spec, ImplementsSessionClient, Client!Spec, Fate, Phase
=============================================================================
