----------------------- MODULE NativeCoreClientProofs -----------------------
(***************************************************************************)
(* The invariants of NativeCoreClient hold for any sets of requests.       *)
(*                                                                         *)
(* None of them is inductive alone: that nothing is awaited from a helper  *)
(* that is gone needs to know what rejectAll empties; that the count of a  *)
(* draining session is exact needs the bookkeeping of the pending map; and *)
(* that a dispatched read finds its caller unsettled needs to know what    *)
(* waits in the promise chain.  IInv is their conjunction with three facts *)
(* of its own: QueueWaits, ClosedIsWithoutHelper and BufferIsCurrent.      *)
(***************************************************************************)
EXTENDS NativeCoreClient, FiniteSetTheorems, SequenceTheorems, TLAPS

\* A read in the chain waits for its turn, once.
QueueWaits ==
    /\ \A i \in 1 .. Len(queue) : queue[i] \notin pending /\ outcome[queue[i]] = "none"
    /\ \A i, j \in 1 .. Len(queue) : i # j => queue[i] # queue[j]

\* A client that was closed never gets another helper.
ClosedIsWithoutHelper == session = "closed" => child = None

\* What is left in the buffer was written by the helper that is current, and
\* between two helpers it is empty.
BufferIsCurrent == ~quit /\ session # "closed" => Parses

\* The part of the invariant that settling requests must keep by itself.
Bookkeeping ==
    /\ pending \subseteq Requests
    /\ writtenTo \in [Requests -> Helpers \cup {None}]
    /\ armed = pending
    /\ due \subseteq armed
    /\ outcome \in [Requests -> {"none", "ok", "error"}]
    /\ queue \in Seq(NodeReads)
    /\ session \in {"open", "draining", "grace", "closed"}
    /\ remaining \in Int
    /\ needsGrace \in BOOLEAN
    /\ PendingOnCurrentHelper
    /\ NoCallerForgotten
    /\ QueueWaits
    /\ DrainCountExact
    /\ ClosedIsWithoutHelper

IInv ==
    /\ TypeOK
    /\ PendingOnCurrentHelper
    /\ NoOrphanHelper
    /\ WatchdogsMatchPending
    /\ NoCallerForgotten
    /\ QueueWaits
    /\ DrainCountExact
    /\ ClosedIsWithoutHelper
    /\ BufferIsCurrent

-----------------------------------------------------------------------------
(* Sets of requests and the chain *)

\* What is left of a finite set, and how much, when some of it goes.
LEMMA Removing ==
    ASSUME NEW S, IsFiniteSet(S), NEW T, T \subseteq S
    PROVE  /\ Cardinality(S) \in Nat
           /\ Cardinality(T) \in Nat
           /\ Cardinality(S \ T) \in Nat
           /\ Cardinality(S \ T) = Cardinality(S) - Cardinality(T)
           /\ Cardinality(S \ T) = 0 <=> S \ T = {}
           /\ T = {} => Cardinality(T) = 0
<1>1. IsFiniteSet(T) /\ IsFiniteSet(S \ T)
  BY FS_Subset
<1>2. S \cap T = T
  OBVIOUS
<1>3. Cardinality(S \ T) = Cardinality(S) - Cardinality(S \cap T)
  BY FS_Difference
<1>4. Cardinality(S) \in Nat /\ Cardinality(T) \in Nat /\ Cardinality(S \ T) \in Nat
  BY <1>1, FS_CardinalityType
<1>5. QED
  BY <1>1, <1>2, <1>3, <1>4, FS_EmptySet

\* A part of the requests is finite.
LEMMA FewRequests ==
    ASSUME NEW S, S \subseteq Requests
    PROVE  IsFiniteSet(S) /\ Cardinality(S) \in Nat
  BY ClientConstants, FS_Subset, FS_CardinalityType

-----------------------------------------------------------------------------
(* Settling requests *)

\* What Settle does, without its LET: only pending requests change, and they are
\* settled; the helper is let go of with a reset or when the last send is done,
\* and then nothing stays pending.
Settled(ok) ==
    /\ pending' \subseteq pending
    /\ armed' = pending'
    /\ due' \subseteq armed'
    /\ \A r \in Requests :
         outcome'[r] = IF r \in pending \ pending'
                       THEN IF r \in ok THEN "ok" ELSE "error"
                       ELSE outcome[r]
    /\ outcome' \in [Requests -> {"none", "ok", "error"}]
    /\ \/ child' = child
       \/ child' = None /\ pending' = {}
    /\ UNCHANGED << writtenTo, queue, needsGrace >>

\* Settle settles what it is given, and with a reset lets go of the helper.
LEMMA SettleEffect ==
    ASSUME Bookkeeping,
           NEW ok \in SUBSET pending, NEW failed \in SUBSET pending,
           NEW reset \in BOOLEAN, NEW kills,
           Settle(ok, failed, reset, kills)
    PROVE  Settled(ok) /\ (reset => child' = None)
<1> DEFINE gone    == IF reset THEN pending ELSE ok \cup failed
           drained == LastSendSettles(gone)
           stops   == drained /\ ~needsGrace
           lost    == failed \cup (IF reset \/ stops THEN pending \ ok ELSE {})
<1>1. /\ pending' = pending \ (ok \cup lost)
      /\ armed' = armed \ (ok \cup lost)
      /\ due' = due \ (ok \cup lost)
      /\ outcome' = [r \in Requests |->
                       IF r \in ok THEN "ok"
                       ELSE [x \in Requests |-> IF x \in lost THEN "error" ELSE outcome[x]][r]]
      /\ child' = IF reset \/ stops THEN None ELSE child
      /\ UNCHANGED << writtenTo, queue, needsGrace >>
  BY DEF Settle, Disarmed, Failed
<1>2. ok \subseteq pending /\ lost \subseteq pending
  OBVIOUS
<1>3. reset \/ stops => pending' = {}
  BY <1>1
<1>4. pending \ pending' = ok \cup lost
  BY <1>1, <1>2
<1>5. \A r \in Requests :
        outcome'[r] = IF r \in pending \ pending'
                      THEN IF r \in ok THEN "ok" ELSE "error"
                      ELSE outcome[r]
  BY <1>1, <1>4
<1>6. outcome' \in [Requests -> {"none", "ok", "error"}]
  BY <1>1 DEF Bookkeeping
<1> HIDE DEF gone, drained, stops, lost
<1>7. QED
  BY <1>1, <1>3, <1>5, <1>6 DEF Bookkeeping, Settled

\* The sends of a closed session are counted down exactly, and the client is
\* stopped when none is left.
LEMMA SettleCounts ==
    ASSUME Bookkeeping,
           NEW ok \in SUBSET pending, NEW failed \in SUBSET pending,
           NEW reset \in BOOLEAN, NEW kills,
           Settle(ok, failed, reset, kills)
    PROVE  /\ session' \in {"open", "draining", "grace", "closed"}
           /\ remaining' \in Int
           /\ DrainCountExact'
           /\ ClosedIsWithoutHelper'
           /\ session = "closed" => session' = "closed"
<1> DEFINE gone    == IF reset THEN pending ELSE ok \cup failed
           settled == gone \cap AllSends
           sends   == pending \cap AllSends
           drained == LastSendSettles(gone)
           stops   == drained /\ ~needsGrace
           lost    == failed \cup (IF reset \/ stops THEN pending \ ok ELSE {})
<1>1. /\ pending' = pending \ (ok \cup lost)
      /\ child' = IF reset \/ stops THEN None ELSE child
      /\ session' = IF ~drained THEN session ELSE IF needsGrace THEN "grace" ELSE "closed"
      /\ remaining' = IF session = "draining" THEN remaining - Cardinality(settled)
                      ELSE remaining
  BY DEF Settle
<1>2. gone \subseteq pending /\ settled \subseteq sends
  OBVIOUS
<1>3. pending' \cap AllSends = IF stops THEN {} ELSE sends \ settled
  BY <1>1
<1>4. drained <=> /\ session = "draining"
                  /\ settled # {}
                  /\ remaining = Cardinality(settled)
  BY DEF LastSendSettles
<1>5. stops => drained /\ ~needsGrace
  OBVIOUS
<1>6. /\ Cardinality(sends) \in Nat
      /\ Cardinality(settled) \in Nat
      /\ Cardinality(sends \ settled) \in Nat
      /\ Cardinality(sends \ settled) = Cardinality(sends) - Cardinality(settled)
      /\ Cardinality(sends \ settled) = 0 <=> sends \ settled = {}
      /\ settled = {} => Cardinality(settled) = 0
  <2>1. IsFiniteSet(sends)
    BY FewRequests DEF Bookkeeping
  <2> HIDE DEF settled, sends
  <2>2. QED
    BY <1>2, <2>1, Removing
<1>7. /\ session = "draining" => remaining = Cardinality(sends) /\ remaining > 0
      /\ session \in {"grace", "closed"} => sends = {}
      /\ session = "closed" => child = None
      /\ session \in {"open", "draining", "grace", "closed"}
      /\ remaining \in Int
      /\ needsGrace \in BOOLEAN
  BY DEF Bookkeeping, DrainCountExact, ClosedIsWithoutHelper
<1> HIDE DEF gone, settled, sends, drained, stops, lost
<1>8. CASE drained
  <2>1. sends \ settled = {}
    BY <1>4, <1>6, <1>7, <1>8
  <2>2. pending' \cap AllSends = {}
    BY <1>3, <2>1
  <2>3. session' \in {"grace", "closed"} /\ (session' = "closed" => stops)
    BY <1>1, <1>8 DEF stops
  <2>4. QED
    BY <1>1, <1>4, <1>6, <1>7, <1>8, <2>2, <2>3 DEF DrainCountExact, ClosedIsWithoutHelper
<1>9. CASE ~drained
  <2>1. session' = session /\ pending' \cap AllSends = sends \ settled
    BY <1>1, <1>3, <1>5, <1>9
  <2>2. ASSUME session = "draining"
        PROVE  remaining' = Cardinality(sends \ settled) /\ remaining' > 0
    BY <1>1, <1>4, <1>6, <1>7, <1>9, <2>2
  <2>3. ASSUME session \in {"grace", "closed"}
        PROVE  sends \ settled = {}
    BY <1>7, <2>3
  <2>4. session = "closed" => child' = None
    BY <1>1, <1>7
  <2>5. remaining' \in Int
    BY <1>1, <1>6, <1>7
  <2>6. QED
    BY <1>7, <2>1, <2>2, <2>3, <2>4, <2>5 DEF DrainCountExact, ClosedIsWithoutHelper
<1>10. QED
  BY <1>8, <1>9

\* The client's bookkeeping is as good after settling as before.
LEMMA SettleKeeps ==
    ASSUME Bookkeeping,
           NEW ok \in SUBSET pending, NEW failed \in SUBSET pending,
           NEW reset \in BOOLEAN, NEW kills,
           Settle(ok, failed, reset, kills)
    PROVE  Bookkeeping'
<1>1. Settled(ok)
  BY SettleEffect
<1>2. /\ session' \in {"open", "draining", "grace", "closed"}
      /\ remaining' \in Int
      /\ DrainCountExact'
      /\ ClosedIsWithoutHelper'
  BY SettleCounts
<1>3. PendingOnCurrentHelper'
  BY <1>1 DEF PendingOnCurrentHelper, Bookkeeping, Settled
<1>4. NoCallerForgotten'
  BY <1>1 DEF NoCallerForgotten, Bookkeeping, Settled
<1>5. QueueWaits'
  <2>1. \A i \in 1 .. Len(queue) : queue[i] \in Requests
    BY DEF Bookkeeping, Requests
  <2>2. QED
    BY <1>1, <2>1 DEF QueueWaits, Bookkeeping, Settled
<1>6. QED
  BY <1>1, <1>2, <1>3, <1>4, <1>5 DEF Bookkeeping, Settled

\* The helpers are told to stop when the client lets go of them, so none that
\* runs on is forgotten.
LEMMA SettleHelpers ==
    ASSUME TypeOK, NoOrphanHelper,
           NEW ok, NEW failed, NEW reset \in BOOLEAN, NEW kills,
           reset => \A c \in Helpers : proc[c] = "alive" => c \in kills,
           Settle(ok, failed, reset, kills)
    PROVE  /\ child' \in {child, None}
           /\ proc' \in [Helpers -> {"unborn", "alive", "terminating", "dead"}]
           /\ \A c \in Helpers :
                proc'[c] = "alive" => proc[c] = "alive" /\ c = child' /\ c \in children
<1> DEFINE stops == /\ LastSendSettles(IF reset THEN pending ELSE ok \cup failed)
                    /\ ~needsGrace
           told  == kills \cup (IF stops THEN children ELSE {})
<1>1. /\ child' = IF reset \/ stops THEN None ELSE child
      /\ proc' = Terminated(told)
  BY DEF Settle
<1>2. proc' = [c \in Helpers |->
                 IF c \in told /\ proc[c] = "alive" THEN "terminating" ELSE proc[c]]
  BY <1>1 DEF Terminated
<1>3. proc' \in [Helpers -> {"unborn", "alive", "terminating", "dead"}]
  BY <1>2 DEF TypeOK
<1>4. ASSUME NEW c \in Helpers, proc'[c] = "alive"
      PROVE  proc[c] = "alive" /\ c = child' /\ c \in children
  <2>1. proc[c] = "alive" /\ c \notin told
    BY <1>2, <1>4
  <2>2. c = child /\ c \in children
    BY <2>1 DEF NoOrphanHelper
  <2>3. ~stops /\ ~reset
    BY <2>1, <2>2
  <2>4. QED
    BY <1>1, <2>1, <2>2, <2>3
<1> HIDE DEF stops
<1>5. QED
  BY <1>1, <1>3, <1>4

-----------------------------------------------------------------------------
(* Starting a request *)

\* The requests a start fails are pending ones, and then all of them.
LEMMA PreemptedIsAllOrNothing ==
    ASSUME NEW r
    PROVE  /\ Preempts(r) => Preempted(r) = pending
           /\ ~Preempts(r) => Preempted(r) = {}
           /\ ~Preempts(r) => pending = {} \/ r \notin EpicSends
  BY DEF Preempts, Preempted

\* A request that nobody has made yet, or that has its turn in the chain, is
\* refused, written to a helper, or fails because no helper could be started.
\* `queue` is what its caller leaves of the chain.
LEMMA RequestNowKeeps ==
    ASSUME IInv,
           NEW r \in Requests, r \notin pending, outcome[r] = "none",
           RequestNow(r),
           queue' \in Seq(NodeReads),
           \A i \in 1 .. Len(queue') :
             queue'[i] # r /\ \E j \in 1 .. Len(queue) : queue'[i] = queue[j],
           \A i, j \in 1 .. Len(queue') : i # j => queue'[i] # queue'[j]
    PROVE  IInv'
<1> USE DEF IInv
<1>1. CASE Refuse(r)
  <2>1. /\ outcome' = [x \in Requests |-> IF x \in {r} THEN "error" ELSE outcome[x]]
        /\ UNCHANGED << helperVars, pending, writtenTo, armed, due, buffer, sessionVars >>
    BY <1>1 DEF Refuse, Failed
  <2>2. TypeOK'
    BY <2>1 DEF TypeOK, helperVars, sessionVars
  <2>3. PendingOnCurrentHelper' /\ NoOrphanHelper' /\ WatchdogsMatchPending'
    BY <2>1 DEF PendingOnCurrentHelper, NoOrphanHelper, WatchdogsMatchPending, helperVars
  <2>4. NoCallerForgotten'
    BY <2>1 DEF NoCallerForgotten, TypeOK
  <2>5. QueueWaits'
    <3>1. \A j \in 1 .. Len(queue) : queue[j] \in Requests
      BY DEF TypeOK, Requests
    <3>2. QED
      BY <2>1, <3>1 DEF QueueWaits
  <2>6. DrainCountExact' /\ ClosedIsWithoutHelper' /\ BufferIsCurrent'
    BY <2>1 DEF DrainCountExact, ClosedIsWithoutHelper, BufferIsCurrent, Parses,
                helperVars, sessionVars
  <2>7. QED
    BY <2>2, <2>3, <2>4, <2>5, <2>6
<1>2. CASE Submit(r)
  <2> DEFINE helper == IF child = None \/ Preempts(r) THEN r ELSE child
  <2>1. /\ session = "open"
        /\ pending' = (pending \ Preempted(r)) \cup {r}
        /\ armed' = (armed \ Preempted(r)) \cup {r}
        /\ due' = due \ Preempted(r)
        /\ outcome' = [x \in Requests |-> IF x \in Preempted(r) THEN "error" ELSE outcome[x]]
        /\ writtenTo' = [writtenTo EXCEPT ![r] = helper]
        /\ child' = helper
        /\ children' = children \cup {helper}
        /\ proc' = [c \in Helpers |->
                      IF c = r /\ helper = r THEN "alive"
                      ELSE IF Preempts(r) THEN Terminated(children)[c]
                      ELSE proc[c]]
        /\ buffer' = IF Preempts(r) THEN None ELSE buffer
        /\ UNCHANGED sessionVars
    BY <1>2 DEF Submit, SessionClosed, Disarmed, Failed
  <2>2. Preempted(r) = IF Preempts(r) THEN pending ELSE {}
    BY PreemptedIsAllOrNothing
  <2>3. helper \in Helpers /\ r \in Helpers /\ None \notin Helpers
    BY ClientConstants DEF TypeOK, Helpers
  <2>4. Preempts(r) \in BOOLEAN
    BY DEF Preempts
  <2>5. \A c \in Helpers : Terminated(children)[c] =
          IF c \in children /\ proc[c] = "alive" THEN "terminating" ELSE proc[c]
    BY DEF Terminated
  <2>6. child = None => pending = {}
    BY DEF PendingOnCurrentHelper
  <2>7. TypeOK'
    BY <2>1, <2>2, <2>3, <2>5 DEF TypeOK, sessionVars
  <2>8. PendingOnCurrentHelper'
    BY <2>1, <2>2, <2>3, <2>6 DEF PendingOnCurrentHelper, TypeOK
  <2>9. NoOrphanHelper'
    BY <2>1, <2>3, <2>5 DEF NoOrphanHelper, TypeOK
  <2>10. WatchdogsMatchPending'
    BY <2>1 DEF WatchdogsMatchPending
  <2>11. NoCallerForgotten'
    BY <2>1, <2>2 DEF NoCallerForgotten, PendingOnCurrentHelper, TypeOK
  <2>12. QueueWaits'
    <3>1. \A j \in 1 .. Len(queue) : queue[j] \in Requests
      BY DEF TypeOK, Requests
    <3>2. QED
      BY <2>1, <2>2, <3>1 DEF QueueWaits
  <2>13. DrainCountExact' /\ ClosedIsWithoutHelper'
    BY <2>1 DEF DrainCountExact, ClosedIsWithoutHelper, sessionVars
  <2>14. BufferIsCurrent'
    BY <2>1 DEF BufferIsCurrent, Parses, sessionVars
  <2>15. QED
    BY <2>7, <2>8, <2>9, <2>10, <2>11, <2>12, <2>13, <2>14
<1>3. CASE StartThrows(r)
  <2>1. /\ session = "open"
        /\ child = None \/ Preempts(r)
        /\ pending' = pending \ Preempted(r)
        /\ armed' = armed \ Preempted(r)
        /\ due' = due \ Preempted(r)
        /\ outcome' = [x \in Requests |->
                         IF x \in Preempted(r) \cup {r} THEN "error" ELSE outcome[x]]
        /\ child' = None
        /\ proc' = IF Preempts(r) THEN Terminated(children) ELSE proc
        /\ buffer' = IF Preempts(r) THEN None ELSE buffer
        /\ UNCHANGED << children, writtenTo, sessionVars >>
    BY <1>3 DEF StartThrows, SessionClosed, Disarmed, Failed
  <2>2. Preempted(r) = IF Preempts(r) THEN pending ELSE {}
    BY PreemptedIsAllOrNothing
  <2>3. pending' = {}
    BY <2>1, <2>2 DEF PendingOnCurrentHelper
  <2>4. Terminated(children) = [c \in Helpers |->
          IF c \in children /\ proc[c] = "alive" THEN "terminating" ELSE proc[c]]
    BY DEF Terminated
  <2>5. \A c \in Helpers : proc'[c] # "alive"
    BY <2>1, <2>4, ClientConstants DEF NoOrphanHelper, Helpers
  <2>6. TypeOK'
    BY <2>1, <2>4 DEF TypeOK, sessionVars
  <2>7. PendingOnCurrentHelper' /\ NoOrphanHelper' /\ WatchdogsMatchPending'
    BY <2>1, <2>3, <2>5 DEF PendingOnCurrentHelper, NoOrphanHelper, WatchdogsMatchPending
  <2>8. NoCallerForgotten'
    BY <2>1, <2>2, <2>3 DEF NoCallerForgotten, PendingOnCurrentHelper, TypeOK
  <2>9. QueueWaits'
    <3>1. \A j \in 1 .. Len(queue) : queue[j] \in Requests
      BY DEF TypeOK, Requests
    <3>2. QED
      BY <2>1, <2>2, <3>1 DEF QueueWaits
  <2>10. DrainCountExact' /\ ClosedIsWithoutHelper' /\ BufferIsCurrent'
    BY <2>1 DEF DrainCountExact, ClosedIsWithoutHelper, BufferIsCurrent, Parses, sessionVars
  <2>11. QED
    BY <2>6, <2>7, <2>8, <2>9, <2>10
<1>4. QED
  BY <1>1, <1>2, <1>3 DEF RequestNow

-----------------------------------------------------------------------------
(* The steps that settle requests *)

\* A step that settles requests keeps the invariant if, when it lets go of the
\* helper, it tells the ones that run to stop, forgets only helpers that are
\* dead, and leaves nothing of the old helper in the buffer.
LEMMA SettleStep ==
    ASSUME IInv,
           NEW ok \in SUBSET pending, NEW failed \in SUBSET pending,
           NEW reset \in BOOLEAN, NEW kills,
           Settle(ok, failed, reset, kills),
           reset => \A c \in Helpers : proc[c] = "alive" => c \in kills,
           children' \subseteq children,
           \A c \in children \ children' : proc[c] = "dead",
           buffer' = None \/ (quit' /\ buffer' = buffer),
           quit' \in BOOLEAN
    PROVE  IInv'
<1>1. TypeOK /\ NoOrphanHelper /\ Bookkeeping
  BY DEF IInv, TypeOK, Bookkeeping, WatchdogsMatchPending
<1>2. Bookkeeping'
  BY <1>1, SettleKeeps
<1>3. /\ child' \in {child, None}
      /\ proc' \in [Helpers -> {"unborn", "alive", "terminating", "dead"}]
      /\ \A c \in Helpers :
           proc'[c] = "alive" => proc[c] = "alive" /\ c = child' /\ c \in children
  BY <1>1, SettleHelpers
<1>4. TypeOK'
  BY <1>1, <1>2, <1>3 DEF TypeOK, Bookkeeping
<1>5. NoOrphanHelper'
  BY <1>3 DEF NoOrphanHelper
<1>6. BufferIsCurrent'
  BY DEF BufferIsCurrent, Parses
<1>7. QED
  BY <1>2, <1>4, <1>5, <1>6 DEF IInv, Bookkeeping, WatchdogsMatchPending

\* The helpers that run were all started by the client and not forgotten.
LEMMA AliveAreChildren ==
    ASSUME IInv
    PROVE  \A c \in Helpers : proc[c] = "alive" => c = child /\ c \in children
  BY DEF IInv, NoOrphanHelper

\* An answer settles its request and, when it is the last send of a closed
\* session, all the others.
LEMMA AnswerKeeps ==
    ASSUME IInv, NEW r \in Requests, NEW good \in BOOLEAN, Answer(r, good)
    PROVE  IInv'
<1> DEFINE ok == IF good THEN {r} ELSE {}
           failed == IF good THEN {} ELSE {r}
<1>1. /\ ok \in SUBSET pending
      /\ failed \in SUBSET pending
      /\ Settle(ok, failed, FALSE, {})
      /\ children' = children
      /\ buffer' = None
      /\ quit' = quit
  BY DEF Answer
<1>2. quit' \in BOOLEAN
  BY <1>1 DEF IInv, TypeOK
<1> HIDE DEF ok, failed
<1>3. QED
  BY <1>1, <1>2, SettleStep

\* A watchdog that fires fails every pending request: the helper is restarted.
LEMMA ExpireKeeps ==
    ASSUME IInv, NEW r \in Requests, Expire(r)
    PROVE  IInv'
<1>1. /\ {r} \in SUBSET pending
      /\ Settle({}, {r}, TRUE, children)
      /\ children' = children
      /\ buffer' = None
      /\ quit' \in BOOLEAN
  BY DEF Expire, IInv, TypeOK, WatchdogsMatchPending
<1>2. QED
  BY <1>1, AliveAreChildren, SettleStep

\* A write that fails restarts the helper as a timeout does.
LEMMA WriteFailsKeeps ==
    ASSUME IInv, NEW r \in Requests, WriteFails(r)
    PROVE  IInv'
<1>1. /\ Settle({}, {}, TRUE, children)
      /\ children' = children
      /\ buffer' = None
      /\ quit' \in BOOLEAN
  BY DEF WriteFails, Restart, IInv, TypeOK
<1>2. QED
  BY <1>1, AliveAreChildren, SettleStep

\* The current helper's exit: nobody runs who should have been told to stop.
LEMMA ExitEventKeeps ==
    ASSUME IInv, NEW c \in Helpers, ExitEvent(c)
    PROVE  IInv'
<1>1. proc[c] = "dead" /\ c \in children /\ children' = children \ {c}
  BY DEF ExitEvent
<1>2. CASE child = c
  <2>1. /\ Settle({}, {}, TRUE, {})
        /\ buffer' = None
        /\ quit' \in BOOLEAN
    BY <1>2 DEF ExitEvent, IInv, TypeOK
  <2>2. \A h \in Helpers : proc[h] # "alive"
    BY <1>1, <1>2, AliveAreChildren
  <2>3. QED
    BY <1>1, <2>1, <2>2, SettleStep
<1>3. CASE child # c
  <2>1. UNCHANGED << child, proc, pending, writtenTo, armed, due, outcome, queue,
                     buffer, sessionVars >>
    BY <1>3 DEF ExitEvent
  <2>2. TypeOK'
    BY <1>1, <2>1 DEF IInv, TypeOK, sessionVars
  <2>3. NoOrphanHelper'
    BY <1>1, <2>1 DEF IInv, NoOrphanHelper
  <2>4. /\ PendingOnCurrentHelper' /\ WatchdogsMatchPending' /\ NoCallerForgotten'
        /\ QueueWaits' /\ DrainCountExact' /\ ClosedIsWithoutHelper' /\ BufferIsCurrent'
    BY <2>1 DEF IInv, PendingOnCurrentHelper, WatchdogsMatchPending, NoCallerForgotten,
                QueueWaits, DrainCountExact, ClosedIsWithoutHelper, BufferIsCurrent,
                Parses, sessionVars
  <2>5. QED
    BY <2>2, <2>3, <2>4 DEF IInv
<1>4. QED
  BY <1>2, <1>3

\* What the current helper left in the buffer is nothing, if it was not quit.
LEMMA ErrorEventKeeps ==
    ASSUME IInv, NEW c \in Helpers, ErrorEvent(c)
    PROVE  IInv'
<1>1. /\ c = child
      /\ Settle({}, {}, TRUE, {c})
      /\ children' = children
      /\ buffer # c
      /\ buffer' = buffer
      /\ quit' = quit
      /\ quit \in BOOLEAN
  BY DEF ErrorEvent, IInv, TypeOK
<1>2. session # "closed"
  BY <1>1, ClientConstants DEF IInv, ClosedIsWithoutHelper, Helpers
<1>3. buffer' = None \/ (quit' /\ buffer' = buffer)
  BY <1>1, <1>2 DEF IInv, BufferIsCurrent, Parses
<1>4. QED
  BY <1>1, <1>3, AliveAreChildren, SettleStep

\* A client that quits may keep an incomplete line: it has no use for it.
LEMMA QuitKeeps ==
    ASSUME IInv, Quit
    PROVE  IInv'
<1>1. /\ Settle({}, {}, TRUE, children)
      /\ children' = children
      /\ buffer' = buffer
      /\ quit' = TRUE
  BY DEF Quit, Restart
<1>2. QED
  BY <1>1, AliveAreChildren, SettleStep

-----------------------------------------------------------------------------
(* Calls and the chain *)

\* A read joins the end of the chain; any other call is submitted at once.
LEMMA RequestKeeps ==
    ASSUME IInv, NEW r \in Requests, Request(r)
    PROVE  IInv'
<1>1. /\ outcome[r] = "none"
      /\ r \notin pending
      /\ \A i \in 1 .. Len(queue) : queue[i] # r
      /\ queue \in Seq(NodeReads)
  BY DEF Request, Fresh, Queued, IInv, TypeOK
<1>2. CASE r \in NodeReads
  <2>1. /\ queue' = Append(queue, r)
        /\ UNCHANGED << helperVars, pending, writtenTo, armed, due, outcome, buffer, sessionVars >>
    BY <1>2 DEF Request
  <2>2. /\ queue' \in Seq(NodeReads)
        /\ Len(queue') = Len(queue) + 1
        /\ \A i \in 1 .. Len(queue) : queue'[i] = queue[i]
        /\ queue'[Len(queue) + 1] = r
    BY <1>1, <1>2, <2>1, AppendProperties
  <2>3. Len(queue) \in Nat
    BY <1>1
  <2>4. \A i \in 1 .. Len(queue') : i \in 1 .. Len(queue) \/ i = Len(queue) + 1
    BY <2>2, <2>3
  <2>5. QueueWaits'
    BY <1>1, <2>1, <2>2, <2>4 DEF QueueWaits, IInv
  <2>6. TypeOK'
    BY <2>1, <2>2 DEF IInv, TypeOK, helperVars, sessionVars
  <2>7. /\ PendingOnCurrentHelper' /\ NoOrphanHelper' /\ WatchdogsMatchPending'
        /\ NoCallerForgotten' /\ DrainCountExact' /\ ClosedIsWithoutHelper' /\ BufferIsCurrent'
    BY <2>1 DEF IInv, PendingOnCurrentHelper, NoOrphanHelper, WatchdogsMatchPending,
                NoCallerForgotten, DrainCountExact, ClosedIsWithoutHelper,
                BufferIsCurrent, Parses, helperVars, sessionVars
  <2>8. QED
    BY <2>5, <2>6, <2>7 DEF IInv
<1>3. CASE r \notin NodeReads
  <2>1. RequestNow(r) /\ queue' = queue
    BY <1>3 DEF Request
  <2>2. \A i, j \in 1 .. Len(queue) : i # j => queue[i] # queue[j]
    BY DEF IInv, QueueWaits
  <2>3. QED
    BY <1>1, <2>1, <2>2, RequestNowKeeps
<1>4. QED
  BY <1>2, <1>3

\* The head of the chain is in no other place of it.
LEMMA DispatchKeeps ==
    ASSUME IInv, Dispatch
    PROVE  IInv'
<1> DEFINE r == Head(queue)
<1>1. queue \in Seq(NodeReads) /\ queue # << >> /\ queue' = Tail(queue) /\ RequestNow(r)
  BY DEF Dispatch, IInv, TypeOK
<1>2. /\ r \in NodeReads
      /\ queue' \in Seq(NodeReads)
      /\ Len(queue') = Len(queue) - 1
      /\ \A i \in 1 .. Len(queue') : queue'[i] = queue[i + 1]
  BY <1>1, HeadTailProperties
<1>3. Len(queue) \in Nat /\ 1 \in 1 .. Len(queue) /\ r = queue[1]
  BY <1>1
<1>4. r \notin pending /\ outcome[r] = "none"
  BY <1>3 DEF IInv, QueueWaits
<1>5. \A i \in 1 .. Len(queue') : i + 1 \in 1 .. Len(queue) /\ i + 1 # 1
  BY <1>2, <1>3
<1>6. \A i, j \in 1 .. Len(queue) : i # j => queue[i] # queue[j]
  BY DEF IInv, QueueWaits
<1>7. \A i \in 1 .. Len(queue') :
        queue'[i] # r /\ \E j \in 1 .. Len(queue) : queue'[i] = queue[j]
  BY <1>2, <1>3, <1>5, <1>6
<1>8. \A i, j \in 1 .. Len(queue') : i # j => i + 1 # j + 1
  BY <1>2, <1>3
<1>9. \A i, j \in 1 .. Len(queue') : i # j => queue'[i] # queue'[j]
  BY <1>2, <1>5, <1>6, <1>8
<1>10. r \in Requests
  BY <1>2 DEF Requests
<1> HIDE DEF r
<1>11. QED
  BY <1>1, <1>2, <1>4, <1>7, <1>9, <1>10, RequestNowKeeps

-----------------------------------------------------------------------------
(* Closing the session *)

\* Stop leaves nothing pending and nobody running.
LEMMA StopKeeps ==
    ASSUME IInv, Stop, session' = "closed",
           UNCHANGED << writtenTo, queue, buffer, quit >>,
           remaining' = remaining, needsGrace' = needsGrace
    PROVE  IInv'
<1>1. /\ pending' = {}
      /\ armed' = armed \ pending
      /\ due' = due \ pending
      /\ outcome' = [r \in Requests |-> IF r \in pending THEN "error" ELSE outcome[r]]
      /\ child' = None
      /\ proc' = [c \in Helpers |->
                    IF c \in children /\ proc[c] = "alive" THEN "terminating" ELSE proc[c]]
      /\ children' = children
  BY DEF Stop, Disarmed, Failed, Terminated
<1>2. TypeOK'
  BY <1>1 DEF IInv, TypeOK, WatchdogsMatchPending
<1>3. PendingOnCurrentHelper' /\ NoOrphanHelper' /\ WatchdogsMatchPending'
  BY <1>1, AliveAreChildren DEF IInv, PendingOnCurrentHelper, NoOrphanHelper,
                                WatchdogsMatchPending
<1>4. NoCallerForgotten'
  BY <1>1 DEF IInv, NoCallerForgotten, TypeOK
<1>5. QueueWaits'
  <2>1. \A j \in 1 .. Len(queue) : queue[j] \in Requests
    BY DEF IInv, TypeOK, Requests
  <2>2. QED
    BY <1>1, <2>1 DEF IInv, QueueWaits
<1>6. DrainCountExact' /\ ClosedIsWithoutHelper' /\ BufferIsCurrent'
  BY <1>1 DEF DrainCountExact, ClosedIsWithoutHelper, BufferIsCurrent
<1>7. QED
  BY <1>2, <1>3, <1>4, <1>5, <1>6 DEF IInv

\* The count starts at the sends that are pending, which are finitely many.
LEMMA CloseSessionKeeps ==
    ASSUME IInv, CloseSession
    PROVE  IInv'
<1>1. CASE SubmittedSends = {}
  <2>1. /\ session' = "closed"
        /\ Stop
        /\ UNCHANGED << remaining, needsGrace, writtenTo, queue, buffer, quit >>
    BY <1>1 DEF CloseSession
  <2>2. QED
    BY <2>1, StopKeeps
<1>2. CASE SubmittedSends # {}
  <2>1. /\ session = "open"
        /\ session' = "draining"
        /\ remaining' = Cardinality(pending \cap AllSends)
        /\ needsGrace' \in BOOLEAN
        /\ UNCHANGED << helperVars, pending, armed, due, outcome, writtenTo, queue, buffer, quit >>
    BY <1>2 DEF CloseSession, SubmittedSends
  <2>2. Cardinality(pending \cap AllSends) \in Nat /\ Cardinality(pending \cap AllSends) > 0
    <3>1. IsFiniteSet(pending \cap AllSends) /\ Cardinality(pending \cap AllSends) \in Nat
      BY FewRequests DEF IInv, TypeOK
    <3>2. Cardinality(pending \cap AllSends) # 0
      BY <1>2, <3>1, FS_EmptySet DEF SubmittedSends
    <3>3. QED
      BY <3>1, <3>2
  <2>3. TypeOK'
    BY <2>1, <2>2 DEF IInv, TypeOK, helperVars
  <2>4. DrainCountExact'
    BY <2>1, <2>2 DEF DrainCountExact
  <2>5. /\ PendingOnCurrentHelper' /\ NoOrphanHelper' /\ WatchdogsMatchPending'
        /\ NoCallerForgotten' /\ QueueWaits' /\ ClosedIsWithoutHelper' /\ BufferIsCurrent'
    BY <2>1 DEF IInv, PendingOnCurrentHelper, NoOrphanHelper, WatchdogsMatchPending,
                NoCallerForgotten, QueueWaits, ClosedIsWithoutHelper, BufferIsCurrent,
                Parses, helperVars
  <2>6. QED
    BY <2>3, <2>4, <2>5 DEF IInv
<1>3. QED
  BY <1>1, <1>2

\* The grace period ends with the stop of a client that has no send left.
LEMMA GraceEndsKeeps ==
    ASSUME IInv, GraceEnds
    PROVE  IInv'
  BY StopKeeps DEF GraceEnds

-----------------------------------------------------------------------------
(* Lines, timers, deaths *)

\* Steps that read a line, let time pass or end a process change none of what the
\* client keeps about its requests.
LEMMA LineKeeps ==
    ASSUME IInv,
           HalfLine \/ GarbledLine \/ \E r \in Requests : Progress(r)
    PROVE  IInv'
<1>1. /\ UNCHANGED << helperVars, pending, writtenTo, armed, outcome, queue, sessionVars >>
      /\ due' \subseteq due
      /\ child # None
      /\ buffer' \in {None, child} \/ buffer' = buffer
  BY DEF HalfLine, GarbledLine, Progress
<1>2. buffer' \in Helpers \cup {None}
  BY <1>1 DEF IInv, TypeOK
<1>3. BufferIsCurrent'
  BY <1>1 DEF IInv, BufferIsCurrent, Parses, helperVars, sessionVars
<1>4. TypeOK'
  BY <1>1, <1>2 DEF IInv, TypeOK, helperVars, sessionVars
<1>5. /\ PendingOnCurrentHelper' /\ NoOrphanHelper' /\ WatchdogsMatchPending'
      /\ NoCallerForgotten' /\ QueueWaits' /\ DrainCountExact' /\ ClosedIsWithoutHelper'
  BY <1>1 DEF IInv, PendingOnCurrentHelper, NoOrphanHelper, WatchdogsMatchPending,
              NoCallerForgotten, QueueWaits, DrainCountExact, ClosedIsWithoutHelper,
              helperVars, sessionVars
<1>6. QED
  BY <1>3, <1>4, <1>5 DEF IInv

\* Only an armed timer runs out.
LEMMA TimePassesKeeps ==
    ASSUME IInv, NEW r \in Requests, TimePasses(r)
    PROVE  IInv'
<1>1. /\ due' = due \cup {r}
      /\ r \in armed
      /\ UNCHANGED << helperVars, pending, writtenTo, armed, outcome, queue, buffer, sessionVars >>
  BY DEF TimePasses
<1>2. TypeOK'
  BY <1>1 DEF IInv, TypeOK, helperVars, sessionVars
<1>3. QED
  BY <1>1, <1>2 DEF IInv, PendingOnCurrentHelper, NoOrphanHelper, WatchdogsMatchPending,
                    NoCallerForgotten, QueueWaits, DrainCountExact, ClosedIsWithoutHelper,
                    BufferIsCurrent, Parses, helperVars, sessionVars

\* A helper that dies was told to stop, or is the current one.
LEMMA DeathKeeps ==
    ASSUME IInv, NEW c \in Helpers, Die(c) \/ ForceKill(c)
    PROVE  IInv'
<1>1. /\ proc' = [proc EXCEPT ![c] = "dead"]
      /\ UNCHANGED << child, children, pending, writtenTo, armed, due, outcome, queue,
                      buffer, sessionVars >>
  BY DEF Die, ForceKill
<1>2. TypeOK'
  BY <1>1 DEF IInv, TypeOK, sessionVars
<1>3. NoOrphanHelper'
  BY <1>1 DEF IInv, NoOrphanHelper, TypeOK
<1>4. QED
  BY <1>1, <1>2, <1>3 DEF IInv, PendingOnCurrentHelper, WatchdogsMatchPending,
                          NoCallerForgotten, QueueWaits, DrainCountExact,
                          ClosedIsWithoutHelper, BufferIsCurrent, Parses, sessionVars

-----------------------------------------------------------------------------
(* The invariant *)

\* A new client has no helper, no request and an empty chain.
LEMMA InitEstablishes == Init => IInv
<1> SUFFICES ASSUME Init PROVE IInv
  OBVIOUS
<1>1. TypeOK
  <2>1. queue \in Seq(NodeReads)
    BY EmptySeq DEF Init
  <2>2. needsGrace \in BOOLEAN /\ quit \in BOOLEAN
    BY Zenon DEF Init
  <2>3. proc \in [Helpers -> {"unborn", "alive", "terminating", "dead"}]
    BY DEF Init
  <2>4. QED
    BY <2>1, <2>2, <2>3 DEF Init, TypeOK
<1>2. /\ PendingOnCurrentHelper /\ NoOrphanHelper /\ WatchdogsMatchPending
      /\ DrainCountExact /\ ClosedIsWithoutHelper /\ BufferIsCurrent
  BY DEF Init, PendingOnCurrentHelper, NoOrphanHelper, WatchdogsMatchPending,
         DrainCountExact, ClosedIsWithoutHelper, BufferIsCurrent, Parses
<1>3. NoCallerForgotten
  BY DEF Init, NoCallerForgotten
<1>4. QueueWaits
  BY DEF Init, QueueWaits
<1>5. QED
  BY <1>1, <1>2, <1>3, <1>4 DEF IInv

\* Every step keeps the invariant: one lemma per action.
LEMMA NextKeeps == IInv /\ [Next]_vars => IInv'
<1> SUFFICES ASSUME IInv, [Next]_vars PROVE IInv'
  OBVIOUS
<1>1. ASSUME NEW r \in Requests, Request(r) PROVE IInv'
  BY <1>1, RequestKeeps
<1>2. ASSUME NEW r \in Requests, NEW ok \in BOOLEAN, Answer(r, ok) PROVE IInv'
  BY <1>2, AnswerKeeps
<1>3. ASSUME NEW r \in Requests, Progress(r) PROVE IInv'
  BY <1>3, LineKeeps
<1>4. ASSUME NEW r \in Requests, TimePasses(r) PROVE IInv'
  BY <1>4, TimePassesKeeps
<1>5. ASSUME NEW r \in Requests, Expire(r) PROVE IInv'
  BY <1>5, ExpireKeeps
<1>6. ASSUME NEW r \in Requests, WriteFails(r) PROVE IInv'
  BY <1>6, WriteFailsKeeps
<1>7. ASSUME NEW c \in Helpers, Die(c) \/ ForceKill(c) PROVE IInv'
  BY <1>7, DeathKeeps
<1>8. ASSUME NEW c \in Helpers, ExitEvent(c) PROVE IInv'
  BY <1>8, ExitEventKeeps
<1>9. ASSUME NEW c \in Helpers, ErrorEvent(c) PROVE IInv'
  BY <1>9, ErrorEventKeeps
<1>10. CASE Dispatch
  BY <1>10, DispatchKeeps
<1>11. CASE HalfLine \/ GarbledLine
  BY <1>11, LineKeeps
<1>12. CASE CloseSession
  BY <1>12, CloseSessionKeeps
<1>13. CASE GraceEnds
  BY <1>13, GraceEndsKeeps
<1>14. CASE Quit
  BY <1>14, QuitKeeps
<1>15. CASE UNCHANGED vars
  BY <1>15 DEF vars, IInv, TypeOK, PendingOnCurrentHelper, NoOrphanHelper,
               WatchdogsMatchPending, NoCallerForgotten, QueueWaits, DrainCountExact,
               ClosedIsWithoutHelper, BufferIsCurrent, Parses
<1>16. QED
  BY <1>1, <1>2, <1>3, <1>4, <1>5, <1>6, <1>7, <1>8, <1>9, <1>10, <1>11, <1>12, <1>13,
     <1>14, <1>15 DEF Next

\* IInv holds in every state of the client, over restarts of the helper, timeouts,
\* preemption, locking and quitting.
THEOREM Invariance == Spec => []IInv
  BY InitEstablishes, NextKeeps, PTL DEF Spec

\* The client's variables have their types.
THEOREM TypeCorrect == Spec => []TypeOK
<1>1. IInv => TypeOK
  BY DEF IInv
<1>2. QED
  BY <1>1, Invariance, PTL

\* No answer is awaited from a helper that is not the current one (requestNow,
\* rejectAll): a restart, a crash or a preemption leaves no such request behind.
THEOREM NothingAwaitedFromOldHelpers == Spec => []PendingOnCurrentHelper
<1>1. IInv => PendingOnCurrentHelper
  BY DEF IInv
<1>2. QED
  BY <1>1, Invariance, PTL

\* start, restartAfterTimeout, stop and the exit handler together forget no helper.
THEOREM NoHelperForgotten == Spec => []NoOrphanHelper
<1>1. IInv => NoOrphanHelper
  BY DEF IInv
<1>2. QED
  BY <1>1, Invariance, PTL

\* A watchdog is armed for the pending requests and for no other (armTimeout and
\* the slots' resolve and reject).
THEOREM WatchdogPerRequest == Spec => []WatchdogsMatchPending
<1>1. IInv => WatchdogsMatchPending
  BY DEF IInv
<1>2. QED
  BY <1>1, Invariance, PTL

\* Whatever removes a request from the pending map settles its promise.
THEOREM EveryCallerAnswered == Spec => []NoCallerForgotten
<1>1. IInv => NoCallerForgotten
  BY DEF IInv
<1>2. QED
  BY <1>1, Invariance, PTL

\* closeSession counts the sends that have not settled, for any number of them.
THEOREM DrainIsExact == Spec => []DrainCountExact
<1>1. IInv => DrainCountExact
  BY DEF IInv
<1>2. QED
  BY <1>1, Invariance, PTL

\* A closed client has no helper, waits for nothing and has told every helper to stop.
THEOREM ClosedIsQuiet == Spec => []ClosedSessionIsQuiet
<1>1. IInv => ClosedSessionIsQuiet
  BY ClientConstants DEF IInv, ClosedSessionIsQuiet, ClosedIsWithoutHelper,
                         PendingOnCurrentHelper, NoOrphanHelper, Helpers
<1>2. QED
  BY <1>1, Invariance, PTL

\* No bytes of an earlier helper are parsed with the current one's.
THEOREM BufferIsClean == Spec => []NoForeignBytes
<1>1. IInv => NoForeignBytes
  BY DEF IInv, NoForeignBytes, BufferIsCurrent, ClosedIsWithoutHelper
<1>2. QED
  BY <1>1, Invariance, PTL

=============================================================================
