------------------------ MODULE NativeSessionProofs ------------------------
(***************************************************************************)
(* What the main process does with its clients, for any number of          *)
(* requests, of ends of a session and of quits: no quit cuts off an Epic   *)
(* send that began before the guard's wait, the main process knows the     *)
(* helpers that run, the calls of an SDK run one at a time, and each       *)
(* client is a SessionClient.                                              *)
(*                                                                         *)
(* EpicSendSpared says nothing of the state in which a quit may go ahead.  *)
(* IInv adds what it has to say of it: the guard can see every pending     *)
(* Epic send (SendsKnown); while it waits, every early one is at a client  *)
(* it waits for (WaitCovers); and when it has waited, none is left         *)
(* (AllowCovers).  The other results add their own layers to it.           *)
(***************************************************************************)
EXTENDS NativeSession, TLAPS

EpicPending == {r \in EpicSends : status[r] = "pending"}

\* The clients of pending Epic sends are in the maps or being closed.
SendsKnown == \A r \in EpicPending : at[r] \in ActiveClients

\* The clients of the early ones among them are still waited for.
WaitCovers == wait => \A r \in EpicPending \ late : at[r] \in waited

\* After the wait, all of them began late.
AllowCovers == allow => EpicPending \subseteq late

IInv == TypeOK /\ EpicSendSpared /\ SendsKnown /\ WaitCovers /\ AllowCovers

-----------------------------------------------------------------------------
(* One lemma for each way the clients change; the quit does not in these.  *)

USE DEF SessionConstants

\* An answer or a failing helper only ends requests, and a client that leaves
\* closingNativeCores takes its pending requests with it.
LEMMA SettleKeeps ==
    ASSUME IInv, NEW rs \in SUBSET Requests, NEW live \in SUBSET made,
           Settle(rs, live), UNCHANGED << sdk, leave, late, cut >>
    PROVE  IInv'
<1>1. EpicPending' \subseteq EpicPending
  BY DEF Settle, EpicPending, Requests
<1>2. TypeOK'
  BY DEF IInv, TypeOK, Settle, Drained, Mapped, sdk, leave
<1>3. SendsKnown'
  BY <1>1 DEF IInv, SendsKnown, ActiveClients, Mapped, Settle, EpicPending, Requests
<1>4. EpicSendSpared' /\ WaitCovers' /\ AllowCovers'
  BY <1>1 DEF IInv, EpicSendSpared, WaitCovers, AllowCovers, Settle, leave
<1> QED BY <1>2, <1>3, <1>4 DEF IInv

\* A request that is handed to a client of the maps, or refused by a closed
\* one: an Epic send that begins while or after the guard waits is late.
LEMMA RequestNowKeeps ==
    ASSUME IInv, NEW r \in Requests, NEW c \in made',
           RequestNow(r, c), r \in EpicSends => c \in Mapped',
           made \subseteq made', made' \subseteq Pools \X (0 .. epoch),
           revoked \cap made' \subseteq made' \ Mapped',
           at' \in [Requests -> made' \cup {None}],
           \A q \in Requests \ {r} : at'[q] = at[q], at'[r] = c,
           UNCHANGED << epoch, revoked, closing, grace, sdk, leave, cut >>
    PROVE  IInv'
<1>1. TypeOK'
  BY DEF IInv, TypeOK, RequestNow, Mapped, sdk, leave, Requests
<1>2. \A q \in EpicPending' : q = r \/ q \in EpicPending
  BY DEF EpicPending, RequestNow, Requests, IInv, TypeOK
<1>3. Mapped \subseteq Mapped'
  BY DEF Mapped
<1>4. SendsKnown'
  BY <1>2, <1>3 DEF IInv, SendsKnown, ActiveClients, EpicPending, Requests
<1>5. late \subseteq late' /\ (r \in EpicPending' /\ (wait \/ allow) => r \in late')
  BY DEF RequestNow, EpicPending, Requests, IInv, TypeOK
<1>6. EpicSendSpared' /\ WaitCovers' /\ AllowCovers'
  BY <1>2, <1>5 DEF IInv, EpicSendSpared, WaitCovers, AllowCovers, EpicPending, Requests, leave
<1> QED BY <1>1, <1>4, <1>6 DEF IInv

\* Nothing of the clients and of the guard changes but what is said here.
LEMMA GuardKeeps ==
    ASSUME IInv, TypeOK', UNCHANGED << clients, late, cut, wait, waited, allow >>
    PROVE  IInv'
BY DEF IInv, EpicSendSpared, SendsKnown, WaitCovers, AllowCovers, EpicPending,
       ActiveClients, Mapped, clients

-----------------------------------------------------------------------------
LEMMA Initially == Init => IInv
<1> SUFFICES ASSUME Init PROVE IInv
  OBVIOUS
<1>1. at \in [Requests -> made \cup {None}] /\ status \in [Requests -> {"new"}]
  BY DEF Init
<1>2. TypeOK
  <2>1. call \in [SdkCalls -> {"new", "chained", "running", "over"}]
        /\ session \in [SdkCalls -> 0 .. revision]
        /\ ahead \in [SdkCalls -> SdkCalls \cup {None}]
    BY DEF Init
  <2>2. status \in [Requests -> {"new", "chained", "pending", "over"}]
        /\ \A r \in Requests : status[r] = "new"
    BY DEF Init
  <2> QED BY <1>1, <2>1, <2>2 DEF Init, TypeOK, Mapped
<1>3. EpicPending = {}
  BY DEF Init, EpicPending, Requests
<1> QED BY <1>2, <1>3 DEF Init, IInv, EpicSendSpared, SendsKnown, WaitCovers, AllowCovers

LEMMA RequestsKeep ==
    ASSUME IInv, NEW r \in Requests, Request(r) \/ Dispatch(r) \/ Answer(r)
    PROVE  IInv'
<1>1. CASE Request(r)
  <2> DEFINE c == ClientFor(r)
  <2>1. c \in Pools \X (0 .. epoch) /\ c[2] = epoch
    BY <1>1 DEF ClientFor, PoolOf, Pools, IInv, TypeOK
  <2>2. c \in Mapped' /\ c \in made'
    BY <2>1, <1>1 DEF Request, Mapped
  <2>3. revoked \cap made' \subseteq made' \ Mapped'
    BY <1>1 DEF Request, Mapped, IInv, TypeOK
  <2>4. at' \in [Requests -> made' \cup {None}] /\ at'[r] = c
        /\ \A q \in Requests \ {r} : at'[q] = at[q]
    BY <2>2, <1>1 DEF Request, IInv, TypeOK
  <2>5. CASE r \notin NodeReads
    BY <1>1, <2>1, <2>2, <2>3, <2>4, <2>5, RequestNowKeeps DEF Request, IInv, TypeOK
  <2>6. CASE r \in NodeReads
    <3>1. status' = [status EXCEPT ![r] = "chained"] /\ UNCHANGED << helper, late >>
      BY <1>1, <2>6 DEF Request
    <3>2. TypeOK'
      <4>1. UNCHANGED << epoch, revoked, closing, grace, helper, late, cut >>
            /\ made \subseteq made' /\ made' \subseteq Pools \X (0 .. epoch)
        BY <1>1, <2>1, <3>1 DEF Request, IInv, TypeOK
      <4>2. status' \in [Requests -> {"new", "chained", "pending", "over"}]
            /\ \A q \in Requests : status'[q] = "chained" => q \in NodeReads
        BY <2>6, <3>1 DEF IInv, TypeOK
      <4>3. \A q \in Requests : status'[q] \in {"chained", "pending"} => at'[q] \in made'
        BY <2>2, <2>4, <3>1, <4>1 DEF IInv, TypeOK
      <4>4. revoked \subseteq made' \ Mapped'
        BY <2>3, <4>1 DEF IInv, TypeOK
      <4>5. UNCHANGED << sdk, leave >>
        BY <1>1 DEF Request
      <4>6. closing' \subseteq revoked' /\ grace' \subseteq revoked'
            /\ helper' \subseteq made' /\ waited' \subseteq made'
            /\ revoked' \subseteq made' \ Mapped' /\ made' \subseteq Pools \X (0 .. epoch')
        BY <4>1, <4>4, <4>5 DEF IInv, TypeOK, leave
      <4>7. TypeOK
        BY DEF IInv
      <4>8. UNCHANGED << epoch, revision, awaiting, call, session, ahead, tail,
                         window, quit, wait, waited, allow, jobs, stopAll, late, cut >>
        BY <4>1, <4>5 DEF sdk, leave
      <4>9. made' \subseteq Pools \X (0 .. epoch')
        BY <4>6, <4>8
      <4> QED BY <2>4, <4>2, <4>6, <4>7, <4>8, <4>9, <4>3 DEF TypeOK
    <3>3. EpicPending' \subseteq EpicPending
      BY <3>1 DEF EpicPending, IInv, TypeOK, Requests
    <3>4. SendsKnown'
      BY <1>1, <2>4, <3>3 DEF Request, IInv, SendsKnown, ActiveClients, Mapped, EpicPending, Requests
    <3> QED BY <1>1, <2>4, <2>6, <3>1, <3>2, <3>3, <3>4
            DEF Request, IInv, EpicSendSpared, WaitCovers, AllowCovers, EpicPending, Requests, leave
  <2> QED BY <2>5, <2>6
<1>2. CASE Dispatch(r)
  <2>1. at[r] \in made /\ r \notin EpicSends
    BY <1>2, SessionConstants DEF Dispatch, IInv, TypeOK
  <2>2. at[r] \in made' /\ revoked \cap made' \subseteq made' \ Mapped'
        /\ made' \subseteq Pools \X (0 .. epoch)
        /\ at' \in [Requests -> made' \cup {None}]
        /\ \A q \in Requests \ {r} : at'[q] = at[q]
    BY <1>2, <2>1 DEF Dispatch, IInv, TypeOK, Mapped
  <2> QED BY <1>2, <2>1, <2>2, RequestNowKeeps DEF Dispatch
<1>3. CASE Answer(r)
  BY <1>3, SettleKeeps DEF Answer, IInv, TypeOK
<1> QED BY <1>1, <1>2, <1>3

LEMMA ClientsKeep ==
    ASSUME IInv, NEW c \in made, ClientFails(c) \/ GraceEnds(c) \/ PollEnds(c)
    PROVE  IInv'
<1>1. CASE ClientFails(c)
  <2>1. Pending(c) \in SUBSET Requests /\ helper \ {c} \in SUBSET made
    BY DEF Pending, IInv, TypeOK
  <2> QED BY <1>1, <2>1, SettleKeeps DEF ClientFails
<1>2. CASE GraceEnds(c)
  <2>1. TypeOK'
    BY <1>2 DEF GraceEnds, IInv, TypeOK, Mapped, sdk, leave
  <2>2. \A r \in EpicPending' : r \in EpicPending /\ at[r] # c
    BY <1>2 DEF GraceEnds, EpicPending, Pending, Requests
  <2> QED BY <1>2, <2>1, <2>2 DEF GraceEnds, IInv, EpicSendSpared, SendsKnown,
          WaitCovers, AllowCovers, ActiveClients, Mapped, leave
<1>3. CASE PollEnds(c)
  <2>1. TypeOK'
    BY <1>3 DEF PollEnds, IInv, TypeOK, Mapped, clients, sdk
  <2>2. \A r \in EpicPending \ late : at[r] # c
    BY <1>3 DEF PollEnds, HasPendingEpicSend, Pending, EpicPending, Requests
  <2>3. WaitCovers'
    BY <1>3, <2>2 DEF PollEnds, IInv, WaitCovers, EpicPending, clients
  <2> QED BY <1>3, <2>1, <2>3 DEF PollEnds, IInv, EpicSendSpared, SendsKnown,
          AllowCovers, EpicPending, ActiveClients, Mapped, clients
<1> QED BY <1>1, <1>2, <1>3

\* The SDK calls and the miners are no matter of the guard.
LEMMA OthersKeep ==
    ASSUME IInv,
           \/ \E o \in SdkCalls : SdkCall(o) \/ SdkDispatch(o) \/ SdkEnds(o)
           \/ ResetBegins \/ QuitAsked \/ StopAllEnds \/ MiningChanges
    PROVE  IInv'
<1>1. ASSUME NEW o \in SdkCalls, SdkCall(o) PROVE TypeOK'
  BY <1>1 DEF SdkCall, IInv, TypeOK, Mapped, clients, leave
<1>2. ASSUME NEW o \in SdkCalls, SdkDispatch(o) PROVE TypeOK'
  BY <1>2 DEF SdkDispatch, IInv, TypeOK, Mapped, clients, leave
<1>3. ASSUME NEW o \in SdkCalls, SdkEnds(o) PROVE TypeOK'
  BY <1>3 DEF SdkEnds, IInv, TypeOK, Mapped, clients, leave
<1>4. CASE ResetBegins
  BY <1>4, GuardKeeps DEF ResetBegins, CloseCoinSdks, IInv, TypeOK, Mapped, clients, leave
<1>5. CASE QuitAsked
  BY <1>5, GuardKeeps DEF QuitAsked, IInv, TypeOK, Mapped, clients, sdk
<1>6. CASE StopAllEnds
  BY <1>6, GuardKeeps DEF StopAllEnds, IInv, TypeOK, Mapped, clients, sdk
<1>7. CASE MiningChanges
  BY <1>7, GuardKeeps DEF MiningChanges, IInv, TypeOK, Mapped, clients, sdk
<1>8. ASSUME NEW o \in SdkCalls, SdkCall(o) \/ SdkDispatch(o) \/ SdkEnds(o)
      PROVE  IInv'
  BY <1>1, <1>2, <1>3, <1>8, GuardKeeps DEF SdkCall, SdkDispatch, SdkEnds, leave
<1> QED BY <1>4, <1>5, <1>6, <1>7, <1>8

\* The end of a session moves the clients with a send to closingNativeCores
\* and ends all requests of the others.
LEMMA ResetEndsKeeps ==
    ASSUME IInv, ResetEnds PROVE IInv'
<1>1. Mapped' = {}
  BY DEF ResetEnds, CloseClients, Mapped, IInv, TypeOK
<1>2. TypeOK'
  BY <1>1 DEF ResetEnds, CloseClients, Mapped, IInv, TypeOK, leave
<1>3. EpicPending' \subseteq EpicPending
  BY DEF ResetEnds, CloseClients, EpicPending, Requests
<1>4. SendsKnown'
  BY <1>3 DEF ResetEnds, CloseClients, IInv, SendsKnown, ActiveClients, EpicPending,
     Pending, Requests
<1> QED BY <1>2, <1>3, <1>4 DEF ResetEnds, CloseClients, IInv, EpicSendSpared,
        WaitCovers, AllowCovers, leave

\* A wait that is set up lists the client of every pending Epic send.
LEMMA DeferKeeps ==
    ASSUME IInv, Defer, UNCHANGED << clients, sdk, late, cut >> PROVE IInv'
<1>1. TypeOK'
  BY DEF Defer, IInv, TypeOK, Mapped, ActiveClients, clients, sdk
<1>2. ~wait => \A r \in EpicPending : at[r] \in waited'
  BY DEF Defer, IInv, SendsKnown, HasPendingEpicSend, Pending, EpicPending, Requests
<1>3. EpicPending' = EpicPending
  BY DEF EpicPending, clients
<1> QED BY <1>1, <1>2, <1>3 DEF Defer, Deferrable, IInv, EpicSendSpared, SendsKnown,
        WaitCovers, AllowCovers, ActiveClients, Mapped, clients

\* When before-quit lets the app go, no early Epic send is pending: the guard
\* has found none, or its wait has left none.
LEMMA QuitProceedsKeeps ==
    ASSUME IInv, QuitProceeds PROVE IInv'
<1>1. Mapped' = {}
  BY DEF QuitProceeds, Mapped, IInv, TypeOK
<1>2. TypeOK'
  BY <1>1 DEF QuitProceeds, CloseCoinSdks, Mapped, IInv, TypeOK
<1>3. EpicPending' = {}
  BY DEF QuitProceeds, IInv, SendsKnown, EpicPending, Requests
<1>4. \A r \in EpicPending : r \in late
  BY DEF QuitProceeds, Deferrable, HasPendingEpicSend, Pending, EpicPending, Requests,
     IInv, SendsKnown, AllowCovers
<1>5. EpicSendSpared'
  BY <1>4 DEF QuitProceeds, IInv, EpicSendSpared, EpicPending
<1> QED BY <1>2, <1>3, <1>5 DEF IInv, SendsKnown, WaitCovers, AllowCovers

LEMMA QuitKeeps ==
    ASSUME IInv, CloseWindow \/ QuitWaits \/ QuitProceeds \/ FlushEnds
    PROVE  IInv'
<1>1. CASE CloseWindow
  <2>1. CASE Defer
    BY <1>1, <2>1, DeferKeeps DEF CloseWindow
  <2>2. CASE ~Defer
    <3>1. UNCHANGED << wait, waited, allow, jobs, stopAll, clients, sdk, late, cut >>
          /\ window' = FALSE /\ quit' \in {"asked", "ended"}
      BY <1>1, <2>2 DEF CloseWindow
    <3>2. TypeOK'
      BY <3>1 DEF IInv, TypeOK, Mapped, clients, sdk
    <3> QED BY <3>1, <3>2, GuardKeeps
  <2> QED BY <2>1, <2>2
<1>2. CASE QuitWaits
  <2>1. CASE Defer
    BY <1>2, <2>1, DeferKeeps DEF QuitWaits
  <2> QED BY <1>2, <2>1, GuardKeeps DEF QuitWaits, IInv, TypeOK, Mapped, clients, sdk
<1>3. CASE QuitProceeds
  BY <1>3, QuitProceedsKeeps
<1>4. CASE FlushEnds
  <2>1. TypeOK'
    BY <1>4 DEF FlushEnds, IInv, TypeOK, Mapped, clients, sdk
  <2>2. AllowCovers' /\ WaitCovers'
    BY <1>4 DEF FlushEnds, IInv, WaitCovers, AllowCovers, EpicPending, clients
  <2> QED BY <1>4, <2>1, <2>2 DEF FlushEnds, IInv, EpicSendSpared, SendsKnown,
          EpicPending, ActiveClients, Mapped, clients
<1> QED BY <1>1, <1>2, <1>3, <1>4

-----------------------------------------------------------------------------
\* Every step keeps the invariant.
THEOREM Invariance == Spec => []IInv
<1>1. IInv /\ [Next]_vars => IInv'
  <2> SUFFICES ASSUME IInv, [Next]_vars PROVE IInv'
    OBVIOUS
  <2>1. CASE UNCHANGED vars
    <3>1. TypeOK'
      BY <2>1 DEF vars, clients, sdk, leave, IInv, TypeOK, Mapped
    <3> QED BY <2>1, <3>1, GuardKeeps DEF vars, leave
  <2>2. CASE \E r \in Requests : Request(r) \/ Dispatch(r) \/ Answer(r)
    BY <2>2, RequestsKeep
  <2>3. CASE \E c \in made : ClientFails(c) \/ GraceEnds(c) \/ PollEnds(c)
    BY <2>3, ClientsKeep
  <2>4. CASE \/ \E o \in SdkCalls : SdkCall(o) \/ SdkDispatch(o) \/ SdkEnds(o)
             \/ ResetBegins \/ QuitAsked \/ StopAllEnds \/ MiningChanges
    BY <2>4, OthersKeep
  <2>5. CASE ResetEnds
    BY <2>5, ResetEndsKeeps
  <2>6. CASE CloseWindow \/ QuitWaits \/ QuitProceeds \/ FlushEnds
    BY <2>6, QuitKeeps
  <2> QED BY <2>1, <2>2, <2>3, <2>4, <2>5, <2>6 DEF Next
<1> QED BY <1>1, Initially, PTL DEF Spec

\* The variables of the main process have their types; a client in the maps
\* has an open session, and one that is being closed has not.
THEOREM TypeCorrect == Spec => []TypeOK
BY Invariance, PTL DEF IInv

\* A quit never cuts off an Epic send that began before the guard's wait.
THEOREM EpicSendsSpared == Spec => []EpicSendSpared
BY Invariance, PTL DEF IInv

-----------------------------------------------------------------------------
(* The helpers that run.  HelpersAreKnown is inductive once it is known    *)
(* that a chained request is at a client of its own pool (AtPool): what is *)
(* dispatched after a quit can only start the helper of a node client.     *)

AtPool == \A r \in Requests : status[r] = "chained" => at[r][1] = PoolOf(r)

HelpersInv == AtPool /\ HelpersAreKnown

\* A request handed to client c adds c at most to the helpers, and only if
\* the session of c is open.
LEMMA RequestNowKnows ==
    ASSUME IInv, HelpersInv, NEW r \in Requests, NEW c,
           RequestNow(r, c), c \in Mapped' \/ c[1] = "node",
           Mapped \subseteq Mapped', at'[r] = c,
           \A q \in Requests \ {r} : at'[q] = at[q],
           UNCHANGED << revoked, closing >>
    PROVE  HelpersInv'
<1>1. \A q \in Requests : status'[q] = "chained" => q # r /\ status[q] = "chained"
  BY DEF RequestNow, IInv, TypeOK
<1>2. AtPool'
  BY <1>1 DEF HelpersInv, AtPool, PoolOf
<1>3. \A d \in helper' : d \in helper \/ (d = c /\ c \notin revoked)
  BY DEF RequestNow
<1>4. ActiveClients \subseteq ActiveClients'
  BY DEF ActiveClients
<1>5. \A d \in helper' : d \in ActiveClients' \/ (d[1] = "node" /\ d \notin revoked)
  BY <1>3, <1>4 DEF HelpersInv, HelpersAreKnown, ActiveClients
<1> QED BY <1>2, <1>5 DEF HelpersInv, HelpersAreKnown

\* A client that an answer or a failing helper takes out of closingNativeCores
\* loses its helper in the same step.
LEMMA SettleKnows ==
    ASSUME IInv, HelpersInv, NEW rs \in SUBSET Requests,
           NEW live \in SUBSET helper, Settle(rs, live)
    PROVE  HelpersInv'
<1>1. \A q \in Requests : status'[q] = "chained" => status[q] = "chained"
  BY DEF Settle
<1>2. AtPool'
  BY <1>1 DEF Settle, HelpersInv, AtPool, PoolOf
<1>3. \A d \in helper' : d \in helper /\ (d \in closing => d \in closing')
  BY DEF Settle
<1>4. Mapped' = Mapped /\ revoked' = revoked
  BY DEF Settle, Mapped
<1>5. HelpersAreKnown'
  BY <1>3, <1>4 DEF HelpersInv, HelpersAreKnown, ActiveClients
<1> QED BY <1>2, <1>5 DEF HelpersInv

\* Every step of the main process keeps its knowledge of the helpers.
LEMMA HelpersStep ==
    ASSUME IInv, HelpersInv, [Next]_vars PROVE HelpersInv'
<1>1. ASSUME NEW r \in Requests, Request(r) PROVE HelpersInv'
  <2> DEFINE c == ClientFor(r)
  <2>1. c[1] = PoolOf(r) /\ c[2] = epoch
    BY DEF ClientFor
  <2>2. c \in Mapped' /\ Mapped \subseteq Mapped'
    BY <1>1, <2>1 DEF Request, Mapped
  <2>3. at'[r] = c /\ \A q \in Requests \ {r} : at'[q] = at[q]
    BY <1>1 DEF Request, IInv, TypeOK
  <2>4. UNCHANGED << revoked, closing >>
    BY <1>1 DEF Request
  <2>5. CASE r \notin NodeReads
    <3>1. RequestNow(r, c)
      BY <1>1, <2>5 DEF Request
    <3> HIDE DEF c
    <3> QED BY <2>2, <2>3, <2>4, <3>1, RequestNowKnows
  <2>6. CASE r \in NodeReads
    <3>1. status' = [status EXCEPT ![r] = "chained"] /\ helper' = helper
      BY <1>1, <2>6 DEF Request
    <3>2. \A q \in Requests \ {r} : status'[q] = status[q]
      BY <3>1 DEF IInv, TypeOK
    <3>3. AtPool'
      BY <2>1, <2>3, <3>2 DEF HelpersInv, AtPool, PoolOf
    <3>4. HelpersAreKnown'
      BY <2>2, <2>4, <3>1 DEF HelpersInv, HelpersAreKnown, ActiveClients
    <3> QED BY <3>3, <3>4 DEF HelpersInv
  <2> QED BY <2>5, <2>6
<1>2. ASSUME NEW r \in Requests, Dispatch(r) PROVE HelpersInv'
  <2>1. at[r][1] = "node"
    <3>1. status[r] = "chained" /\ r \in NodeReads
      BY <1>2 DEF Dispatch, IInv, TypeOK
    <3>2. PoolOf(r) = "node"
      BY <3>1, SessionConstants DEF PoolOf
    <3> QED BY <3>1, <3>2 DEF HelpersInv, AtPool
  <2>2. Mapped' = Mapped /\ UNCHANGED << at, revoked, closing >> /\ RequestNow(r, at[r])
    BY <1>2 DEF Dispatch, Mapped
  <2> QED BY <2>1, <2>2, RequestNowKnows
<1>3. ASSUME NEW r \in Requests, Answer(r) PROVE HelpersInv'
  BY <1>3, SettleKnows DEF Answer
<1>4. ASSUME NEW c \in made, ClientFails(c) PROVE HelpersInv'
  BY <1>4, SettleKnows DEF ClientFails, Pending
<1>5. ASSUME NEW c \in made, GraceEnds(c) PROVE HelpersInv'
  <2>1. AtPool'
    BY <1>5 DEF GraceEnds, HelpersInv, AtPool, PoolOf
  <2>2. \A d \in helper' : d \in helper /\ (d \in closing => d \in closing')
    BY <1>5 DEF GraceEnds
  <2>3. Mapped' = Mapped /\ revoked' = revoked
    BY <1>5 DEF GraceEnds, Mapped
  <2>4. HelpersAreKnown'
    BY <2>2, <2>3 DEF HelpersInv, HelpersAreKnown, ActiveClients
  <2> QED BY <2>1, <2>4 DEF HelpersInv
<1>6. CASE ResetEnds
  <2>1. AtPool'
    BY <1>6 DEF ResetEnds, CloseClients, HelpersInv, AtPool, PoolOf
  <2>2. \A d \in helper' : d \in Mapped => d \in closing'
    BY <1>6 DEF ResetEnds, CloseClients
  <2>3. \A d \in helper' : /\ d \in helper /\ (d \in closing => d \in closing')
                           /\ d \notin revoked => d \in Mapped \/ d \notin revoked'
    BY <1>6 DEF ResetEnds, CloseClients
  <2>4. HelpersAreKnown'
    BY <2>2, <2>3 DEF HelpersInv, HelpersAreKnown, ActiveClients
  <2> QED BY <2>1, <2>4 DEF HelpersInv
<1>7. CASE QuitProceeds
  <2>1. AtPool'
    BY <1>7 DEF QuitProceeds, HelpersInv, AtPool, PoolOf
  <2> QED BY <1>7, <2>1 DEF QuitProceeds, HelpersInv, HelpersAreKnown
<1>8. CASE UNCHANGED clients
  BY <1>8 DEF clients, HelpersInv, AtPool, PoolOf, HelpersAreKnown, ActiveClients, Mapped
<1>9. ASSUME NEW o \in SdkCalls, SdkCall(o) \/ SdkDispatch(o) \/ SdkEnds(o)
      PROVE  UNCHANGED clients
  BY <1>9 DEF SdkCall, SdkDispatch, SdkEnds
<1>10. ASSUME NEW c \in made, PollEnds(c) PROVE UNCHANGED clients
  BY <1>10 DEF PollEnds
<1>11. ASSUME \/ ResetBegins \/ QuitAsked \/ CloseWindow \/ QuitWaits
              \/ FlushEnds \/ StopAllEnds \/ MiningChanges \/ UNCHANGED vars
       PROVE  UNCHANGED clients
  BY <1>11 DEF ResetBegins, QuitAsked, CloseWindow, QuitWaits, FlushEnds,
     StopAllEnds, MiningChanges, vars
<1> QED BY <1>1, <1>2, <1>3, <1>4, <1>5, <1>6, <1>7, <1>8, <1>9, <1>10, <1>11 DEF Next

\* The quit guard asks the client of every helper that runs, but for a node
\* read that a quit found chained.
THEOREM HelpersKnown == Spec => []HelpersAreKnown
<1>1. Init => HelpersInv
  BY DEF Init, HelpersInv, AtPool, HelpersAreKnown
<1>2. IInv /\ HelpersInv /\ [Next]_vars => HelpersInv'
  BY HelpersStep
<1>3. HelpersInv => HelpersAreKnown
  BY DEF HelpersInv
<1> QED BY <1>1, <1>2, <1>3, Invariance, PTL DEF Spec

-----------------------------------------------------------------------------
(* The calls of a coin's SDK.  requestCoinSdk chains a call to the one it  *)
(* finds in `pending', so the unfinished calls of a session form a queue:  *)
(* there is a ranking f of the calls by which each waits for the one right *)
(* below it (Queue), only the lowest does not wait (OneHead), and the      *)
(* entry of `pending' is the highest of the present session (TailLast).    *)
(* The queue is not a state of the code, so the ranking is quantified.     *)

Active == {o \in SdkCalls : call[o] \in {"chained", "running"}}
Waits(p) == call[p] = "chained" /\ ahead[p] # None /\ call[ahead[p]] # "over"

\* The call p waits for is of p's session, and ranked right below p.
Queue(f) ==
    \A p \in Active : Waits(p) =>
        /\ ahead[p] \in Active /\ session[ahead[p]] = session[p]
        /\ f[ahead[p]] < f[p]
        /\ \A o \in Active : session[o] = session[p] /\ f[o] < f[p]
                             => f[o] <= f[ahead[p]]

\* Calls of a session differ in rank, and all but the lowest wait.
OneHead(f) ==
    \A o, p \in Active : o # p /\ session[o] = session[p]
                         => f[o] # f[p] /\ (f[o] < f[p] => Waits(p))

\* `pending' has the last call of this session, or there is none.
TailLast(f) ==
    /\ tail # None => tail \in Active /\ session[tail] = revision
    /\ \A o \in Active : session[o] = revision => tail # None /\ f[o] <= f[tail]

Ranked(f) == Queue(f) /\ OneHead(f) /\ TailLast(f)
SerialInv == \E f \in [SdkCalls -> Nat] : Ranked(f)

\* What the types say of the calls.
LEMMA CallTypes ==
    ASSUME TypeOK
    PROVE  /\ call \in [SdkCalls -> {"new", "chained", "running", "over"}]
           /\ session \in [SdkCalls -> Nat]
           /\ \A o \in SdkCalls : session[o] <= revision
           /\ ahead \in [SdkCalls -> SdkCalls \cup {None}]
           /\ tail \in SdkCalls \cup {None} /\ revision \in Nat
BY DEF TypeOK

\* A running call waits for nothing, so a session has one at most.
LEMMA RankedSerial ==
    ASSUME TypeOK, SerialInv PROVE SdkSerial
<1> SUFFICES ASSUME NEW o \in SdkCalls, NEW p \in SdkCalls, o # p,
                    call[o] = "running", call[p] = "running", session[o] = session[p]
             PROVE  FALSE
  BY DEF SdkSerial
<1>1. PICK f \in [SdkCalls -> Nat] : Ranked(f)
  BY DEF SerialInv
<1>2. o \in Active /\ p \in Active /\ ~Waits(o) /\ ~Waits(p)
  BY DEF Active, Waits
<1>3. f[o] # f[p] /\ ~(f[o] < f[p]) /\ ~(f[p] < f[o])
  BY <1>1, <1>2 DEF Ranked, OneHead
<1>4. f[o] \in Nat /\ f[p] \in Nat
  BY <1>1
<1> QED BY <1>3, <1>4

\* A call that is made ranks above the last one, which it waits for.
LEMMA SdkCallRanked ==
    ASSUME TypeOK, NEW f \in [SdkCalls -> Nat], Ranked(f),
           NEW o \in SdkCalls, SdkCall(o)
    PROVE  SerialInv'
<1>1. tail \in SdkCalls \cup {None}
  BY CallTypes
<1>2. PICK g \in [SdkCalls -> Nat] :
         /\ g[o] = IF tail = None THEN 0 ELSE f[tail] + 1
         /\ \A q \in SdkCalls : q # o => g[q] = f[q]
  <2> DEFINE h == [f EXCEPT ![o] = IF tail = None THEN 0 ELSE f[tail] + 1]
  <2>1. h \in [SdkCalls -> Nat]
    BY <1>1
  <2> QED BY <2>1
<1>3. tail # None => g[o] = f[tail] + 1
  BY <1>2
<1>4. /\ Active' = Active \cup {o} /\ o \notin Active
      /\ \A q \in SdkCalls : q # o => /\ call'[q] = call[q] /\ ahead'[q] = ahead[q]
                                      /\ session'[q] = session[q]
      /\ call'[o] = "chained" /\ ahead'[o] = tail /\ session'[o] = revision
      /\ tail' = o /\ revision' = revision /\ call[o] = "new"
  BY CallTypes DEF SdkCall, Active
<1>5. \A q \in Active : (Waits(q))' <=> Waits(q)
  <2>1. TAKE q \in Active
  <2>2. q \in SdkCalls /\ q # o /\ (Waits(q) => ahead[q] \in Active)
    BY <1>4 DEF Active, Ranked, Queue
  <2>3. CASE Waits(q)
    BY <1>4, <2>2, <2>3 DEF Waits, Active
  <2>4. CASE ~Waits(q)
    <3>1. CASE call[q] = "chained" /\ ahead[q] # None
      BY <1>4, <2>2, <2>4, <3>1, CallTypes DEF Waits
    <3>2. CASE ~(call[q] = "chained" /\ ahead[q] # None)
      BY <1>4, <2>2, <3>2 DEF Waits
    <3> QED BY <3>1, <3>2
  <2> QED BY <2>3, <2>4
<1>6. (Waits(o))' <=> tail # None
  BY <1>4, SessionConstants DEF Waits, Ranked, TailLast, Active
<1>7. \A q \in Active : /\ q \in SdkCalls /\ q # o /\ g[q] = f[q] /\ f[q] \in Nat
                        /\ session'[q] = session[q] /\ ahead'[q] = ahead[q]
  BY <1>2, <1>4 DEF Active
<1>8. \A q \in Active : session[q] = revision => tail # None /\ f[q] <= f[tail]
  BY DEF Ranked, TailLast
<1>9. tail # None => tail \in Active /\ session[tail] = revision /\ f[tail] \in Nat
  BY <1>7 DEF Ranked, TailLast
<1>10. Queue(g)'
  <2> SUFFICES ASSUME NEW p \in Active', Waits(p)'
               PROVE  /\ ahead'[p] \in Active' /\ session'[ahead'[p]] = session'[p]
                      /\ g[ahead'[p]] < g[p]
                      /\ \A q \in Active' : session'[q] = session'[p] /\ g[q] < g[p]
                                            => g[q] <= g[ahead'[p]]
    BY DEF Queue
  <2>1. CASE p = o
    BY <1>3, <1>4, <1>6, <1>7, <1>8, <1>9, <2>1
  <2>2. CASE p # o
    <3>1. p \in Active /\ Waits(p)
      BY <1>4, <1>5, <2>2
    <3>2. /\ ahead[p] \in Active /\ session[ahead[p]] = session[p]
          /\ f[ahead[p]] < f[p]
          /\ \A q \in Active : session[q] = session[p] /\ f[q] < f[p] => f[q] <= f[ahead[p]]
      BY <3>1 DEF Ranked, Queue
    <3>3. session'[o] = session'[p] => ~(g[o] < g[p])
      BY <1>3, <1>4, <1>7, <1>8, <1>9, <3>1
    <3> QED BY <1>4, <1>7, <3>1, <3>2, <3>3
  <2> QED BY <2>1, <2>2
<1>11. OneHead(g)'
  <2> SUFFICES ASSUME NEW q \in Active', NEW p \in Active', q # p,
                      session'[q] = session'[p]
               PROVE  g[q] # g[p] /\ (g[q] < g[p] => Waits(p)')
    BY DEF OneHead
  <2>1. CASE p = o
    BY <1>3, <1>4, <1>6, <1>7, <1>8, <1>9, <2>1
  <2>2. CASE q = o
    BY <1>3, <1>4, <1>6, <1>7, <1>8, <1>9, <2>2
  <2>3. CASE p # o /\ q # o
    BY <1>4, <1>5, <1>7, <2>3 DEF Ranked, OneHead
  <2> QED BY <2>1, <2>2, <2>3
<1>12. TailLast(g)'
  <2>1. \A q \in Active' : session'[q] = revision' => g[q] <= g[o]
    BY <1>2, <1>3, <1>4, <1>7, <1>8, <1>9
  <2> QED BY <1>4, <2>1, SessionConstants DEF TailLast
<1>13. (Ranked(g))'
  BY <1>10, <1>11, <1>12 DEF Ranked
<1> QED BY <1>2, <1>13 DEF SerialInv

\* A call that waits for nothing ends, and gives its entry back: what waited
\* for it, one call at most, is now the lowest.
LEMMA HeadLeavesRanked ==
    ASSUME TypeOK, NEW f \in [SdkCalls -> Nat], Ranked(f),
           NEW o \in Active, ~Waits(o), call'[o] = "over",
           \A q \in SdkCalls : q # o => /\ call'[q] = call[q] /\ ahead'[q] = ahead[q]
                                        /\ session'[q] = session[q],
           tail' = IF tail = o THEN None ELSE tail, revision' = revision
    PROVE  Ranked(f)'
<1>1. Active' = Active \ {o} /\ o \in SdkCalls /\ Active \subseteq SdkCalls
  BY DEF Active
<1>2. \A q \in Active : f[q] \in Nat
  BY <1>1
<1>3. \A q \in Active' : /\ q \in Active /\ q # o /\ q \in SdkCalls
                         /\ call'[q] = call[q] /\ ahead'[q] = ahead[q]
                         /\ session'[q] = session[q]
  BY <1>1
<1>4. \A q \in Active' : (Waits(q))' <=> Waits(q) /\ ahead[q] # o
  <2> SUFFICES ASSUME NEW q \in Active', call[q] = "chained", ahead[q] # None
               PROVE  call'[ahead[q]] # "over" <=> call[ahead[q]] # "over" /\ ahead[q] # o
    BY <1>3 DEF Waits
  <2>1. ahead[q] \in SdkCalls
    BY <1>3, CallTypes
  <2> QED BY <2>1
<1>5. Queue(f)'
  <2> SUFFICES ASSUME NEW p \in Active', (Waits(p))'
               PROVE  /\ ahead'[p] \in Active' /\ session'[ahead'[p]] = session'[p]
                      /\ f[ahead'[p]] < f[p]
                      /\ \A q \in Active' : session'[q] = session'[p] /\ f[q] < f[p]
                                            => f[q] <= f[ahead'[p]]
    BY DEF Queue
  <2>1. p \in Active /\ Waits(p) /\ ahead[p] # o
    BY <1>3, <1>4
  <2> QED BY <1>1, <1>3, <2>1 DEF Ranked, Queue
<1>6. OneHead(f)'
  <2> SUFFICES ASSUME NEW q \in Active', NEW p \in Active', q # p,
                      session'[q] = session'[p]
               PROVE  f[q] # f[p] /\ (f[q] < f[p] => (Waits(p))')
    BY DEF OneHead
  <2>1. f[q] # f[p] /\ (f[q] < f[p] => Waits(p))
    BY <1>3 DEF Ranked, OneHead
  <2>2. ASSUME f[q] < f[p], ahead[p] = o PROVE FALSE
    <3>1. Waits(p) /\ session[o] = session[p] /\ f[o] < f[p] /\ f[q] <= f[o]
      BY <1>3, <2>1, <2>2 DEF Ranked, Queue
    <3>2. f[q] # f[o] /\ (f[q] < f[o] => Waits(o))
      BY <1>3, <3>1 DEF Ranked, OneHead
    <3>3. f[q] \in Nat /\ f[o] \in Nat
      BY <1>2, <1>3
    <3> QED BY <3>1, <3>2, <3>3
  <2> QED BY <1>4, <2>1, <2>2
<1>7. TailLast(f)'
  <2>1. CASE tail = o
    <3>1. ASSUME NEW q \in Active', session'[q] = revision' PROVE FALSE
      <4>1. q # o /\ session[q] = session[o] /\ f[q] <= f[o]
        BY <1>3, <2>1, <3>1, SessionConstants, <1>1 DEF Ranked, TailLast
      <4>2. f[q] # f[o] /\ (f[q] < f[o] => Waits(o))
        BY <1>3, <4>1 DEF Ranked, OneHead
      <4>3. f[q] \in Nat /\ f[o] \in Nat
        BY <1>2, <1>3
      <4> QED BY <4>1, <4>2, <4>3
    <3> QED BY <2>1, <3>1 DEF TailLast
  <2>2. CASE tail # o
    BY <1>1, <1>3, <2>2 DEF Ranked, TailLast
  <2> QED BY <2>1, <2>2
<1> QED BY <1>5, <1>6, <1>7 DEF Ranked

\* The lowest call of its session is dispatched, and keeps its place; a call
\* of an older session ends instead.
LEMMA SdkDispatchRanked ==
    ASSUME TypeOK, NEW f \in [SdkCalls -> Nat], Ranked(f),
           NEW o \in SdkCalls, SdkDispatch(o)
    PROVE  Ranked(f)'
<1>1. o \in Active /\ ~Waits(o) /\ revision' = revision
      /\ \A q \in SdkCalls : q # o => /\ call'[q] = call[q] /\ ahead'[q] = ahead[q]
                                      /\ session'[q] = session[q]
  BY CallTypes DEF SdkDispatch, Active, Waits
<1>2. CASE session[o] # revision
  BY <1>1, <1>2, CallTypes, HeadLeavesRanked DEF SdkDispatch
<1>3. CASE session[o] = revision
  <2>1. call'[o] = "running" /\ call[o] = "chained" /\ UNCHANGED << session, tail, revision >>
    BY <1>3, CallTypes DEF SdkDispatch
  <2>2. Active' = Active
    BY <1>1, <2>1 DEF Active
  <2>3. \A q \in Active : Waits(q) => ahead[q] \in SdkCalls
    BY DEF Ranked, Queue, Active
  <2>4. \A q \in Active : q # o => ((Waits(q))' <=> Waits(q))
    <3> SUFFICES ASSUME NEW q \in Active, q # o, call[q] = "chained", ahead[q] # None
                 PROVE  call'[ahead[q]] # "over" <=> call[ahead[q]] # "over"
      BY <1>1 DEF Waits, Active
    <3>1. ahead[q] \in SdkCalls
      BY CallTypes DEF Active
    <3> QED BY <1>1, <2>1, <3>1
  <2>5. (~Waits(o))'
    BY <2>1 DEF Waits
  <2>6. \A q \in Active : (Waits(q))' => Waits(q) /\ q # o /\ ahead'[q] = ahead[q]
    BY <1>1, <2>4, <2>5 DEF Active
  <2>7. Queue(f)'
    BY <2>1, <2>2, <2>6 DEF Ranked, Queue
  <2>8. OneHead(f)'
    BY <1>1, <2>1, <2>2, <2>4 DEF Ranked, OneHead
  <2>9. TailLast(f)'
    BY <2>1, <2>2 DEF Ranked, TailLast
  <2> QED BY <2>7, <2>8, <2>9 DEF Ranked
<1> QED BY <1>2, <1>3

\* closeCoinSdks empties `pending' and begins a session without a call.
LEMMA CloseCoinSdksRanked ==
    ASSUME TypeOK, NEW f \in [SdkCalls -> Nat], Ranked(f), CloseCoinSdks
    PROVE  Ranked(f)'
<1>1. Active' = Active /\ tail' = None /\ revision' = revision + 1
      /\ UNCHANGED << call, session, ahead >>
  BY DEF CloseCoinSdks, Active
<1>2. Queue(f)' /\ OneHead(f)'
  BY <1>1 DEF Ranked, Queue, OneHead, Waits
<1>3. \A o \in Active : session[o] # revision + 1
  BY CallTypes DEF Active
<1>4. TailLast(f)'
  BY <1>1, <1>3 DEF TailLast
<1> QED BY <1>2, <1>4 DEF Ranked

LEMMA SerialStep ==
    ASSUME TypeOK, SerialInv, [Next]_vars PROVE SerialInv'
<1>1. PICK f \in [SdkCalls -> Nat] : Ranked(f)
  BY DEF SerialInv
<1>2. ASSUME NEW o \in SdkCalls, SdkCall(o) PROVE SerialInv'
  BY <1>1, <1>2, SdkCallRanked
<1>3. ASSUME NEW o \in SdkCalls, SdkDispatch(o) PROVE SerialInv'
  BY <1>1, <1>3, SdkDispatchRanked DEF SerialInv
<1>4. ASSUME NEW o \in SdkCalls, SdkEnds(o) PROVE SerialInv'
  <2>1. /\ o \in Active /\ ~Waits(o) /\ call'[o] = "over"
        /\ revision' = revision /\ tail' = IF tail = o THEN None ELSE tail
        /\ \A q \in SdkCalls : q # o => /\ call'[q] = call[q] /\ ahead'[q] = ahead[q]
                                        /\ session'[q] = session[q]
    BY <1>4, CallTypes DEF SdkEnds, Active, Waits
  <2>2. Ranked(f)'
    BY <1>1, <2>1, HeadLeavesRanked
  <2> QED BY <2>2 DEF SerialInv
<1>5. CASE ResetBegins \/ QuitProceeds
  BY <1>1, <1>5, CloseCoinSdksRanked DEF ResetBegins, QuitProceeds, SerialInv
<1>6. CASE UNCHANGED << revision, call, session, ahead, tail >>
  BY <1>6 DEF SerialInv, Ranked, Queue, OneHead, TailLast, Active, Waits
<1>7. ASSUME NEW r \in Requests, Request(r) \/ Dispatch(r) \/ Answer(r)
      PROVE  UNCHANGED << revision, call, session, ahead, tail >>
  BY <1>7 DEF Request, Dispatch, Answer, sdk
<1>8. ASSUME NEW c \in made, ClientFails(c) \/ GraceEnds(c) \/ PollEnds(c)
      PROVE  UNCHANGED << revision, call, session, ahead, tail >>
  BY <1>8 DEF ClientFails, GraceEnds, PollEnds, sdk
<1>9. ASSUME \/ ResetEnds \/ QuitAsked \/ CloseWindow \/ QuitWaits
             \/ FlushEnds \/ StopAllEnds \/ MiningChanges \/ UNCHANGED vars
      PROVE  UNCHANGED << revision, call, session, ahead, tail >>
  BY <1>9 DEF ResetEnds, QuitAsked, CloseWindow, QuitWaits, FlushEnds,
     StopAllEnds, MiningChanges, vars, sdk
<1> QED BY <1>2, <1>3, <1>4, <1>5, <1>6, <1>7, <1>8, <1>9 DEF Next

\* Calls of one session run one after the other, however the session ends and
\* whichever of them fail.
THEOREM SdkCallsSerial == Spec => []SdkSerial
<1>1. Init => SerialInv
  <2> SUFFICES ASSUME Init PROVE SerialInv
    OBVIOUS
  <2>1. Active = {} /\ tail = None
    BY DEF Init, Active
  <2>2. Ranked([o \in SdkCalls |-> 0])
    BY <2>1 DEF Ranked, Queue, OneHead, TailLast
  <2> QED BY <2>2 DEF SerialInv
<1>2. TypeOK /\ SerialInv /\ [Next]_vars => SerialInv'
  BY SerialStep
<1>3. TypeOK /\ SerialInv => SdkSerial
  BY RankedSerial
<1> QED BY <1>1, <1>2, <1>3, TypeCorrect, PTL DEF Spec

-----------------------------------------------------------------------------
(* Each client as SessionClient has it.  A client that is being closed and  *)
(* not in its grace still has a transfer under way (Draining), so that no   *)
(* answer to another client's request ends it; and a request is pending at  *)
(* a client of its own pool (AtOwnPool), so that the pool tells whether the *)
(* transfers of a client are Epic's.                                        *)

Transfers == EpicSends \cup Sends

Draining == \A c \in closing \ grace : Pending(c) \cap Transfers # {}
AtOwnPool == \A r \in Requests : status[r] # "new" => at[r][1] = PoolOf(r)

CutIsOver == \A r \in cut : status[r] = "over"

ViewInv == AtOwnPool /\ Draining /\ CutIsOver

ClientStep(c) == [Client(c)!Next]_<< StatusAt(c), PhaseOf(c), HasHelper(c) >>

LEMMA ClientIs ==
    ASSUME NEW c
    PROVE  /\ Client(c)!Calls = Requests
           /\ Client(c)!Transfers = Transfers
           /\ Client(c)!Pending = Pending(c)
           /\ \A rs : Client(c)!Over(rs) =
                 [r \in Requests |-> IF r \in rs THEN "over" ELSE StatusAt(c)[r]]
<1>1. Client(c)!Calls = Requests
  BY DEF Client!Calls, Client!Transfers, Requests
<1>2. Client(c)!Pending = Pending(c)
  BY <1>1 DEF Client!Pending, StatusAt, Pending
<1>3. Client(c)!Transfers = Transfers
  BY DEF Client!Transfers, Transfers
<1> QED BY <1>1, <1>2, <1>3 DEF Client!Over

\* What a step leaves alone.
LEMMA Unseen ==
    ASSUME NEW c, \A r \in Requests : StatusAt(c)'[r] = StatusAt(c)[r],
           c \in revoked' <=> c \in revoked, c \in grace' <=> c \in grace,
           c \in closing' <=> c \in closing, c \in helper' <=> c \in helper
    PROVE  ClientStep(c)
<1>1. StatusAt(c)' = StatusAt(c)
  BY DEF StatusAt
<1>2. PhaseOf(c)' = PhaseOf(c)
  BY DEF PhaseOf
<1>3. Pending(c)' = Pending(c)
  <2>1. \A r \in Requests : r \in Pending(c) <=> StatusAt(c)[r] = "pending"
    BY DEF StatusAt, Pending
  <2>2. \A r \in Requests : r \in Pending(c)' <=> StatusAt(c)'[r] = "pending"
    BY DEF StatusAt, Pending
  <2> QED BY <1>1, <2>1, <2>2 DEF Pending
<1>4. HasHelper(c)' = HasHelper(c)
  BY <1>3 DEF HasHelper
<1> QED BY <1>1, <1>2, <1>4 DEF ClientStep

-----------------------------------------------------------------------------
(* Answers and failures.                                                    *)

\* Nothing of client c is settled.
LEMMA SettleElsewhere ==
    ASSUME IInv, ViewInv, NEW rs, NEW live, Settle(rs, live), NEW c,
           rs \subseteq {r \in Requests : status[r] = "pending"},
           rs \cap Pending(c) = {}, c \in live <=> c \in helper
    PROVE  ClientStep(c)
<1>1. c \notin Drained(rs)
  BY DEF ViewInv, Draining, Drained, Transfers
<1>2. /\ c \in grace' <=> c \in grace
      /\ c \in closing' <=> c \in closing
      /\ c \in helper' <=> c \in helper
      /\ c \in revoked' <=> c \in revoked
  BY <1>1 DEF Settle
<1>3. ASSUME NEW r \in Requests PROVE StatusAt(c)'[r] = StatusAt(c)[r]
  BY <1>1 DEF Settle, StatusAt, Pending
<1> QED BY <1>2, <1>3, Unseen

\* The requests rs are the last transfers of client c; it stops with them.
Last(c, rs) == /\ PhaseOf(c) \in {"drains", "drainsEpic"}
               /\ Pending(c) \cap Transfers \subseteq rs
Stops(c, rs) == Last(c, rs) /\ PhaseOf(c) = "drains"

LEMMA SettleHere ==
    ASSUME IInv, ViewInv, NEW c, NEW rs, rs \subseteq Pending(c), NEW live, Settle(rs, live)
    PROVE  /\ c \in helper' <=> c \in live /\ ~ Stops(c, rs)
           /\ Pending(c)' = IF Stops(c, rs) THEN {} ELSE Pending(c) \ rs
           /\ (HasHelper(c)' <=> ~ Stops(c, rs)) => Client(c)!Settle(rs, TRUE)
           /\ ~ HasHelper(c)' => Client(c)!Settle(rs, FALSE)
<1> DEFINE gone == IF Stops(c, rs) THEN Pending(c) ELSE rs
<1>1. closing \cup grace \subseteq revoked
  BY DEF IInv, TypeOK
<1>2. /\ c \in Drained(rs) <=> Last(c, rs)
      /\ PhaseOf(c) = "drains" <=> c \in closing \ grace /\ c[1] # "epic"
      /\ PhaseOf(c) = "drainsEpic" <=> c \in closing \ grace /\ c[1] = "epic"
  BY <1>1 DEF Drained, PhaseOf, Transfers, Last
<1>3. c \in {d \in Drained(rs) : d[1] # "epic"} <=> Stops(c, rs)
  BY <1>2 DEF Last, Stops
<1>4. /\ c \in helper' <=> c \in live /\ ~ Stops(c, rs)
      /\ c \in closing' <=> c \in closing /\ ~ Stops(c, rs)
      /\ c \in grace' <=> c \in grace \/ (Last(c, rs) /\ ~ Stops(c, rs))
      /\ revoked' = revoked /\ at' = at
  BY <1>2, <1>3 DEF Settle
<1>5. PhaseOf(c)' = IF Stops(c, rs) THEN "closed"
                    ELSE IF Last(c, rs) THEN "grace" ELSE PhaseOf(c)
  BY <1>1, <1>2, <1>4 DEF PhaseOf, Last, Stops
<1>6. ASSUME NEW r \in Requests
      PROVE  StatusAt(c)'[r] = IF r \in gone THEN "over" ELSE StatusAt(c)[r]
  BY <1>3, <1>4 DEF Settle, StatusAt, Pending
<1>7. Pending(c)' = Pending(c) \ gone
  <2>1. \A r \in Requests : r \in Pending(c) <=> StatusAt(c)[r] = "pending"
    BY DEF StatusAt, Pending
  <2>2. \A r \in Requests : r \in Pending(c)' <=> StatusAt(c)'[r] = "pending"
    BY DEF StatusAt, Pending
  <2> HIDE DEF gone
  <2> QED BY <1>6, <2>1, <2>2 DEF Pending
<1>8. StatusAt(c)' = Client(c)!Over(gone)
  BY <1>6, ClientIs DEF StatusAt
<1>9. ASSUME NEW L \in BOOLEAN, HasHelper(c)' = (L /\ ~ Stops(c, rs))
      PROVE  Client(c)!Settle(rs, L)
  <2>1. Client(c)!Transfers = Transfers /\ Client(c)!Pending = Pending(c)
    BY ClientIs
  <2> QED BY <1>5, <1>8, <1>9, <2>1 DEF Client!Settle, Last, Stops
<1>10. (HasHelper(c)' <=> ~ Stops(c, rs)) => HasHelper(c)' = (TRUE /\ ~ Stops(c, rs))
  BY DEF HasHelper, Stops
<1>11. ~ HasHelper(c)' => HasHelper(c)' = (FALSE /\ ~ Stops(c, rs))
  BY DEF HasHelper, Stops
<1>12. (HasHelper(c)' <=> ~ Stops(c, rs)) => Client(c)!Settle(rs, TRUE)
  BY <1>9, <1>10
<1>13. ~ HasHelper(c)' => Client(c)!Settle(rs, FALSE)
  BY <1>9, <1>11
<1> QED BY <1>4, <1>7, <1>12, <1>13

-----------------------------------------------------------------------------
(* ViewInv is kept.                                                         *)

LEMMA SettleKeepsView ==
    ASSUME IInv, ViewInv, NEW rs, NEW live, Settle(rs, live),
           rs \subseteq {r \in Requests : status[r] = "pending"}, UNCHANGED cut
    PROVE  ViewInv'
<1>1. AtOwnPool'
  BY DEF ViewInv, AtOwnPool, Settle
<1>3. CutIsOver'
  BY DEF ViewInv, CutIsOver, Settle, IInv, TypeOK
<1>2. ASSUME NEW c \in closing' \ grace' PROVE Pending(c)' \cap Transfers # {}
  <2>1. c \in closing \ grace /\ c \notin Drained(rs)
    BY <1>2 DEF Settle
  <2>2. PICK r \in Pending(c) \cap Transfers : r \notin rs
    BY <2>1 DEF Drained, Transfers
  <2>3. r \in Pending(c)'
    BY <2>1, <2>2 DEF Settle, Pending
  <2> QED BY <2>2, <2>3
<1> QED BY <1>1, <1>2, <1>3 DEF ViewInv, Draining

LEMMA RequestsKeepView ==
    ASSUME IInv, ViewInv, NEW r \in Requests, Request(r) \/ Dispatch(r)
    PROVE  ViewInv'
<1> DEFINE d == IF Request(r) THEN ClientFor(r) ELSE at[r]
<1>1. closing \subseteq revoked /\ revoked \cap Mapped = {}
  BY DEF IInv, TypeOK
<1>2. status \in [Requests -> {"new", "chained", "pending", "over"}] /\ at \in [Requests -> made \cup {None}]
  BY DEF IInv, TypeOK
<1>3. at'[r] = d /\ \A q \in Requests \ {r} : at'[q] = at[q]
  BY <1>2 DEF Request, Dispatch
<1>4. d[1] = PoolOf(r)
  BY DEF ClientFor, ViewInv, AtOwnPool, Dispatch
<1>5. \A q \in Requests : q # r /\ status'[q] # status[q] => status[q] # "new"
  BY <1>2 DEF Request, Dispatch, RequestNow, Pending
<1>6. AtOwnPool'
  BY <1>3, <1>4, <1>5 DEF ViewInv, AtOwnPool
<1>7. ASSUME NEW c \in closing, NEW q \in Pending(c) PROVE q \in Pending(c)'
  <2>1. q # r /\ at'[q] = at[q] /\ q \in Requests /\ status[q] = "pending"
    BY <1>3 DEF Pending, Request, Dispatch
  <2>2. status'[q] = status[q]
    <3>1. CASE Request(r) /\ r \in NodeReads
      BY <1>2, <2>1, <3>1 DEF Request
    <3>2. CASE ~ (Request(r) /\ r \in NodeReads)
      <4>1. RequestNow(r, d)
        BY <3>2 DEF Request, Dispatch
      <4>2. d # c \/ d \in revoked
        BY <1>1
      <4> QED BY <1>2, <2>1, <4>1, <4>2 DEF RequestNow, Pending
    <3> QED BY <3>1, <3>2
  <2> QED BY <2>1, <2>2 DEF Pending
<1>8. closing' = closing /\ grace' = grace
  BY DEF Request, Dispatch
<1>9. CutIsOver'
  <2>1. ASSUME NEW q \in cut PROVE q # r /\ status'[q] = "over"
    <3>1. q \in Requests /\ q # r /\ status[q] = "over"
      BY DEF ViewInv, CutIsOver, IInv, TypeOK, Request, Dispatch
    <3> QED BY <1>2, <3>1 DEF Request, Dispatch, RequestNow
  <2>2. cut' = cut
    BY DEF Request, Dispatch
  <2> QED BY <2>1, <2>2 DEF CutIsOver
<1> QED BY <1>6, <1>7, <1>8, <1>9 DEF ViewInv, Draining

LEMMA ResetKeepsView ==
    ASSUME IInv, ViewInv, ResetEnds PROVE ViewInv'
<1>1. AtOwnPool'
  BY DEF ViewInv, AtOwnPool, ResetEnds, CloseClients
<1>2. closing \cap Mapped = {}
  BY DEF IInv, TypeOK
<1>3. ASSUME NEW c \in closing' \ grace' PROVE Pending(c)' \cap Transfers # {}
  <2> DEFINE busy == {b \in Mapped : Pending(b) \cap Transfers # {}}
  <2>1. c \in closing \cup busy /\ c \notin grace /\ c \notin Mapped \ busy
    BY <1>2, <1>3 DEF ResetEnds, CloseClients, Transfers
  <2>2. PICK r \in Pending(c) \cap Transfers : TRUE
    BY <2>1 DEF ViewInv, Draining
  <2>3. r \in Pending(c)'
    BY <2>1, <2>2 DEF ResetEnds, CloseClients, Transfers, Pending
  <2> QED BY <2>2, <2>3
<1>4. CutIsOver'
  BY DEF ViewInv, CutIsOver, ResetEnds, CloseClients, IInv, TypeOK
<1> QED BY <1>1, <1>3, <1>4 DEF ViewInv, Draining

LEMMA GraceKeepsView ==
    ASSUME IInv, ViewInv, NEW d, GraceEnds(d) PROVE ViewInv'
<1>1. AtOwnPool'
  BY DEF ViewInv, AtOwnPool, GraceEnds, Pending
<1>3. CutIsOver'
  BY DEF ViewInv, CutIsOver, GraceEnds, IInv, TypeOK
<1>2. ASSUME NEW c \in closing' \ grace' PROVE Pending(c)' \cap Transfers # {}
  <2>1. c \in closing \ grace /\ c # d
    BY <1>2 DEF GraceEnds
  <2>2. PICK r \in Pending(c) \cap Transfers : TRUE
    BY <2>1 DEF ViewInv, Draining
  <2>3. r \in Pending(c)'
    BY <2>1, <2>2 DEF GraceEnds, Pending
  <2> QED BY <2>2, <2>3
<1> QED BY <1>1, <1>2, <1>3 DEF ViewInv, Draining

LEMMA QuitKeepsView ==
    ASSUME IInv, ViewInv, QuitProceeds PROVE ViewInv'
<1>1. ASSUME NEW r \in cut' PROVE r \in Requests /\ status[r] # "new" /\ status'[r] = "over"
  BY DEF IInv, TypeOK, QuitProceeds, ViewInv, CutIsOver
<1>2. \A r \in Requests : status'[r] = IF r \in cut' THEN "over" ELSE status[r]
  BY DEF QuitProceeds
<1>3. at' = at /\ closing' = {}
  BY DEF QuitProceeds
<1> QED BY <1>1, <1>2, <1>3 DEF ViewInv, AtOwnPool, Draining, CutIsOver

LEMMA SameView ==
    ASSUME ViewInv, UNCHANGED << clients, cut >> PROVE ViewInv'
BY DEF ViewInv, AtOwnPool, Draining, Pending, CutIsOver, clients

LEMMA ViewInitially == Init => ViewInv
BY DEF Init, ViewInv, AtOwnPool, Draining, CutIsOver

-----------------------------------------------------------------------------
(* Requests.                                                                *)

\* A request that is given to client d is nothing to the others.
LEMMA RequestElsewhere ==
    ASSUME IInv, ViewInv, NEW r \in Requests, Request(r) \/ Dispatch(r), NEW c,
           c # IF Request(r) THEN ClientFor(r) ELSE at[r]
    PROVE  ClientStep(c)
<1> DEFINE d == IF Request(r) THEN ClientFor(r) ELSE at[r]
<1>1. /\ status \in [Requests -> {"new", "chained", "pending", "over"}]
      /\ at \in [Requests -> made \cup {None}]
  BY DEF IInv, TypeOK
<1>2. at'[r] = d /\ \A q \in Requests \ {r} : at'[q] = at[q]
  BY <1>1 DEF Request, Dispatch
<1>3. UNCHANGED << revoked, closing, grace >> /\ (c \in helper' <=> c \in helper)
  BY DEF Request, Dispatch, RequestNow
<1>4. StatusAt(c)'[r] = StatusAt(c)[r]
  BY <1>1, <1>2 DEF StatusAt, Request, Dispatch
<1>5. ASSUME NEW q \in Requests \ {r}, at[q] = c PROVE status'[q] = status[q]
  BY <1>1, <1>5 DEF Request, Dispatch, RequestNow, Pending
<1>6. ASSUME NEW q \in Requests \ {r} PROVE StatusAt(c)'[q] = StatusAt(c)[q]
  BY <1>2, <1>5 DEF StatusAt
<1> QED BY <1>3, <1>4, <1>6, Unseen

LEMMA RequestNowStarts ==
    ASSUME IInv, NEW r \in Requests, NEW d, RequestNow(r, d), d \notin revoked,
           at'[r] = d, \A q \in Requests \ {r} : at'[q] = at[q],
           UNCHANGED << revoked, closing, grace >>, Client(d)!Due(r)
    PROVE  Client(d)!Start(r)
<1>1. PhaseOf(d) = "open" /\ PhaseOf(d)' = "open"
  BY DEF PhaseOf
<1>2. HasHelper(d)'
  BY DEF HasHelper, RequestNow
<1>3. ASSUME NEW q \in Requests
      PROVE  StatusAt(d)'[q] = IF q = r THEN "pending"
                               ELSE IF r \in EpicSends /\ q \in Pending(d) THEN "over"
                               ELSE StatusAt(d)[q]
  BY DEF StatusAt, RequestNow, Pending
<1>4. StatusAt(d)' = [Client(d)!Over(Client(d)!Preempted(r)) EXCEPT ![r] = "pending"]
  <2>1. Client(d)!Preempted(r) = IF r \in EpicSends THEN Pending(d) ELSE {}
    BY ClientIs DEF Client!Preempted
  <2> QED BY <1>3, <2>1, ClientIs DEF StatusAt
<1>5. HasHelper(d)' = TRUE
  BY <1>2 DEF HasHelper
<1> QED BY <1>1, <1>4, <1>5 DEF Client!Start

LEMMA RequestSteps ==
    ASSUME IInv, ViewInv, NEW r \in Requests, Request(r)
    PROVE  \A c : ClientStep(c)
<1> PICK d : d = ClientFor(r)
  OBVIOUS
<1>1. /\ status \in [Requests -> {"new", "chained", "pending", "over"}]
      /\ at \in [Requests -> made \cup {None}]
  BY DEF IInv, TypeOK
<1>2. at'[r] = d /\ \A q \in Requests \ {r} : at'[q] = at[q]
  BY <1>1 DEF Request
<1>3. StatusAt(d)[r] = "new" /\ status[r] = "new"
  BY DEF StatusAt, Request
<1>4. d \notin revoked
  BY DEF ClientFor, IInv, TypeOK, Mapped
<1>5. Client(d)!Calls = Requests
  BY ClientIs
<1>6. CASE r \in NodeReads
  <2>1. status' = [status EXCEPT ![r] = "chained"]
        /\ UNCHANGED << revoked, closing, grace, helper >>
    BY <1>6 DEF Request
  <2>2. StatusAt(d)' = [StatusAt(d) EXCEPT ![r] = "chained"]
    BY <1>1, <1>2, <2>1 DEF StatusAt
  <2>3. PhaseOf(d)' = PhaseOf(d)
    BY <2>1 DEF PhaseOf
  <2>4. Pending(d)' = Pending(d)
    BY <1>1, <1>2, <1>3, <2>1 DEF Pending
  <2>5. HasHelper(d)' = HasHelper(d)
    BY <2>1, <2>4 DEF HasHelper
  <2>6. Client(d)!Enqueue(r)
    BY <1>3, <1>6, <2>2, <2>3, <2>5 DEF Client!Enqueue
  <2>7. Client(d)!Next
    BY <1>5, <2>6 DEF Client!Next
  <2>8. ClientStep(d)
    BY <2>7 DEF ClientStep
  <2> QED BY <2>8, RequestElsewhere
<1>7. CASE r \notin NodeReads
  <2>1. RequestNow(r, d) /\ UNCHANGED << revoked, closing, grace >>
    BY <1>7 DEF Request
  <2>2. Client(d)!Due(r)
    BY <1>3, <1>7 DEF Client!Due
  <2>3. Client(d)!Start(r)
    BY <1>2, <1>4, <2>1, <2>2, RequestNowStarts
  <2>4. Client(d)!Next
    BY <1>5, <2>3 DEF Client!Next
  <2>5. ClientStep(d)
    BY <2>4 DEF ClientStep
  <2> QED BY <2>5, RequestElsewhere
<1> QED BY <1>6, <1>7

LEMMA DispatchSteps ==
    ASSUME IInv, ViewInv, NEW r \in Requests, Dispatch(r)
    PROVE  \A c : ClientStep(c)
<1> PICK d : d = at[r]
  OBVIOUS
<1>1. /\ status \in [Requests -> {"new", "chained", "pending", "over"}]
      /\ status[r] = "chained" /\ r \in NodeReads
  BY DEF IInv, TypeOK, Dispatch
<1>2. Client(d)!Calls = Requests /\ Client(d)!Pending = Pending(d)
  BY ClientIs
<1>3. StatusAt(d)[r] = "chained"
  BY <1>1 DEF StatusAt
<1>4. Client(d)!Due(r)
  BY <1>1, <1>2, <1>3 DEF Client!Due, Dispatch
<1>5. RequestNow(r, d) /\ at' = at /\ UNCHANGED << revoked, closing, grace >>
  BY DEF Dispatch
<1>6. ASSUME d \notin revoked PROVE Client(d)!Next
  <2>1. Client(d)!Start(r)
    BY <1>4, <1>5, <1>6, RequestNowStarts
  <2> QED BY <1>2, <2>1 DEF Client!Next
<1>7. ASSUME d \in revoked PROVE Client(d)!Next
  <2>1. status' = [status EXCEPT ![r] = "over"] /\ helper' = helper
    BY <1>5, <1>7 DEF RequestNow
  <2>2. Pending(d)' = Pending(d)
    BY <1>1, <1>5, <2>1 DEF Pending
  <2>3. StatusAt(d)' = Client(d)!Over({r})
    BY <1>1, <1>5, <2>1, ClientIs DEF StatusAt
  <2>4. PhaseOf(d)' = PhaseOf(d) /\ PhaseOf(d) # "open" /\ HasHelper(d)' = HasHelper(d)
    BY <1>5, <1>7, <2>1, <2>2 DEF PhaseOf, HasHelper
  <2>5. Client(d)!Refuse(r)
    BY <1>4, <2>3, <2>4 DEF Client!Refuse
  <2> QED BY <1>2, <2>5 DEF Client!Next
<1>8. Client(d)!Next
  BY <1>6, <1>7
<1>9. ClientStep(d)
  BY <1>8 DEF ClientStep
<1> QED BY <1>9, RequestElsewhere, <1>1 DEF Request

-----------------------------------------------------------------------------
(* The ends of requests, of helpers and of sessions.                        *)

LEMMA AnswerSteps ==
    ASSUME IInv, ViewInv, NEW r \in Requests, Answer(r)
    PROVE  \A c : ClientStep(c)
<1> PICK d : d = at[r]
  OBVIOUS
<1>1. {r} \subseteq Pending(d) /\ Settle({r}, helper)
  BY DEF Answer, Pending
<1>2. Client(d)!Calls = Requests /\ Client(d)!Pending = Pending(d)
  BY ClientIs
<1>3. /\ d \in helper' <=> d \in helper /\ ~ Stops(d, {r})
      /\ Pending(d)' = IF Stops(d, {r}) THEN {} ELSE Pending(d) \ {r}
      /\ (HasHelper(d)' <=> ~ Stops(d, {r})) => Client(d)!Settle({r}, TRUE)
      /\ ~ HasHelper(d)' => Client(d)!Settle({r}, FALSE)
  BY <1>1, SettleHere
<1>4. HasHelper(d) = TRUE
  BY <1>1 DEF HasHelper
<1>5. ASSUME d \in helper \/ Pending(d) # {r} PROVE Client(d)!Answer(r)
  <2>1. HasHelper(d)' <=> ~ Stops(d, {r})
    BY <1>1, <1>3, <1>5 DEF HasHelper
  <2> QED BY <1>1, <1>2, <1>3, <1>4, <2>1 DEF Client!Answer
<1>6. ASSUME d \notin helper, Pending(d) = {r} PROVE Client(d)!Fails
  <2>1. ~ HasHelper(d)'
    BY <1>3, <1>6 DEF HasHelper
  <2> QED BY <1>2, <1>3, <1>4, <1>6, <2>1 DEF Client!Fails
<1>7. Client(d)!Next
  BY <1>2, <1>5, <1>6 DEF Client!Next
<1>8. ClientStep(d)
  BY <1>7 DEF ClientStep
<1>9. ASSUME NEW c, c # d PROVE ClientStep(c)
  BY <1>1, <1>9, SettleElsewhere DEF Pending
<1> QED BY <1>8, <1>9

LEMMA FailsSteps ==
    ASSUME IInv, ViewInv, NEW d, ClientFails(d)
    PROVE  \A c : ClientStep(c)
<1>1. d \in helper /\ Settle(Pending(d), helper \ {d})
  BY DEF ClientFails
<1>2. Client(d)!Pending = Pending(d)
  BY ClientIs
<1>3. /\ d \notin helper' /\ Pending(d)' = {}
      /\ ~ HasHelper(d)' => Client(d)!Settle(Pending(d), FALSE)
  <2>1. PICK P, L : P = Pending(d) /\ L = helper \ {d}
    OBVIOUS
  <2>2. P \subseteq Pending(d) /\ Settle(P, L) /\ d \notin L
    BY <1>1, <2>1
  <2>3. /\ d \in helper' <=> d \in L /\ ~ Stops(d, P)
        /\ Pending(d)' = IF Stops(d, P) THEN {} ELSE Pending(d) \ P
        /\ ~ HasHelper(d)' => Client(d)!Settle(P, FALSE)
    BY <2>2, SettleHere
  <2> QED BY <2>1, <2>2, <2>3
<1>4. HasHelper(d) /\ ~ HasHelper(d)'
  BY <1>1, <1>3 DEF HasHelper
<1>5. Client(d)!Fails
  BY <1>2, <1>3, <1>4 DEF Client!Fails
<1>6. ClientStep(d)
  BY <1>5 DEF ClientStep, Client!Next
<1>7. ASSUME NEW c, c # d PROVE ClientStep(c)
  BY <1>1, <1>7, SettleElsewhere DEF Pending
<1> QED BY <1>6, <1>7

\* A client is stopped, and what is pending at it ends.
LEMMA StopSteps ==
    ASSUME NEW d, PhaseOf(d)' = "closed", d \notin helper', at' = at,
           \A r \in Requests : r \in Pending(d) => status'[r] = "over",
           \A r \in Requests : at[r] = d /\ r \notin Pending(d) => status'[r] = status[r]
    PROVE  Client(d)!Stop
<1>1. Pending(d)' = {}
  <2> SUFFICES ASSUME NEW r \in Requests, status'[r] = "pending", at[r] = d PROVE FALSE
    BY DEF Pending
  <2> QED BY DEF Pending
<1>2. HasHelper(d)' = FALSE
  BY <1>1 DEF HasHelper
<1>3. StatusAt(d)' = Client(d)!Over(Pending(d))
  BY ClientIs DEF StatusAt, Pending
<1>4. Client(d)!Pending = Pending(d)
  BY ClientIs
<1> QED BY <1>2, <1>3, <1>4 DEF Client!Stop

LEMMA GraceSteps ==
    ASSUME IInv, ViewInv, NEW d, GraceEnds(d)
    PROVE  \A c : ClientStep(c)
<1>1. d \in grace /\ d \in revoked /\ UNCHANGED << at, revoked >>
  BY DEF GraceEnds, IInv, TypeOK
<1>2. PhaseOf(d) = "grace" /\ PhaseOf(d)' = "closed"
  BY <1>1 DEF PhaseOf, GraceEnds
<1>3. Client(d)!Stop
  BY <1>1, <1>2, StopSteps DEF GraceEnds
<1>4. ClientStep(d)
  BY <1>2, <1>3 DEF ClientStep, Client!Next, Client!GraceEnds
<1>5. ASSUME NEW c, c # d PROVE ClientStep(c)
  <2>1. \A r \in Requests : StatusAt(c)'[r] = StatusAt(c)[r]
    BY <1>5 DEF StatusAt, GraceEnds, Pending
  <2>2. /\ c \in revoked' <=> c \in revoked
        /\ c \in grace' <=> c \in grace
        /\ c \in closing' <=> c \in closing
        /\ c \in helper' <=> c \in helper
    BY <1>5 DEF GraceEnds
  <2> QED BY <2>1, <2>2, Unseen
<1> QED BY <1>4, <1>5

LEMMA ResetSteps ==
    ASSUME IInv, ViewInv, ResetEnds
    PROVE  \A c : ClientStep(c)
<1> DEFINE busy == {b \in Mapped : Pending(b) \cap Transfers # {}}
           idle == Mapped \ busy
<1>1. /\ revoked' = revoked \cup Mapped
      /\ closing' = closing \cup busy
      /\ helper' = helper \ idle
      /\ \A r \in Requests : status'[r] = IF status[r] = "pending" /\ at[r] \in idle
                                          THEN "over" ELSE status[r]
      /\ UNCHANGED << grace, at >>
  BY DEF ResetEnds, CloseClients, Transfers
<1>2. revoked \cap Mapped = {} /\ closing \subseteq revoked /\ grace \subseteq revoked
  BY DEF IInv, TypeOK
<1>3. ASSUME NEW c, c \notin Mapped PROVE ClientStep(c)
  <2>1. \A r \in Requests : StatusAt(c)'[r] = StatusAt(c)[r]
    BY <1>1, <1>3 DEF StatusAt
  <2>2. /\ c \in revoked' <=> c \in revoked
        /\ c \in grace' <=> c \in grace
        /\ c \in closing' <=> c \in closing
        /\ c \in helper' <=> c \in helper
    BY <1>1, <1>3
  <2> QED BY <2>1, <2>2, Unseen
<1>4. ASSUME NEW d, d \in Mapped PROVE ClientStep(d)
  <2>1. d \notin revoked /\ d \notin closing /\ d \notin grace
    BY <1>2, <1>4
  <2>2. PhaseOf(d) = "open"
    BY <2>1 DEF PhaseOf
  <2>3. Client(d)!Pending = Pending(d) /\ Client(d)!Transfers = Transfers
    BY ClientIs
  <2>4. ASSUME Pending(d) \cap Transfers = {} PROVE Client(d)!Close
    <3>1. d \in idle /\ d \notin busy
      BY <1>4, <2>4
    <3>2. PhaseOf(d)' = "closed" /\ d \notin helper' /\ at' = at
      BY <1>1, <1>4, <2>1, <3>1 DEF PhaseOf
    <3>3. \A r \in Requests : r \in Pending(d) => status'[r] = "over"
      BY <1>1, <3>1 DEF Pending
    <3>4. \A r \in Requests : at[r] = d /\ r \notin Pending(d) => status'[r] = status[r]
      BY <1>1 DEF Pending
    <3>5. Client(d)!Stop
      BY <3>2, <3>3, <3>4, StopSteps
    <3> QED BY <2>2, <2>3, <2>4, <3>5 DEF Client!Close
  <2>5. ASSUME Pending(d) \cap Transfers # {} PROVE Client(d)!Close
    <3>1. d \in busy /\ d \notin idle
      BY <1>4, <2>5
    <3>2. StatusAt(d)' = StatusAt(d)
      BY <1>1, <3>1 DEF StatusAt
    <3>3. Pending(d)' = Pending(d)
      BY <1>1, <3>1 DEF Pending
    <3>4. HasHelper(d)' = HasHelper(d)
      BY <1>1, <3>1, <3>3 DEF HasHelper
    <3>5. d[1] = "epic" <=> Pending(d) \cap EpicSends # {}
      <4>1. PICK r \in Pending(d) \cap Transfers : TRUE
        BY <2>5
      <4>2. \A q \in Pending(d) : d[1] = PoolOf(q) /\ q \in Requests
        BY DEF ViewInv, AtOwnPool, Pending
      <4>3. d[1] = "epic" => r \in EpicSends
        BY <4>1, <4>2, SessionConstants DEF PoolOf, Transfers
      <4>4. \A q \in EpicSends : PoolOf(q) = "epic"
        BY DEF PoolOf
      <4> QED BY <4>1, <4>2, <4>3, <4>4
    <3>6. PhaseOf(d)' = IF d[1] = "epic" THEN "drainsEpic" ELSE "drains"
      BY <1>1, <1>4, <2>1, <3>1 DEF PhaseOf
    <3> QED BY <2>2, <2>3, <2>5, <3>2, <3>4, <3>5, <3>6 DEF Client!Close
  <2> QED BY <2>4, <2>5 DEF ClientStep, Client!Next
<1> QED BY <1>3, <1>4

\* The quit lets every client fail that it knows, and every helper.
LEMMA QuitSteps ==
    ASSUME IInv, ViewInv, HelpersAreKnown, QuitProceeds
    PROVE  \A c : ClientStep(c)
<1> TAKE c
<1>1. /\ status \in [Requests -> {"new", "chained", "pending", "over"}]
      /\ closing \subseteq revoked /\ grace \subseteq revoked
  BY DEF IInv, TypeOK
<1>2. /\ revoked' = revoked /\ at' = at /\ closing' = {} /\ helper' = {}
      /\ grace' = grace \cup {d \in closing : Pending(d) \cap EpicSends # {}}
  BY DEF QuitProceeds
<1>3. ASSUME NEW r \in Requests, at[r] = c
      PROVE  status'[r] = IF r \in Pending(c) /\ c \in ActiveClients THEN "over" ELSE status[r]
  BY <1>1, <1>3 DEF QuitProceeds, Pending, ViewInv, CutIsOver
<1>4. Client(c)!Pending = Pending(c) /\ Client(c)!Transfers = Transfers
  BY ClientIs
<1>5. \A r \in Requests : StatusAt(c)'[r] = IF r \in Pending(c) /\ c \in ActiveClients
                                            THEN "over" ELSE StatusAt(c)[r]
  BY <1>2, <1>3 DEF StatusAt, Pending
<1>6. Pending(c)' = IF c \in ActiveClients THEN {} ELSE Pending(c)
  <2>1. ASSUME NEW r \in Requests
        PROVE  r \in Pending(c)' <=> r \in Pending(c) /\ c \notin ActiveClients
    BY <1>2, <1>3 DEF Pending
  <2> QED BY <2>1 DEF Pending
<1>7. HasHelper(c)' <=> c \notin ActiveClients /\ Pending(c) # {}
  BY <1>2, <1>6 DEF HasHelper
<1>8. c \notin closing => PhaseOf(c)' = PhaseOf(c)
  BY <1>2 DEF PhaseOf
<1>9. CASE ~ HasHelper(c)
  <2>1. Pending(c) = {}
    BY <1>9 DEF HasHelper
  <2>2. StatusAt(c)' = StatusAt(c)
    BY <1>5, <2>1 DEF StatusAt
  <2>3. PhaseOf(c)' = PhaseOf(c)
    BY <1>1, <1>2, <1>8, <2>1 DEF PhaseOf, ViewInv, Draining
  <2>4. HasHelper(c)' = HasHelper(c)
    BY <1>7, <1>9, <2>1 DEF HasHelper
  <2> QED BY <2>2, <2>3, <2>4 DEF ClientStep
<1>10. CASE c \notin ActiveClients /\ Pending(c) # {}
  <2>1. StatusAt(c)' = StatusAt(c)
    BY <1>5, <1>10 DEF StatusAt
  <2>2. PhaseOf(c)' = PhaseOf(c)
    BY <1>8, <1>10 DEF ActiveClients
  <2>3. HasHelper(c) /\ HasHelper(c)'
    BY <1>7, <1>10 DEF HasHelper
  <2>4. HasHelper(c)' = HasHelper(c)
    BY <2>3 DEF HasHelper
  <2> QED BY <2>1, <2>2, <2>4 DEF ClientStep
<1>11. CASE HasHelper(c) /\ (c \in ActiveClients \/ Pending(c) = {})
  <2>1. ~ HasHelper(c)'
    BY <1>7, <1>11
  <2>2. HasHelper(c)' = FALSE
    BY <2>1 DEF HasHelper
  <2>3. StatusAt(c)' = Client(c)!Over(Pending(c))
    BY <1>5, <1>11, ClientIs DEF StatusAt
  <2>4. PhaseOf(c)' = IF PhaseOf(c) = "drains" THEN "closed"
                      ELSE IF PhaseOf(c) = "drainsEpic" THEN "grace" ELSE PhaseOf(c)
    <3>1. CASE c \notin closing
      BY <1>8, <3>1 DEF PhaseOf
    <3>2. CASE c \in closing /\ c \in grace
      BY <1>1, <1>2, <3>2 DEF PhaseOf
    <3>3. CASE c \in closing \ grace
      <4>1. PICK r \in Pending(c) \cap Transfers : TRUE
        BY <3>3 DEF ViewInv, Draining
      <4>2. \A q \in Pending(c) : c[1] = PoolOf(q) /\ q \in Requests
        BY DEF ViewInv, AtOwnPool, Pending
      <4>3. c[1] = "epic" <=> Pending(c) \cap EpicSends # {}
        BY <4>1, <4>2, SessionConstants DEF PoolOf, Transfers
      <4> QED BY <1>1, <1>2, <3>3, <4>3 DEF PhaseOf
    <3> QED BY <3>1, <3>2, <3>3
  <2>5. Client(c)!Settle(Pending(c), FALSE)
    BY <1>4, <2>2, <2>3, <2>4 DEF Client!Settle
  <2>6. HasHelper(c) = TRUE
    BY <1>11 DEF HasHelper
  <2>7. Client(c)!Fails
    BY <1>4, <2>5, <2>6 DEF Client!Fails
  <2> QED BY <2>7 DEF ClientStep, Client!Next
<1> QED BY <1>9, <1>10, <1>11

\* The SDK calls, the guard's wait and the miners are no matter of a client.
LEMMA NoClientSteps ==
    ASSUME UNCHANGED clients
    PROVE  \A c : ClientStep(c)
BY Unseen DEF clients, StatusAt

\* Each client makes the steps of a session client.
LEMMA ClientSteps ==
    ASSUME IInv, ViewInv, HelpersAreKnown, [Next]_vars
    PROVE  ViewInv' /\ \A c : ClientStep(c)
<1>1. ASSUME NEW r \in Requests, Request(r) PROVE ViewInv' /\ \A c : ClientStep(c)
  BY <1>1, RequestsKeepView, RequestSteps
<1>2. ASSUME NEW r \in Requests, Dispatch(r) PROVE ViewInv' /\ \A c : ClientStep(c)
  BY <1>2, RequestsKeepView, DispatchSteps
<1>3. ASSUME NEW r \in Requests, Answer(r) PROVE ViewInv' /\ \A c : ClientStep(c)
  <2>1. Settle({r}, helper) /\ cut' = cut /\ {r} \subseteq {q \in Requests : status[q] = "pending"}
    BY <1>3 DEF Answer
  <2> QED BY <1>3, <2>1, SettleKeepsView, AnswerSteps
<1>4. ASSUME NEW d \in made, ClientFails(d) PROVE ViewInv' /\ \A c : ClientStep(c)
  <2>1. /\ Settle(Pending(d), helper \ {d}) /\ cut' = cut
        /\ Pending(d) \subseteq {q \in Requests : status[q] = "pending"}
    BY <1>4 DEF ClientFails, Pending
  <2> QED BY <1>4, <2>1, SettleKeepsView, FailsSteps
<1>5. ASSUME NEW d \in made, GraceEnds(d) PROVE ViewInv' /\ \A c : ClientStep(c)
  BY <1>5, GraceKeepsView, GraceSteps
<1>6. CASE ResetEnds
  BY <1>6, ResetKeepsView, ResetSteps
<1>7. CASE QuitProceeds
  BY <1>7, QuitKeepsView, QuitSteps
<1>8. CASE \/ \E c \in made : PollEnds(c)
           \/ \E o \in SdkCalls : SdkCall(o) \/ SdkDispatch(o) \/ SdkEnds(o)
           \/ ResetBegins \/ QuitAsked \/ CloseWindow \/ QuitWaits
           \/ FlushEnds \/ StopAllEnds \/ MiningChanges \/ UNCHANGED vars
  <2>1. UNCHANGED << clients, cut >>
    BY <1>8 DEF PollEnds, SdkCall, SdkDispatch, SdkEnds, ResetBegins, QuitAsked,
       CloseWindow, QuitWaits, FlushEnds, StopAllEnds, MiningChanges, vars
  <2> QED BY <2>1, SameView, NoClientSteps
<1> QED BY <1>1, <1>2, <1>3, <1>4, <1>5, <1>6, <1>7, <1>8 DEF Next

\* Whatever the main process does with its maps, its sets and its quits, each
\* client goes through no other steps than those of SessionClient: a refused
\* request, an ended session and a last transfer do to it what they do to a
\* NativeCoreClient.
THEOREM ClientsKeepContract == Spec => ClientsAreSessionClients
<1>1. ASSUME IInv, ViewInv, HelpersAreKnown, [Next]_vars
      PROVE  \A c \in made' : [Client(c)!Next]_<< StatusAt(c), PhaseOf(c), HasHelper(c) >>
  BY <1>1, ClientSteps DEF ClientStep
<1>2. IInv /\ ViewInv /\ HelpersAreKnown /\ [Next]_vars => ViewInv'
  BY ClientSteps
<1>3. Spec => [](IInv /\ HelpersAreKnown)
  BY Invariance, HelpersKnown, PTL
<1> QED BY <1>1, <1>2, <1>3, ViewInitially, PTL DEF Spec, ClientsAreSessionClients

\* What ClosingEnds rests on: a closed client stays in closingNativeCores only
\* while a transfer is pending at it, or while its grace runs.
THEOREM ClosingHasReason == Spec => []Draining
<1>1. IInv /\ ViewInv /\ HelpersAreKnown /\ [Next]_vars => ViewInv'
  BY ClientSteps
<1>2. ViewInv => Draining
  BY DEF ViewInv
<1>3. Spec => [](IInv /\ HelpersAreKnown)
  BY Invariance, HelpersKnown, PTL
<1> QED BY <1>1, <1>2, <1>3, ViewInitially, PTL DEF Spec
=============================================================================
