---------------------------- MODULE SessionClient ----------------------------
(***************************************************************************)
(* One client of a native helper, as the main process deals with it: what  *)
(* NativeSession takes each of its clients to be, and NativeCoreClient is. *)
(*                                                                         *)
(* Only what the main process can tell apart is left: where each request   *)
(* is, how far the end of the session has got, and whether there is a      *)
(* helper.  The client ends a session in its own time: at once, with its   *)
(* last transfer, or, when that may have been one of Epic, after a grace.  *)
(***************************************************************************)
CONSTANTS
    Chained,    \* requests that are pending one at a time
    EpicSends,  \* transfers that do not wait for what is pending
    Sends,      \* other transfers
    Others      \* requests that start at once

Transfers == EpicSends \cup Sends
Calls == Chained \cup Transfers \cup Others

VARIABLES
    status,     \* where each request is
    phase,      \* how far the end of the session has got
    helper      \* is there a helper?

Init ==
    /\ status = [r \in Calls |-> "new"]
    /\ phase = "open"
    /\ helper = FALSE

Pending == {r \in Calls : status[r] = "pending"}
Over(rs) == [r \in Calls |-> IF r \in rs THEN "over" ELSE status[r]]

Enqueue(r) ==
    /\ r \in Chained /\ status[r] = "new"
    /\ status' = [status EXCEPT ![r] = "chained"]
    /\ UNCHANGED << phase, helper >>

\* The request's turn has come.
Due(r) == IF r \in Chained THEN status[r] = "chained" /\ Pending \cap Chained = {}
          ELSE status[r] = "new"

\* A transfer of Epic has the way free.
Preempted(r) == IF r \in EpicSends THEN Pending ELSE {}

Start(r) ==
    /\ phase = "open" /\ Due(r)
    /\ status' = [Over(Preempted(r)) EXCEPT ![r] = "pending"]
    /\ helper' = TRUE
    /\ UNCHANGED phase

\* There is no helper for the request, and none can be started.
StartFails(r) ==
    /\ phase = "open" /\ Due(r)
    /\ helper => Preempted(r) # {}
    /\ status' = Over(Preempted(r) \cup {r})
    /\ helper' = FALSE
    /\ UNCHANGED phase

Refuse(r) ==
    /\ phase # "open" /\ Due(r)
    /\ status' = Over({r})
    /\ UNCHANGED << phase, helper >>

\* The requests rs are settled.  The last transfer ends a closed session, and
\* everything else that is pending with it.
Settle(rs, live) ==
    LET last  == phase \in {"drains", "drainsEpic"} /\ Pending \cap Transfers \subseteq rs
        stops == last /\ phase = "drains"
    IN  /\ status' = Over(IF stops THEN Pending ELSE rs)
        /\ phase' = IF stops THEN "closed" ELSE IF last THEN "grace" ELSE phase
        /\ helper' = (live /\ ~stops)

Answer(r) == r \in Pending /\ Settle({r}, helper)

\* Whatever makes the client let go of its helper: its exit, a watchdog, a
\* write that fails, the quit of the app.
Fails == helper /\ Settle(Pending, FALSE)

Stop == status' = Over(Pending) /\ phase' = "closed" /\ helper' = FALSE

Close ==
    /\ phase = "open"
    /\ IF Pending \cap Transfers = {} THEN Stop
       ELSE /\ phase' = IF Pending \cap EpicSends # {} THEN "drainsEpic" ELSE "drains"
            /\ UNCHANGED << status, helper >>

GraceEnds == phase = "grace" /\ Stop

Next ==
    \/ \E r \in Calls : Enqueue(r) \/ Start(r) \/ StartFails(r) \/ Refuse(r) \/ Answer(r)
    \/ Fails \/ Close \/ GraceEnds

Spec == Init /\ [][Next]_<< status, phase, helper >>
=============================================================================
