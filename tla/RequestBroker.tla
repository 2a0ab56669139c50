---------------------------- MODULE RequestBroker ----------------------------
(***************************************************************************)
(* What a native client promises its callers, whatever processes stand     *)
(* behind it: a request is started at most once and settled at most once,  *)
(* chained requests are active one at a time, and nothing starts once the  *)
(* session is closed.  A transfer that was started fails with everything   *)
(* else, when the processes behind the client do, or alone: neither a      *)
(* result for another request nor the closing of the session fails it.     *)
(* NativeCoreClient implements this.                                       *)
(***************************************************************************)
CONSTANTS
    Chained,    \* requests that are active one at a time
    Others,     \* requests that start at once
    Transfers   \* requests that start at once and move money

Calls == Chained \cup Others \cup Transfers

VARIABLES
    status,     \* where each request is
    open        \* the session still accepts requests

Init ==
    /\ status = [r \in Calls |-> "new"]
    /\ open = TRUE

Active  == { r \in Calls : status[r] = "active" }
Settled == { r \in Calls : status[r] \in {"ok", "error"} }

\* The requests `gone` fail, and `r` gets the status `s`.
Becomes(r, s, gone) ==
    [x \in Calls |-> IF x = r THEN s ELSE IF x \in gone THEN "error" ELSE status[x]]

Wait(r) ==
    /\ status[r] = "new"
    /\ r \in Chained
    /\ status' = [status EXCEPT ![r] = "waiting"]
    /\ UNCHANGED open

\* A request starts, and may fail those that are active to have the way free.
Start(r, gone) ==
    /\ open
    /\ status[r] \in (IF r \in Chained THEN {"waiting"} ELSE {"new"})
    /\ r \in Chained => Active \cap Chained \subseteq gone
    /\ status' = Becomes(r, "active", gone)
    /\ UNCHANGED open

\* A result; the last one of a closed session may leave the rest without one.
Answer(r, gone) ==
    /\ r \in Active
    /\ gone \cap Transfers \subseteq {r}
    /\ status' = Becomes(r, "ok", gone \ {r})
    /\ UNCHANGED open

Fail(gone) ==
    /\ gone # {}
    /\ \/ Active \subseteq gone
       \/ \E r \in gone : gone \cap Transfers \subseteq {r}
    /\ status' = [x \in Calls |-> IF x \in gone THEN "error" ELSE status[x]]
    /\ UNCHANGED open

Close(gone) ==
    /\ open
    /\ gone \cap Transfers = {}
    /\ open' = FALSE
    /\ status' = [x \in Calls |-> IF x \in gone THEN "error" ELSE status[x]]

Next ==
    \/ \E r \in Calls : Wait(r)
    \/ \E r \in Calls, gone \in SUBSET Active : Start(r, gone) \/ Answer(r, gone)
    \/ \E gone \in SUBSET (Calls \ Settled) : Fail(gone)
    \/ \E gone \in SUBSET Active : Close(gone)

Spec == Init /\ [][Next]_<< status, open >>
=============================================================================
