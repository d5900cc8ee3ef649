----------------------------- MODULE CommandLog -----------------------------
(***************************************************************************)
(* What the command log (device_command_logs) promises to who reads it     *)
(* next to the answers of the API.  A query that is let in has a row,      *)
(* pending until its end is known; the end, success or failure, is         *)
(* recorded once, and told after that.  What can break a query (a failed   *)
(* statement, no connection, the end of the process) leaves the row as it  *)
(* was: a pending row is of a query that is still running or was broken,   *)
(* and an end may be on record that nobody was told.                       *)
(***************************************************************************)
CONSTANT Calls

VARIABLES
    status,         \* the status of the row, or "none"
    told            \* what the caller was told, "nothing" as yet

vars == <<status, told>>

Init ==
    /\ status = [c \in Calls |-> "none"]
    /\ told = [c \in Calls |-> "nothing"]

Record(c, before, after) ==
    /\ told[c] = "nothing"
    /\ status[c] = before
    /\ status' = [status EXCEPT ![c] = after]

\* The caller is told what is on record.
Inform(c, end, answer) ==
    /\ told[c] = "nothing"
    /\ status[c] = end
    /\ told' = [told EXCEPT ![c] = answer]
    /\ UNCHANGED status

\* 401, 403, 404: no row is written.
Deny(c) == Inform(c, "none", "denied")

Open(c) == Record(c, "none", "pending") /\ UNCHANGED told

\* An error of the device, or of the request, and a result: recorded, and then
\* told.
Fail(c) == Record(c, "pending", "failed") /\ UNCHANGED told
Succeed(c) == Record(c, "pending", "success") /\ UNCHANGED told

AnswerError(c) == Inform(c, "failed", "app_error")
Answer(c) == Inform(c, "success", "ok")

\* Some calls, all those of a process that dies, end with a 500 or unanswered.
Break(S, how) ==
    /\ \A c \in S : told[c] = "nothing"
    /\ told' = [c \in Calls |-> IF c \in S THEN how ELSE told[c]]
    /\ UNCHANGED status

Next ==
    \/ \E c \in Calls : Deny(c) \/ Open(c) \/ Fail(c) \/ Succeed(c)
                       \/ AnswerError(c) \/ Answer(c)
    \/ \E S \in SUBSET Calls, how \in {"internal", "lost"} : Break(S, how)

Spec == Init /\ [][Next]_vars
=============================================================================
