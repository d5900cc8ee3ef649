--------------------------- MODULE MCWebhookIngest ---------------------------
(***************************************************************************)
(* Instances of WebhookIngest for TLC: the values of its function-valued   *)
(* constants, and the symmetry of the requests.                            *)
(***************************************************************************)
EXTENDS WebhookIngest, TLC

CONSTANTS wh1, wh2, pfx1, sms, beat, noid, id1

\* The tokens share their first eight characters, and so one rate limit.
MCPrefix == [t \in Tokens |-> pfx1]

\* An SMS carries the sender's id; a heartbeat carries none.
MCExplicitId == [p \in Payloads |-> IF p = sms THEN id1 ELSE noid]

\* Requests differ in nothing but their name.
CallSymmetry == Permutations(Calls)

\* Nor do two tokens of one prefix.
CallAndTokenSymmetry == Permutations(Calls) \cup Permutations({wh1, wh2})
=============================================================================
