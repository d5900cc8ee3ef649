--------------------------- MODULE WebhookIngest ---------------------------
(***************************************************************************)
(* The webhook endpoint of the server, POST /webhooks/smsforwarder/{token} *)
(* (app/api/v1/webhooks.py, app/services/webhook_service.py), with the     *)
(* per-minute rate limiter it calls (app/utils/rate_limiter.py) and the    *)
(* two management requests that create and rotate a device's webhook.      *)
(*                                                                         *)
(* ingest_webhook is a coroutine: it runs on the event loop of its worker  *)
(* process and gives the loop up at one place only, `await request.json()`.*)
(* The management requests run in the threads of a worker.  Every request  *)
(* has its own database session, so its statements interleave with those   *)
(* of the other requests wherever the database lets them.  An action is    *)
(* one statement (or commit) and the Python code up to the next one.       *)
(*                                                                         *)
(* The state is split the way the program's is: the committed rows of the  *)
(* database, and what each request holds in its locals and in the objects  *)
(* its session has loaded.  What a transaction wrote but did not commit is *)
(* not in the rows: it is known from the program counter of its request.   *)
(***************************************************************************)
EXTENDS Naturals, FiniteSets

CONSTANTS
    Workers,        \* uvicorn worker processes (docker/entrypoint.sh starts one)
    Calls,          \* webhook requests, each retry being a request of its own
    Admins,         \* concurrent management requests
    Devices,        \* devices with a row (the program never deletes one)
    Tokens,         \* webhook tokens; bounds how many are ever issued
    Prefix,         \* [Tokens -> Prefixes]: the first 8 characters of a token
    Prefixes,
    Payloads,       \* webhook bodies
    ExplicitId,     \* [Payloads -> Ids]: the body's event_id or id, NoId if absent
    Ids,
    NoId,
    Limit,          \* webhook_rate_limit_per_minute
    WindowTicks,    \* clock ticks in a rate-limit window
    MaxTime,        \* bounds the clock
    Dialect,        \* "sqlite" (a single writer) or "postgresql" (READ COMMITTED)
    NoDevice        \* the owner of a token that was not issued

ASSUME LimitAssumption == Limit \in Nat \ {0}
ASSUME ClockAssumption == WindowTicks \in Nat \ {0} /\ MaxTime \in Nat
ASSUME DialectAssumption == Dialect \in {"sqlite", "postgresql"}
ASSUME PrefixAssumption == Prefix \in [Tokens -> Prefixes]
ASSUME PayloadAssumption == ExplicitId \in [Payloads -> Ids] /\ NoId \in Ids
ASSUME NoDeviceAssumption == NoDevice \notin Devices

VARIABLES
    clock,          \* datetime.now(UTC), shared by the workers
    rate,           \* rate_limits: [prefix][window] request_count, 0 if no row
    owner,          \* device_webhooks.device_id by token, NoDevice if no row
    enabled,        \* device_webhooks.enabled by token
    called,         \* device_webhooks.called_count by token
    events,         \* device_events: the <<device_id, event_id>> of its rows
    count,          \* devices.webhook_count
    seen,           \* devices.last_seen_at (last_webhook_at is set with it)
    req,            \* what each call asks: its token and its body
    pc,             \* where each call is in ingest_webhook
    local,          \* the locals and loaded objects of each call
    admin           \* the management requests

db == <<rate, owner, enabled, called, events, count, seen>>
vars == <<clock, db, req, pc, local, admin>>

Windows == 0 .. MaxTime
Window(t) == t \div WindowTicks         \* now.replace(second=0, microsecond=0)

(***************************************************************************)
(* Identity of an event: the id the sender gave it, or else a hash of the  *)
(* device, the event type and the body (stable_event_id).  The type is a   *)
(* function of the body, and the hash is taken as collision free.          *)
(***************************************************************************)
EventIdOf(d, p) ==
    IF ExplicitId[p] # NoId THEN <<"id", ExplicitId[p]>> ELSE <<"sha256", d, p>>

EventIds == {EventIdOf(d, p) : d \in Devices, p \in Payloads}
DeviceOf(c) == owner[req[c].token]
Key(c) == <<DeviceOf(c), EventIdOf(DeviceOf(c), req[c].payload)>>

-----------------------------------------------------------------------------
(* Where a call is. *)

AtRate == {"rate_insert", "rate_update"}            \* in check_rate_limit
AtIngest == {"insert", "device", "commit"}          \* in WebhookService.ingest
OnLoop == AtRate \cup AtIngest                      \* runs, or blocks its loop
Active == OnLoop \cup {"body", "reply"}
Committed == {"reply", "ok", "unanswered"}          \* past the commit of ingest
Final == {"ok", "limited", "unauthorized", "error", "lost", "unanswered"}
PCs == {"new"} \cup Active \cup Final

\* Fault: ingest_webhook declared with def, so that it runs in the threadpool.
LoopFree_Threadpool(w) == TRUE
LoopFree(w) == \A c \in Calls : ~(local[c].worker = w /\ pc[c] \in OnLoop)

\* The calls whose transaction has inserted an event row it has not committed.
\* Fault: the event is added but not flushed before the device is read.
InTxn_NoFlush(c) == FALSE
InTxn(c) == pc[c] \in {"device", "commit"} /\ ~local[c].dup

\* SQLite has one write lock, held from a transaction's first write to its end.
CanWrite(c) == Dialect = "sqlite" => \A b \in Calls \ {c} : ~InTxn(b)
NoOpenWrite == Dialect = "sqlite" => \A b \in Calls : ~InTxn(b)

\* An insert waits for a transaction that has inserted the same unique key.
\* Fault: a transaction left open across `await request.json()`.
KeyUndecided_OpenAcrossAwait(c) ==
    \E b \in Calls \ {c} : (InTxn(b) \/ pc[b] = "body") /\ Key(b) = Key(c)
KeyUndecided(c) == \E b \in Calls \ {c} : InTxn(b) /\ Key(b) = Key(c)

\* `late` is history: the call committed after its token was revoked.
Locals == [worker : Workers, window : Windows, got : Nat, loaded : Nat,
           count : Nat, at : 0 .. MaxTime, dup : BOOLEAN, late : BOOLEAN]
NoLocals(w) == [worker |-> w, window |-> 0, got |-> 0, loaded |-> 0,
                count |-> 0, at |-> 0, dup |-> FALSE, late |-> FALSE]

AdminState == [rotating : BOOLEAN, worker : Workers,
               device : Devices \cup {NoDevice}, old : SUBSET Tokens]
Idle(w) == [rotating |-> FALSE, worker |-> w, device |-> NoDevice, old |-> {}]

(***************************************************************************)
(* A database in which some webhooks were created before, and some revoked *)
(* since; every request is about to be sent, to any worker, with any token *)
(* and any body.                                                           *)
(***************************************************************************)
Init ==
    /\ clock = 0
    /\ rate = [p \in Prefixes |-> [w \in Windows |-> 0]]
    /\ owner \in [Tokens -> Devices \cup {NoDevice}]
    /\ enabled \in [Tokens -> BOOLEAN]
    /\ \A t \in Tokens : enabled[t] => owner[t] # NoDevice
    /\ called = [t \in Tokens |-> 0]
    /\ events = {}
    /\ count = [d \in Devices |-> 0]
    /\ seen = [d \in Devices |-> 0]
    /\ req \in [Calls -> [token : Tokens, payload : Payloads]]
    /\ pc = [c \in Calls |-> "new"]
    /\ local \in [Calls -> {NoLocals(w) : w \in Workers}]
    /\ admin \in [Admins -> {Idle(w) : w \in Workers}]

Tick ==
    /\ clock < MaxTime
    /\ clock' = clock + 1
    /\ UNCHANGED <<db, req, pc, local, admin>>

-----------------------------------------------------------------------------
(* check_rate_limit.  The call takes the loop, computes its window and     *)
(* selects the row of its prefix and window.                               *)

RateCount(c) == rate[Prefix[req[c].token]][Window(clock)]
OverLimit_OffByOne(n) == n > Limit
OverLimit(n) == n >= Limit

Receive(c, label) ==
    /\ pc[c] = "new"
    /\ LoopFree(local[c].worker)
    /\ pc' = [pc EXCEPT ![c] = label]
    /\ local' = [local EXCEPT ![c].window = Window(clock), ![c].got = RateCount(c)]
    /\ UNCHANGED <<clock, db, req, admin>>

RateMiss(c) == RateCount(c) = 0 /\ Receive(c, "rate_insert")
RateHit(c) == RateCount(c) # 0 /\ ~OverLimit(RateCount(c)) /\ Receive(c, "rate_update")
RateLimited(c) == RateCount(c) # 0 /\ OverLimit(RateCount(c)) /\ Receive(c, "limited")

SetRate(c, n) == rate' = [rate EXCEPT ![Prefix[req[c].token]][local[c].window] = n]

\* INSERT and commit.  Another worker may have inserted the row since the
\* select: the IntegrityError is not handled and the call fails (500).
RateInsert(c) ==
    /\ pc[c] = "rate_insert"
    /\ CanWrite(c)
    /\ IF rate[Prefix[req[c].token]][local[c].window] = 0
       THEN SetRate(c, 1) /\ pc' = [pc EXCEPT ![c] = "body"]
       ELSE UNCHANGED rate /\ pc' = [pc EXCEPT ![c] = "error"]
    /\ UNCHANGED <<clock, owner, enabled, called, events, count, seen, req, local, admin>>

\* UPDATE and commit: the value written is the one selected, plus one.  (Here
\* and below a local that is dead from here on is cleared.)
RateUpdate(c) ==
    /\ pc[c] = "rate_update"
    /\ CanWrite(c)
    /\ SetRate(c, local[c].got + 1)
    /\ pc' = [pc EXCEPT ![c] = "body"]
    /\ local' = [local EXCEPT ![c].got = 0]
    /\ UNCHANGED <<clock, owner, enabled, called, events, count, seen, req, admin>>

-----------------------------------------------------------------------------
(* `await request.json()`: the loop is free until the body arrives.  It may *)
(* not arrive, or not be JSON: the call then ends with an error.            *)

BodyFails(c) ==
    /\ pc[c] = "body"
    /\ LoopFree(local[c].worker)
    /\ pc' = [pc EXCEPT ![c] = "error"]
    /\ UNCHANGED <<clock, db, req, local, admin>>

\* lookup: one select for a webhook with this hash that is enabled.
\* Fault: the select does not ask for enabled.
Usable_Revoked(c) == DeviceOf(c) # NoDevice
Usable(c) == enabled[req[c].token]

LookupFails(c) ==
    /\ pc[c] = "body"
    /\ LoopFree(local[c].worker)
    /\ ~Usable(c)
    /\ pc' = [pc EXCEPT ![c] = "unauthorized"]
    /\ UNCHANGED <<clock, db, req, local, admin>>

\* `now` of ingest.
\* Fault: it is the time that check_rate_limit took, before the body came.
Now_OfWindow(c) == local[c].window * WindowTicks
Now(c) == clock

\* ... and the start of ingest: `now` is taken before the insert, and
\* called_count stays as the select returned it.
Lookup(c) ==
    /\ pc[c] = "body"
    /\ LoopFree(local[c].worker)
    /\ Usable(c)
    /\ pc' = [pc EXCEPT ![c] = "insert"]
    /\ local' = [local EXCEPT ![c].loaded = called[req[c].token], ![c].at = Now(c)]
    /\ UNCHANGED <<clock, db, req, admin>>

-----------------------------------------------------------------------------
(* WebhookService.ingest. *)

\* UNIQUE (device_id, event_id) over the committed rows.
\* Fault: the constraint is missing from the table.
Taken_NoConstraint(c) == FALSE
Taken(c) == Key(c) \in events

\* The INSERT of the event is flushed: the transaction stays open.
InsertFresh(c) ==
    /\ pc[c] = "insert"
    /\ CanWrite(c)
    /\ ~KeyUndecided(c)
    /\ ~Taken(c)
    /\ pc' = [pc EXCEPT ![c] = "device"]
    /\ UNCHANGED <<clock, db, req, local, admin>>

\* The unique constraint refuses the INSERT: the session is rolled back.
InsertDuplicate(c) ==
    /\ pc[c] = "insert"
    /\ CanWrite(c)
    /\ Taken(c)
    /\ pc' = [pc EXCEPT ![c] = "device"]
    /\ local' = [local EXCEPT ![c].dup = TRUE]
    /\ UNCHANGED <<clock, db, req, admin>>

\* The rollback expired the webhook, so a duplicate reads called_count again.
Reload(c) == IF local[c].dup THEN called[req[c].token] ELSE local[c].loaded

ReadDevice(c) ==
    /\ pc[c] = "device"
    /\ pc' = [pc EXCEPT ![c] = "commit"]
    /\ local' = [local EXCEPT ![c].loaded = Reload(c), ![c].count = count[DeviceOf(c)]]
    /\ UNCHANGED <<clock, db, req, admin>>

\* Fault: a duplicate is counted as well.
CountAfter_Duplicates(c) == local[c].count + 1
CountAfter(c) == IF local[c].dup THEN count[DeviceOf(c)] ELSE local[c].count + 1
\* Fault: called_count moved under `if not duplicate`.
CalledAfter_FreshOnly(c) == local[c].loaded + (IF local[c].dup THEN 0 ELSE 1)
CalledAfter(c) == local[c].loaded + 1

\* The flush of the changed columns of both rows, and the commit.
CommitIngest(c) ==
    /\ pc[c] = "commit"
    /\ CanWrite(c)
    /\ events' = IF local[c].dup THEN events ELSE events \cup {Key(c)}
    /\ count' = [count EXCEPT ![DeviceOf(c)] = CountAfter(c)]
    /\ called' = [called EXCEPT ![req[c].token] = CalledAfter(c)]
    /\ seen' = [seen EXCEPT ![DeviceOf(c)] = local[c].at]
    /\ pc' = [pc EXCEPT ![c] = "reply"]
    /\ local' = [local EXCEPT ![c].loaded = 0, ![c].count = 0,
                              ![c].late = ~enabled[req[c].token]]
    /\ UNCHANGED <<clock, rate, owner, enabled, req, admin>>

\* The response (200, "success" or "duplicate ignored") reaches the device.
Reply(c) ==
    /\ pc[c] = "reply"
    /\ pc' = [pc EXCEPT ![c] = "ok"]
    /\ UNCHANGED <<clock, db, req, local, admin>>

\* SQLite's busy timeout: a write that has waited 5 seconds for another
\* connection's transaction fails, "database is locked", and so does the call.
DatabaseLocked(c) ==
    /\ pc[c] \in {"rate_insert", "rate_update", "insert", "commit"}
    /\ ~CanWrite(c)
    /\ pc' = [pc EXCEPT ![c] = "error"]
    /\ UNCHANGED <<clock, db, req, local, admin>>

\* The worker process dies and is started again: open transactions are rolled
\* back, requests are lost, those whose commit is past without an answer.
Crash(w) ==
    /\ pc' = [c \in Calls |->
                 IF local[c].worker # w \/ pc[c] \notin Active THEN pc[c]
                 ELSE IF pc[c] = "reply" THEN "unanswered" ELSE "lost"]
    /\ admin' = [a \in Admins |-> IF admin[a].worker = w THEN Idle(w) ELSE admin[a]]
    /\ <<pc, admin>>' # <<pc, admin>>
    /\ UNCHANGED <<clock, db, req, local>>

-----------------------------------------------------------------------------
(* The management requests. *)

\* Fault: the new row is returned but not added to the session.
Issue_NotInserted(t, d) == owner[t] = NoDevice /\ UNCHANGED owner
Issue(t, d) ==
    /\ owner[t] = NoDevice
    /\ owner' = [owner EXCEPT ![t] = d]

\* create: a new token, enabled; those the device has stay as they are.
CreateWebhook(t, d) ==
    /\ NoOpenWrite
    /\ Issue(t, d)
    /\ enabled' = [enabled EXCEPT ![t] = TRUE]
    /\ UNCHANGED <<clock, rate, called, events, count, seen, req, pc, local, admin>>

\* rotate reads the device's webhooks and disables the ones it read ...
RotateRead(a, d) ==
    /\ ~admin[a].rotating
    /\ admin' = [admin EXCEPT ![a].rotating = TRUE, ![a].device = d,
                              ![a].old = {t \in Tokens : owner[t] = d /\ enabled[t]}]
    /\ UNCHANGED <<clock, db, req, pc, local>>

\* Fault: the flag of every webhook of the device is inverted.
AfterRotation_Toggled(a, t) ==
    [u \in Tokens |-> u = t \/ (IF owner[u] = admin[a].device THEN ~enabled[u] ELSE enabled[u])]
AfterRotation(a, t) ==
    [u \in Tokens |-> u = t \/ (enabled[u] /\ u \notin admin[a].old)]

\* ... in the transaction that inserts the new one.
RotateCommit(a, t) ==
    /\ admin[a].rotating
    /\ NoOpenWrite
    /\ Issue(t, admin[a].device)
    /\ enabled' = AfterRotation(a, t)
    /\ admin' = [admin EXCEPT ![a] = Idle(admin[a].worker)]
    /\ UNCHANGED <<clock, rate, called, events, count, seen, req, pc, local>>

-----------------------------------------------------------------------------
Handler(c) ==
    \/ RateInsert(c) \/ RateUpdate(c)
    \/ InsertFresh(c) \/ InsertDuplicate(c) \/ ReadDevice(c) \/ CommitIngest(c)
    \/ DatabaseLocked(c)

Call(c) ==
    \/ RateMiss(c) \/ RateHit(c) \/ RateLimited(c)
    \/ BodyFails(c) \/ LookupFails(c) \/ Lookup(c)
    \/ Handler(c)
    \/ Reply(c)

Next ==
    \/ Tick
    \/ \E c \in Calls : Call(c)
    \/ \E w \in Workers : Crash(w)
    \/ \E t \in Tokens, d \in Devices : CreateWebhook(t, d)
    \/ \E a \in Admins, d \in Devices : RotateRead(a, d)
    \/ \E a \in Admins, t \in Tokens : RotateCommit(a, t)

Spec == Init /\ [][Next]_vars

\* A coroutine that has the loop runs until its next await: nothing but the
\* database can keep it from its next statement.
FairSpec == Spec /\ \A c \in Calls : WF_vars(Handler(c))
-----------------------------------------------------------------------------
(* Properties. *)

\* Every variable has its type; the rows of a token exist from its issue on.
TypeOK ==
    /\ clock \in 0 .. MaxTime
    /\ rate \in [Prefixes -> [Windows -> Nat]]
    /\ owner \in [Tokens -> Devices \cup {NoDevice}]
    /\ enabled \in [Tokens -> BOOLEAN]
    /\ called \in [Tokens -> Nat]
    /\ events \subseteq Devices \X EventIds
    /\ count \in [Devices -> Nat]
    /\ seen \in [Devices -> 0 .. MaxTime]
    /\ req \in [Calls -> [token : Tokens, payload : Payloads]]
    /\ pc \in [Calls -> PCs]
    /\ local \in [Calls -> Locals]
    /\ admin \in [Admins -> AdminState]
    /\ \A t \in Tokens : enabled[t] => owner[t] \in Devices

\* devices.webhook_count is the number of distinct events stored for the
\* device: no duplicate is counted, no stored event is missed, although the
\* event row and the counter are written by different statements.
EventsCounted ==
    \A d \in Devices : count[d] = Cardinality({k \in events : k[1] = d})

\* device_webhooks.called_count is the number of calls, duplicates included,
\* that committed with the token.
CallsCounted ==
    \A t \in Tokens :
        called[t] = Cardinality({c \in Calls : pc[c] \in Committed /\ req[c].token = t})

\* What is left of both where transactions overlap: increments may be lost, but
\* no counter ever says more than the tables, whatever is retried or written
\* back late.
NeverOvercounts ==
    /\ \A d \in Devices : count[d] <= Cardinality({k \in events : k[1] = d})
    /\ \A t \in Tokens :
          called[t] <= Cardinality({c \in Calls : pc[c] \in Committed /\ req[c].token = t})

\* A call answered (or committed and lost with its answer) has its event in
\* the table, and of all the calls and retries for one event exactly one was
\* the one that stored it.
StoredByOneCall ==
    LET Stores(c) == pc[c] \in Committed /\ ~local[c].dup
    IN  /\ \A c \in Calls : pc[c] \in Committed => Key(c) \in events
        /\ \A k \in events : \E c \in Calls : Stores(c) /\ Key(c) = k
        /\ \A b, c \in Calls : Stores(b) /\ Stores(c) /\ Key(b) = Key(c) => b = c

\* In one window at most Limit calls with one prefix get past the limiter,
\* whichever tokens share the prefix and wherever a call waits for its body.
RateLimitHeld ==
    LET Admitted == {"body", "unauthorized"} \cup AtIngest \cup Committed
    IN  \A p \in Prefixes, w \in Windows :
            Cardinality({c \in Calls : /\ pc[c] \in Admitted
                                       /\ Prefix[req[c].token] = p
                                       /\ local[c].window = w}) <= Limit

\* The INSERT of the limiter never meets the row it is about to insert: the
\* IntegrityError that check_rate_limit does not handle, after its select found
\* no row, would take a call whose prefix is within its limit.
FirstRowIsFree ==
    \A c \in Calls :
        pc[c] = "rate_insert" => rate[Prefix[req[c].token]][local[c].window] = 0

\* A rotation does not stop the calls that have passed lookup.  Of all calls ever
\* made with a token, those waiting for their bodies when it is revoked among
\* them, at most one per worker process is ingested after its revocation.
RevocationLag ==
    \A t \in Tokens :
        Cardinality({c \in Calls :
                        /\ req[c].token = t
                        /\ \/ pc[c] \in AtIngest /\ ~enabled[t]
                           \/ pc[c] \in Committed /\ local[c].late})
            <= Cardinality(Workers)

\* devices.last_seen_at never goes back, although each call writes a time it
\* read before its insert.
SeenMonotone == [][\A d \in Devices : seen'[d] >= seen[d]]_vars

\* A revoked token is never accepted again: neither a call that loaded its row
\* while it was enabled nor another rotation writes the flag back.
RevokedForGood ==
    [][\A t \in Tokens : owner[t] # NoDevice /\ ~enabled[t] => ~enabled'[t]]_vars

\* The endpoint implements the idempotent inbox: one committed ingest is one
\* delivery, everything else is invisible.
Outcome(c) ==
    IF pc[c] \in Committed THEN [key |-> Key(c), fresh |-> ~local[c].dup]
    ELSE [key |-> <<>>, fresh |-> FALSE]

Inbox == INSTANCE WebhookInbox
             WITH Deliveries <- Calls, stored <- events, tally <- count,
                  settled <- [c \in Calls |-> Outcome(c)]

InboxSpec == Inbox!Spec

\* The event loop of a worker is free again and again: no interleaving leaves
\* a coroutine waiting for the database for ever.
LoopReleased == \A w \in Workers : []<>LoopFree(w)
=============================================================================
