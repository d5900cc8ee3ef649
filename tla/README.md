# Verification of sms-forwarder-server

TLA+ modules, TLC runs and TLAPS proofs about the server that receives SMS
events from Android devices (SmsForwarder) by webhook, stores them, and sends
commands to the devices directly or through an frp tunnel. Paths below are
relative to `src/`.

## 1. The system

| component | state it keeps | operations | what is hard |
|---|---|---|---|
| Webhook ingestion (`app/services/webhook_service.py`, `app/api/v1/webhooks.py`) | `device_webhooks` (hash, enabled, called_count), `device_events`, and of `devices` the counters and last_seen_at | create, rotate, lookup, ingest | a coroutine with one await; unlocked read-then-write of counters; devices retry; a rollback in the middle of the handler; revocation of a token in use |
| Rate limiter (`app/utils/rate_limiter.py`) | `rate_limits`: a counter per token prefix and minute | check_rate_limit | read-increment-write; first insert; boundary of limit and minute |
| Parsing, deduplication (`app/adapters/webhook_parser.py`, `app/utils/deduplication.py`) | none | the id of an event | two bodies, or two devices, must not be mistaken for one event |
| Tunnels (`app/services/tunnel_service.py`) | `device_tunnels`, `devices.base_url`; outside of it, the file each phone's frpc was started with | get, enable, update, disable, rotate_token, render_frpc_config | threads; next free port without a lock; a URL saved by one request and restored by another; a configuration that nothing carries to the phone |
| Devices (`app/services/device_service.py`) | `devices` | create, list, get, update | update must not touch the base_url of a tunnelled device |
| Command dispatch (`app/services/command_service.py`, `app/adapters/`) | `device_command_logs` | dispatch realtime or cache | log committed before, finished after an await; cancellation; time-outs |
| Sessions (`app/db/session.py`, `app/api/deps.py`) | connection pool of 15, a session per request | get_session | a connection is held over the await of a device; blocking checkouts on the event loop; SQLite's single writer |
| Authentication (`app/services/auth_service.py`, `app/api/deps.py`), CLI (`app/cli/create_admin.py`) | `users`, `user_permissions`; tokens are stateless | login, current user, permission, create or reset admin | tokens outlive a reset; two resets at once |
| frps view (`app/services/frps_service.py`) | none (frps' dashboard, `device_tunnels`) | list_devices | two sources read at different times |
| Audit, masking, encryption (`app/services/audit_service.py`, `app/utils/`) | `audit_logs` | record, scrub, encrypt | pure conversions |
| Web frontend (`frontend/src/`) | token in session storage, query cache | pages over the API | a 401 clears the token while other requests run |
| Container (`docker/entrypoint.sh`) | processes frps, alembic, uvicorn, nginx | start, stop | only nginx is waited for |

**How they interact.** Everything meets in the database; there is no queue, no
cache and no in-process shared state. `async def` endpoints (webhook ingestion,
command queries) run on the event loop of a uvicorn worker and block it at every
SQL statement; `def` endpoints (tunnels, devices, webhook management) run in the
worker's threads. Each request has its own session. Sessions use PostgreSQL's
READ COMMITTED or SQLite, and never lock a row they read, so all safety hangs on
three things: the event loop, SQLite's write lock, and unique constraints. That
is what the modules are about.

**What makes each component correct.** *Webhook ingestion*: an event is stored once and counted
once whatever is retried, lost or interleaved; counters equal what is in the tables; a revoked
token stays revoked. *Rate limiter*: at most the limit per window gets through. *Tunnels*: a port
belongs to one tunnel, a device has one tunnel, its base_url is the tunnel's or the operator's and
never a stranger's, what is saved at enable is restored at disable, and the phone that listens at
the port is the device's own. *frps view*: what it shows as connected can be reached at the port
it shows. *Devices*: a managed base_url is not overwritten. *Command dispatch*: each log is
finished once, by the result of its own request. *Sessions*: the loop and the pool never wait for
one another for ever. *Authentication*: an admin is never seen without its permissions, calling
the tool again never breaks it, and a replaced password is worth nothing once the tokens issued
for it have expired.

The hazards are listed, each at its line, in `PROJECT.json`.

## 2. Modules

| module | what it is | stands for |
|---|---|---|
| `WebhookInbox` | abstract: an idempotent inbox (stored, tally, settled) | what the endpoint promises |
| `WebhookInboxProofs` | theorems about it | |
| `WebhookIngest` | the webhook endpoint, the rate limiter, creation and rotation of tokens | `webhook_service.py`, `rate_limiter.py`, `webhooks.py` |
| `MCWebhookIngest` | its instances for TLC | |
| `WebhookIngestProofs` | its theorems, among them that it implements `WebhookInbox` | |
| `WebhookOneWorkerProofs` | theorems about it as deployed, with one worker, on those of `WebhookIngestProofs` | |
| `TunnelBinding` | abstract: binding of devices to ports, what is saved and restored | what enable, disable and update promise one after another |
| `TunnelService` | enable, disable, update of base_url, overlapping | `tunnel_service.py`, `device_service.py` |
| `MCTunnelService` | its instances for TLC | |
| `TunnelServiceProofs` | its theorems, however requests overlap | |
| `TunnelSequentialProofs` | theorems where requests for one device do not overlap, among them that it implements `TunnelBinding` | |
| `FrpSession` | extends `TunnelService`: update, rotation of the token, the rendered configuration, phones, frps and its view | `tunnel_service.py`, `frps_service.py`; frps and frpc (external) |
| `MCFrpSession` | its instances for TLC | |
| `FrpSessionProofs` | its theorems, on those of `TunnelServiceProofs` | |
| `CommandLog` | abstract: the rows of the command log and what callers are told | what a reader of the log may conclude |
| `CommandDispatch` | queries to a device in one process: log, await, connection pool | `command_service.py`, `smsforwarder_http_adapter.py`, `session.py`, `deps.py` |
| `CommandDispatchProofs` | its theorems, among them that it implements `CommandLog` | |
| `Accounts` | create_admin next to login, tokens and permissions | `create_admin.py`, `auth_service.py`, `deps.py` |
| `MCAccounts` | its instances for TLC | |
| `AccountsProofs` | its theorems | |

### WebhookIngest

The committed rows (`rate`, `owner`, `enabled`, `called`, `events`, `count`, `seen`)
are one part of the state, and what each request holds (`pc`, `local`, `admin`) the
other. One action is one SQL statement or commit together with the Python code up to
the next one; `local` holds exactly the values the code took from a row and writes
back later. What a transaction has written and not committed is known from its
request's program counter (`InTxn`): nobody else sees it, but it blocks others.

| actions | code |
|---|---|
| `RateMiss`, `RateHit`, `RateLimited` | check_rate_limit: SELECT and comparison, on the loop |
| `RateInsert`, `RateUpdate` | its INSERT or UPDATE, and commit |
| `BodyFails` | `await request.json()` fails, or the device disconnects |
| `LookupFails`, `Lookup` | lookup, and the start of ingest (`now` is taken here) |
| `InsertFresh`, `InsertDuplicate` | `flush()` of the event; IntegrityError and rollback |
| `ReadDevice`, `CommitIngest` | SELECT of the device; flush of both rows and commit |
| `Reply` | the answer reaches the device |
| `DatabaseLocked` | SQLite gives up after 5 s |
| `Crash` | a worker process dies: its open transactions vanish |
| `CreateWebhook`, `RotateRead`, `RotateCommit` | the management endpoints |

Three pieces are not the repository's code and are modelled from how it uses them:
the event loop (`LoopFree`: a coroutine gives it up only at its await, between
`check_rate_limit` and `lookup`), SQLite's write lock (`CanWrite`; held from the flush
of a first write to the end of the transaction, reads do not take it), and the wait of
an insert for another transaction's equal key (`KeyUndecided`). A retry is a further
member of `Calls` with the same request; a call that is lost is a call that crashes, or
whose body fails, or that stays `new`.

`EventIdOf` keeps what the identity depends on: the sender's id is unique per device,
a hash depends on device and body. The hash is taken as free of collisions.

The window of the limiter is the minute of `now`; `Tick` moves the clock at any point,
in particular between the SELECT of a window and the lookup, which reads it again
(`Now`). Some of the tokens that exist at the start were revoked before. `last_webhook_at`,
`last_called_at`, `is_active` and `status` are assigned together with `last_seen_at` or
constantly, and are left out. The flush and the commit of `create` and `rotate` are one
step (the session has `autoflush=False`, so they follow one another without a
statement in between).

### TunnelService

`base` and `rows` are the two columns and the table; `thread` is what an endpoint's
thread has loaded. An operation is a chain of actions, one per SELECT, and a last one
for flush and commit: `EnableBegin`, `EnableLoad`, `EnablePort`, `EnableCommit` (or
`EnableRefused`, `EnablePortNone`, `EnableConflict`), `DisableBegin`, `DisableLoad`,
`DisableCommit` (`DisableRefused`), `UpdateBegin`, `UpdateCheck`, `UpdateCommit`
(`UpdateRefused`).

`Flushed` is the session's unit of work: a column reaches the UPDATE only if the value
assigned differs from the value loaded. With stale objects that is neither "the last
write wins" nor "the first": a commit may write some columns and leave others as a
third request made them. `UrlNamesPort` is about the two columns that must agree.

Only `remote_port` matters of the request: what the other columns are for (token, local
port) is the subject of `FrpSession`. A device is never deleted by the
program, hence `Devices` is constant.

`Spec` lets requests overlap in every way. `SerialSpec` restricts it to behaviours in which
no two requests in progress are for one device (`OnePerDevice`), as when each device has one
operator who waits for the answers; requests for different devices overlap as before, and
share rows, ports and the columns of one table. It is not what the code enforces, but what
the logic of enable, disable and update is written for: `tunnel_unmanaged` shows one of
the properties that need it fail under `Spec`. `Manual`, the URLs of operators, contains the
missing URL, and not the marker that stands for a row never written.

### CommandDispatch

A call goes through `Authorize` (threads), `GetDevice` (or `DeviceUnknown`), `CreateLog`
(commit), `Refresh`, then the query, `FinishLog` (commit), `Reload` (the finished log is
read for its `request_id`) and `Reply`; a query that failed goes from `FinishLog` to
`AnswerError`, which closes the session and makes the error response. The query is `Send` and, after the await,
`DeviceAnswers`, `DeviceFails` or `DeviceTimeout`; or `Reject`; or `CacheCount` and
`CachePage`; or `QueryFails`. `StatementFails`, `PoolTimeout` and `Crash` cut a call off.

Two sets of places say what a call occupies: `OnLoop`, where it is between two awaits and
no other coroutine of the process runs, and `Holding`, where its session is in a
transaction and so has a connection. They overlap in both directions: a call in
`await` holds a connection and not the loop, a call in `refresh` or `reload` holds the
loop and waits for a connection. This is the hold-and-wait which `LoopReleased` is
about. The pool itself (first come, 30 s, then TimeoutError) and the loop are not the
repository's code and are modelled from how it uses them.

What the session does behind the code's back is in the model: a commit ends the
transaction, gives the connection back and expires the loaded objects, hence `BaseUrl`
is the current column and not the one `GetDevice` loaded. `local.logged` is a history
variable: the URL at the commit of the log.

`CommandLog` is the same seen by who reads the table next to the answers: a row is opened pending,
concluded once, and told after that: `Fail` and `Succeed` record, `AnswerError` and `Answer`
inform. In the code several awaits separate the two, at which the process may die: a log that says
failed or success may be one that nobody was told of. `LogSpec` maps `told` to the place where a
call ended (`Told`), and everything between the statements to stutters. A call that is cut off
(`Break`) leaves its row alone, which is why a pending row says nothing of whether its query still
runs.

Data are abstract: base URLs are numbered in the order in which they are set, a page is
as large as the total, and of the commands only "has a cache" matters. The rest of the
process appears as `UrlChange` (a thread, at any moment) and `StoreEvent` (a coroutine,
only when the loop is free). Other processes are left out: with several of them the two
statements of a cache query are of two moments, which READ COMMITTED allows and
`PageMatchesTotal` would report.

### FrpSession

A device's configuration exists three times: as columns of `device_tunnels` (`rows` of
`TunnelService`, `token`, `local`), in the file its frpc was started with
(`phone[d].conf`), and in frps as the port that is bound (`phone[d].online`). The code
writes the first; a person carries the second; frps has the third.

| actions | code |
|---|---|
| `EnableTunnel` | `EnableCommit` of `TunnelService`, with the columns that it leaves out |
| `OtherRequest` | every other step of `TunnelService` |
| `Update`, `RotateToken` | `update`, `rotate_token`: one row read, one commit |
| `RenderLoad` | render_frpc_config up to its commit |
| `RenderReply` | the rest: the tunnel expired with the commit and is read again, so the file has the token of the first SELECT and the port of the second. The file is installed or thrown away |
| `ListFetch`, `ListReply` | list_devices: the proxies of frps, later the tunnels |
| `Connect`, `Disconnect` | external: frps compares the token, binds a port once; a connection drops |
| `Restart` | the container starts again, with the same `FRPS_AUTH_TOKEN` or another; requests vanish, phones keep their files |

`Items` is the answer of the view if the tunnels were selected in the current state:
`ShownPortIsBound` is about that answer and is checked at each moment between the two
reads. `enables` is a history variable: it counts the enables of a device's tunnel, and
a configuration remembers the count at which it was rendered. It is what the
properties use to tell a configuration that is merely in use after a disable (harmless:
the disabled tunnel keeps its port) from one that is older than a second enable
(harmful: the port moved). `update` and `rotate_token` commit one column that no other
request writes but enable; they are one step each. `local` feeds nothing but the phone's
side of the file and is there for completeness of `update`.

### Accounts

`users` and `grants` are the two tables, a permission being the number of its rows;
`run` is what each process of create_admin holds. Its session has `autoflush=False`, which
decides what is written when: a new user at the flush (`InsertUser`, visible to others only
after the commit: `Open`), everything else at the commit (`CommitAdmin`). One action per
SELECT of the loop over the permissions (`FindPermission`; `FindTwoPermissions` where
`one_or_none` raises). `InsertWaits`, the wait for another transaction's equal name,
is the database's and external; `RunFails` is a kill or SQLite's lock time-out. Here as in the
other modules a commit succeeds or fails: a commit that succeeds and is reported as failed,
because the connection broke, is not modelled.
`Granted` adds to whatever is there by then: `UNIQUE (user_id, permission,
resource_type, resource_id)` does not apply to rows whose last two columns are null.

A login of the API is two steps: `Authenticate`, the SELECT, and `CreateToken`, which reads the
clock for `exp`. The password check in between is slow on purpose, and a reset may be committed
meanwhile by the process of create_admin: the token is then one for the old password, issued after
the reset. Checks of a token or a permission change nothing and are operators (`Accepted`,
`HasPermission`). `changed`, and in a login `password`, `read` and `took`, are history: the real
token does not depend on the password, which is the point of `OldPasswordExpires`, and `took` is
the time by which a token may outlive `changed + Lifetime`; without it the property is false.
`Init` has every database that earlier versions of the tool can have left: users that exist or
not, are active or not, and have any subset of today's permissions, each withdrawn or not
(`granted` is false; no code writes that, so it is somebody's edit of the table, and `before`
remembers it). A reset gives a withdrawn permission neither back nor a second row.

### Fault operators

An operator whose name has an underscore (`CountAfter_Duplicates`) is a plausible bug
in the definition that follows it. No specification uses it. Each property was seen
violated with one of them put in the place of the definition; `PROJECT.json` lists
which ("mutants"). They keep the properties honest when the modules are changed.

## 3. Runs

| run | question | instance | result |
|---|---|---|---|
| `webhook_one_worker` | is the endpoint right as it is deployed (one uvicorn worker)? does a revoked token stay revoked, does `last_seen_at` only go forward, does the limiter's INSERT meet its unique key? | PostgreSQL, 3 calls, 2 tokens with one prefix, revoked before or not, 2 bodies (with and without id), limit 2, two windows, one rotating administrator | holds, 1.2 M states |
| `webhook_two_workers_sqlite` | is SQLite's write lock enough for two processes? | 3 calls, 2 devices, 2 tokens | holds, and implements `WebhookInbox` |
| `webhook_two_workers_live` | can two processes on PostgreSQL block one another? what is left of the counters? | 3 calls with one token, 2 bodies (with and without id), fairness | the loops are released; an event is stored once; counters may fall behind the tables and never run ahead |
| `webhook_lost_count` | and do they count right? | 2 calls | **violated**: an increment is lost |
| `tunnel_concurrent` | what do the unique constraints save? | 2 overlapping requests, 2 devices, 2 ports | ports unique, URL and port agree, one tunnel per device |
| `tunnel_sequential` | is the logic right where requests for one device do not overlap? | `SerialSpec`: 2 requests at a time, 2 devices, 3 ports and one outside the range, 3 operator URLs (one missing) | implements `TunnelBinding`; base_url always explained, what is restored is an operator's |
| `tunnel_two_rows` | with the table as the migration creates it? | 2 requests, 1 device | **violated**: two tunnels for one device |
| `tunnel_unmanaged` | does the check of update hold under overlap? | 2 requests, 1 device | **violated**: a managed base_url is overwritten |
| `dispatch` | do log, contacted URL and cached page say the truth? can queries and the pool block the process for ever? | 2 calls, 1 connection, 3 URLs one of which is unusable, 1 event stored meanwhile, fairness | holds, and implements `CommandLog`; loop released, queries end |
| `frp_session` | which phone listens where, what does the view show, and does a rotation heal a tunnel? | 1 request and 1 viewer at a time beside phones and restarts, 2 devices, 2 ports, 2 secrets, 2 enables of each device | a stray phone or a wrong port only after a second enable; 0.26 M states |
| `frp_misrouted` | do queries for a device reach its own phone? | 2 devices, 2 ports | **violated**: another device's phone answers |
| `accounts` | what may runs of create_admin that overlap and fail leave behind, and for how long is an old password's token good? | 3 runs of one name, 2 permissions, 2 passwords, 1 login, 2 ticks, tokens that live 1 | holds, 0.4 M states |

**Bounds, and why they are enough.** Three calls give a first delivery, its retry and a third call
of another event, token or window, which is what a property about pairs needs on top of a
disturbance; limit 2 is reached by two and exceeded by the third. `WindowTicks = 1`, `MaxTime = 1`
puts a minute boundary anywhere in a request. Two tokens with one prefix make two webhooks share a
counter, and leave one token to issue (an old one to revoke, a new one to accept), and a token
revoked before is there while the other is rotated; that two administrators who overlap cannot
enable it either is `RevocationIsFinal`, for any number of them. `webhook_two_workers_sqlite` has
two devices; where the property is about one device's rows, there is one. Two overlapping tunnel
requests are what each unlocked check-then-commit needs; two ports and two devices make the range
run out and make two requests pick the same port. For `FrpSession`, two devices and two enables of
one are what the move of a port to the next device takes, two secrets make a rotation and a
restart matter; requests that overlap are left to `tunnel_concurrent` and to the theorems. For
`Accounts`, two runs that overlap can double a permission and the third then reads it
(`FindTwoPermissions`), or is the one that waits; users do not meet, nor do logins, so one login
is enough to be overtaken by a reset and a tick. Row ids bound the rows ever inserted (with
`DeviceIdUnique` there are no more than devices). For dispatch, a pool of one connection and two
calls are the smallest hold-and-wait; a third call would only add to the safety properties, which
are proved for any number; one event stored between any two statements makes count and page differ
if anything can. `Calls`, `Threads`, `RowIds`, and tokens of one prefix, are interchangeable:
symmetry is used in safety runs and never in a liveness run. The theorems of section 5 do not
depend on any bound.

`CHECK_DEADLOCK FALSE` stands in the webhook and dispatch runs only, where the model ends when
every call was answered and no token is left to issue or no URL to set. The runs of tunnels, frp
sessions and accounts check deadlock.

**Fairness** (`FairSpec`): weak fairness of each call's `Handler`, the statements between
two awaits. A coroutine that has the loop is not preempted by the loop, so its next
statement runs when the database lets it. Nothing is assumed of bodies that arrive,
devices that retry, or the order in which the loop picks coroutines. In `CommandDispatch`
`Handler` includes the pool's time-out, since a call that waits for a connection either
gets one or times out, and `DeviceTimeout` is fair as well: `AsyncClient` has a time-out. It
limits the wait for each read; a device that sends its answer in small pieces for ever is
outside this assumption.

## 4. Findings

1. `webhook_lost_count`: `webhook_count` loses increments with several worker processes
   on PostgreSQL, the database the documentation recommends for concurrent writes. The
   shipped entrypoint starts one worker, and then the count is right: the event loop
   is, without saying so, the lock of these counters. `ingest_webhook` declared with
   `def`, or an await between the SELECT of the device and the commit, would break
   it (`LoopFree_Threadpool`).
2. `tunnel_two_rows`: the model class has a unique `device_id`, the migration has not.
3. `tunnel_unmanaged`: the check "base_url is managed by tunnel" and the commit it
   guards are not atomic. (TLC's shortest trace has an enable that does not sync the URL; with
   one that does, the same steps replace the tunnel's URL.)
4. `frp_misrouted`: `_next_remote_port` counts the device's own disabled tunnel as used, so
   enabling it again moves it to another port and leaves the old one to the next device,
   where the first phone still listens with its old file. "启用后……实时查询会透明走 frp"
   (`frontend/src/App.tsx:373`) then holds for the wrong phone. `StraysExplained` shows that a
   second enable is the only way there.

Observed while reading, out of TLC's reach: migration 0001 gives BOOLEAN columns an
integer `server_default` (`0001_init.py`, `sa.text("0")`), which PostgreSQL refuses; of the
limits the documentation suggests in 16.6 only the one on webhooks is implemented
(`user_query_rate_limit_per_minute` is a setting nothing reads).

## 5. Proofs

Checked by TLAPS for every value of the constants that satisfies the named assumptions
in the modules (positive limit and window, the shape of the function-valued constants,
null values outside their sets).

**WebhookIngestProofs.** The inductive invariant has the types, the mutual exclusion of
the loop (`LoopMutex`, theorem `LoopExclusive`), the fact that two open transactions
never hold one key and a committed key is in `events` with its single storer (from
which `StoredOnce` follows with no assumption on workers or database: it rests on the
unique constraint alone), and that a request's loaded count is the device's current
count from `ReadDevice` to `CommitIngest`. The last is the reason for the counter's
being right and holds only if no second ingest of the device can commit in between:
`SingleWriter == Dialect = "sqlite" \/ all workers are one`. On SQLite because the flush
took the write lock *before* the count is read; with one worker because the loop is
not given up. Under `SingleWriter`: `EventsAreCounted`, and `ImplementsInbox`, where
`CommitIngest` maps to `Accept` or `Ignore` and every other step to a stutter.
`RevocationIsFinal` is an action property over the types.

**WebhookOneWorkerProofs.** `OneWorker` is the hypothesis of the four theorems about values that
are read and written back without a lock. They share one lemma (`AloneOnLoop`): a call that takes
a step, other than to be answered, is the only one that is between two awaits. Each theorem adds
what the loop protects.
`SeenInv`: the time a call will write is no older than what is there (`SeenNeverGoesBack`).
`RateInv`: a call about to write the counter has the current value and it is below the limit, and
the counter is at most the limit and at least the number of calls let through, a cardinality over
`Calls` (it also counts calls that failed later); from it
`RateIsLimited` and `LimiterInserts`, the latter being the reason why the IntegrityError that
`check_rate_limit` does not handle is not met. `CalledInv`: the `called_count` loaded is the current
one from the lookup to the commit (`CallsAreCounted`). `RevocationIsPrompt` needs no such
hypothesis. `RevocationLag` counts, for each token, the calls that were ever ingested after its
revocation or are being ingested with it now, and bounds them by the workers. From its lookup to
its commit a call has its worker's loop (`LoopMutex`), so at the revocation at most one call of each
worker is past its lookup; and since a revoked token stays revoked (`RevokedStays`) none gets past
it later. `LagInv` says it in the form that induction needs: two calls counted for one token are of two
workers. `CountersNeverExceed` neither: on PostgreSQL with several workers
counters lose increments (finding 1), but what a call will write back was at most the number of
rows when it was read (`OverRead`), rows are never deleted, and its own row comes on top.

**WebhookInboxProofs.** The abstract inbox tallies exactly (`InboxTally`) and settles
once (`InboxSettledOnce`); through `ImplementsInbox` the endpoint inherits both.

**TunnelServiceProofs.** The invariant adds to `UrlNamesPort`, `PortsUnique` and the types
that the row *loaded* by a request was coherent (`LoadedCoherent`). This is what makes
`Flushed` harmless: port and URL of the loaded row agree, so both columns are in the
UPDATE or neither is. `PortsAreUnique`, `UrlFollowsPort` and `TypeCorrect` hold for the
table as deployed. That a table with the UNIQUE (device_id) of the model class has one row
per device is what the constraint says, and no theorem; it is a part of the invariant
(`OneRow`) because `ShownPortsAreBound` needs it. Without the constraint a device has one
tunnel only where its requests do not overlap (`OneTunnelInSequence`).

**TunnelSequentialProofs.** Under `SerialSpec`. The invariant adds to that of `TunnelServiceProofs` that
no request in progress is out of date (`Undisturbed`: the URL and row it loaded are those of the
database, and what it checked still holds), and `OperatorsUrl`: a device without an enabled tunnel
has a URL that an operator set, and only such URLs are saved. The second is what makes the first
`previous_base_url` right again after any number of enables: enable is refused while the tunnel
is enabled, so what it saves is an operator's. A commit for one device leaves rows and URL of
every other device as they are (`RowsAfter`), which is all that requests of other devices need.
From it `UrlIsExplained`, `RestoresOperatorsUrl`, `OneTunnelInSequence` (without the unique
constraint, which the migration leaves out), the action property `UpdateRespectsTunnel`, and
`NoPortIsForeign`, if operators do not type frps URLs of the port range themselves
(`OperatorsKeepOff`: nothing in the code stops them). `ImplementsBinding`: each of the three
commits is reduced to what it writes (`Enables`, `Disables`, the URL), of which `BindingAfter`
computes the abstract port and saved URL; the choice of *the* row of a device in the mapping is
sound because there is one.

**CommandDispatchProofs.** The invariant is one statement per call (`CallInv`), which no step of
another call disturbs except through `url`, `stored` and the loop: the log follows the program
counter (`LogAt`: it says failed from `raise` on, and a lost call may leave it so), an outcome
exists once the query ended (`OutcomeAt`), the URL sent is no older than the log (`UrlAt`), and a
call that has counted keeps the loop until it has its page (`PageAt`). From it `LogsAreTruthful`,
`UrlsAreFresh`, `PagesAreConsistent`. `TypeCorrect` adds the bound of the pool, by the cardinality
of `Held`, for finitely many calls. `ImplementsLog` is the refinement of `CommandLog`: a step of
one call is a step of that call's row or a stutter, which `LogAt` decides, and a crash is one
`Break` of all the calls of the process.

**FrpSessionProofs.** The invariant adds to that of `TunnelService` that every copy of a
configuration, installed in a phone or held by a viewer as a proxy of frps, is `Current`:
it is older than the last enable of its tunnel, or names the port of its tunnel. A
configuration just rendered is current because render_frpc_config reads the port *again*
after its commit; with the port it had loaded (`FrpcToml_NotExpired`) an enable in between
would put an old port under a new count. `PortsUnique` then gives `StraysExplained`. For
`ShownPortsAreBound` the device of the row and of the proxy must be one, which takes
`DeviceIdUnique`; `StoredTokensAccepted` is an action property over the types.

**AccountsProofs.** The invariant says what a run knows (`RunOK`): every permission it has
passed is in its list or was found, and is there still since nothing deletes one; the list of
a run that inserts the user has them all. `OpenAlone`: of all runs of one name at most one
has an uncommitted user, and then no committed one exists, by the unique name. From
these `AdminsAreComplete`. `RowsKept` and the list's being disjoint from `before` give
`DuplicatesAreExplained`. `LoginOK` gives `OldPasswordsExpire`: a login
whose password is no longer the user's read it before the last reset, so what it adds to that
moment until its `exp` is at most `took` and `Lifetime`.

**Assumptions.** Beside those named in the modules: one worker, or one worker or SQLite, where it
is said above (the shipped entrypoint starts one worker); finitely many `Calls` or `Workers`, where
a theorem counts them; `DeviceIdUnique`, which the model class declares and the migration lacks,
in the theorems that name it; `SerialSpec` and `OperatorsKeepOff` as described. `tunnel_sequential`
and `webhook_one_worker` are instances in which these assumptions hold, so no theorem is empty.

**Only model-checked**: the liveness properties `LoopReleased` (two runs) and `DispatchEnds`, since
liveness under fairness is outside what TLAPS proves here. Every other property of the
passing runs, the three refinements among them, is a theorem, `OneTunnelPerDevice` with the hypothesis of
`tunnel_sequential` instead of that of `tunnel_concurrent`.

## 6. Not modelled, and the plan

Not modelled: pure conversions (encryption, masking, TOML, response envelopes, parsing
of frps' answers), rendering in the frontend, vendored and generated files, reads
without consequence (lists, `get`).

Planned, in this order:

1. `CommandDispatch` beside other processes and other endpoints: the threads that take
   connections from the same pool, a second worker that ingests between count and page.
   With it the stored events a cache query can find at all: `webhook_parser.py:4` knows
   neither "contact" nor "location", so the cache of those two queries
   (`command_service.py:26`, `:28`) is always empty.
2. Theorems about what happens where requests for one device do overlap: which of the
   properties of `TunnelSequentialProofs` survive in a weaker form.
3. `RetryAfter`: the seconds announced against the next window, as a pure operator.
4. `Supervision` (entrypoint), `WebSession` (the frontend's token): small modules.
