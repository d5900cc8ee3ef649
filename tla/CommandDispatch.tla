--------------------------- MODULE CommandDispatch ---------------------------
(***************************************************************************)
(* Queries to a device: the life of CommandService.dispatch                *)
(* (app/services/command_service.py) in one worker process, with the two   *)
(* things its requests compete for, the event loop and the connection pool *)
(* (app/db/session.py).                                                    *)
(*                                                                         *)
(* The dependencies of a query endpoint (app/api/deps.py) run in a thread; *)
(* the endpoint is a coroutine that gives the loop up at one place, the    *)
(* await of the device, and in that place keeps its connection.  A commit  *)
(* gives the connection back; the next statement takes one again, and if   *)
(* there is none it waits *on the loop*, at most for the pool's time-out.  *)
(* A commit also expires the objects of the session, so the device is read *)
(* a second time after the log was committed, and the log after it was     *)
(* finished.  An answer, a result or an error, is sent after the log was   *)
(* finished, with awaits in between.                                       *)
(*                                                                         *)
(* What other requests do to this state is abstracted to UrlChange (update *)
(* of a device, enable or disable of its tunnel: threads) and StoreEvent   *)
(* (the commit of a webhook's ingest: a coroutine of the same loop).       *)
(***************************************************************************)
EXTENDS Naturals, FiniteSets

CONSTANTS
    Calls,          \* query requests, all for one device
    PoolSize,       \* pool_size + max_overflow of the engine
    Urls,           \* 0 .. MaxUrl: the successive values of base_url
    UsableUrls,     \* those at which realtime is possible: not null, and the
                    \* device is not webhook_only
    MaxStored       \* bounds the events stored meanwhile

ASSUME PoolAssumption == PoolSize \in Nat \ {0}
ASSUME UrlAssumption == Urls \subseteq Nat /\ 0 \in Urls /\ UsableUrls \subseteq Urls
ASSUME StoredAssumption == MaxStored \in Nat

VARIABLES
    url,            \* devices.base_url
    stored,         \* the number of the device's events of the type queried
    log,            \* device_command_logs.status of each call, "none" if no row
    mode,           \* payload.mode; "uncached": cache, of a command that
                    \* EVENT_TYPES does not have (config.query)
    pc,             \* where each call is
    local           \* what each call has read, and the URL current at its log

vars == <<url, stored, log, mode, pc, local>>

Modes == {"realtime", "cache", "uncached"}
NoTotal == MaxStored + 1
Locals == [loaded : Urls, logged : Urls, sent : Urls, outcome : {"none", "data", "error"},
           total : 0 .. NoTotal, items : 0 .. NoTotal]
NoLocals == [loaded |-> 0, logged |-> 0, sent |-> 0, outcome |-> "none",
             total |-> NoTotal, items |-> NoTotal]

\* In the coroutine, between two awaits.
OnLoop == {"insert", "refresh", "query", "page", "finish", "reload"}
\* In a transaction, hence with a connection.
Holding == {"ready", "insert", "query", "page", "await", "finish", "reply"}
\* "raise": the log says "failed", the session is being closed.
Active == OnLoop \cup Holding \cup {"raise"}
\* Answered 200, with an AppError, with the 401 to 404 that precede the log,
\* with an unhandled error (500); or not at all.
Final == {"ok", "app_error", "denied", "internal", "lost"}
PCs == {"new"} \cup Active \cup Final

\* Fault: the endpoints are declared with def and run in threads.
LoopFree_Threadpool == TRUE
LoopFree == \A c \in Calls : pc[c] \notin OnLoop

Held == {c \in Calls : pc[c] \in Holding}
\* Fault: max_overflow=-1, a pool without a bound.
ConnectionFree_Unbounded == TRUE
ConnectionFree == Cardinality(Held) < PoolSize

Goto(c, label) == pc' = [pc EXCEPT ![c] = label]

Init ==
    /\ url = 0
    /\ stored = 0
    /\ log = [c \in Calls |-> "none"]
    /\ mode \in [Calls -> Modes]
    /\ pc = [c \in Calls |-> "new"]
    /\ local = [c \in Calls |-> NoLocals]

-----------------------------------------------------------------------------
(* get_current_user and require_permission, in a thread: the first SELECT  *)
(* takes a connection, or fails after waiting for one off the loop.        *)

Authorize(c) ==
    /\ pc[c] = "new"
    /\ ConnectionFree
    /\ Goto(c, "ready") \/ Goto(c, "denied") \/ Goto(c, "internal")
    /\ UNCHANGED <<url, stored, log, mode, local>>

AuthorizeExpires(c) ==
    /\ pc[c] = "new"
    /\ ~ConnectionFree
    /\ Goto(c, "internal")
    /\ UNCHANGED <<url, stored, log, mode, local>>

-----------------------------------------------------------------------------
(* dispatch: _get_device and _create_log. *)

GetDevice(c) ==
    /\ pc[c] = "ready"
    /\ LoopFree
    /\ Goto(c, "insert")
    /\ local' = [local EXCEPT ![c].loaded = url]
    /\ UNCHANGED <<url, stored, log, mode>>

\* 404: the request names no device.
DeviceUnknown(c) ==
    /\ pc[c] = "ready"
    /\ LoopFree
    /\ Goto(c, "denied")
    /\ UNCHANGED <<url, stored, log, mode, local>>

\* Commit: the log is "pending" for everyone, the connection is given back.
CreateLog(c) ==
    /\ pc[c] = "insert"
    /\ Goto(c, "refresh")
    /\ log' = [log EXCEPT ![c] = "pending"]
    /\ local' = [local EXCEPT ![c].logged = url]
    /\ UNCHANGED <<url, stored, mode>>

\* refresh(log): a connection again.
Refresh(c) ==
    /\ pc[c] = "refresh"
    /\ ConnectionFree
    /\ Goto(c, "query")
    /\ UNCHANGED <<url, stored, log, mode, local>>

\* QueuePool's time-out, outside the try of dispatch or after its end.
\* Fault: the pool waits without a time-out.
CheckoutExpires_Never(c) == FALSE
CheckoutExpires(c) == pc[c] \in {"refresh", "reload"} /\ ~ConnectionFree

PoolTimeout(c) ==
    /\ CheckoutExpires(c)
    /\ Goto(c, "internal")
    /\ UNCHANGED <<url, stored, log, mode, local>>

-----------------------------------------------------------------------------
(* The query.  Every way out of it, an AppError or any other exception,    *)
(* leads to _finish_log.                                                   *)

Conclude(c, outcome) ==
    /\ Goto(c, "finish")
    /\ local' = [local EXCEPT ![c].outcome = outcome]
    /\ UNCHANGED <<url, stored, log, mode>>

\* The commit of the log has expired the device: its columns are read again.
\* Fault: sessionmaker(expire_on_commit=False).
BaseUrl_NotExpired(c) == local[c].loaded
BaseUrl(c) == url

\* _query_realtime up to the await of the device.
Send(c) ==
    /\ pc[c] = "query"
    /\ mode[c] = "realtime"
    /\ BaseUrl(c) \in UsableUrls
    /\ Goto(c, "await")
    /\ local' = [local EXCEPT ![c].sent = BaseUrl(c)]
    /\ UNCHANGED <<url, stored, log, mode>>

\* webhook_only, no base_url; a command without cache.
Reject(c) ==
    /\ pc[c] = "query"
    /\ mode[c] = "uncached" \/ (mode[c] = "realtime" /\ BaseUrl(c) \notin UsableUrls)
    /\ Conclude(c, "error")

\* A JSON object arrived with a status that is no error ...
DeviceAnswers(c) == pc[c] = "await" /\ LoopFree /\ Conclude(c, "data")

\* ... or an error status, something else, or there is no connection ...
DeviceFails(c) == pc[c] = "await" /\ LoopFree /\ Conclude(c, "error")

\* ... or nothing for http_timeout_seconds.
\* Fault: AsyncClient(timeout=None).
DeviceTimeout_Never(c) == FALSE
DeviceTimeout(c) == pc[c] = "await" /\ LoopFree /\ Conclude(c, "error")

\* _query_cache: the count, and the page.
CacheCount(c) ==
    /\ pc[c] = "query"
    /\ mode[c] = "cache"
    /\ Goto(c, "page")
    /\ local' = [local EXCEPT ![c].total = stored]
    /\ UNCHANGED <<url, stored, log, mode>>

CachePage(c) ==
    /\ pc[c] = "page"
    /\ Goto(c, "finish")
    /\ local' = [local EXCEPT ![c].items = stored, ![c].outcome = "data"]
    /\ UNCHANGED <<url, stored, log, mode>>

\* A SELECT of the query fails inside the try.
QueryFails(c) == pc[c] \in {"query", "page"} /\ Conclude(c, "error")

-----------------------------------------------------------------------------
(* _finish_log, and the answer. *)

\* Fault: every log is finished with "success".
Status_Optimistic(c) == "success"
Status(c) == IF local[c].outcome = "data" THEN "success" ELSE "failed"

\* Commit: the connection is given back.  A failed query raises its error; a
\* successful one reads the expired log for its request_id.
FinishLog(c) ==
    /\ pc[c] = "finish"
    /\ log' = [log EXCEPT ![c] = Status(c)]
    /\ Goto(c, IF local[c].outcome = "data" THEN "reload" ELSE "raise")
    /\ UNCHANGED <<url, stored, mode, local>>

Reload(c) ==
    /\ pc[c] = "reload"
    /\ ConnectionFree
    /\ Goto(c, "reply")
    /\ UNCHANGED <<url, stored, log, mode, local>>

\* The answer is sent; then the dependency get_db closes the session.
Reply(c) ==
    /\ pc[c] = "reply"
    /\ LoopFree
    /\ Goto(c, "ok")
    /\ UNCHANGED <<url, stored, log, mode, local>>

\* get_db has closed the session, app_error_handler has made the response.
AnswerError(c) ==
    /\ pc[c] = "raise"
    /\ LoopFree
    /\ Goto(c, "app_error")
    /\ UNCHANGED <<url, stored, log, mode, local>>

\* A statement outside the try fails (the database is locked or away): 500.
StatementFails(c) ==
    /\ \/ pc[c] = "ready" /\ LoopFree
       \/ pc[c] \in {"insert", "refresh", "finish", "reload"}
    /\ Goto(c, "internal")
    /\ UNCHANGED <<url, stored, log, mode, local>>

-----------------------------------------------------------------------------
(* The rest of the process. *)

UrlChange ==
    /\ url' \in Urls
    /\ url' > url
    /\ UNCHANGED <<stored, log, mode, pc, local>>

StoreEvent ==
    /\ stored < MaxStored
    /\ LoopFree
    /\ stored' = stored + 1
    /\ UNCHANGED <<url, log, mode, pc, local>>

\* The process dies and is started again.
Crash ==
    /\ \E c \in Calls : pc[c] \in Active
    /\ pc' = [c \in Calls |-> IF pc[c] \in Active THEN "lost" ELSE pc[c]]
    /\ UNCHANGED <<url, stored, log, mode, local>>

\* What the loop does for a call once it is the call's turn.
Handler(c) ==
    \/ GetDevice(c) \/ CreateLog(c) \/ Refresh(c) \/ PoolTimeout(c)
    \/ Send(c) \/ Reject(c) \/ CacheCount(c) \/ CachePage(c)
    \/ FinishLog(c) \/ Reload(c) \/ Reply(c) \/ AnswerError(c)

Next ==
    \/ \E c \in Calls :
          \/ Authorize(c) \/ AuthorizeExpires(c)
          \/ Handler(c) \/ DeviceUnknown(c)
          \/ DeviceAnswers(c) \/ DeviceFails(c) \/ DeviceTimeout(c)
          \/ QueryFails(c) \/ StatementFails(c)
    \/ UrlChange
    \/ StoreEvent
    \/ Crash

Spec == Init /\ [][Next]_vars

\* The loop takes up every coroutine that is ready (its ready queue is first
\* in, first out), and the two time-outs run: the pool's 30 seconds, part of
\* Handler, and the HTTP client's.  The latter is counted anew by every chunk
\* that arrives: a device that keeps sending slowly is excluded here.
FairSpec ==
    /\ Spec
    /\ \A c \in Calls : WF_vars(Handler(c)) /\ WF_vars(DeviceTimeout(c))

-----------------------------------------------------------------------------
(* Properties. *)

\* Every variable has its type; no more connections are out than there are.
TypeOK ==
    /\ url \in Urls
    /\ stored \in 0 .. MaxStored
    /\ log \in [Calls -> {"none", "pending", "success", "failed"}]
    /\ mode \in [Calls -> Modes]
    /\ pc \in [Calls -> PCs]
    /\ local \in [Calls -> Locals]
    /\ Cardinality(Held) <= PoolSize

\* The command log tells what the user was told: success of a 200, failed of an
\* error of dispatch.  Conversely, success means that there was a result (the
\* answer may still be a 500, for want of a connection), and failed is told as
\* such, as nothing else, unless the process dies before the answer.  A log
\* stays pending only if dispatch did not answer.
LogMatchesAnswer ==
    \A c \in Calls :
        /\ pc[c] = "ok" => log[c] = "success"
        /\ pc[c] = "app_error" => log[c] = "failed"
        /\ pc[c] = "denied" => log[c] = "none"
        /\ log[c] = "success" => local[c].outcome = "data" /\ pc[c] # "app_error"
        /\ log[c] = "failed" =>
              local[c].outcome = "error" /\ pc[c] \in {"raise", "app_error", "lost"}

\* A device is never contacted at a URL that was replaced before the command
\* was logged, although the device was loaded before that.
UrlIsFresh ==
    \A c \in Calls :
        pc[c] \in {"await", "ok"} /\ mode[c] = "realtime" => local[c].sent >= local[c].logged

\* The total and the items of a cache query are of one moment (taking a page
\* that holds them all): no ingest of the process comes between the statements.
PageMatchesTotal ==
    \A c \in Calls : local[c].items # NoTotal => local[c].items = local[c].total

\* dispatch implements the command log: one way through its states, and not
\* another step once the caller was answered or the query broken.
Told(c) == IF pc[c] \in Final THEN pc[c] ELSE "nothing"

Log == INSTANCE CommandLog WITH status <- log, told <- [c \in Calls |-> Told(c)]

LogSpec == Log!Spec

\* The loop is never lost to requests that wait for a connection while those
\* that hold one wait for the loop.
LoopReleased == []<>LoopFree

\* A query that has passed its dependencies ends, with a device that is silent
\* and with no connection to be had.
DispatchEnds == \A c \in Calls : pc[c] \in Active ~> pc[c] \in Final
=============================================================================
