----------------------- MODULE CommandDispatchProofs -----------------------
(***************************************************************************)
(* Theorems about CommandDispatch, for any number of requests, any pool    *)
(* size and any sequence of base URLs.                                     *)
(***************************************************************************)
EXTENDS CommandDispatch, FiniteSetTheorems, TLAPS

-----------------------------------------------------------------------------
(* The inductive invariant is one statement about each call: what it has   *)
(* done to its log, and what its locals say, at each place of dispatch.    *)

\* The types of TypeOK but the bound of the pool, proved apart.
Types ==
    /\ url \in Urls
    /\ stored \in 0 .. MaxStored
    /\ log \in [Calls -> {"none", "pending", "success", "failed"}]
    /\ mode \in [Calls -> Modes]
    /\ pc \in [Calls -> PCs]
    /\ local \in [Calls -> Locals]

\* The log follows the program counter, but for calls that were cut off.
LogAt(c) ==
    /\ pc[c] \in {"new", "denied", "ready", "insert"} => log[c] = "none"
    /\ pc[c] \in {"refresh", "query", "page", "await", "finish"} => log[c] = "pending"
    /\ pc[c] \in {"reload", "reply", "ok"} => log[c] = "success"
    /\ pc[c] \in {"raise", "app_error"} => log[c] = "failed"
    /\ log[c] = "success" => local[c].outcome = "data" /\ pc[c] # "app_error"
    /\ log[c] = "failed" =>
          local[c].outcome = "error" /\ pc[c] \in {"raise", "app_error", "lost"}

\* There is an outcome from the end of the query on.
OutcomeAt(c) ==
    /\ pc[c] \in {"new", "ready", "insert", "refresh", "query"} =>
          local[c].outcome = "none" /\ local[c].items = NoTotal
    /\ pc[c] = "finish" => local[c].outcome # "none"

\* What was sent was current when the log was committed, or later.
UrlAt(c) ==
    /\ local[c].logged <= url
    /\ pc[c] = "await" \/ (local[c].outcome = "data" /\ mode[c] = "realtime") =>
          local[c].sent >= local[c].logged

\* Between the two statements of a cache query the loop is the call's.
PageAt(c) ==
    /\ pc[c] = "page" => /\ local[c].total = stored
                         /\ local[c].items = NoTotal
                         /\ mode[c] = "cache"
    /\ pc[c] = "await" => local[c].items = NoTotal
    /\ local[c].items # NoTotal => local[c].items = local[c].total

CallInv(c) == LogAt(c) /\ OutcomeAt(c) /\ UrlAt(c) /\ PageAt(c)

IInv == Types /\ \A c \in Calls : CallInv(c)

USE DEF LogAt, OutcomeAt, UrlAt, PageAt

LEMMA InitInv == Init => IInv
<1> SUFFICES ASSUME Init PROVE IInv
  OBVIOUS
<1>1. Types
  BY UrlAssumption, StoredAssumption
  DEF Init, Types, PCs, Locals, NoLocals, NoTotal
<1>2. ASSUME NEW c \in Calls PROVE CallInv(c)
  BY UrlAssumption DEF Init, CallInv, NoLocals
<1> QED
  BY <1>1, <1>2 DEF IInv

\* A step of one call c that changes the log, the counter and the locals of c
\* only.
LEMMA OwnStep ==
    ASSUME IInv, NEW c \in Calls,
           NEW label \in PCs, NEW status \in {"none", "pending", "success", "failed"},
           NEW l \in Locals,
           pc' = [pc EXCEPT ![c] = label],
           log' = [log EXCEPT ![c] = status],
           local' = [local EXCEPT ![c] = l],
           UNCHANGED <<url, stored, mode>>,
           CallInv(c)'
    PROVE  IInv'
<1>1. Types'
  BY DEF IInv, Types
<1>2. ASSUME NEW b \in Calls, b # c PROVE CallInv(b)'
  <2>1. pc'[b] = pc[b] /\ log'[b] = log[b] /\ local'[b] = local[b]
    BY <1>2 DEF IInv, Types
  <2>2. CallInv(b)
    BY DEF IInv
  <2> QED
    BY <2>1, <2>2 DEF CallInv
<1> QED
  BY <1>1, <1>2 DEF IInv

\* A step of c that moves it and leaves log and locals alone.
LEMMA MoveStep ==
    ASSUME IInv, NEW c \in Calls, NEW label \in PCs, Goto(c, label),
           UNCHANGED <<url, stored, log, mode, local>>,
           CallInv(c)'
    PROVE  IInv'
<1>1. log' = [log EXCEPT ![c] = log[c]] /\ local' = [local EXCEPT ![c] = local[c]]
  BY DEF IInv, Types
<1>2. log[c] \in {"none", "pending", "success", "failed"} /\ local[c] \in Locals
  BY DEF IInv, Types
<1> QED
  BY <1>1, <1>2, OwnStep DEF Goto

\* Every move without a change of data.
LEMMA MovesInv ==
    ASSUME IInv, NEW c \in Calls,
           \/ Authorize(c) \/ AuthorizeExpires(c) \/ Refresh(c) \/ PoolTimeout(c)
           \/ Reload(c) \/ Reply(c) \/ AnswerError(c) \/ StatementFails(c)
           \/ DeviceUnknown(c)
    PROVE  IInv'
<1> USE DEF IInv, Types
<1>1. PICK label \in PCs : Goto(c, label) /\ UNCHANGED <<url, stored, log, mode, local>>
  BY DEF Authorize, AuthorizeExpires, Refresh, PoolTimeout, Reload, Reply,
         AnswerError, StatementFails, DeviceUnknown, PCs, Active, OnLoop, Holding, Final
<1>2. pc'[c] = label
  BY <1>1 DEF Goto
<1>3. CallInv(c)'
  BY <1>1, <1>2 DEF CallInv, Goto, Authorize, AuthorizeExpires, Refresh,
     PoolTimeout, CheckoutExpires, Reload, Reply, AnswerError, StatementFails,
     DeviceUnknown
<1> QED
  BY <1>1, <1>3, MoveStep

\* A call whose query ends with an error, an answer of the device among them.
LEMMA ConcludeInv ==
    ASSUME IInv, NEW c \in Calls, NEW o \in {"data", "error"}, Conclude(c, o),
           pc[c] = "await" \/ (pc[c] \in {"query", "page"} /\ o = "error")
    PROVE  IInv'
<1> USE DEF IInv, Types
<1> DEFINE l == [local[c] EXCEPT !.outcome = o]
<1>1. l \in Locals /\ "finish" \in PCs
  BY DEF Locals, PCs, Active, OnLoop
<1>2. local' = [local EXCEPT ![c] = l] /\ log' = [log EXCEPT ![c] = log[c]]
  BY DEF Conclude
<1>3. /\ l.outcome = o /\ l.logged = local[c].logged /\ l.sent = local[c].sent
      /\ l.items = local[c].items /\ l.total = local[c].total
  BY DEF Locals
<1>4. pc'[c] = "finish" /\ local'[c] = l /\ log'[c] = log[c]
  BY <1>2 DEF Conclude, Goto
<1> HIDE DEF l
<1>6. CallInv(c)'
  BY <1>3, <1>4 DEF CallInv, Conclude
<1> QED
  BY <1>1, <1>2, <1>6, OwnStep DEF Conclude, Goto

\* The steps that write a local or the log.
LEMMA WritesInv ==
    ASSUME IInv, NEW c \in Calls,
           \/ GetDevice(c) \/ CreateLog(c) \/ Send(c) \/ CacheCount(c)
           \/ CachePage(c) \/ FinishLog(c)
    PROVE  IInv'
<1> USE DEF IInv, Types
<1>1. local[c] \in Locals /\ CallInv(c) /\ url \in Nat /\ stored \in 0 .. NoTotal
  BY UrlAssumption, StoredAssumption DEF NoTotal
<1>2. CASE GetDevice(c)
  <2> DEFINE l == [local[c] EXCEPT !.loaded = url]
  <2>1. l \in Locals /\ "insert" \in PCs
    BY <1>1 DEF Locals, PCs, Active, OnLoop
  <2>2. /\ l.outcome = local[c].outcome /\ l.logged = local[c].logged
        /\ l.sent = local[c].sent /\ l.items = local[c].items /\ l.total = local[c].total
    BY <1>1 DEF Locals
  <2>3. /\ local' = [local EXCEPT ![c] = l] /\ log' = [log EXCEPT ![c] = log[c]]
        /\ pc[c] = "ready" /\ UNCHANGED <<url, stored, mode, log>>
        /\ pc' = [pc EXCEPT ![c] = "insert"]
    BY <1>2 DEF GetDevice, Goto
  <2> HIDE DEF l
  <2>4. CallInv(c)'
    BY <1>1, <2>2, <2>3 DEF CallInv
  <2> QED
    BY <2>1, <2>3, <2>4, OwnStep
<1>3. CASE CreateLog(c)
  <2> DEFINE l == [local[c] EXCEPT !.logged = url]
  <2>1. l \in Locals /\ "refresh" \in PCs
    BY <1>1 DEF Locals, PCs, Active, OnLoop
  <2>2. /\ l.outcome = local[c].outcome /\ l.logged = url
        /\ l.sent = local[c].sent /\ l.items = local[c].items /\ l.total = local[c].total
    BY <1>1 DEF Locals
  <2>3. /\ local' = [local EXCEPT ![c] = l] /\ log' = [log EXCEPT ![c] = "pending"]
        /\ pc[c] = "insert" /\ UNCHANGED <<url, stored, mode>>
        /\ pc' = [pc EXCEPT ![c] = "refresh"]
    BY <1>3 DEF CreateLog, Goto
  <2> HIDE DEF l
  <2>4. CallInv(c)'
    BY <1>1, <2>2, <2>3 DEF CallInv
  <2> QED
    BY <2>1, <2>3, <2>4, OwnStep
<1>4. CASE Send(c)
  <2> DEFINE l == [local[c] EXCEPT !.sent = url]
  <2>1. l \in Locals /\ "await" \in PCs
    BY <1>1 DEF Locals, PCs, Active, Holding
  <2>2. /\ l.outcome = local[c].outcome /\ l.logged = local[c].logged
        /\ l.sent = url /\ l.items = local[c].items /\ l.total = local[c].total
    BY <1>1 DEF Locals
  <2>3. /\ local' = [local EXCEPT ![c] = l] /\ log' = [log EXCEPT ![c] = log[c]]
        /\ pc[c] = "query" /\ UNCHANGED <<url, stored, mode, log>>
        /\ pc' = [pc EXCEPT ![c] = "await"]
    BY <1>4 DEF Send, BaseUrl, Goto
  <2> HIDE DEF l
  <2>4. CallInv(c)'
    BY <1>1, <2>2, <2>3 DEF CallInv
  <2> QED
    BY <2>1, <2>3, <2>4, OwnStep
<1>5. CASE CacheCount(c)
  <2> DEFINE l == [local[c] EXCEPT !.total = stored]
  <2>1. l \in Locals /\ "page" \in PCs
    BY <1>1 DEF Locals, PCs, Active, OnLoop
  <2>2. /\ l.outcome = local[c].outcome /\ l.logged = local[c].logged
        /\ l.sent = local[c].sent /\ l.items = local[c].items /\ l.total = stored
    BY <1>1 DEF Locals
  <2>3. /\ local' = [local EXCEPT ![c] = l] /\ log' = [log EXCEPT ![c] = log[c]]
        /\ pc[c] = "query" /\ mode[c] = "cache" /\ UNCHANGED <<url, stored, mode, log>>
        /\ pc' = [pc EXCEPT ![c] = "page"]
    BY <1>5 DEF CacheCount, Goto
  <2> HIDE DEF l
  <2>4. CallInv(c)'
    BY <1>1, <2>2, <2>3 DEF CallInv
  <2> QED
    BY <2>1, <2>3, <2>4, OwnStep
<1>6. CASE CachePage(c)
  <2> DEFINE l == [local[c] EXCEPT !.items = stored, !.outcome = "data"]
  <2>1. l \in Locals /\ "finish" \in PCs
    BY <1>1 DEF Locals, PCs, Active, OnLoop
  <2>2. /\ l.outcome = "data" /\ l.logged = local[c].logged
        /\ l.sent = local[c].sent /\ l.items = stored /\ l.total = local[c].total
    BY <1>1 DEF Locals
  <2>3. /\ local' = [local EXCEPT ![c] = l] /\ log' = [log EXCEPT ![c] = log[c]]
        /\ pc[c] = "page" /\ UNCHANGED <<url, stored, mode, log>>
        /\ pc' = [pc EXCEPT ![c] = "finish"]
    BY <1>6 DEF CachePage, Goto
  <2> HIDE DEF l
  <2>4. CallInv(c)'
    BY <1>1, <2>2, <2>3 DEF CallInv
  <2> QED
    BY <2>1, <2>3, <2>4, OwnStep
<1>7. CASE FinishLog(c)
  <2> DEFINE label == IF local[c].outcome = "data" THEN "reload" ELSE "raise"
  <2>1. label \in PCs /\ Status(c) \in {"success", "failed"}
    BY DEF PCs, Active, OnLoop, Final, Status
  <2>2. /\ local' = [local EXCEPT ![c] = local[c]] /\ log' = [log EXCEPT ![c] = Status(c)]
        /\ pc[c] = "finish" /\ UNCHANGED <<url, stored, mode, local>>
        /\ pc' = [pc EXCEPT ![c] = label]
    BY <1>7 DEF FinishLog, Goto
  <2>3. local[c].outcome \in {"data", "error"}
    BY <1>1, <2>2 DEF CallInv, Locals
  <2>4. pc'[c] = label /\ log'[c] = Status(c) /\ local'[c] = local[c]
    BY <2>2
  <2>5. CallInv(c)'
    <3>1. CASE local[c].outcome = "data"
      BY <1>1, <2>2, <2>4, <3>1 DEF CallInv, Status
    <3>2. CASE local[c].outcome = "error"
      BY <1>1, <2>2, <2>4, <3>2 DEF CallInv, Status
    <3> QED
      BY <2>3, <3>1, <3>2
  <2> HIDE DEF label
  <2> QED
    BY <1>1, <2>1, <2>2, <2>5, OwnStep
<1> QED
  BY <1>2, <1>3, <1>4, <1>5, <1>6, <1>7

\* A call that has its total is on the loop: no event is stored meanwhile.
LEMMA StoreEventInv == IInv /\ StoreEvent => IInv'
<1> SUFFICES ASSUME IInv, StoreEvent PROVE IInv'
  OBVIOUS
<1>1. Types'
  BY StoredAssumption DEF IInv, Types, StoreEvent
<1>2. ASSUME NEW c \in Calls PROVE CallInv(c)'
  <2>1. pc[c] # "page"
    BY DEF StoreEvent, LoopFree, OnLoop
  <2> QED
    BY <2>1 DEF IInv, CallInv, StoreEvent
<1> QED
  BY <1>1, <1>2 DEF IInv

LEMMA UrlChangeInv == IInv /\ UrlChange => IInv'
<1> SUFFICES ASSUME IInv, UrlChange PROVE IInv'
  OBVIOUS
<1>1. Types'
  BY DEF IInv, Types, UrlChange
<1>2. ASSUME NEW c \in Calls PROVE CallInv(c)'
  <2>1. local[c] \in Locals
    BY DEF IInv, Types
  <2>2. local[c].logged \in Urls
    BY <2>1 DEF Locals
  <2>3. url \in Urls /\ url' \in Urls /\ url' > url
    BY DEF IInv, Types, UrlChange
  <2>4. \A u \in Urls : u \in Nat
    BY UrlAssumption
  <2>5. local[c].logged \in Nat /\ url \in Nat /\ url' \in Nat
    BY <2>2, <2>3, <2>4
  <2>6. local[c].logged \in Nat /\ url \in Nat /\ url' \in Nat /\ url <= url'
    BY <2>3, <2>5
  <2> QED
    BY <2>6 DEF IInv, CallInv, UrlChange
<1> QED
  BY <1>1, <1>2 DEF IInv

\* A crash leaves logs and locals as they are: a call that was active is lost.
LEMMA CrashInv == IInv /\ Crash => IInv'
<1> SUFFICES ASSUME IInv, Crash PROVE IInv'
  OBVIOUS
<1>1. Types'
  BY DEF IInv, Types, Crash, PCs, Final
<1>2. ASSUME NEW c \in Calls PROVE CallInv(c)'
  <2>1. pc'[c] = pc[c] \/ (pc'[c] = "lost" /\ pc[c] \in Active)
    BY DEF Crash
  <2>2. pc[c] \in Active => pc[c] # "app_error"
    BY DEF Active, OnLoop, Holding
  <2>3. CallInv(c) /\ log'[c] = log[c] /\ local'[c] = local[c] /\ UNCHANGED <<url, stored, mode>>
    BY DEF IInv, Crash
  <2> QED
    BY <2>1, <2>2, <2>3 DEF CallInv
<1> QED
  BY <1>1, <1>2 DEF IInv

LEMMA StepInv == IInv /\ [Next]_vars => IInv'
<1> SUFFICES ASSUME IInv, [Next]_vars PROVE IInv'
  OBVIOUS
<1>1. ASSUME NEW c \in Calls,
             \/ Reject(c) \/ QueryFails(c)
             \/ DeviceAnswers(c) \/ DeviceFails(c) \/ DeviceTimeout(c)
      PROVE  IInv'
  BY <1>1, ConcludeInv DEF Reject, QueryFails, DeviceAnswers, DeviceFails, DeviceTimeout
<1>2. CASE UNCHANGED vars
  BY <1>2 DEF vars, IInv, Types, CallInv
<1> QED
  BY <1>1, <1>2, MovesInv, WritesInv, StoreEventInv, UrlChangeInv, CrashInv
  DEF Next, Handler

LEMMA Invariance == Spec => []IInv
  BY InitInv, StepInv, PTL DEF Spec

-----------------------------------------------------------------------------
(* The bound of the pool. *)

\* A call that begins to hold a connection does so when there is one.
PoolBound == Types /\ Cardinality(Held) <= PoolSize

\* One call changes its place.
LEMMA PoolStep ==
    ASSUME IsFiniteSet(Calls), PoolBound, NEW c \in Calls, NEW label, Goto(c, label),
           label \in Holding => pc[c] \in Holding \/ ConnectionFree
    PROVE  Cardinality(Held') <= PoolSize
<1>1. Held \subseteq Calls /\ IsFiniteSet(Held) /\ Cardinality(Held) \in Nat
  BY FS_Subset, FS_CardinalityType DEF Held
<1>2. \A b \in Calls \ {c} : pc'[b] = pc[b]
  BY DEF Goto, PoolBound, Types
<1>3. pc'[c] = label
  BY DEF Goto, PoolBound, Types
<1>4. CASE label \in Holding => pc[c] \in Holding
  <2>1. Held' \subseteq Held
    BY <1>2, <1>3, <1>4 DEF Held
  <2>2. Cardinality(Held') <= Cardinality(Held) /\ IsFiniteSet(Held')
    BY <1>1, <2>1, FS_Subset
  <2>3. Cardinality(Held') \in Nat
    BY <2>2, FS_CardinalityType
  <2> QED
    BY <1>1, <2>2, <2>3, PoolAssumption DEF PoolBound
<1>5. CASE label \in Holding /\ pc[c] \notin Holding
  <2>1. Held' = Held \cup {c} /\ c \notin Held
    BY <1>2, <1>3, <1>5 DEF Held
  <2>2. Cardinality(Held') = Cardinality(Held) + 1
    BY <1>1, <2>1, FS_AddElement
  <2> QED
    BY <1>1, <1>5, <2>2, PoolAssumption DEF ConnectionFree
<1> QED
  BY <1>4, <1>5

LEMMA PoolBoundStep ==
    ASSUME IsFiniteSet(Calls), PoolBound, IInv, [Next]_vars
    PROVE  PoolBound'
<1>1. Types'
  BY StepInv DEF IInv
<1>2. ASSUME NEW c \in Calls, NEW label, Goto(c, label),
             label \in Holding => pc[c] \in Holding \/ ConnectionFree
      PROVE  PoolBound'
  BY <1>1, <1>2, PoolStep DEF PoolBound
<1>3. CASE UNCHANGED pc
  BY <1>1, <1>3 DEF PoolBound, Held
<1>4. CASE Crash
  <2>1. Held' \subseteq Held /\ Held \subseteq Calls
    BY <1>4 DEF Held, Crash, Active, Holding
  <2>2. /\ Cardinality(Held') <= Cardinality(Held)
        /\ Cardinality(Held') \in Nat /\ Cardinality(Held) \in Nat
    BY <2>1, FS_Subset, FS_CardinalityType
  <2> QED
    BY <1>1, <2>2, PoolAssumption DEF PoolBound
<1>5. ASSUME NEW c \in Calls, Authorize(c) \/ Refresh(c) \/ Reload(c) PROVE PoolBound'
  BY <1>2, <1>5 DEF Authorize, Refresh, Reload, Holding
<1>6. ASSUME NEW c \in Calls,
             \/ GetDevice(c) \/ CreateLog(c) \/ PoolTimeout(c) \/ Send(c) \/ Reject(c)
             \/ CacheCount(c) \/ CachePage(c) \/ FinishLog(c) \/ Reply(c) \/ AnswerError(c)
             \/ AuthorizeExpires(c) \/ StatementFails(c) \/ QueryFails(c)
             \/ DeviceUnknown(c) \/ DeviceAnswers(c) \/ DeviceFails(c) \/ DeviceTimeout(c)
      PROVE  PoolBound'
  <2>1. PICK label : Goto(c, label) /\ (label \in Holding => pc[c] \in Holding)
    BY <1>6 DEF GetDevice, CreateLog, PoolTimeout, Send, Reject, CacheCount, CachePage,
       FinishLog, Reply, AnswerError, AuthorizeExpires, StatementFails, QueryFails,
       DeviceUnknown, DeviceAnswers, DeviceFails, DeviceTimeout, Conclude, Holding
  <2> QED
    BY <1>2, <2>1
<1> QED
  BY <1>3, <1>4, <1>5, <1>6 DEF Next, Handler, UrlChange, StoreEvent, vars

-----------------------------------------------------------------------------
\* Types, and a pool that is never overdrawn by requests that give their
\* connection back at a commit and take one again.
THEOREM TypeCorrect ==
    ASSUME IsFiniteSet(Calls)
    PROVE  Spec => []TypeOK
<1>1. Init => PoolBound
  <2> SUFFICES ASSUME Init PROVE PoolBound
    OBVIOUS
  <2>1. Held = {}
    BY DEF Init, Held, Holding
  <2>2. Types
    BY InitInv DEF IInv
  <2> QED
    BY <2>1, <2>2, FS_EmptySet, PoolAssumption DEF PoolBound
<1>2. PoolBound /\ IInv /\ [Next]_vars => PoolBound'
  BY PoolBoundStep
<1>3. PoolBound => TypeOK
  BY DEF PoolBound, Types, TypeOK
<1> QED
  BY <1>1, <1>2, <1>3, Invariance, PTL DEF Spec

\* What the command log says of a query is what its user was told, if the process
\* lived to tell it.
THEOREM LogsAreTruthful == Spec => []LogMatchesAnswer
<1>1. IInv => LogMatchesAnswer
  BY DEF IInv, CallInv, LogMatchesAnswer
<1> QED
  BY <1>1, Invariance, PTL

\* No device is contacted at a URL replaced before its command was logged.
THEOREM UrlsAreFresh == Spec => []UrlIsFresh
<1>1. IInv => UrlIsFresh
  BY DEF IInv, CallInv, UrlIsFresh
<1> QED
  BY <1>1, Invariance, PTL

\* The two statements of a cache query see the same events.
THEOREM PagesAreConsistent == Spec => []PageMatchesTotal
<1>1. IInv => PageMatchesTotal
  BY DEF IInv, CallInv, PageMatchesTotal
<1> QED
  BY <1>1, Invariance, PTL

-----------------------------------------------------------------------------
(* The refinement: the commits of the log, the answers and what breaks a   *)
(* query are steps of the command log, the rest are stutters.              *)

told == [c \in Calls |-> Told(c)]

LEMMA LogInit == Init => Log!Init
<1> SUFFICES ASSUME Init PROVE Log!Init
  OBVIOUS
<1>1. \A c \in Calls : Told(c) = "nothing"
  BY DEF Init, Told, Final
<1> QED
  BY <1>1 DEF Init, Log!Init

\* Where a call stands decides what it was told.
LEMMA Places ==
    /\ \A c \in Calls : pc[c] \in Active => Told(c) = "nothing"
    /\ \A c \in Calls : pc[c] = "new" => Told(c) = "nothing"
BY DEF Told, Active, OnLoop, Holding, Final

\* A call that moves on within the query is told nothing.
LEMMA TellNothing ==
    ASSUME Types, NEW c \in Calls, NEW label \in Active, pc[c] \in Active \cup {"new"},
           Goto(c, label)
    PROVE  UNCHANGED told
<1>1. /\ pc'[c] = label
      /\ \A b \in Calls \ {c} : pc'[b] = pc[b]
  BY DEF Goto, Types
<1>2. Told(c) = "nothing" /\ Told(c)' = "nothing"
  BY <1>1, Places DEF Told, Active, OnLoop, Holding, Final
<1>3. \A b \in Calls : Told(b)' = Told(b)
  BY <1>1, <1>2 DEF Told
<1> QED
  BY <1>3 DEF told

\* A call that ends is told how.
LEMMA TellEnd ==
    ASSUME Types, NEW c \in Calls, NEW label \in Final, pc[c] \in Active \cup {"new"},
           Goto(c, label)
    PROVE  Told(c) = "nothing" /\ told' = [told EXCEPT ![c] = label]
<1>1. /\ pc'[c] = label
      /\ \A b \in Calls \ {c} : pc'[b] = pc[b]
  BY DEF Goto, Types
<1>2. Told(c) = "nothing" /\ Told(c)' = label
  BY <1>1, Places DEF Told
<1>3. \A b \in Calls \ {c} : Told(b)' = Told(b)
  BY <1>1 DEF Told
<1> QED
  BY <1>2, <1>3 DEF told

\* A call that breaks off by itself.
LEMMA BreakOne ==
    ASSUME Types, NEW c \in Calls, pc[c] \in Active \cup {"new"}, Goto(c, "internal"),
           UNCHANGED log
    PROVE  Log!Next
<1>1. Told(c) = "nothing" /\ told' = [told EXCEPT ![c] = "internal"]
  BY TellEnd DEF Final
<1>2. told' = [b \in Calls |-> IF b \in {c} THEN "internal" ELSE told[b]]
  BY <1>1 DEF told
<1>3. Log!Break({c}, "internal")
  BY <1>1, <1>2 DEF Log!Break, told
<1> QED
  BY <1>3 DEF Log!Next

LEMMA LogCall ==
    ASSUME IInv, NEW c \in Calls,
           \/ Authorize(c) \/ AuthorizeExpires(c) \/ Handler(c) \/ DeviceUnknown(c)
           \/ DeviceAnswers(c) \/ DeviceFails(c) \/ DeviceTimeout(c)
           \/ QueryFails(c) \/ StatementFails(c)
    PROVE  Log!Next \/ UNCHANGED <<log, told>>
<1> USE DEF IInv
<1>1. CallInv(c) /\ Types /\ log[c] \in {"none", "pending", "success", "failed"}
  BY DEF Types
<1>2. CASE \/ Authorize(c) /\ Goto(c, "denied")
           \/ DeviceUnknown(c)
  <2>1. log[c] = "none" /\ UNCHANGED log
    BY <1>1, <1>2 DEF CallInv, Authorize, DeviceUnknown
  <2>2. Told(c) = "nothing" /\ told' = [told EXCEPT ![c] = "denied"]
    BY <1>1, <1>2, TellEnd DEF Authorize, DeviceUnknown, Active, Holding, Final
  <2>3. Log!Deny(c)
    BY <2>1, <2>2 DEF Log!Deny, Log!Inform, told
  <2> QED
    BY <2>3 DEF Log!Next
<1>3. CASE \/ Authorize(c) /\ Goto(c, "internal")
           \/ AuthorizeExpires(c) \/ PoolTimeout(c) \/ StatementFails(c)
  <2>1. pc[c] \in Active \cup {"new"} /\ Goto(c, "internal") /\ UNCHANGED log
    BY <1>3 DEF Authorize, AuthorizeExpires, PoolTimeout, CheckoutExpires, StatementFails,
       Active, OnLoop, Holding
  <2> QED
    BY <1>1, <2>1, BreakOne
<1>4. CASE CreateLog(c)
  <2>1. log[c] = "none" /\ log' = [log EXCEPT ![c] = "pending"]
    BY <1>1, <1>4 DEF CallInv, CreateLog
  <2>2. Told(c) = "nothing" /\ UNCHANGED told
    BY <1>1, <1>4, TellNothing, Places DEF CreateLog, Active, OnLoop
  <2>3. Log!Open(c)
    BY <2>1, <2>2 DEF Log!Open, Log!Record, told
  <2> QED
    BY <2>3 DEF Log!Next
<1>5. CASE FinishLog(c)
  <2>1. /\ pc[c] = "finish" /\ log[c] = "pending"
        /\ local[c].outcome \in {"data", "error"}
        /\ log' = [log EXCEPT ![c] = Status(c)]
    BY <1>1, <1>5 DEF CallInv, FinishLog, Types, Locals
  <2>2. CASE local[c].outcome = "data"
    <3>1. Told(c) = "nothing" /\ UNCHANGED told
      BY <1>1, <1>5, <2>1, <2>2, TellNothing, Places DEF FinishLog, Active, OnLoop
    <3>2. Log!Succeed(c)
      BY <2>1, <2>2, <3>1 DEF Log!Succeed, Log!Record, Status, told
    <3> QED
      BY <3>2 DEF Log!Next
  <2>3. CASE local[c].outcome = "error"
    <3>1. Told(c) = "nothing" /\ UNCHANGED told
      BY <1>1, <1>5, <2>1, <2>3, TellNothing, Places DEF FinishLog, Active, OnLoop
    <3>2. Log!Fail(c)
      BY <2>1, <2>3, <3>1 DEF Log!Fail, Log!Record, Status, told
    <3> QED
      BY <3>2 DEF Log!Next
  <2> QED
    BY <2>1, <2>2, <2>3
<1>6. CASE Reply(c)
  <2>1. log[c] = "success" /\ UNCHANGED log
    BY <1>1, <1>6 DEF CallInv, Reply
  <2>2. Told(c) = "nothing" /\ told' = [told EXCEPT ![c] = "ok"]
    BY <1>1, <1>6, TellEnd DEF Reply, Active, Holding, Final
  <2>3. Log!Answer(c)
    BY <2>1, <2>2 DEF Log!Answer, Log!Inform, told
  <2> QED
    BY <2>3 DEF Log!Next
<1>7. CASE AnswerError(c)
  <2>1. log[c] = "failed" /\ UNCHANGED log
    BY <1>1, <1>7 DEF CallInv, AnswerError
  <2>2. Told(c) = "nothing" /\ told' = [told EXCEPT ![c] = "app_error"]
    BY <1>1, <1>7, TellEnd DEF AnswerError, Active, Final
  <2>3. Log!AnswerError(c)
    BY <2>1, <2>2 DEF Log!AnswerError, Log!Inform, told
  <2> QED
    BY <2>3 DEF Log!Next
<1>8. CASE \/ Authorize(c) /\ Goto(c, "ready")
           \/ GetDevice(c) \/ Refresh(c) \/ Send(c) \/ Reject(c) \/ CacheCount(c)
           \/ CachePage(c) \/ Reload(c) \/ QueryFails(c)
           \/ DeviceAnswers(c) \/ DeviceFails(c) \/ DeviceTimeout(c)
  <2>1. /\ \E label \in Active : Goto(c, label)
        /\ pc[c] \in Active \cup {"new"}
        /\ UNCHANGED log
    BY <1>8 DEF Authorize, GetDevice, Refresh, Send, Reject, CacheCount, CachePage, Reload,
       QueryFails, DeviceAnswers, DeviceFails, DeviceTimeout, Conclude, Active, OnLoop, Holding
  <2> QED
    BY <1>1, <2>1, TellNothing
<1>9. Authorize(c) => Goto(c, "ready") \/ Goto(c, "denied") \/ Goto(c, "internal")
  BY DEF Authorize
<1> QED
  BY <1>2, <1>3, <1>4, <1>5, <1>6, <1>7, <1>8, <1>9 DEF Handler

LEMMA LogStep == IInv /\ [Next]_vars => [Log!Next]_(Log!vars)
<1> SUFFICES ASSUME IInv, [Next]_vars PROVE Log!Next \/ UNCHANGED <<log, told>>
  BY DEF Log!vars, told
<1>1. CASE UrlChange \/ StoreEvent \/ UNCHANGED vars
  <2>1. UNCHANGED <<log, pc>>
    BY <1>1 DEF UrlChange, StoreEvent, vars
  <2> QED
    BY <2>1 DEF told, Told
<1>2. CASE Crash
  <2> DEFINE S == {c \in Calls : pc[c] \in Active}
  <2>1. \A c \in S : Told(c) = "nothing"
    BY Places
  <2>2. \A c \in Calls : Told(c)' = IF c \in S THEN "lost" ELSE Told(c)
    BY <1>2 DEF Crash, Told, Final
  <2>3. Log!Break(S, "lost")
    BY <1>2, <2>1, <2>2 DEF Crash, Log!Break, told
  <2> QED
    BY <2>3 DEF Log!Next
<1> QED
  BY <1>1, <1>2, LogCall DEF Next

\* dispatch, with its time-outs, refused connections and crashes, implements
\* the command log, for any number of calls and any size of the pool.
THEOREM ImplementsLog == Spec => LogSpec
<1>1. IInv /\ [Next]_vars => [Log!Next]_(Log!vars)
  BY LogStep
<1> QED
  BY <1>1, LogInit, Invariance, PTL DEF Spec, LogSpec, Log!Spec
=============================================================================
