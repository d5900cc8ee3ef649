------------------------ MODULE WebhookIngestProofs ------------------------
(***************************************************************************)
(* Theorems about WebhookIngest, for every value of its constants.         *)
(***************************************************************************)
EXTENDS WebhookIngest, FiniteSetTheorems, TLAPS

-----------------------------------------------------------------------------
(* Types. *)

\* The minute a time falls in is one of the windows that rows exist for.
LEMMA WindowType == ASSUME NEW t \in 0 .. MaxTime PROVE Window(t) \in Windows
<1>1. t \in Nat /\ MaxTime \in Nat /\ WindowTicks \in Nat \ {0} /\ t <= MaxTime
  BY ClockAssumption
<1>2. t \div WindowTicks \in Nat /\ t \div WindowTicks <= t
  BY <1>1, SMTT(30)
<1> QED
  BY <1>1, <1>2 DEF Window, Windows

\* A call past its lookup presents a token that was issued to a device.
Issued == \A c \in Calls : pc[c] \in AtIngest \cup Committed => DeviceOf(c) \in Devices

\* A rotation in progress is one of a device.
RotatesDevice == \A a \in Admins : admin[a].rotating => admin[a].device \in Devices

TypeInv == TypeOK /\ Issued /\ RotatesDevice

\* The key of a call whose token was issued is a key of the event table.
LEMMA KeyType ==
    ASSUME TypeOK, NEW c \in Calls, DeviceOf(c) \in Devices
    PROVE  Key(c) \in Devices \X EventIds
<1>1. req[c].payload \in Payloads
  BY DEF TypeOK
<1>2. EventIdOf(DeviceOf(c), req[c].payload) \in EventIds
  BY <1>1 DEF EventIds
<1> QED
  BY <1>2 DEF Key

\* No program counter is both on the loop and final: what the sets of program
\* counters contain, in one place.
LEMMA Labels ==
    /\ AtIngest = {"insert", "device", "commit"}
    /\ OnLoop = {"rate_insert", "rate_update", "insert", "device", "commit"}
    /\ Committed = {"reply", "ok", "unanswered"}
    /\ Active = OnLoop \cup {"body", "reply"}
    /\ PCs = {"new", "rate_insert", "rate_update", "insert", "device", "commit", "body",
              "reply", "ok", "limited", "unauthorized", "error", "lost", "unanswered"}
BY DEF AtIngest, AtRate, OnLoop, Committed, Active, Final, PCs

\* The initial states are well typed.
LEMMA TypeInit == Init => TypeInv
<1> SUFFICES ASSUME Init PROVE TypeInv
  OBVIOUS
<1>1. 0 \in 0 .. MaxTime /\ 0 \in Windows
  BY ClockAssumption DEF Windows
<1>2. local \in [Calls -> Locals]
  <2>1. \A w \in Workers : NoLocals(w) \in Locals
    BY <1>1 DEF Locals, NoLocals
  <2> QED
    BY <2>1 DEF Init
<1>3. admin \in [Admins -> AdminState]
  <2>1. \A w \in Workers : Idle(w) \in AdminState
    BY DEF AdminState, Idle
  <2> QED
    BY <2>1 DEF Init
<1>4. pc \in [Calls -> PCs] /\ Issued
  BY Labels DEF Init, Issued
<1>5. RotatesDevice
  BY DEF Init, RotatesDevice, Idle
<1> QED
  BY <1>1, <1>2, <1>3, <1>4, <1>5, NoDeviceAssumption DEF Init, TypeInv, TypeOK

\* A step of one call keeps every variable in its type.
LEMMA TypeCall ==
    ASSUME TypeInv, NEW c \in Calls, Call(c)
    PROVE  TypeInv'
<1> USE DEF TypeInv
<1>1. ASSUME RateMiss(c) \/ RateHit(c) \/ RateLimited(c) PROVE (TypeOK /\ Issued)'
  <2>1. PICK label \in {"rate_insert", "rate_update", "limited"} : Receive(c, label)
    BY <1>1 DEF RateMiss, RateHit, RateLimited
  <2>2. Window(clock) \in Windows
    BY WindowType DEF TypeOK
  <2>3. RateCount(c) \in Nat
    BY <2>2, PrefixAssumption DEF TypeOK, RateCount
  <2>4. local' \in [Calls -> Locals]
    BY <2>1, <2>2, <2>3 DEF Receive, TypeOK, Locals
  <2>5. pc' \in [Calls -> PCs] /\ Issued'
    BY <2>1, Labels DEF Receive, TypeOK, Issued, DeviceOf, db
  <2> QED
    BY <2>1, <2>4, <2>5 DEF Receive, TypeOK, db
<1>2. ASSUME RateInsert(c) \/ RateUpdate(c) PROVE (TypeOK /\ Issued)'
  <2>1. Prefix[req[c].token] \in Prefixes /\ local[c].window \in Windows /\ local[c].got \in Nat
    BY PrefixAssumption DEF TypeOK, Locals
  <2>2. \A n \in Nat : SetRate(c, n) => rate' \in [Prefixes -> [Windows -> Nat]]
    BY <2>1 DEF SetRate, TypeOK
  <2>3. rate' \in [Prefixes -> [Windows -> Nat]]
    <3>1. CASE RateInsert(c)
      BY <3>1, <2>2 DEF RateInsert, TypeOK
    <3>2. CASE RateUpdate(c)
      BY <3>2, <2>1, <2>2 DEF RateUpdate
    <3> QED
      BY <1>2, <3>1, <3>2
  <2>4. pc' \in [Calls -> PCs] /\ Issued'
    <3>1. pc' = [pc EXCEPT ![c] = "body"] \/ pc' = [pc EXCEPT ![c] = "error"]
      BY <1>2 DEF RateInsert, RateUpdate
    <3>2. UNCHANGED <<owner, req>>
      BY <1>2 DEF RateInsert, RateUpdate
    <3> QED
      BY <3>1, <3>2, Labels DEF TypeOK, Issued, DeviceOf
  <2>5. local' \in [Calls -> Locals]
    <3>1. CASE RateInsert(c)
      BY <3>1 DEF RateInsert, TypeOK
    <3>2. CASE RateUpdate(c)
      BY <3>2 DEF RateUpdate, TypeOK, Locals
    <3> QED
      BY <1>2, <3>1, <3>2
  <2>6. UNCHANGED <<clock, owner, enabled, called, events, count, seen, req, admin>>
    BY <1>2 DEF RateInsert, RateUpdate
  <2> QED
    BY <2>3, <2>4, <2>5, <2>6 DEF TypeOK
<1>3. ASSUME BodyFails(c) \/ LookupFails(c) \/ DatabaseLocked(c) \/ Reply(c) \/ InsertFresh(c)
      PROVE  (TypeOK /\ Issued)'
  <2>1. pc' \in [Calls -> PCs] /\ Issued'
    BY <1>3, Labels DEF BodyFails, LookupFails, DatabaseLocked, Reply, InsertFresh,
                        TypeOK, Issued, DeviceOf, db
  <2> QED
    BY <1>3, <2>1 DEF BodyFails, LookupFails, DatabaseLocked, Reply, InsertFresh, TypeOK, db
<1>4. ASSUME Lookup(c) PROVE (TypeOK /\ Issued)'
  <2>1. req[c].token \in Tokens /\ DeviceOf(c) \in Devices
    BY <1>4 DEF Lookup, Usable, TypeOK, DeviceOf
  <2>2. pc' \in [Calls -> PCs] /\ Issued'
    BY <1>4, <2>1, Labels DEF Lookup, Now, TypeOK, Issued, DeviceOf, db
  <2>3. local' \in [Calls -> Locals]
    <3>1. called[req[c].token] \in Nat /\ clock \in 0 .. MaxTime /\ local[c] \in Locals
      BY <2>1 DEF TypeOK
    <3>2. [local[c] EXCEPT !.loaded = called[req[c].token], !.at = clock] \in Locals
      BY <3>1 DEF Locals
    <3> QED
      BY <1>4, <3>2 DEF Lookup, Now, TypeOK
  <2> QED
    BY <1>4, <2>2, <2>3 DEF Lookup, Now, TypeOK, db
<1>5. ASSUME InsertDuplicate(c) \/ ReadDevice(c) PROVE (TypeOK /\ Issued)'
  <2>1. req[c].token \in Tokens /\ DeviceOf(c) \in Devices
    BY <1>5, Labels DEF InsertDuplicate, ReadDevice, TypeOK, Issued
  <2>2. Reload(c) \in Nat /\ count[DeviceOf(c)] \in Nat
    BY <2>1 DEF Reload, TypeOK, Locals
  <2>3. pc' \in [Calls -> PCs] /\ Issued'
    BY <1>5, Labels DEF InsertDuplicate, ReadDevice, TypeOK, Issued, DeviceOf, db
  <2>4. local' \in [Calls -> Locals]
    <3>1. CASE InsertDuplicate(c)
      BY <3>1 DEF InsertDuplicate, TypeOK, Locals
    <3>2. CASE ReadDevice(c)
      BY <3>2, <2>2 DEF ReadDevice, TypeOK, Locals
    <3> QED
      BY <1>5, <3>1, <3>2
  <2> QED
    BY <1>5, <2>3, <2>4 DEF InsertDuplicate, ReadDevice, TypeOK, db
<1>6. ASSUME CommitIngest(c) PROVE (TypeOK /\ Issued)'
  <2>1. req[c].token \in Tokens /\ DeviceOf(c) \in Devices
    BY <1>6, Labels DEF CommitIngest, TypeOK, Issued
  <2>2. Key(c) \in Devices \X EventIds
    BY <2>1, KeyType
  <2>3. CountAfter(c) \in Nat /\ CalledAfter(c) \in Nat /\ local[c].at \in 0 .. MaxTime
    BY <2>1 DEF CountAfter, CalledAfter, TypeOK, Locals
  <2>4. /\ events' \subseteq Devices \X EventIds
        /\ count' \in [Devices -> Nat]
        /\ called' \in [Tokens -> Nat]
        /\ seen' \in [Devices -> 0 .. MaxTime]
    BY <1>6, <2>2, <2>3 DEF CommitIngest, TypeOK
  <2>5. pc' \in [Calls -> PCs] /\ Issued'
    BY <1>6, <2>1, Labels DEF CommitIngest, TypeOK, Issued, DeviceOf
  <2>6. local' \in [Calls -> Locals]
    <3>1. (~enabled[req[c].token]) \in BOOLEAN /\ local[c] \in Locals
      BY <2>1 DEF TypeOK
    <3> DEFINE l == [local[c] EXCEPT !.loaded = 0, !.count = 0, !.late = ~enabled[req[c].token]]
    <3>2. l \in Locals
      BY <3>1 DEF Locals
    <3>3. local' = [local EXCEPT ![c] = l]
      BY <1>6 DEF CommitIngest
    <3> HIDE DEF l
    <3> QED
      BY <3>2, <3>3 DEF TypeOK
  <2> QED
    BY <1>6, <2>4, <2>5, <2>6 DEF CommitIngest, TypeOK
<1>7. UNCHANGED admin
  BY DEF Call, Handler, RateMiss, RateHit, RateLimited, Receive, RateInsert, RateUpdate,
         BodyFails, LookupFails, Lookup, InsertFresh, InsertDuplicate, ReadDevice,
         CommitIngest, DatabaseLocked, Reply
<1>8. RotatesDevice'
  BY <1>7 DEF RotatesDevice
<1>9. (TypeOK /\ Issued)'
  BY <1>1, <1>2, <1>3, <1>4, <1>5, <1>6 DEF Call, Handler
<1> QED
  BY <1>8, <1>9

\* So does every step.
LEMMA TypeStep == TypeInv /\ [Next]_vars => TypeInv'
<1> SUFFICES ASSUME TypeInv, [Next]_vars PROVE TypeInv'
  OBVIOUS
<1> USE DEF TypeInv
<1>1. CASE Tick
  <2>1. clock' \in 0 .. MaxTime
    BY <1>1, ClockAssumption DEF Tick, TypeOK
  <2> QED
    BY <1>1, <2>1 DEF Tick, TypeOK, Issued, RotatesDevice, DeviceOf, db
<1>2. CASE \E c \in Calls : Call(c)
  BY <1>2, TypeCall
<1>3. ASSUME NEW w \in Workers, Crash(w) PROVE TypeInv'
  <2>1. pc' \in [Calls -> PCs] /\ Issued'
    BY <1>3, Labels DEF Crash, TypeOK, Issued, DeviceOf, db
  <2>2. admin' \in [Admins -> AdminState]
    <3>1. Idle(w) \in AdminState
      BY DEF AdminState, Idle
    <3> QED
      BY <1>3, <3>1 DEF Crash, TypeOK
  <2>3. RotatesDevice'
    BY <1>3 DEF Crash, RotatesDevice, Idle
  <2> QED
    BY <1>3, <2>1, <2>2, <2>3 DEF Crash, TypeOK, db
<1>4. ASSUME NEW t \in Tokens, NEW d \in Devices, CreateWebhook(t, d) PROVE TypeInv'
  BY <1>4, NoDeviceAssumption DEF CreateWebhook, Issue, TypeOK, Issued, RotatesDevice, DeviceOf
<1>5. ASSUME NEW a \in Admins, NEW d \in Devices, RotateRead(a, d) PROVE TypeInv'
  <2> DEFINE old == {t \in Tokens : owner[t] = d /\ enabled[t]}
  <2>1. old \in SUBSET Tokens
    OBVIOUS
  <2> HIDE DEF old
  <2>2. admin' = [admin EXCEPT ![a].rotating = TRUE, ![a].device = d, ![a].old = old]
    BY <1>5 DEF RotateRead, old
  <2>3. [admin[a] EXCEPT !.rotating = TRUE, !.device = d, !.old = old] \in AdminState
    BY <2>1 DEF TypeOK, AdminState
  <2>4. admin' \in [Admins -> AdminState]
    BY <2>2, <2>3 DEF TypeOK
  <2>5. RotatesDevice'
    BY <2>2 DEF TypeOK, AdminState, RotatesDevice
  <2> QED
    BY <1>5, <2>4, <2>5 DEF RotateRead, TypeOK, Issued, DeviceOf, db
<1>6. ASSUME NEW a \in Admins, NEW t \in Tokens, RotateCommit(a, t) PROVE TypeInv'
  <2>1. Idle(admin[a].worker) \in AdminState /\ ~Idle(admin[a].worker).rotating
    BY DEF TypeOK, AdminState, Idle
  <2>2. admin' \in [Admins -> AdminState] /\ RotatesDevice'
    BY <1>6, <2>1 DEF RotateCommit, TypeOK, RotatesDevice
  <2>3. admin[a].device \in Devices
    BY <1>6 DEF RotateCommit, RotatesDevice
  <2> QED
    BY <1>6, <2>2, <2>3, NoDeviceAssumption DEF RotateCommit, AfterRotation, Issue, TypeOK, Issued, DeviceOf
<1>7. CASE UNCHANGED vars
  BY <1>7 DEF vars, db, TypeOK, Issued, RotatesDevice, DeviceOf
<1> QED
  BY <1>1, <1>2, <1>3, <1>4, <1>5, <1>6, <1>7 DEF Next

\* TypeOK holds in every reachable state, whatever the number of workers, of
\* requests and of tokens, and on either database.
THEOREM TypeCorrect == Spec => []TypeOK
<1>1. Spec => []TypeInv
  BY TypeInit, TypeStep, PTL DEF Spec
<1>2. TypeInv => TypeOK
  BY DEF TypeInv
<1> QED
  BY <1>1, <1>2, PTL

-----------------------------------------------------------------------------
(* What a step changes, as far as the store is concerned. *)

\* A step of one call leaves the other calls alone, and only its commit
\* writes the event table and the counters.
LEMMA CallFrame ==
    ASSUME TypeInv, NEW c \in Calls, Call(c)
    PROVE  /\ UNCHANGED <<owner, req>>
           /\ pc' = [pc EXCEPT ![c] = pc'[c]]
           /\ \A b \in Calls \ {c} : pc'[b] = pc[b] /\ local'[b] = local[b]
           /\ local'[c].worker = local[c].worker
           /\ CommitIngest(c) \/ UNCHANGED <<events, count, called>>
<1> USE DEF TypeInv, TypeOK, Locals
<1>1. UNCHANGED <<owner, req>>
  BY DEF Call, Handler, RateMiss, RateHit, RateLimited, Receive, RateInsert, RateUpdate,
         BodyFails, LookupFails, Lookup, InsertFresh, InsertDuplicate, ReadDevice,
         CommitIngest, DatabaseLocked, Reply, db
<1>2. pc' = [pc EXCEPT ![c] = pc'[c]]
  <2>1. \A b \in Calls \ {c} : pc'[b] = pc[b]
    BY DEF Call, Handler, RateMiss, RateHit, RateLimited, Receive, RateInsert, RateUpdate,
           BodyFails, LookupFails, Lookup, InsertFresh, InsertDuplicate, ReadDevice,
           CommitIngest, DatabaseLocked, Reply
  <2>2. pc' \in [Calls -> PCs]
    BY TypeCall
  <2> QED
    BY <2>1, <2>2
<1>3. CommitIngest(c) \/ UNCHANGED <<events, count, called>>
  BY DEF Call, Handler, RateMiss, RateHit, RateLimited, Receive, RateInsert, RateUpdate,
         BodyFails, LookupFails, Lookup, InsertFresh, InsertDuplicate, ReadDevice,
         DatabaseLocked, Reply, db
<1>4. (\A b \in Calls \ {c} : local'[b] = local[b]) /\ local'[c].worker = local[c].worker
  <2>1. CASE RateMiss(c) \/ RateHit(c) \/ RateLimited(c)
    BY <2>1 DEF RateMiss, RateHit, RateLimited, Receive
  <2>2. CASE RateUpdate(c)
    BY <2>2 DEF RateUpdate
  <2>3. CASE Lookup(c)
    BY <2>3 DEF Lookup
  <2>4. CASE InsertDuplicate(c)
    BY <2>4 DEF InsertDuplicate
  <2>5. CASE ReadDevice(c)
    BY <2>5 DEF ReadDevice
  <2>6. CASE CommitIngest(c)
    BY <2>6 DEF CommitIngest
  <2>7. CASE RateInsert(c) \/ BodyFails(c) \/ LookupFails(c) \/ InsertFresh(c)
             \/ DatabaseLocked(c) \/ Reply(c)
    BY <2>7 DEF RateInsert, BodyFails, LookupFails, InsertFresh, DatabaseLocked, Reply
  <2> QED
    BY <2>1, <2>2, <2>3, <2>4, <2>5, <2>6, <2>7 DEF Call, Handler
<1> QED
  BY <1>1, <1>2, <1>3, <1>4

\* What the steps that are not of a call have in common: none touches the
\* store, an issued token keeps its device, and a crash ends calls.
Quiet ==
    /\ UNCHANGED <<rate, events, count, called, seen, req, local>>
    /\ clock' \in {clock, clock + 1}
    /\ \A t \in Tokens : owner[t] \in Devices => owner'[t] = owner[t]
    /\ \A c \in Calls : \/ pc'[c] = pc[c]
                        \/ pc[c] \in Active \ {"reply"} /\ pc'[c] = "lost"
                        \/ pc[c] = "reply" /\ pc'[c] = "unanswered"

LEMMA StepKinds ==
    ASSUME TypeInv, [Next]_vars
    PROVE  Quiet \/ \E c \in Calls : Call(c)
<1> USE NoDeviceAssumption DEF Quiet
<1>1. CASE Tick \/ UNCHANGED vars
  BY <1>1 DEF Tick, vars, db
<1>2. ASSUME NEW w \in Workers, Crash(w) PROVE Quiet
  BY <1>2 DEF Crash, db
<1>3. ASSUME NEW t \in Tokens, NEW d \in Devices, CreateWebhook(t, d) PROVE Quiet
  BY <1>3 DEF CreateWebhook, Issue, TypeInv, TypeOK
<1>4. ASSUME NEW a \in Admins, NEW d \in Devices, RotateRead(a, d) PROVE Quiet
  BY <1>4 DEF RotateRead, db
<1>5. ASSUME NEW a \in Admins, NEW t \in Tokens, RotateCommit(a, t) PROVE Quiet
  BY <1>5 DEF RotateCommit, Issue, TypeInv, TypeOK
<1> QED
  BY <1>1, <1>2, <1>3, <1>4, <1>5 DEF Next

-----------------------------------------------------------------------------
(* The event loop excludes: of the calls of one worker at most one runs.   *)

LoopMutex ==
    \A b, c \in Calls :
        pc[b] \in OnLoop /\ pc[c] \in OnLoop /\ local[b].worker = local[c].worker => b = c

LEMMA LoopInit == Init => LoopMutex
BY Labels DEF Init, LoopMutex

LEMMA LoopStep == TypeInv /\ LoopMutex /\ [Next]_vars => LoopMutex'
<1> SUFFICES ASSUME TypeInv, LoopMutex, [Next]_vars PROVE LoopMutex'
  OBVIOUS
<1>1. CASE Quiet
  BY <1>1, Labels DEF Quiet, LoopMutex
<1>2. ASSUME NEW c \in Calls, Call(c) PROVE LoopMutex'
  <2>1. pc[c] \in OnLoop \/ pc'[c] \notin OnLoop \/ LoopFree(local[c].worker)
    BY <1>2, Labels DEF Call, Handler, RateMiss, RateHit, RateLimited, Receive, RateInsert,
       RateUpdate, BodyFails, LookupFails, Lookup, InsertFresh, InsertDuplicate, ReadDevice,
       CommitIngest, DatabaseLocked, Reply, TypeInv, TypeOK
  <2>2. \A b \in Calls \ {c} :
            ~(pc'[b] \in OnLoop /\ pc'[c] \in OnLoop /\ local'[b].worker = local'[c].worker)
    BY <1>2, <2>1, CallFrame DEF LoopMutex, LoopFree
  <2>3. \A a, b \in Calls \ {c} :
            pc'[a] \in OnLoop /\ pc'[b] \in OnLoop /\ local'[a].worker = local'[b].worker => a = b
    BY <1>2, CallFrame DEF LoopMutex
  <2> QED
    BY <2>2, <2>3 DEF LoopMutex
<1> QED
  BY <1>1, <1>2, StepKinds

\* The coroutines of one worker never hold its loop together, however many
\* requests wait at their await: what makes one worker process check its rate
\* limit and ingest one event at a time.
THEOREM LoopExclusive == Spec => []LoopMutex
<1>1. Init => TypeInv /\ LoopMutex
  BY TypeInit, LoopInit
<1>2. TypeInv /\ LoopMutex /\ [Next]_vars => (TypeInv /\ LoopMutex)'
  BY TypeStep, LoopStep
<1> QED
  BY <1>1, <1>2, PTL DEF Spec

-----------------------------------------------------------------------------
(* The store.  StoredByOneCall is not inductive: it needs what is known of *)
(* the calls that are between their insert and their commit.               *)

Early == {"new", "rate_insert", "rate_update", "body", "insert"}
Stores(c) == pc[c] \in Committed /\ ~local[c].dup

\* Before its insert a call is no duplicate.
EarlyFresh == \A c \in Calls : pc[c] \in Early => ~local[c].dup
\* An open transaction's event is not committed, and no other has inserted it.
OpenKeys ==
    /\ \A c \in Calls : InTxn(c) => Key(c) \notin events
    /\ \A b, c \in Calls : InTxn(b) /\ InTxn(c) /\ Key(b) = Key(c) => b = c
\* A duplicate, and a call that committed, has its event in the table.
ClosedKeys ==
    \A c \in Calls :
        pc[c] \in Committed \/ (pc[c] \in {"device", "commit"} /\ local[c].dup)
            => Key(c) \in events
\* Every event was stored by a call, and by one only.
Origin ==
    /\ \A k \in events : \E c \in Calls : Stores(c) /\ Key(c) = k
    /\ \A b, c \in Calls : Stores(b) /\ Stores(c) /\ Key(b) = Key(c) => b = c

StoreInv == EarlyFresh /\ OpenKeys /\ ClosedKeys /\ Origin

LEMMA StoreInit == Init => StoreInv
<1> SUFFICES ASSUME Init PROVE StoreInv
  OBVIOUS
<1>1. \A c \in Calls : pc[c] = "new" /\ ~local[c].dup
  BY DEF Init, NoLocals
<1>2. events = {}
  BY DEF Init
<1> QED
  BY <1>1, <1>2, Labels DEF StoreInv, EarlyFresh, OpenKeys, ClosedKeys, Origin, InTxn, Stores

\* The key of a call past its lookup is fixed.
LEMMA KeyFixed ==
    ASSUME TypeInv, NEW c \in Calls, pc[c] \in AtIngest \cup Committed,
           Quiet \/ UNCHANGED <<owner, req>>
    PROVE  Key(c)' = Key(c)
<1>1. DeviceOf(c) \in Devices /\ req[c].token \in Tokens
  BY DEF TypeInv, TypeOK, Issued
<1>2. DeviceOf(c)' = DeviceOf(c) /\ req'[c] = req[c]
  BY <1>1 DEF DeviceOf, Quiet
<1> QED
  BY <1>2 DEF Key

LEMMA StoreQuiet == ASSUME TypeInv, StoreInv, Quiet PROVE StoreInv'
<1>1. \A c \in Calls : pc[c] \in AtIngest \cup Committed => Key(c)' = Key(c)
  BY KeyFixed
<1>2. \A c \in Calls : InTxn(c)' => InTxn(c) /\ Key(c)' = Key(c)
  BY <1>1, Labels DEF Quiet, InTxn
<1>3. \A c \in Calls : /\ Stores(c)' <=> Stores(c)
                       /\ pc'[c] \in Committed <=> pc[c] \in Committed
  BY Labels DEF Quiet, Stores
<1>4. EarlyFresh'
  BY Labels DEF StoreInv, EarlyFresh, Quiet, Early
<1>5. OpenKeys'
  BY <1>2 DEF StoreInv, OpenKeys, Quiet
<1>6. ClosedKeys'
  BY <1>1, <1>3, Labels DEF StoreInv, ClosedKeys, Quiet
<1>7. Origin'
  <2>1. \A c \in Calls : Stores(c) => Key(c)' = Key(c)
    BY <1>1 DEF Stores
  <2> QED
    BY <2>1, <1>3 DEF StoreInv, Origin, Quiet
<1> QED
  BY <1>4, <1>5, <1>6, <1>7 DEF StoreInv

\* A step of a call that neither enters nor leaves ingest's transaction.
Bystander(c) ==
    /\ UNCHANGED events
    /\ local'[c].dup = local[c].dup
    /\ pc'[c] \in Early => pc[c] \in Early
    /\ pc'[c] \in {"device", "commit"} => pc[c] \in {"device", "commit"}
    /\ pc'[c] \in Committed <=> pc[c] \in Committed

LEMMA CallKinds ==
    ASSUME TypeInv, NEW c \in Calls, Call(c)
    PROVE  InsertFresh(c) \/ InsertDuplicate(c) \/ CommitIngest(c) \/ Bystander(c)
<1> USE Labels DEF Bystander, Early, TypeInv, TypeOK, Locals
<1>1. CASE RateMiss(c) \/ RateHit(c) \/ RateLimited(c)
  BY <1>1 DEF RateMiss, RateHit, RateLimited, Receive, db
<1>2. CASE RateInsert(c) \/ BodyFails(c) \/ LookupFails(c) \/ DatabaseLocked(c) \/ Reply(c)
  BY <1>2 DEF RateInsert, BodyFails, LookupFails, DatabaseLocked, Reply, db
<1>3. CASE RateUpdate(c)
  BY <1>3 DEF RateUpdate
<1>4. CASE Lookup(c)
  BY <1>4 DEF Lookup, db
<1>5. CASE ReadDevice(c)
  BY <1>5 DEF ReadDevice, db
<1> QED
  BY <1>1, <1>2, <1>3, <1>4, <1>5 DEF Call, Handler

LEMMA StoreCall == ASSUME TypeInv, StoreInv, NEW c \in Calls, Call(c) PROVE StoreInv'
<1>1. /\ UNCHANGED <<owner, req>>
      /\ \A b \in Calls \ {c} : pc'[b] = pc[b] /\ local'[b] = local[b]
  BY CallFrame
<1>2. \A b \in Calls : Key(b)' = Key(b)
  BY <1>1 DEF Key, DeviceOf
<1>3. \A b \in Calls \ {c} : (InTxn(b)' <=> InTxn(b)) /\ (Stores(b)' <=> Stores(b))
  BY <1>1 DEF InTxn, Stores
<1>4. CASE InsertFresh(c)
  <2>1. pc[c] = "insert" /\ pc'[c] = "device" /\ UNCHANGED <<events, local>>
    BY <1>4 DEF InsertFresh, db, TypeInv, TypeOK
  <2>2. Key(c) \notin events /\ \A b \in Calls \ {c} : ~(InTxn(b) /\ Key(b) = Key(c))
    BY <1>4 DEF InsertFresh, KeyUndecided, Taken
  <2>3. ~local[c].dup /\ ~Stores(c)' /\ ~Stores(c)
    BY <2>1, Labels DEF StoreInv, EarlyFresh, Early, Stores
  <2>4. EarlyFresh'
    BY <1>1, <2>1 DEF StoreInv, EarlyFresh, Early
  <2>5. OpenKeys'
    BY <1>2, <1>3, <2>1, <2>2 DEF StoreInv, OpenKeys
  <2>6. ClosedKeys'
    BY <1>1, <1>2, <2>1, <2>3, Labels DEF StoreInv, ClosedKeys
  <2>7. Origin'
    BY <1>2, <1>3, <2>1, <2>3 DEF StoreInv, Origin
  <2> QED
    BY <2>4, <2>5, <2>6, <2>7 DEF StoreInv
<1>5. CASE InsertDuplicate(c)
  <2>1. pc[c] = "insert" /\ pc'[c] = "device" /\ UNCHANGED events /\ local'[c].dup
    BY <1>5 DEF InsertDuplicate, db, TypeInv, TypeOK, Locals
  <2>2. Key(c) \in events
    BY <1>5 DEF InsertDuplicate, Taken
  <2>3. ~InTxn(c)' /\ ~Stores(c)' /\ ~Stores(c)
    BY <2>1, Labels DEF InTxn, Stores
  <2>4. EarlyFresh'
    BY <1>1, <2>1 DEF StoreInv, EarlyFresh, Early
  <2>5. OpenKeys'
    BY <1>2, <1>3, <2>1, <2>3 DEF StoreInv, OpenKeys
  <2>6. ClosedKeys'
    BY <1>1, <1>2, <2>1, <2>2 DEF StoreInv, ClosedKeys
  <2>7. Origin'
    BY <1>2, <1>3, <2>1, <2>3 DEF StoreInv, Origin
  <2> QED
    BY <2>4, <2>5, <2>6, <2>7 DEF StoreInv
<1>6. CASE CommitIngest(c)
  <2>1. /\ pc[c] = "commit" /\ pc'[c] = "reply" /\ local'[c].dup = local[c].dup
        /\ events' = IF local[c].dup THEN events ELSE events \cup {Key(c)}
    BY <1>6 DEF CommitIngest, TypeInv, TypeOK, Locals
  <2>2. ~InTxn(c)' /\ (Stores(c)' <=> ~local[c].dup) /\ ~Stores(c) /\ (InTxn(c) <=> ~local[c].dup)
    BY <2>1, Labels DEF InTxn, Stores
  <2>3. Key(c) \in events'
    BY <2>1 DEF StoreInv, ClosedKeys
  <2>4. EarlyFresh'
    BY <1>1, <2>1 DEF StoreInv, EarlyFresh, Early
  <2>5. OpenKeys'
    BY <1>2, <1>3, <2>1, <2>2 DEF StoreInv, OpenKeys
  <2>6. ClosedKeys'
    <3>1. \A b \in Calls \ {c} : Key(b) \in events => Key(b)' \in events'
      BY <1>2, <2>1
    <3> QED
      BY <1>1, <1>2, <2>1, <2>3, <3>1, Labels DEF StoreInv, ClosedKeys
  <2>7. Origin'
    <3>1. \A b \in Calls : Stores(b) => Key(b) \in events
      BY DEF StoreInv, ClosedKeys, Stores
    <3>2. ~local[c].dup => \A b \in Calls : Stores(b) => Key(b) # Key(c)
      BY <2>2, <3>1 DEF StoreInv, OpenKeys
    <3>3. \A k \in events' : \E b \in Calls : Stores(b)' /\ Key(b)' = k
      BY <1>2, <1>3, <2>1, <2>2 DEF StoreInv, Origin
    <3>4. \A a, b \in Calls : Stores(a)' /\ Stores(b)' /\ Key(a)' = Key(b)' => a = b
      BY <1>2, <1>3, <2>2, <3>2 DEF StoreInv, Origin
    <3> QED
      BY <3>3, <3>4 DEF Origin
  <2> QED
    BY <2>4, <2>5, <2>6, <2>7 DEF StoreInv
<1>7. CASE Bystander(c)
  <2>1. (InTxn(c)' => InTxn(c)) /\ (Stores(c)' <=> Stores(c))
    BY <1>7 DEF Bystander, InTxn, Stores
  <2>2. EarlyFresh'
    BY <1>1, <1>7 DEF StoreInv, EarlyFresh, Bystander
  <2>3. OpenKeys'
    BY <1>2, <1>3, <1>7, <2>1 DEF StoreInv, OpenKeys, Bystander
  <2>4. ClosedKeys'
    BY <1>1, <1>2, <1>7 DEF StoreInv, ClosedKeys, Bystander
  <2>5. Origin'
    BY <1>2, <1>3, <1>7, <2>1 DEF StoreInv, Origin, Bystander
  <2> QED
    BY <2>2, <2>3, <2>4, <2>5 DEF StoreInv
<1> QED
  BY <1>4, <1>5, <1>6, <1>7, CallKinds

LEMMA StoreStep == TypeInv /\ StoreInv /\ [Next]_vars => StoreInv'
BY StepKinds, StoreQuiet, StoreCall

\* Exactly-once storage needs neither SQLite's write lock nor a single worker:
\* the unique constraint and the rollback of the losing insert are enough.
THEOREM StoredOnce == Spec => []StoredByOneCall
<1>1. Init => TypeInv /\ StoreInv
  BY TypeInit, StoreInit
<1>2. TypeInv /\ StoreInv /\ [Next]_vars => (TypeInv /\ StoreInv)'
  BY TypeStep, StoreStep
<1>3. StoreInv => StoredByOneCall
  BY DEF StoreInv, ClosedKeys, Origin, Stores, StoredByOneCall
<1> QED
  BY <1>1, <1>2, <1>3, PTL DEF Spec

-----------------------------------------------------------------------------
(* The counter.  devices.webhook_count is read and written back by a       *)
(* transaction that has already inserted its event: where at most one such *)
(* transaction is open, no increment is lost.                              *)

\* SQLite, or one worker process.  (PostgreSQL with several workers is
\* neither, and there TLC finds EventsCounted violated.)
SingleWriter == Dialect = "sqlite" \/ \A v, w \in Workers : v = w

OneTxn == \A b, c \in Calls : InTxn(b) /\ InTxn(c) => b = c
CountRead ==
    \A c \in Calls : pc[c] = "commit" /\ ~local[c].dup => local[c].count = count[DeviceOf(c)]

CountInv == OneTxn /\ CountRead /\ IsFiniteSet(events) /\ EventsCounted

IndInv == TypeInv /\ LoopMutex /\ StoreInv /\ CountInv

LEMMA CountInit == Init => CountInv
<1> SUFFICES ASSUME Init PROVE CountInv
  OBVIOUS
<1>1. \A c \in Calls : pc[c] = "new"
  BY DEF Init
<1>2. OneTxn /\ CountRead
  BY <1>1 DEF OneTxn, CountRead, InTxn
<1>3. IsFiniteSet(events)
  BY FS_EmptySet DEF Init
<1>4. EventsCounted
  <2> SUFFICES ASSUME NEW d \in Devices
               PROVE  count[d] = Cardinality({k \in events : k[1] = d})
    BY DEF EventsCounted
  <2>1. {k \in events : k[1] = d} = {}
    BY DEF Init
  <2> QED
    BY <2>1, FS_EmptySet DEF Init
<1> QED
  BY <1>2, <1>3, <1>4 DEF CountInv

\* When a call inserts, no other transaction is open.
LEMMA InsertAlone ==
    ASSUME SingleWriter, TypeInv, LoopMutex, NEW c \in Calls, InsertFresh(c)
    PROVE  \A b \in Calls \ {c} : ~InTxn(b)
<1>1. CASE Dialect = "sqlite"
  BY <1>1 DEF InsertFresh, CanWrite
<1>2. CASE \A v, w \in Workers : v = w
  <2>1. pc[c] \in OnLoop
    BY Labels DEF InsertFresh
  <2>2. \A b \in Calls : local[b].worker = local[c].worker
    BY <1>2 DEF TypeInv, TypeOK, Locals
  <2>3. \A b \in Calls : InTxn(b) => pc[b] \in OnLoop
    BY Labels DEF InTxn
  <2> QED
    BY <2>1, <2>2, <2>3 DEF LoopMutex
<1> QED
  BY <1>1, <1>2 DEF SingleWriter

\* When a call commits a new event, every other call's transaction is closed.
LEMMA CommitCounts ==
    ASSUME IndInv, NEW c \in Calls, CommitIngest(c)
    PROVE  /\ DeviceOf(c) \in Devices
           /\ Key(c) = <<DeviceOf(c), EventIdOf(DeviceOf(c), req[c].payload)>>
           /\ EventIdOf(DeviceOf(c), req[c].payload) \in EventIds
           /\ local[c].dup => Key(c) \in events /\ UNCHANGED <<events, count>>
           /\ ~local[c].dup => /\ Key(c) \notin events
                               /\ events' = events \cup {Key(c)}
                               /\ count' = [count EXCEPT ![DeviceOf(c)] = @ + 1]
<1>1. pc[c] = "commit"
  BY DEF CommitIngest
<1>2. DeviceOf(c) \in Devices /\ req[c].payload \in Payloads
  BY <1>1, Labels DEF IndInv, TypeInv, TypeOK, Issued
<1>3. EventIdOf(DeviceOf(c), req[c].payload) \in EventIds
  BY <1>2 DEF EventIds
<1>4. ASSUME local[c].dup PROVE Key(c) \in events /\ UNCHANGED <<events, count>>
  BY <1>1, <1>2, <1>4 DEF CommitIngest, CountAfter, IndInv, StoreInv, ClosedKeys, TypeInv, TypeOK
<1>5. ASSUME ~local[c].dup
      PROVE  /\ Key(c) \notin events
             /\ events' = events \cup {Key(c)}
             /\ count' = [count EXCEPT ![DeviceOf(c)] = @ + 1]
  <2>1. InTxn(c)
    BY <1>1, <1>5 DEF InTxn
  <2>2. local[c].count = count[DeviceOf(c)]
    BY <1>1, <1>5 DEF IndInv, CountInv, CountRead
  <2> QED
    BY <1>5, <2>1, <2>2 DEF CommitIngest, CountAfter, IndInv, StoreInv, OpenKeys
<1> QED
  BY <1>2, <1>3, <1>4, <1>5 DEF Key

LEMMA CountQuiet == ASSUME TypeInv, CountInv, Quiet PROVE CountInv'
<1>1. \A c \in Calls : InTxn(c)' => InTxn(c)
  BY Labels DEF Quiet, InTxn
<1>2. OneTxn'
  BY <1>1 DEF CountInv, OneTxn
<1>3. CountRead'
  <2> SUFFICES ASSUME NEW c \in Calls, pc'[c] = "commit", ~local[c].dup
               PROVE  local[c].count = count[DeviceOf(c)']
    BY DEF CountRead, Quiet
  <2>1. pc[c] = "commit"
    BY Labels DEF Quiet
  <2>2. DeviceOf(c)' = DeviceOf(c)
    BY <2>1, Labels DEF TypeInv, TypeOK, Issued, DeviceOf, Quiet
  <2> QED
    BY <2>1, <2>2 DEF CountInv, CountRead
<1> QED
  BY <1>2, <1>3 DEF CountInv, EventsCounted, Quiet

LEMMA CountCall ==
    ASSUME SingleWriter, IndInv, NEW c \in Calls, Call(c)
    PROVE  CountInv'
<1> USE DEF IndInv
<1>1. /\ UNCHANGED <<owner, req>>
      /\ \A b \in Calls \ {c} : pc'[b] = pc[b] /\ local'[b] = local[b]
      /\ CommitIngest(c) \/ UNCHANGED <<events, count, called>>
  BY CallFrame
<1>2. \A b \in Calls \ {c} : InTxn(b)' <=> InTxn(b)
  BY <1>1 DEF InTxn
<1>3. OneTxn'
  <2>1. CASE InsertFresh(c)
    BY <1>2, <2>1, InsertAlone DEF CountInv, OneTxn
  <2>2. CASE InsertDuplicate(c)
    <3>1. ~InTxn(c)'
      BY <2>2 DEF InsertDuplicate, InTxn, TypeInv, TypeOK, Locals
    <3> QED
      BY <1>2, <3>1 DEF CountInv, OneTxn
  <2>3. CASE CommitIngest(c)
    <3>1. ~InTxn(c)'
      BY <2>3 DEF CommitIngest, InTxn, TypeInv, TypeOK
    <3> QED
      BY <1>2, <3>1 DEF CountInv, OneTxn
  <2>4. CASE Bystander(c)
    BY <1>2, <2>4 DEF CountInv, OneTxn, Bystander, InTxn
  <2> QED
    BY <2>1, <2>2, <2>3, <2>4, CallKinds
<1>4. CASE CommitIngest(c)
  <2> DEFINE d == DeviceOf(c)
  <2>1. d \in Devices /\ Key(c)[1] = d
    BY <1>4, CommitCounts
  <2>2. IsFiniteSet(events')
    BY <1>4, CommitCounts, FS_AddElement DEF CountInv
  <2>3. CountRead'
    <3>1. pc'[c] # "commit"
      BY <1>4 DEF CommitIngest, TypeInv, TypeOK
    <3>2. ASSUME NEW b \in Calls \ {c}, pc[b] = "commit", ~local[b].dup PROVE UNCHANGED count
      <4>1. ~InTxn(c)
        BY <3>2 DEF CountInv, OneTxn, InTxn
      <4>2. local[c].dup
        BY <1>4, <4>1 DEF CommitIngest, InTxn
      <4> QED
        BY <1>4, <4>2, CommitCounts
    <3> QED
      BY <1>1, <3>1, <3>2 DEF CountInv, CountRead, DeviceOf
  <2>4. EventsCounted'
    <3>1. CASE local[c].dup
      BY <1>4, <3>1, CommitCounts DEF CountInv, EventsCounted
    <3>2. CASE ~local[c].dup
      <4> SUFFICES ASSUME NEW e \in Devices
                   PROVE  count'[e] = Cardinality({k \in events' : k[1] = e})
        BY DEF EventsCounted
      <4> DEFINE old == {k \in events : k[1] = e}
                 new == {k \in events' : k[1] = e}
      <4>1. IsFiniteSet(old) /\ count[e] = Cardinality(old)
        BY FS_Subset DEF CountInv, EventsCounted
      <4>2. Key(c) \notin old /\ events' = events \cup {Key(c)}
        BY <1>4, <3>2, CommitCounts
      <4>3. CASE e = d
        <5>1. new = old \cup {Key(c)}
          BY <2>1, <4>2, <4>3
        <5>2. Cardinality(new) = Cardinality(old) + 1
          BY <4>1, <4>2, <5>1, FS_AddElement
        <5>3. count'[e] = count[e] + 1
          BY <1>4, <3>2, <4>3, CommitCounts DEF TypeInv, TypeOK
        <5> QED
          BY <4>1, <5>2, <5>3
      <4>4. CASE e # d
        <5>1. new = old
          BY <2>1, <4>2, <4>4
        <5>2. count'[e] = count[e]
          BY <1>4, <3>2, <4>4, CommitCounts DEF TypeInv, TypeOK
        <5> QED
          BY <4>1, <5>1, <5>2
      <4> QED
        BY <4>3, <4>4
    <3> QED
      BY <3>1, <3>2
  <2> QED
    BY <1>3, <2>2, <2>3, <2>4 DEF CountInv
<1>5. CASE UNCHANGED <<events, count>>
  <2>1. CountRead'
    <3>1. CASE ReadDevice(c)
      BY <1>1, <1>5, <3>1 DEF ReadDevice, CountInv, CountRead, DeviceOf, TypeInv, TypeOK, Locals
    <3>2. CASE ~ReadDevice(c)
      <4>1. pc'[c] # "commit"
        BY <3>2, Labels DEF Call, Handler, RateMiss, RateHit, RateLimited, Receive, RateInsert,
           RateUpdate, BodyFails, LookupFails, Lookup, InsertFresh, InsertDuplicate,
           CommitIngest, DatabaseLocked, Reply, TypeInv, TypeOK
      <4> QED
        BY <1>1, <1>5, <4>1 DEF CountInv, CountRead, DeviceOf
    <3> QED
      BY <3>1, <3>2
  <2> QED
    BY <1>3, <1>5, <2>1 DEF CountInv, EventsCounted
<1> QED
  BY <1>1, <1>4, <1>5

LEMMA IndStep == ASSUME SingleWriter PROVE IndInv /\ [Next]_vars => IndInv'
<1> SUFFICES ASSUME IndInv, [Next]_vars PROVE IndInv'
  OBVIOUS
<1>1. (TypeInv /\ LoopMutex /\ StoreInv)'
  BY TypeStep, LoopStep, StoreStep DEF IndInv
<1>2. CountInv'
  BY StepKinds, CountQuiet, CountCall DEF IndInv
<1> QED
  BY <1>1, <1>2 DEF IndInv

\* With one worker, or on SQLite with any number of workers, the counter of a
\* device is the number of its events at every moment.
THEOREM EventsAreCounted == ASSUME SingleWriter PROVE Spec => []EventsCounted
<1>1. Init => IndInv
  BY TypeInit, LoopInit, StoreInit, CountInit DEF IndInv
<1>2. IndInv /\ [Next]_vars => IndInv'
  BY IndStep
<1>3. IndInv => EventsCounted
  BY DEF IndInv, CountInv
<1> QED
  BY <1>1, <1>2, <1>3, PTL DEF Spec

-----------------------------------------------------------------------------
(* The refinement: a commit is a delivery, every other step a stutter.     *)

LEMMA InboxInit == Init => Inbox!Init
<1> SUFFICES ASSUME Init PROVE Inbox!Init
  OBVIOUS
<1>1. \A c \in Calls : Outcome(c) = [key |-> <<>>, fresh |-> FALSE]
  BY Labels DEF Init, Outcome
<1> QED
  BY <1>1 DEF Init, Inbox!Init, Inbox!Pending

\* A step that commits nothing changes no outcome.
LEMMA InboxStutter ==
    ASSUME TypeInv, UNCHANGED <<events, count>>, Quiet \/ UNCHANGED <<owner, req>>,
           \A c \in Calls : pc'[c] \in Committed <=> pc[c] \in Committed,
           \A c \in Calls : pc[c] \in Committed => local'[c].dup = local[c].dup
    PROVE  UNCHANGED Inbox!vars
<1>1. \A c \in Calls : Outcome(c)' = Outcome(c)
  BY KeyFixed DEF Outcome
<1> QED
  BY <1>1 DEF Inbox!vars

LEMMA InboxCommit ==
    ASSUME IndInv, NEW c \in Calls, Call(c), CommitIngest(c)
    PROVE  Inbox!Next
<1> DEFINE d == DeviceOf(c)
           e == EventIdOf(d, req[c].payload)
           settled == [b \in Calls |-> Outcome(b)]
<1>1. d \in Devices /\ e \in EventIds /\ Key(c) = <<d, e>>
  BY CommitCounts
<1>2. /\ UNCHANGED <<owner, req>>
      /\ \A b \in Calls \ {c} : pc'[b] = pc[b] /\ local'[b] = local[b]
  BY CallFrame DEF IndInv
<1>3. \A b \in Calls : Key(b)' = Key(b)
  BY <1>2 DEF Key, DeviceOf
<1>4. pc[c] \notin Committed /\ pc'[c] \in Committed /\ local'[c].dup = local[c].dup
  BY Labels DEF CommitIngest, IndInv, TypeInv, TypeOK, Locals
<1>5. settled' = [settled EXCEPT ![c] = [key |-> <<d, e>>, fresh |-> ~local[c].dup]]
  <2>1. \A b \in Calls \ {c} : Outcome(b)' = Outcome(b)
    BY <1>2, <1>3 DEF Outcome
  <2>2. Outcome(c)' = [key |-> <<d, e>>, fresh |-> ~local[c].dup]
    BY <1>1, <1>3, <1>4 DEF Outcome
  <2> QED
    BY <2>1, <2>2
<1>6. settled[c] = [key |-> <<>>, fresh |-> FALSE]
  BY <1>4 DEF Outcome
<1>7. CASE local[c].dup
  <2>1. Inbox!Ignore(c, d, e)
    BY <1>1, <1>5, <1>6, <1>7, CommitCounts DEF Inbox!Ignore, Inbox!Pending
  <2> QED
    BY <1>1, <2>1 DEF Inbox!Next
<1>8. CASE ~local[c].dup
  <2>1. Inbox!Accept(c, d, e)
    BY <1>1, <1>5, <1>6, <1>8, CommitCounts DEF Inbox!Accept, Inbox!Pending
  <2> QED
    BY <1>1, <2>1 DEF Inbox!Next
<1> QED
  BY <1>7, <1>8

LEMMA InboxStep == IndInv /\ [Next]_vars => [Inbox!Next]_(Inbox!vars)
<1> SUFFICES ASSUME IndInv, [Next]_vars PROVE [Inbox!Next]_(Inbox!vars)
  OBVIOUS
<1>1. CASE Quiet
  BY <1>1, Labels, InboxStutter DEF Quiet, IndInv
<1>2. ASSUME NEW c \in Calls, Call(c) PROVE [Inbox!Next]_(Inbox!vars)
  <2>1. CASE CommitIngest(c)
    BY <1>2, <2>1, InboxCommit
  <2>2. CASE ~CommitIngest(c)
    <3>1. /\ UNCHANGED <<owner, req, events, count>>
          /\ \A b \in Calls \ {c} : pc'[b] = pc[b] /\ local'[b] = local[b]
      BY <1>2, <2>2, CallFrame DEF IndInv
    <3>2. pc'[c] \in Committed <=> pc[c] \in Committed
      BY <1>2, <2>2, CallKinds, Labels DEF IndInv, InsertFresh, InsertDuplicate, Bystander,
         TypeInv, TypeOK
    <3>3. pc[c] \in Committed => local'[c].dup = local[c].dup
      BY <1>2, <2>2, CallKinds, Labels DEF IndInv, InsertFresh, InsertDuplicate, Bystander
    <3> QED
      BY <3>1, <3>2, <3>3, InboxStutter DEF IndInv
  <2> QED
    BY <2>1, <2>2
<1> QED
  BY <1>1, <1>2, StepKinds DEF IndInv

\* With one worker, or on SQLite, the endpoint with its rate limit, retries,
\* crashes and rotations is an idempotent inbox.
THEOREM ImplementsInbox == ASSUME SingleWriter PROVE Spec => InboxSpec
<1>1. Init => IndInv
  BY TypeInit, LoopInit, StoreInit, CountInit DEF IndInv
<1>2. IndInv /\ [Next]_vars => IndInv'
  BY IndStep
<1> QED
  BY <1>1, <1>2, InboxInit, InboxStep, PTL DEF Spec, InboxSpec, Inbox!Spec

-----------------------------------------------------------------------------
(* Revocation. *)

\* Nothing sets `enabled` of a row that exists.
LEMMA RevokedStays ==
    ASSUME TypeInv, [Next]_vars, NEW t \in Tokens, owner[t] # NoDevice, ~enabled[t]
    PROVE  ~enabled'[t]
<1>1. CASE Tick \/ UNCHANGED vars
  BY <1>1 DEF Tick, vars, db
<1>2. ASSUME NEW c \in Calls, Call(c) PROVE ~enabled'[t]
  BY <1>2 DEF Call, Handler, RateMiss, RateHit, RateLimited, Receive, RateInsert,
     RateUpdate, BodyFails, LookupFails, Lookup, InsertFresh, InsertDuplicate, ReadDevice,
     CommitIngest, DatabaseLocked, Reply, db
<1>3. ASSUME NEW w \in Workers, Crash(w) PROVE ~enabled'[t]
  BY <1>3 DEF Crash, db
<1>4. ASSUME NEW u \in Tokens, NEW d \in Devices, CreateWebhook(u, d) PROVE ~enabled'[t]
  BY <1>4 DEF CreateWebhook, Issue, TypeInv, TypeOK
<1>5. ASSUME NEW a \in Admins, NEW d \in Devices, RotateRead(a, d) PROVE ~enabled'[t]
  BY <1>5 DEF RotateRead, db
<1>6. ASSUME NEW a \in Admins, NEW u \in Tokens, RotateCommit(a, u) PROVE ~enabled'[t]
  BY <1>6 DEF RotateCommit, AfterRotation, Issue, TypeInv, TypeOK
<1> QED
  BY <1>1, <1>2, <1>3, <1>4, <1>5, <1>6 DEF Next

\* No step, of any number of calls and rotations, enables a token again: a
\* commit writes the counters of the webhook row and not its flag.
THEOREM RevocationIsFinal == Spec => RevokedForGood
<1>1. TypeInv /\ [Next]_vars =>
          [\A t \in Tokens : owner[t] # NoDevice /\ ~enabled[t] => ~enabled'[t]]_vars
  BY RevokedStays
<1> QED
  BY <1>1, TypeInit, TypeStep, PTL DEF Spec, RevokedForGood
=============================================================================
