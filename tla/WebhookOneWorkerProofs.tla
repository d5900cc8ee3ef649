----------------------- MODULE WebhookOneWorkerProofs -----------------------
(***************************************************************************)
(* Theorems about WebhookIngest as docker/entrypoint.sh deploys it, with   *)
(* one worker process, and about what a worker more costs.  Whatever the   *)
(* code reads and writes back without a lock, it does while it holds the   *)
(* event loop; with one worker there is one loop, and nobody else is       *)
(* between such a read and its write.                                      *)
(***************************************************************************)
EXTENDS WebhookIngestProofs

OneWorker == \A v, w \in Workers : v = w

\* A call that takes a step, other than to be answered, is alone on the loop.
LEMMA AloneOnLoop ==
    ASSUME OneWorker, TypeInv, LoopMutex, NEW c \in Calls, Call(c), ~Reply(c)
    PROVE  \A b \in Calls \ {c} : pc[b] \notin OnLoop
<1>1. \A b \in Calls : local[b].worker = local[c].worker
  BY DEF OneWorker, TypeInv, TypeOK, Locals
<1>2. pc[c] \in OnLoop \/ LoopFree(local[c].worker)
  BY Labels DEF Call, Handler, RateMiss, RateHit, RateLimited, Receive, RateInsert, RateUpdate,
     BodyFails, LookupFails, Lookup, InsertFresh, InsertDuplicate, ReadDevice, CommitIngest,
     DatabaseLocked
<1> QED
  BY <1>1, <1>2 DEF LoopMutex, LoopFree

-----------------------------------------------------------------------------
(* Revocation.  This one holds for any number of workers.                  *)

\* A call that is ingested, or was, although its token is revoked by then.
Behind(c) ==
    \/ pc[c] \in AtIngest /\ ~enabled[req[c].token]
    \/ pc[c] \in Committed /\ local[c].late

\* Of the calls with one token at most one per worker is behind: the one that had
\* the loop at the revocation.  A token that was used too late stays revoked.
LagInv ==
    /\ \A c \in Calls : pc[c] \in Committed /\ local[c].late => ~enabled[req[c].token]
    /\ \A b, c \in Calls :
          Behind(b) /\ Behind(c) /\ req[b].token = req[c].token
                    /\ local[b].worker = local[c].worker => b = c

\* A call that finds its token enabled is not behind, and a call that is behind
\* was so before its step.
LEMMA LagCall ==
    ASSUME TypeInv, LagInv, NEW c \in Calls, Call(c)
    PROVE  LagInv'
<1>1. /\ UNCHANGED <<owner, req>>
      /\ \A b \in Calls \ {c} : pc'[b] = pc[b] /\ local'[b] = local[b]
      /\ local'[c].worker = local[c].worker
  BY CallFrame
<1>2. UNCHANGED enabled
  BY DEF Call, Handler, RateMiss, RateHit, RateLimited, Receive, RateInsert, RateUpdate,
     BodyFails, LookupFails, Lookup, InsertFresh, InsertDuplicate, ReadDevice, CommitIngest,
     DatabaseLocked, Reply, db
<1>3. Behind(c)' => Behind(c)
  <2>1. CASE CommitIngest(c)
    <3>1. pc[c] \in AtIngest /\ pc'[c] = "reply" /\ local'[c].late = ~enabled[req[c].token]
      BY <2>1, Labels DEF CommitIngest, TypeInv, TypeOK, Locals
    <3> QED
      BY <1>1, <1>2, <3>1, Labels DEF Behind
  <2>2. CASE Lookup(c)
    <3>1. pc'[c] = "insert" /\ enabled[req[c].token]
      BY <2>2 DEF Lookup, Usable, TypeInv, TypeOK
    <3> QED
      BY <1>1, <1>2, <3>1, Labels DEF Behind
  <2>3. CASE ~CommitIngest(c) /\ ~Lookup(c)
    <3>1. /\ pc'[c] \in AtIngest => pc[c] \in AtIngest
          /\ pc'[c] \in Committed => pc[c] \in Committed /\ local'[c].late = local[c].late
      BY <2>3, Labels DEF Call, Handler, RateMiss, RateHit, RateLimited, Receive, RateInsert,
         RateUpdate, BodyFails, LookupFails, InsertFresh, InsertDuplicate, ReadDevice,
         DatabaseLocked, Reply, TypeInv, TypeOK, Locals
    <3> QED
      BY <1>1, <1>2, <3>1 DEF Behind
  <2> QED
    BY <2>1, <2>2, <2>3
<1>4. \A b \in Calls : Behind(b)' => Behind(b)
  BY <1>1, <1>2, <1>3 DEF Behind
<1>5. \A b \in Calls : Behind(b) => ~enabled[req[b].token]
  BY DEF LagInv, Behind
<1>6. \A b \in Calls : req'[b] = req[b] /\ local'[b].worker = local[b].worker
  BY <1>1
<1>7. \A b \in Calls : pc'[b] \in Committed /\ local'[b].late => Behind(b)'
  BY DEF Behind
<1> QED
  BY <1>2, <1>4, <1>5, <1>6, <1>7 DEF LagInv

\* A revocation finds nobody behind, and one call per worker on its way.
LEMMA LagQuiet ==
    ASSUME TypeInv, LoopMutex, LagInv, [Next]_vars, Quiet
    PROVE  LagInv'
<1>1. /\ UNCHANGED <<req, local>>
      /\ \A c \in Calls : /\ pc'[c] \in AtIngest => pc[c] \in AtIngest
                          /\ pc'[c] \in Committed => pc[c] \in Committed
  BY Labels DEF Quiet
<1>2. ASSUME NEW c \in Calls, pc[c] \in AtIngest \cup Committed, ~enabled[req[c].token]
      PROVE  ~enabled'[req[c].token]
  <2>1. req[c].token \in Tokens /\ owner[req[c].token] # NoDevice
    BY <1>2, NoDeviceAssumption DEF TypeInv, TypeOK, Issued, DeviceOf
  <2> QED
    BY <1>2, <2>1, RevokedStays
<1>3. \A c \in Calls : pc'[c] \in Committed /\ local'[c].late => ~enabled'[req'[c].token]
  BY <1>1, <1>2 DEF LagInv
<1>4. ASSUME NEW b \in Calls, NEW c \in Calls, Behind(b)', Behind(c)',
             req'[b].token = req'[c].token, local'[b].worker = local'[c].worker
      PROVE  b = c
  <2>1. req[b].token = req[c].token /\ local[b].worker = local[c].worker
    BY <1>1, <1>4
  <2>2. /\ pc[b] \in AtIngest \/ (pc[b] \in Committed /\ local[b].late)
        /\ pc[c] \in AtIngest \/ (pc[c] \in Committed /\ local[c].late)
    BY <1>1, <1>4 DEF Behind
  <2>3. CASE enabled[req[b].token]
    <3>1. pc[b] \in AtIngest /\ pc[c] \in AtIngest
      BY <2>1, <2>2, <2>3 DEF LagInv
    <3> QED
      BY <2>1, <3>1 DEF LoopMutex, OnLoop
  <2>4. CASE ~enabled[req[b].token]
    <3>1. Behind(b) /\ Behind(c)
      BY <2>1, <2>2, <2>4 DEF Behind
    <3> QED
      BY <2>1, <3>1 DEF LagInv
  <2> QED
    BY <2>3, <2>4
<1> QED
  BY <1>3, <1>4 DEF LagInv

\* Of all the calls with a token at most one per worker process is ingested after
\* the token was revoked: from its lookup to its commit a call keeps the loop, and
\* whoever waits for its body looks the token up afterwards.
THEOREM RevocationIsPrompt == ASSUME IsFiniteSet(Workers) PROVE Spec => []RevocationLag
<1> DEFINE I == TypeInv /\ LoopMutex /\ LagInv
<1>1. I => RevocationLag
  <2> SUFFICES ASSUME I, NEW t \in Tokens
               PROVE  Cardinality({c \in Calls :
                          /\ req[c].token = t
                          /\ \/ pc[c] \in AtIngest /\ ~enabled[t]
                             \/ pc[c] \in Committed /\ local[c].late}) <= Cardinality(Workers)
    BY DEF RevocationLag
  <2> DEFINE behind == {c \in Calls :
                          /\ req[c].token = t
                          /\ \/ pc[c] \in AtIngest /\ ~enabled[t]
                             \/ pc[c] \in Committed /\ local[c].late}
             workerOf == [c \in behind |-> local[c].worker]
  <2>1. workerOf \in [behind -> Workers]
    BY DEF TypeInv, TypeOK, Locals
  <2>2. \A b, c \in behind : workerOf[b] = workerOf[c] => b = c
    BY DEF LagInv, Behind
  <2>3. workerOf \in Injection(behind, Workers)
    BY <2>1, <2>2 DEF Injection, IsInjective
  <2> QED
    BY <2>3, FS_Injection
<1>2. Init => I
  <2> SUFFICES ASSUME Init PROVE LagInv
    BY TypeInit, LoopInit
  <2> QED
    BY Labels DEF Init, LagInv, Behind
<1>3. I /\ [Next]_vars => I'
  <2> SUFFICES ASSUME I, [Next]_vars PROVE LagInv'
    BY TypeStep, LoopStep
  <2> QED
    BY StepKinds, LagCall, LagQuiet
<1> QED
  BY <1>1, <1>2, <1>3, PTL DEF Spec

-----------------------------------------------------------------------------
(* last_seen_at. *)

\* No time is of the future, and what a call will write is not older than
\* what is there.
SeenInv ==
    /\ \A d \in Devices : seen[d] <= clock
    /\ \A c \in Calls : pc[c] \in AtIngest =>
          local[c].at <= clock /\ seen[DeviceOf(c)] <= local[c].at

LEMMA SeenQuiet == ASSUME TypeInv, SeenInv, Quiet PROVE SeenInv'
<1>1. clock \in Nat /\ clock' >= clock /\ clock' \in Nat
  BY ClockAssumption DEF TypeInv, TypeOK, Quiet
<1>2. \A d \in Devices : seen[d] \in Nat
  BY ClockAssumption DEF TypeInv, TypeOK
<1>3. \A d \in Devices : seen'[d] <= clock'
  BY <1>1, <1>2 DEF Quiet, SeenInv
<1>4. ASSUME NEW c \in Calls, pc'[c] \in AtIngest
      PROVE  local'[c].at <= clock' /\ seen'[DeviceOf(c)'] <= local'[c].at
  <2>1. pc[c] \in AtIngest
    BY <1>4, Labels DEF Quiet
  <2>2. DeviceOf(c)' = DeviceOf(c) /\ seen' = seen /\ local' = local
    BY <2>1 DEF TypeInv, TypeOK, Issued, DeviceOf, Quiet
  <2>3. local[c].at \in Nat
    BY ClockAssumption DEF TypeInv, TypeOK, Locals
  <2> QED
    BY <1>1, <2>1, <2>2, <2>3 DEF SeenInv
<1> QED
  BY <1>3, <1>4 DEF SeenInv

\* What a call does to last_seen_at, and that it does not go back.
LEMMA SeenCall ==
    ASSUME OneWorker, TypeInv, LoopMutex, SeenInv, NEW c \in Calls, Call(c)
    PROVE  SeenInv' /\ \A d \in Devices : seen'[d] >= seen[d]
<1>1. /\ UNCHANGED <<owner, req>>
      /\ \A b \in Calls \ {c} : pc'[b] = pc[b] /\ local'[b] = local[b]
  BY CallFrame
<1>2. \A b \in Calls : DeviceOf(b)' = DeviceOf(b)
  BY <1>1 DEF DeviceOf
<1>3. \A d \in Devices : seen[d] \in Nat /\ seen[d] <= clock /\ clock \in Nat
  BY ClockAssumption DEF SeenInv, TypeInv, TypeOK
<1>4. CASE CommitIngest(c)
  <2>1. /\ pc[c] = "commit" /\ pc'[c] = "reply" /\ clock' = clock
        /\ seen' = [seen EXCEPT ![DeviceOf(c)] = local[c].at]
    BY <1>4 DEF CommitIngest, TypeInv, TypeOK
  <2>2. local[c].at <= clock /\ seen[DeviceOf(c)] <= local[c].at
    BY <2>1, Labels DEF SeenInv
  <2>3. \A d \in Devices : seen'[d] >= seen[d] /\ seen'[d] <= clock
    BY <1>3, <2>1, <2>2 DEF TypeInv, TypeOK
  <2>4. ~Reply(c)
    BY <2>1 DEF Reply
  <2>5. \A b \in Calls : pc'[b] \notin AtIngest
    BY <1>1, <2>1, <2>4, AloneOnLoop, Labels
  <2> QED
    BY <2>1, <2>3, <2>5 DEF SeenInv
<1>5. CASE ~CommitIngest(c)
  <2>1. seen' = seen /\ clock' = clock
    BY <1>5 DEF Call, Handler, RateMiss, RateHit, RateLimited, Receive, RateInsert, RateUpdate,
       BodyFails, LookupFails, Lookup, InsertFresh, InsertDuplicate, ReadDevice,
       DatabaseLocked, Reply, db
  <2>2. CASE Lookup(c)
    <3>1. local'[c].at = clock
      BY <2>2 DEF Lookup, Now, TypeInv, TypeOK, Locals
    <3>2. DeviceOf(c) \in Devices
      BY <2>2 DEF Lookup, Usable, TypeInv, TypeOK, DeviceOf
    <3> QED
      BY <1>1, <1>2, <1>3, <2>1, <3>1, <3>2 DEF SeenInv
  <2>3. CASE ~Lookup(c)
    <3>1. pc'[c] \in AtIngest => pc[c] \in AtIngest /\ local'[c].at = local[c].at
      BY <1>5, <2>3, Labels DEF Call, Handler, RateMiss, RateHit, RateLimited, Receive, RateInsert,
         RateUpdate, BodyFails, LookupFails, InsertFresh, InsertDuplicate, ReadDevice,
         DatabaseLocked, Reply, TypeInv, TypeOK, Locals
    <3> QED
      BY <1>1, <1>2, <1>3, <2>1, <3>1 DEF SeenInv
  <2> QED
    BY <2>2, <2>3
<1> QED
  BY <1>4, <1>5

\* With one worker last_seen_at of a device never goes back.
THEOREM SeenNeverGoesBack == ASSUME OneWorker PROVE Spec => SeenMonotone
<1> DEFINE I == TypeInv /\ LoopMutex /\ SeenInv
<1>1. Init => I
  <2> SUFFICES ASSUME Init PROVE SeenInv
    BY TypeInit, LoopInit
  <2> QED
    BY Labels DEF Init, SeenInv
<1>2. I /\ [Next]_vars => I' /\ \A d \in Devices : seen'[d] >= seen[d]
  <2> SUFFICES ASSUME I, [Next]_vars PROVE SeenInv' /\ \A d \in Devices : seen'[d] >= seen[d]
    BY TypeStep, LoopStep
  <2>1. CASE Quiet
    <3>1. \A d \in Devices : seen[d] \in Nat /\ seen'[d] = seen[d]
      BY <2>1, ClockAssumption DEF Quiet, TypeInv, TypeOK
    <3> QED
      BY <2>1, <3>1, SeenQuiet
  <2> QED
    BY <2>1, StepKinds, SeenCall
<1>3. I /\ [Next]_vars => [\A d \in Devices : seen'[d] >= seen[d]]_vars
  BY <1>2
<1> QED
  BY <1>1, <1>2, <1>3, PTL DEF Spec, SeenMonotone

-----------------------------------------------------------------------------
(* The rate limiter. *)

PrefixOf(c) == Prefix[req[c].token]
Passed == {"body", "unauthorized"} \cup AtIngest \cup Committed
AdmittedOf(p, w) ==
    {c \in Calls : pc[c] \in Passed /\ PrefixOf(c) = p /\ local[c].window = w}

\* The count that a call in the limiter has read is the row's, and leaves room
\* for one; a call about to insert the row found none.
RateRead == \A c \in Calls :
    /\ pc[c] \in AtRate =>
          local[c].got = rate[PrefixOf(c)][local[c].window] /\ local[c].got < Limit
    /\ pc[c] = "rate_insert" => local[c].got = 0

\* A row counts every call that got past it, and stops at the limit.  (It may
\* count more: calls that failed later.)
RateCounts == \A p \in Prefixes, w \in Windows :
    Cardinality(AdmittedOf(p, w)) <= rate[p][w] /\ rate[p][w] <= Limit

RateInv == RateRead /\ RateCounts

LEMMA AdmittedFinite ==
    ASSUME IsFiniteSet(Calls)
    PROVE  \A p, w : IsFiniteSet(AdmittedOf(p, w)) /\ Cardinality(AdmittedOf(p, w)) \in Nat
<1>1. \A p, w : AdmittedOf(p, w) \in SUBSET Calls
  BY DEF AdmittedOf
<1> QED
  BY <1>1, FS_Subset, FS_CardinalityType

\* A step that writes no row keeps the counts if it lets no call in.
LEMMA RateCountsKept ==
    ASSUME IsFiniteSet(Calls), TypeInv, RateCounts, rate' = rate,
           \A p \in Prefixes, w \in Windows : AdmittedOf(p, w)' \subseteq AdmittedOf(p, w)
    PROVE  RateCounts'
<1> SUFFICES ASSUME NEW p \in Prefixes, NEW w \in Windows
             PROVE  Cardinality(AdmittedOf(p, w)') <= rate[p][w] /\ rate[p][w] <= Limit
  BY DEF RateCounts
<1>1. IsFiniteSet(AdmittedOf(p, w)) /\ Cardinality(AdmittedOf(p, w)) \in Nat
  BY AdmittedFinite
<1>2. Cardinality(AdmittedOf(p, w)') <= Cardinality(AdmittedOf(p, w))
  BY <1>1, FS_Subset
<1>3. Cardinality(AdmittedOf(p, w)') \in Nat
  BY <1>1, FS_Subset, FS_CardinalityType
<1>4. rate[p][w] \in Nat
  BY DEF TypeInv, TypeOK
<1> QED
  BY <1>1, <1>2, <1>3, <1>4 DEF RateCounts

LEMMA RateQuiet == ASSUME IsFiniteSet(Calls), TypeInv, RateInv, Quiet PROVE RateInv'
<1>1. RateRead'
  BY Labels DEF RateInv, RateRead, Quiet, AtRate, PrefixOf
<1>2. \A p \in Prefixes, w \in Windows : AdmittedOf(p, w)' \subseteq AdmittedOf(p, w)
  BY Labels DEF AdmittedOf, PrefixOf, Quiet, Passed
<1>3. RateCounts'
  BY <1>2, RateCountsKept DEF RateInv, Quiet
<1> QED
  BY <1>1, <1>3 DEF RateInv

\* The SELECT of the row.
LEMMA RateReceive ==
    ASSUME IsFiniteSet(Calls), OneWorker, TypeInv, LoopMutex, RateInv, NEW c \in Calls,
           RateMiss(c) \/ RateHit(c) \/ RateLimited(c)
    PROVE  RateInv'
<1>1. PICK label \in {"rate_insert", "rate_update", "limited"} :
         /\ Receive(c, label)
         /\ label = "rate_insert" => RateCount(c) = 0
         /\ label # "limited" => RateCount(c) < Limit
  <2>1. RateCount(c) \in Nat
    BY WindowType, PrefixAssumption DEF RateCount, TypeInv, TypeOK
  <2> QED
    BY <2>1, LimitAssumption DEF RateMiss, RateHit, RateLimited, OverLimit
<1>2. /\ pc[c] = "new" /\ pc'[c] = label
      /\ local'[c].got = RateCount(c) /\ local'[c].window = Window(clock)
      /\ \A b \in Calls \ {c} : pc'[b] = pc[b] /\ local'[b] = local[b]
      /\ UNCHANGED <<rate, req>>
  BY <1>1 DEF Receive, db, TypeInv, TypeOK, Locals
<1>3. \A b \in Calls \ {c} : pc[b] \notin AtRate
  <2>1. Call(c) /\ ~Reply(c)
    BY <1>2 DEF Call, Reply
  <2> QED
    BY <2>1, AloneOnLoop DEF OnLoop
<1>4. RateRead'
  BY <1>1, <1>2, <1>3 DEF RateRead, AtRate, PrefixOf, RateCount
<1>5. \A p \in Prefixes, w \in Windows : AdmittedOf(p, w)' \subseteq AdmittedOf(p, w)
  <2>1. pc'[c] \notin Passed
    BY <1>2, Labels DEF Passed
  <2> QED
    BY <1>2, <2>1 DEF AdmittedOf, PrefixOf
<1> QED
  BY <1>2, <1>4, <1>5, RateCountsKept DEF RateInv

\* The INSERT or UPDATE: the row counts the call that it lets in.
LEMMA RateAdmit ==
    ASSUME IsFiniteSet(Calls), OneWorker, TypeInv, LoopMutex, RateInv, NEW c \in Calls,
           RateInsert(c) \/ RateUpdate(c)
    PROVE  RateInv'
<1> DEFINE p0 == PrefixOf(c)
           w0 == local[c].window
<1>1. p0 \in Prefixes /\ w0 \in Windows /\ local[c].got \in Nat /\ rate[p0][w0] \in Nat
  BY PrefixAssumption DEF PrefixOf, TypeInv, TypeOK, Locals
<1>2. pc[c] \in AtRate /\ local[c].got = rate[p0][w0] /\ local[c].got < Limit
  BY DEF RateInsert, RateUpdate, AtRate, RateInv, RateRead
<1>3. SetRate(c, rate[p0][w0] + 1) /\ pc' = [pc EXCEPT ![c] = "body"] /\ req' = req
  <2>1. CASE RateInsert(c)
    <3>1. rate[p0][w0] = 0
      BY <2>1, <1>2 DEF RateInsert, RateInv, RateRead
    <3> QED
      BY <2>1, <3>1 DEF RateInsert, PrefixOf
  <2>2. CASE RateUpdate(c)
    BY <2>2, <1>2 DEF RateUpdate
  <2> QED
    BY <2>1, <2>2
<1>4. /\ pc'[c] = "body"
      /\ \A b \in Calls \ {c} : pc'[b] = pc[b] /\ local'[b] = local[b]
      /\ local'[c].window = w0
  <2>1. Call(c)
    BY DEF Call, Handler
  <2>2. local'[c].window = w0
    BY DEF RateInsert, RateUpdate, TypeInv, TypeOK, Locals
  <2> QED
    BY <1>3, <2>1, <2>2, CallFrame DEF TypeInv, TypeOK
<1>5. /\ rate'[p0][w0] = rate[p0][w0] + 1
      /\ \A p \in Prefixes, w \in Windows : <<p, w>> # <<p0, w0>> => rate'[p][w] = rate[p][w]
  BY <1>1, <1>3 DEF SetRate, PrefixOf, TypeInv, TypeOK
<1>6. \A b \in Calls : pc'[b] \notin AtRate
  <2>1. Call(c) /\ ~Reply(c)
    BY <1>2 DEF Call, Handler, Reply, AtRate
  <2> QED
    BY <1>4, <2>1, AloneOnLoop DEF OnLoop, AtRate
<1>7. RateRead'
  BY <1>6 DEF RateRead, AtRate
<1>8. RateCounts'
  <2> SUFFICES ASSUME NEW p \in Prefixes, NEW w \in Windows
               PROVE  Cardinality(AdmittedOf(p, w)') <= rate'[p][w] /\ rate'[p][w] <= Limit
    BY DEF RateCounts
  <2>1. /\ IsFiniteSet(AdmittedOf(p, w)) /\ Cardinality(AdmittedOf(p, w)) \in Nat
        /\ Cardinality(AdmittedOf(p, w)) <= rate[p][w] /\ rate[p][w] <= Limit
        /\ rate[p][w] \in Nat
    BY AdmittedFinite DEF RateInv, RateCounts, TypeInv, TypeOK
  <2>2. c \notin AdmittedOf(p, w)
    BY <1>2, Labels DEF AdmittedOf, Passed, AtRate
  <2>3. CASE p = p0 /\ w = w0
    <3>1. AdmittedOf(p, w)' = AdmittedOf(p, w) \cup {c}
      BY <1>3, <1>4, <2>3 DEF AdmittedOf, PrefixOf, Passed
    <3>2. Cardinality(AdmittedOf(p, w)') = Cardinality(AdmittedOf(p, w)) + 1
      BY <2>1, <2>2, <3>1, FS_AddElement
    <3> QED
      BY <1>1, <1>2, <1>5, <2>1, <2>3, <3>2, LimitAssumption
  <2>4. CASE ~(p = p0 /\ w = w0)
    <3>1. AdmittedOf(p, w)' = AdmittedOf(p, w)
      BY <1>3, <1>4, <2>2, <2>4 DEF AdmittedOf, PrefixOf
    <3>2. rate'[p][w] = rate[p][w]
      BY <1>5, <2>4
    <3> QED
      BY <2>1, <3>1, <3>2
  <2> QED
    BY <2>3, <2>4
<1> QED
  BY <1>7, <1>8 DEF RateInv

\* The rest of a call lets nobody in.
LEMMA RateElsewhere ==
    ASSUME IsFiniteSet(Calls), TypeInv, RateInv, NEW c \in Calls, Call(c),
           ~RateMiss(c), ~RateHit(c), ~RateLimited(c), ~RateInsert(c), ~RateUpdate(c)
    PROVE  RateInv'
<1>1. /\ UNCHANGED <<owner, req>>
      /\ \A b \in Calls \ {c} : pc'[b] = pc[b] /\ local'[b] = local[b]
  BY CallFrame
<1>2. rate' = rate
  BY DEF Call, Handler, BodyFails, LookupFails, Lookup, InsertFresh, InsertDuplicate, ReadDevice,
     CommitIngest, DatabaseLocked, Reply, db
<1>3. /\ pc'[c] \in Passed => pc[c] \in Passed
      /\ pc'[c] \notin AtRate
      /\ local'[c].window = local[c].window
  BY Labels DEF Call, Handler, BodyFails, LookupFails, Lookup, InsertFresh, InsertDuplicate,
     ReadDevice, CommitIngest, DatabaseLocked, Reply, TypeInv, TypeOK, Locals, Passed, AtRate
<1>4. RateRead'
  BY <1>1, <1>2, <1>3 DEF RateInv, RateRead, PrefixOf, AtRate
<1>5. \A p \in Prefixes, w \in Windows : AdmittedOf(p, w)' \subseteq AdmittedOf(p, w)
  BY <1>1, <1>3 DEF AdmittedOf, PrefixOf
<1> QED
  BY <1>2, <1>4, <1>5, RateCountsKept DEF RateInv

LEMMA RateInit == ASSUME IsFiniteSet(Calls) PROVE Init => RateInv
<1> SUFFICES ASSUME Init PROVE RateInv
  OBVIOUS
<1>1. \A c \in Calls : pc[c] = "new"
  BY DEF Init
<1>2. RateRead
  BY <1>1 DEF RateRead, AtRate
<1>3. \A p, w : AdmittedOf(p, w) = {}
  BY <1>1, Labels DEF AdmittedOf, Passed
<1>4. RateCounts
  <2> SUFFICES ASSUME NEW p \in Prefixes, NEW w \in Windows
               PROVE  Cardinality(AdmittedOf(p, w)) <= rate[p][w] /\ rate[p][w] <= Limit
    BY DEF RateCounts
  <2>1. rate[p][w] = 0
    BY DEF Init
  <2>2. Cardinality(AdmittedOf(p, w)) = 0
    BY <1>3, FS_EmptySet
  <2> QED
    BY <2>1, <2>2, LimitAssumption
<1> QED
  BY <1>2, <1>4 DEF RateInv

LEMMA RateInvariance ==
    ASSUME OneWorker, IsFiniteSet(Calls)
    PROVE  Spec => [](TypeInv /\ LoopMutex /\ RateInv)
<1>1. Init => TypeInv /\ LoopMutex /\ RateInv
  BY TypeInit, LoopInit, RateInit
<1>2. TypeInv /\ LoopMutex /\ RateInv /\ [Next]_vars => (TypeInv /\ LoopMutex /\ RateInv)'
  <2> SUFFICES ASSUME TypeInv, LoopMutex, RateInv, [Next]_vars PROVE RateInv'
    BY TypeStep, LoopStep
  <2>1. CASE Quiet
    BY <2>1, RateQuiet
  <2>2. ASSUME NEW c \in Calls, Call(c) PROVE RateInv'
    BY <2>2, RateReceive, RateAdmit, RateElsewhere
  <2> QED
    BY <2>1, <2>2, StepKinds
<1> QED
  BY <1>1, <1>2, PTL DEF Spec

\* With one worker at most Limit calls of a prefix get past the limiter in one
\* window, although it reads, compares and writes in separate statements.
THEOREM RateIsLimited ==
    ASSUME OneWorker, IsFiniteSet(Calls)
    PROVE  Spec => []RateLimitHeld
<1>1. TypeInv /\ RateInv => RateLimitHeld
  <2> SUFFICES ASSUME TypeInv, RateInv, NEW p \in Prefixes, NEW w \in Windows
               PROVE  Cardinality(AdmittedOf(p, w)) <= Limit
    BY DEF RateLimitHeld, AdmittedOf, Passed, PrefixOf
  <2>1. Cardinality(AdmittedOf(p, w)) \in Nat /\ rate[p][w] \in Nat
    BY AdmittedFinite DEF TypeInv, TypeOK
  <2> QED
    BY <2>1, LimitAssumption DEF RateInv, RateCounts
<1> QED
  BY <1>1, RateInvariance, PTL

\* With one worker no call fails on the first row of a window: the INSERT has
\* the loop since its SELECT.
THEOREM LimiterInserts ==
    ASSUME OneWorker, IsFiniteSet(Calls)
    PROVE  Spec => []FirstRowIsFree
<1>1. RateInv => FirstRowIsFree
  BY DEF RateInv, RateRead, FirstRowIsFree, PrefixOf, AtRate
<1> QED
  BY <1>1, RateInvariance, PTL

-----------------------------------------------------------------------------
(* called_count. *)

CallsWith(t) == {c \in Calls : pc[c] \in Committed /\ req[c].token = t}

\* What a call in ingest has read of its token's counter is still there.
CalledRead == \A c \in Calls : pc[c] \in AtIngest => local[c].loaded = called[req[c].token]

CalledInv == CalledRead /\ CallsCounted

LEMMA CalledQuiet == ASSUME CalledInv, Quiet PROVE CalledInv'
<1>1. CalledRead'
  BY Labels DEF CalledInv, CalledRead, Quiet
<1>2. \A c \in Calls : pc'[c] \in Committed <=> pc[c] \in Committed
  BY Labels DEF Quiet
<1>3. CallsCounted'
  <2>1. \A t \in Tokens : CallsWith(t)' = CallsWith(t)
    BY <1>2 DEF CallsWith, Quiet
  <2> QED
    BY <2>1 DEF CalledInv, CallsCounted, CallsWith, Quiet
<1> QED
  BY <1>1, <1>3 DEF CalledInv

\* The commit of a call counts that call.
LEMMA CalledCommit ==
    ASSUME IsFiniteSet(Calls), OneWorker, TypeInv, LoopMutex, CalledInv, NEW c \in Calls,
           CommitIngest(c)
    PROVE  CalledInv'
<1>1. Call(c)
  BY DEF Call, Handler
<1>2. /\ req' = req
      /\ \A b \in Calls \ {c} : pc'[b] = pc[b]
  BY <1>1, CallFrame
<1>3. pc[c] = "commit" /\ pc'[c] = "reply" /\ req[c].token \in Tokens
  BY DEF CommitIngest, TypeInv, TypeOK
<1>4. called' = [called EXCEPT ![req[c].token] = @ + 1]
  BY <1>3, Labels DEF CommitIngest, CalledAfter, CalledInv, CalledRead, TypeInv, TypeOK
<1>5. CalledRead'
  <2>1. ~Reply(c)
    BY <1>3 DEF Reply
  <2>2. \A b \in Calls : pc'[b] \notin AtIngest
    BY <1>1, <1>2, <1>3, <2>1, AloneOnLoop, Labels
  <2> QED
    BY <2>2 DEF CalledRead
<1>6. CallsCounted'
  <2> SUFFICES ASSUME NEW t \in Tokens PROVE called'[t] = Cardinality(CallsWith(t)')
    BY DEF CallsCounted, CallsWith
  <2>1. called[t] = Cardinality(CallsWith(t)) /\ called[t] \in Nat
    BY DEF CalledInv, CallsCounted, CallsWith, TypeInv, TypeOK
  <2>2. IsFiniteSet(CallsWith(t)) /\ c \notin CallsWith(t)
    <3>1. CallsWith(t) \in SUBSET Calls
      BY DEF CallsWith
    <3> QED
      BY <1>3, <3>1, FS_Subset, Labels DEF CallsWith
  <2>3. CASE t = req[c].token
    <3>1. CallsWith(t)' = CallsWith(t) \cup {c}
      BY <1>2, <1>3, <2>3, Labels DEF CallsWith
    <3>2. called'[t] = called[t] + 1
      BY <1>4, <2>3 DEF TypeInv, TypeOK
    <3> QED
      BY <2>1, <2>2, <3>1, <3>2, FS_AddElement
  <2>4. CASE t # req[c].token
    <3>1. CallsWith(t)' = CallsWith(t)
      BY <1>2, <2>2, <2>4 DEF CallsWith
    <3>2. called'[t] = called[t]
      BY <1>4, <2>4 DEF TypeInv, TypeOK
    <3> QED
      BY <2>1, <3>1, <3>2
  <2> QED
    BY <2>3, <2>4
<1> QED
  BY <1>5, <1>6 DEF CalledInv

LEMMA CalledElsewhere ==
    ASSUME TypeInv, CalledInv, NEW c \in Calls, Call(c), ~CommitIngest(c)
    PROVE  CalledInv'
<1>1. /\ UNCHANGED <<req, called>>
      /\ \A b \in Calls \ {c} : pc'[b] = pc[b] /\ local'[b] = local[b]
  BY CallFrame
<1>2. pc'[c] \in Committed <=> pc[c] \in Committed
  BY CallKinds, Labels DEF InsertFresh, InsertDuplicate, Bystander, TypeInv, TypeOK
<1>3. pc'[c] \in AtIngest => local'[c].loaded = called[req[c].token]
  <2>1. CASE Lookup(c)
    BY <2>1 DEF Lookup, TypeInv, TypeOK, Locals
  <2>2. CASE ReadDevice(c)
    BY <2>2, Labels DEF ReadDevice, Reload, CalledInv, CalledRead, TypeInv, TypeOK, Locals
  <2>3. CASE ~Lookup(c) /\ ~ReadDevice(c)
    <3>1. pc'[c] \in AtIngest => pc[c] \in AtIngest /\ local'[c].loaded = local[c].loaded
      BY <2>3, Labels DEF Call, Handler, RateMiss, RateHit, RateLimited, Receive, RateInsert,
         RateUpdate, BodyFails, LookupFails, InsertFresh, InsertDuplicate, DatabaseLocked,
         Reply, TypeInv, TypeOK, Locals
    <3> QED
      BY <3>1 DEF CalledInv, CalledRead
  <2> QED
    BY <2>1, <2>2, <2>3
<1>4. CalledRead'
  BY <1>1, <1>3 DEF CalledInv, CalledRead
<1>5. CallsCounted'
  <2>1. \A t \in Tokens : CallsWith(t)' = CallsWith(t)
    BY <1>1, <1>2 DEF CallsWith
  <2> QED
    BY <1>1, <2>1 DEF CalledInv, CallsCounted, CallsWith
<1> QED
  BY <1>4, <1>5 DEF CalledInv

LEMMA CalledInit == Init => CalledInv
<1> SUFFICES ASSUME Init PROVE CalledInv
  OBVIOUS
<1>1. \A c \in Calls : pc[c] = "new"
  BY DEF Init
<1>2. \A t \in Tokens : CallsWith(t) = {}
  BY <1>1, Labels DEF CallsWith
<1>3. CalledRead
  BY <1>1, Labels DEF CalledRead
<1>4. CallsCounted
  BY <1>2, FS_EmptySet DEF Init, CallsCounted, CallsWith
<1> QED
  BY <1>3, <1>4 DEF CalledInv

\* With one worker called_count of a webhook is the number of the calls that
\* committed with its token, on PostgreSQL as on SQLite.
THEOREM CallsAreCounted ==
    ASSUME OneWorker, IsFiniteSet(Calls)
    PROVE  Spec => []CallsCounted
<1> DEFINE I == TypeInv /\ LoopMutex /\ CalledInv
<1>1. Init => I
  BY TypeInit, LoopInit, CalledInit
<1>2. I /\ [Next]_vars => I'
  <2> SUFFICES ASSUME I, [Next]_vars PROVE CalledInv'
    BY TypeStep, LoopStep
  <2>1. CASE Quiet
    BY <2>1, CalledQuiet
  <2>2. ASSUME NEW c \in Calls, Call(c) PROVE CalledInv'
    BY <2>2, CalledCommit, CalledElsewhere
  <2> QED
    BY <2>1, <2>2, StepKinds
<1>3. I => CallsCounted
  BY DEF CalledInv
<1> QED
  BY <1>1, <1>2, <1>3, PTL DEF Spec

-----------------------------------------------------------------------------
(* Several workers, either database: increments get lost, none is made up. *)

EventsOf(d) == {k \in events : k[1] = d}

\* What a call will write back was once no more than the table held.
OverRead ==
    /\ \A c \in Calls : pc[c] = "commit" => local[c].count <= Cardinality(EventsOf(DeviceOf(c)))
    /\ \A c \in Calls : pc[c] \in AtIngest =>
          local[c].loaded <= Cardinality(CallsWith(req[c].token))

OverInv == IsFiniteSet(events) /\ OverRead /\ NeverOvercounts

LEMMA OverInit == ASSUME IsFiniteSet(Calls) PROVE Init => OverInv
<1> SUFFICES ASSUME Init PROVE OverInv
  OBVIOUS
<1>1. \A c \in Calls : pc[c] = "new"
  BY DEF Init
<1>2. events = {} /\ \A d : EventsOf(d) = {}
  BY DEF Init, EventsOf
<1>3. \A t \in Tokens : CallsWith(t) = {}
  BY <1>1, Labels DEF CallsWith
<1>4. NeverOvercounts
  <2>1. ASSUME NEW d \in Devices PROVE count[d] <= Cardinality(EventsOf(d))
    <3>1. count[d] = 0 /\ Cardinality(EventsOf(d)) = 0
      BY <1>2, FS_EmptySet DEF Init
    <3> QED
      BY <3>1
  <2>2. ASSUME NEW t \in Tokens PROVE called[t] <= Cardinality(CallsWith(t))
    <3>1. called[t] = 0 /\ Cardinality(CallsWith(t)) = 0
      BY <1>3, FS_EmptySet DEF Init
    <3> QED
      BY <3>1
  <2> QED
    BY <2>1, <2>2 DEF NeverOvercounts, EventsOf, CallsWith
<1>5. OverRead
  BY <1>1, Labels DEF OverRead
<1> QED
  BY <1>2, <1>4, <1>5, FS_EmptySet DEF OverInv

\* The tables only grow, and so do the numbers they hold.
LEMMA TablesGrow ==
    ASSUME IsFiniteSet(Calls), IsFiniteSet(events), IsFiniteSet(events'),
           events \subseteq events', req' = req,
           \A c \in Calls : pc[c] \in Committed => pc'[c] \in Committed
    PROVE  /\ \A d : /\ IsFiniteSet(EventsOf(d)) /\ IsFiniteSet(EventsOf(d)')
                     /\ Cardinality(EventsOf(d)) \in Nat /\ Cardinality(EventsOf(d)') \in Nat
                     /\ Cardinality(EventsOf(d)) <= Cardinality(EventsOf(d)')
           /\ \A t : /\ IsFiniteSet(CallsWith(t)) /\ IsFiniteSet(CallsWith(t)')
                     /\ Cardinality(CallsWith(t)) \in Nat /\ Cardinality(CallsWith(t)') \in Nat
                     /\ Cardinality(CallsWith(t)) <= Cardinality(CallsWith(t)')
<1>1. ASSUME NEW S, NEW T, IsFiniteSet(T), S \subseteq T
      PROVE  /\ IsFiniteSet(S) /\ Cardinality(S) \in Nat /\ Cardinality(T) \in Nat
             /\ Cardinality(S) <= Cardinality(T)
  BY <1>1, FS_Subset, FS_CardinalityType
<1>2. ASSUME NEW d
      PROVE  EventsOf(d) \subseteq EventsOf(d)' /\ EventsOf(d)' \subseteq events'
  BY DEF EventsOf
<1>3. ASSUME NEW t
      PROVE  CallsWith(t) \subseteq CallsWith(t)' /\ CallsWith(t)' \subseteq Calls
  BY DEF CallsWith
<1>4. \A d : IsFiniteSet(EventsOf(d)')
  BY <1>1, <1>2
<1>5. \A t : IsFiniteSet(CallsWith(t)')
  BY <1>1, <1>3
<1> QED
  BY <1>1, <1>2, <1>3, <1>4, <1>5

LEMMA OverQuiet ==
    ASSUME IsFiniteSet(Calls), TypeInv, OverInv, Quiet
    PROVE  OverInv'
<1>1. \A c \in Calls : pc'[c] \in Committed <=> pc[c] \in Committed
  BY Labels DEF Quiet
<1>2. /\ \A d : EventsOf(d)' = EventsOf(d)
      /\ \A t : CallsWith(t)' = CallsWith(t)
  BY <1>1 DEF Quiet, EventsOf, CallsWith
<1>3. ASSUME NEW c \in Calls, pc'[c] \in AtIngest
      PROVE  pc[c] = pc'[c] /\ local'[c] = local[c] /\ DeviceOf(c)' = DeviceOf(c)
  <2>1. pc[c] = pc'[c] /\ pc[c] \in AtIngest
    BY <1>3, Labels DEF Quiet
  <2> QED
    BY <2>1 DEF TypeInv, TypeOK, Issued, DeviceOf, Quiet
<1>4. OverRead'
  BY <1>2, <1>3, Labels DEF OverInv, OverRead, Quiet
<1>5. NeverOvercounts'
  BY <1>2 DEF OverInv, NeverOvercounts, EventsOf, CallsWith, Quiet
<1> QED
  BY <1>4, <1>5 DEF OverInv, Quiet

\* A commit adds the call, and a new event, to what it counts.
LEMMA OverCommit ==
    ASSUME IsFiniteSet(Calls), TypeInv, StoreInv, OverInv, NEW c \in Calls, CommitIngest(c)
    PROVE  IsFiniteSet(events') /\ NeverOvercounts'
<1> DEFINE d == DeviceOf(c)
           t == req[c].token
<1>1. Call(c)
  BY DEF Call, Handler
<1>2. req' = req /\ \A b \in Calls \ {c} : pc'[b] = pc[b]
  BY <1>1, CallFrame
<1>3. /\ pc[c] = "commit" /\ pc'[c] = "reply" /\ pc[c] \in AtIngest
      /\ pc[c] \notin Committed /\ pc'[c] \in Committed
  BY Labels DEF CommitIngest, TypeInv, TypeOK
<1>4. d \in Devices /\ t \in Tokens /\ Key(c)[1] = d
  BY <1>3 DEF TypeInv, TypeOK, Issued, Key
<1>5. IsFiniteSet(events') /\ events \subseteq events'
  BY FS_AddElement DEF CommitIngest, OverInv
<1>6. /\ \A e : /\ Cardinality(EventsOf(e)) \in Nat /\ Cardinality(EventsOf(e)') \in Nat
                /\ IsFiniteSet(EventsOf(e))
                /\ Cardinality(EventsOf(e)) <= Cardinality(EventsOf(e)')
      /\ \A u : /\ Cardinality(CallsWith(u)) \in Nat /\ Cardinality(CallsWith(u)') \in Nat
                /\ IsFiniteSet(CallsWith(u))
                /\ Cardinality(CallsWith(u)) <= Cardinality(CallsWith(u)')
  BY <1>2, <1>3, <1>5, TablesGrow DEF OverInv
<1>7. local[c].count \in Nat /\ local[c].loaded \in Nat /\ count \in [Devices -> Nat]
      /\ called \in [Tokens -> Nat]
  BY DEF TypeInv, TypeOK, Locals
<1>8. ASSUME NEW e \in Devices PROVE count'[e] <= Cardinality(EventsOf(e)')
  <2>1. count[e] <= Cardinality(EventsOf(e))
    BY DEF OverInv, NeverOvercounts, EventsOf
  <2>2. CASE e # d \/ local[c].dup
    <3>1. count'[e] = count[e]
      BY <1>4, <1>7, <2>2 DEF CommitIngest, CountAfter
    <3> QED
      BY <1>6, <1>7, <2>1, <3>1
  <2>3. CASE e = d /\ ~local[c].dup
    <3>1. count'[e] = local[c].count + 1
      BY <1>4, <1>7, <2>3 DEF CommitIngest, CountAfter
    <3>2. Key(c) \notin events
      BY <1>3, <2>3 DEF StoreInv, OpenKeys, InTxn
    <3>3. EventsOf(e)' = EventsOf(e) \cup {Key(c)} /\ Key(c) \notin EventsOf(e)
      BY <1>4, <2>3, <3>2 DEF CommitIngest, EventsOf
    <3>4. Cardinality(EventsOf(e)') = Cardinality(EventsOf(e)) + 1
      BY <1>6, <3>3, FS_AddElement
    <3>5. local[c].count <= Cardinality(EventsOf(e))
      BY <1>3, <2>3 DEF OverInv, OverRead
    <3> QED
      BY <1>6, <1>7, <3>1, <3>4, <3>5
  <2> QED
    BY <2>2, <2>3
<1>9. ASSUME NEW u \in Tokens PROVE called'[u] <= Cardinality(CallsWith(u)')
  <2>1. CASE u # t
    <3>1. called'[u] = called[u] /\ called[u] <= Cardinality(CallsWith(u))
      BY <1>4, <1>7, <2>1 DEF CommitIngest, OverInv, NeverOvercounts, CallsWith
    <3> QED
      BY <1>6, <1>7, <3>1
  <2>2. CASE u = t
    <3>1. called'[u] = local[c].loaded + 1
      BY <1>4, <1>7, <2>2 DEF CommitIngest, CalledAfter
    <3>2. CallsWith(u)' = CallsWith(u) \cup {c} /\ c \notin CallsWith(u)
      BY <1>2, <1>3, <2>2 DEF CallsWith
    <3>3. Cardinality(CallsWith(u)') = Cardinality(CallsWith(u)) + 1
      BY <1>6, <3>2, FS_AddElement
    <3>4. local[c].loaded <= Cardinality(CallsWith(u))
      BY <1>3, <2>2 DEF OverInv, OverRead
    <3> QED
      BY <1>6, <1>7, <3>1, <3>3, <3>4
  <2> QED
    BY <2>1, <2>2
<1> QED
  BY <1>5, <1>8, <1>9 DEF NeverOvercounts, EventsOf, CallsWith

\* What a call reads is no more than the tables hold, and stays so.
LEMMA OverReads ==
    ASSUME IsFiniteSet(Calls), TypeInv, OverInv, NEW c \in Calls, Call(c), ~CommitIngest(c)
    PROVE  OverInv'
<1>1. /\ UNCHANGED <<owner, req, events, count, called>>
      /\ \A b \in Calls \ {c} : pc'[b] = pc[b] /\ local'[b] = local[b]
  BY CallFrame
<1>2. pc'[c] \in Committed <=> pc[c] \in Committed
  BY CallKinds, Labels DEF InsertFresh, InsertDuplicate, Bystander, TypeInv, TypeOK
<1>3. /\ \A d : EventsOf(d)' = EventsOf(d)
      /\ \A t : CallsWith(t)' = CallsWith(t)
      /\ \A b : DeviceOf(b)' = DeviceOf(b)
  BY <1>1, <1>2 DEF EventsOf, CallsWith, DeviceOf
<1>4. NeverOvercounts'
  BY <1>1, <1>3 DEF OverInv, NeverOvercounts, EventsOf, CallsWith
<1>5. /\ req[c].token \in Tokens
      /\ called[req[c].token] <= Cardinality(CallsWith(req[c].token))
  BY DEF TypeInv, TypeOK, OverInv, NeverOvercounts, CallsWith
<1>6. /\ pc'[c] \in AtIngest => local'[c].loaded <= Cardinality(CallsWith(req[c].token))
      /\ pc'[c] = "commit" => local'[c].count <= Cardinality(EventsOf(DeviceOf(c)))
  <2>1. CASE Lookup(c)
    BY <1>5, <2>1 DEF Lookup, TypeInv, TypeOK, Locals
  <2>2. CASE ReadDevice(c)
    <3>1. pc[c] \in AtIngest /\ DeviceOf(c) \in Devices
      BY <2>2, Labels DEF ReadDevice, TypeInv, Issued
    <3>2. count[DeviceOf(c)] <= Cardinality(EventsOf(DeviceOf(c)))
      BY <3>1 DEF OverInv, NeverOvercounts, EventsOf
    <3> QED
      BY <1>5, <2>2, <3>1, <3>2 DEF ReadDevice, Reload, OverInv, OverRead, TypeInv, TypeOK, Locals
  <2>3. CASE ~Lookup(c) /\ ~ReadDevice(c)
    <3>1. /\ pc'[c] \in AtIngest => pc[c] \in AtIngest /\ local'[c].loaded = local[c].loaded
          /\ pc'[c] # "commit"
      BY <2>3, Labels DEF Call, Handler, RateMiss, RateHit, RateLimited, Receive, RateInsert,
         RateUpdate, BodyFails, LookupFails, InsertFresh, InsertDuplicate, CommitIngest,
         DatabaseLocked, Reply, TypeInv, TypeOK, Locals
    <3> QED
      BY <3>1 DEF OverInv, OverRead
  <2> QED
    BY <2>1, <2>2, <2>3
<1>7. OverRead'
  BY <1>1, <1>3, <1>6 DEF OverInv, OverRead
<1> QED
  BY <1>1, <1>4, <1>7 DEF OverInv

LEMMA OverCall ==
    ASSUME IsFiniteSet(Calls), TypeInv, StoreInv, OverInv, NEW c \in Calls, CommitIngest(c)
    PROVE  OverInv'
<1>1. Call(c)
  BY DEF Call, Handler
<1>2. /\ UNCHANGED <<owner, req>>
      /\ \A b \in Calls \ {c} : pc'[b] = pc[b] /\ local'[b] = local[b]
  BY <1>1, CallFrame
<1>3. pc'[c] \in Committed /\ pc'[c] \notin AtIngest /\ pc'[c] # "commit"
  BY Labels DEF CommitIngest, TypeInv, TypeOK
<1>4. IsFiniteSet(events') /\ events \subseteq events' /\ NeverOvercounts'
  BY OverCommit DEF CommitIngest
<1>5. /\ \A d : /\ Cardinality(EventsOf(d)) \in Nat /\ Cardinality(EventsOf(d)') \in Nat
                /\ Cardinality(EventsOf(d)) <= Cardinality(EventsOf(d)')
      /\ \A t : /\ Cardinality(CallsWith(t)) \in Nat /\ Cardinality(CallsWith(t)') \in Nat
                /\ Cardinality(CallsWith(t)) <= Cardinality(CallsWith(t)')
  BY <1>2, <1>3, <1>4, TablesGrow DEF OverInv
<1>6. ASSUME NEW b \in Calls \ {c}
      PROVE  /\ pc'[b] = "commit" => local'[b].count <= Cardinality(EventsOf(DeviceOf(b))')
             /\ pc'[b] \in AtIngest => local'[b].loaded <= Cardinality(CallsWith(req[b].token)')
  <2>1. local[b].count \in Nat /\ local[b].loaded \in Nat /\ DeviceOf(b)' = DeviceOf(b)
    BY <1>2 DEF TypeInv, TypeOK, Locals, DeviceOf
  <2> QED
    BY <1>2, <1>5, <2>1 DEF OverInv, OverRead
<1>7. OverRead'
  BY <1>2, <1>3, <1>6 DEF OverRead
<1> QED
  BY <1>4, <1>7 DEF OverInv

\* However many workers there are and whatever increments they lose, neither
\* webhook_count nor called_count ever says more than the tables.
THEOREM CountersNeverExceed ==
    ASSUME IsFiniteSet(Calls)
    PROVE  Spec => []NeverOvercounts
<1> DEFINE I == TypeInv /\ StoreInv /\ OverInv
<1>1. Init => I
  BY TypeInit, StoreInit, OverInit
<1>2. I /\ [Next]_vars => I'
  <2> SUFFICES ASSUME I, [Next]_vars PROVE OverInv'
    BY TypeStep, StoreStep
  <2>1. CASE Quiet
    BY <2>1, OverQuiet
  <2>2. ASSUME NEW c \in Calls, Call(c) PROVE OverInv'
    BY <2>2, OverCall, OverReads
  <2> QED
    BY <2>1, <2>2, StepKinds
<1>3. I => NeverOvercounts
  BY DEF OverInv
<1> QED
  BY <1>1, <1>2, <1>3, PTL DEF Spec
=============================================================================
