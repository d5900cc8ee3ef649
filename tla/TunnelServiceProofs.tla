------------------------ MODULE TunnelServiceProofs ------------------------
(***************************************************************************)
(* Theorems about TunnelService, for any number of overlapping requests,   *)
(* devices and ports.                                                      *)
(***************************************************************************)
EXTENDS TunnelService, FiniteSetTheorems, TLAPS

-----------------------------------------------------------------------------
(* The inductive invariant. *)

\* The row a request loaded was coherent, and had the device it still has.
LoadedCoherent ==
    \A t \in Threads : thread[t] # Idle /\ thread[t].id # NoRow =>
        thread[t].row.internal_base_url = Internal(thread[t].row.remote_port)

\* A disable that is about to commit found a row.
DisableHasRow == \A t \in Threads : thread[t].pc = "disable_commit" => thread[t].id # NoRow

\* Two rows of one device are one row.
OneRow == \A r, q \in Inserted : rows[r].device = rows[q].device => r = q

IInv ==
    /\ TypeOK
    /\ LoadedCoherent
    /\ DisableHasRow
    /\ UrlNamesPort
    /\ PortsUnique
    /\ DeviceIdUnique => OneRow

\* The URL of a port determines the port, and is one of the URLs.
LEMMA InternalInjective ==
    /\ \A p, q : Internal(p) = Internal(q) => p = q
    /\ \A p \in Allowed : Internal(p) \in Urls
    /\ Manual \subseteq Urls /\ NoUrl \in Manual
BY ManualAssumption DEF Internal, Urls

\* A thread that is at a program counter of a request holds a request.
LEMMA Busy ==
    ASSUME TypeOK, NEW t \in Threads, thread[t].pc # "idle"
    PROVE  thread[t] \in Request /\ thread[t] # Idle
BY DEF TypeOK, Idle

LEMMA RequestNotIdle == \A q \in Request : q # Idle /\ q.pc \in PCs
<1>1. \A q \in Request : q.pc \in PCs
  BY DEF Request
<1>2. "idle" \notin PCs
  BY DEF PCs
<1> QED
  BY <1>1, <1>2 DEF Idle

\* A row id that holds a row is inserted, and conversely.
LEMMA InsertedRow ==
    ASSUME TypeOK
    PROVE  /\ Inserted \subseteq RowIds
           /\ \A r \in Inserted : rows[r] \in Row
           /\ \A d : RowsOf(d) \subseteq Inserted
BY DEF TypeOK, Inserted, RowsOf

LEMMA InitInv == Init => IInv
<1> SUFFICES ASSUME Init PROVE IInv
  OBVIOUS
<1>1. Inserted = {}
  BY DEF Init, Inserted
<1>2. \A t \in Threads : thread[t] = Idle
  BY DEF Init
<1>3. TypeOK
  BY <1>2, InternalInjective DEF Init, TypeOK, Idle
<1> QED
  BY <1>1, <1>2, <1>3
  DEF IInv, LoadedCoherent, DisableHasRow, UrlNamesPort, PortsUnique, OneRow, Idle

\* A step that moves one thread and writes no tunnel keeps the invariant if
\* what the thread now holds is well formed.
LEMMA LocalStep ==
    ASSUME IInv, rows' = rows, base' \in [Devices -> Urls], NEW t \in Threads,
           NEW q \in Request \cup {Idle}, thread' = [thread EXCEPT ![t] = q],
           q # Idle /\ q.pc = "enable_commit" => q.port \in Allowed,
           q # Idle /\ q.pc = "disable_commit" => q.id # NoRow,
           q # Idle /\ q.id # NoRow =>
               /\ q.row \in Row
               /\ q.id \in RowsOf(q.device)
               /\ q.row.internal_base_url = Internal(q.row.remote_port)
    PROVE  IInv'
<1>1. thread' \in [Threads -> Request \cup {Idle}] /\ thread'[t] = q
  BY DEF IInv, TypeOK
<1>2. \A u \in Threads \ {t} : thread'[u] = thread[u]
  BY DEF IInv, TypeOK
<1>3. Inserted' = Inserted /\ \A d : RowsOf(d)' = RowsOf(d)
  BY DEF Inserted, RowsOf
<1>4. \A u \in Threads : thread'[u].pc = "enable_commit" => thread'[u].port \in Allowed
  BY <1>1, <1>2 DEF IInv, TypeOK, Idle
<1>5. \A u \in Threads : thread'[u] # Idle /\ thread'[u].id # NoRow =>
         /\ thread'[u].row \in Row
         /\ thread'[u].id \in RowsOf(thread'[u].device)
  BY <1>1, <1>2 DEF IInv, TypeOK
<1>6. TypeOK'
  BY <1>1, <1>3, <1>4, <1>5 DEF IInv, TypeOK
<1>7. LoadedCoherent'
  BY <1>1, <1>2 DEF IInv, LoadedCoherent
<1>8. DisableHasRow'
  BY <1>1, <1>2 DEF IInv, DisableHasRow, Idle
<1> QED
  BY <1>3, <1>6, <1>7, <1>8 DEF IInv, UrlNamesPort, PortsUnique, OneRow

\* A commit writes one row.  It keeps the invariant if the new row is coherent,
\* takes no other row's port and, where the schema forbids it, is not a second
\* row of its device.
LEMMA CommitStep ==
    ASSUME IInv, NEW t \in Threads, thread' = [thread EXCEPT ![t] = Idle],
           base' \in [Devices -> Urls],
           NEW r \in RowIds, NEW new \in Row, rows' = [rows EXCEPT ![r] = new],
           rows[r] = NoRow \/ rows[r].device = new.device,
           new.internal_base_url = Internal(new.remote_port),
           \A q \in Inserted \ {r} : rows[q].remote_port # new.remote_port,
           DeviceIdUnique /\ rows[r] = NoRow => RowsOf(new.device) = {}
    PROVE  IInv'
<1> USE DEF IInv
<1>1. /\ rows' \in [RowIds -> Row \cup {NoRow}] /\ rows'[r] = new
      /\ \A q \in RowIds \ {r} : rows'[q] = rows[q]
  BY DEF TypeOK
<1>2. /\ \A u \in Threads \ {t} : thread'[u] = thread[u]
      /\ thread'[t] = Idle
      /\ thread' \in [Threads -> Request \cup {Idle}]
  BY DEF TypeOK
<1>3. Inserted' \subseteq Inserted \cup {r}
  BY <1>1 DEF Inserted
<1>4. ASSUME NEW u \in Threads, thread'[u] # Idle, thread'[u].id # NoRow
      PROVE  (thread[u].row \in Row /\ thread[u].id \in RowsOf(thread[u].device))'
  <2>1. u # t /\ thread'[u] = thread[u]
    BY <1>2, <1>4
  <2>2. thread[u].row \in Row /\ thread[u].id \in RowsOf(thread[u].device)
    BY <1>4, <2>1 DEF TypeOK
  <2>3. thread[u].id \in Inserted /\ rows[thread[u].id].device = thread[u].device
    BY <2>2 DEF RowsOf
  <2>4. rows'[thread[u].id] # NoRow /\ rows'[thread[u].id].device = thread[u].device
    <3>1. CASE thread[u].id = r
      <4>1. new # NoRow /\ rows[r] # NoRow
        BY <2>3, <3>1, NoRowAssumption DEF Inserted
      <4> QED
        BY <1>1, <2>3, <3>1, <4>1
    <3>2. CASE thread[u].id # r
      BY <1>1, <2>3, <3>2 DEF Inserted
    <3> QED
      BY <3>1, <3>2
  <2>5. thread[u].id \in Inserted'
    BY <2>3, <2>4, InsertedRow DEF Inserted
  <2> QED
    BY <2>1, <2>2, <2>4, <2>5 DEF RowsOf
<1>5. \A u \in Threads : thread'[u].pc = "enable_commit" => thread'[u].port \in Allowed
  BY <1>2 DEF TypeOK, Idle
<1>6. TypeOK'
  <2>1. \A u \in Threads : thread'[u] # Idle /\ thread'[u].id # NoRow =>
           (thread[u].row \in Row /\ thread[u].id \in RowsOf(thread[u].device))'
    BY <1>4
  <2> QED
    BY <1>1, <1>2, <1>5, <2>1 DEF TypeOK
<1>7. LoadedCoherent'
  BY <1>2 DEF LoadedCoherent
<1>8. UrlNamesPort'
  BY <1>1, <1>3, InsertedRow DEF UrlNamesPort
<1>9. PortsUnique'
  <2>1. \A q \in Inserted' \ {r} : q \in Inserted \ {r} /\ rows'[q] = rows[q]
    BY <1>1, <1>3, InsertedRow
  <2>2. \A q \in Inserted' \ {r} : rows'[q].remote_port # rows'[r].remote_port
    BY <1>1, <2>1
  <2> QED
    BY <2>1, <2>2 DEF PortsUnique
<1>10. ASSUME DeviceIdUnique PROVE OneRow'
  <2>1. \A q \in Inserted \ {r} : rows[q].device # new.device
    <3>1. CASE rows[r] = NoRow
      BY <1>10, <3>1 DEF RowsOf
    <3>2. CASE rows[r] # NoRow
      <4>1. r \in Inserted /\ rows[r].device = new.device
        BY <3>2 DEF Inserted
      <4> QED
        BY <1>10, <4>1 DEF OneRow
    <3> QED
      BY <3>1, <3>2
  <2> QED
    BY <1>1, <1>3, <1>10, <2>1, InsertedRow DEF OneRow
<1>11. DisableHasRow'
  BY <1>2 DEF DisableHasRow, Idle
<1> QED
  BY <1>6, <1>7, <1>8, <1>9, <1>10, <1>11

-----------------------------------------------------------------------------
(* One lemma per action. *)

\* The SELECT of the device.
LEMMA BeginInv ==
    ASSUME IInv, NEW t \in Threads, NEW d \in Devices,
           NEW label \in {"enable_load", "disable_load", "update_check"},
           NEW u \in Manual, NEW p \in AskedPorts \cup {AutoPort}, NEW s \in BOOLEAN,
           Begin(t, label, d, u, p, s)
    PROVE  IInv'
<1> DEFINE q == [pc |-> label, device |-> d, base |-> base[d], url |-> u,
                 port |-> p, sync |-> s, id |-> NoRow, row |-> NoRow]
<1>1. base[d] \in Urls
  BY DEF IInv, TypeOK
<1>2. q \in Request
  BY <1>1 DEF Request, PCs
<1>3. thread' = [thread EXCEPT ![t] = q] /\ rows' = rows /\ base' \in [Devices -> Urls]
  BY DEF Begin, IInv, TypeOK
<1>4. q.pc # "enable_commit" /\ q.pc # "disable_commit" /\ q.id = NoRow
  OBVIOUS
<1> HIDE DEF q
<1> QED
  BY <1>2, <1>3, <1>4, LocalStep

\* Every refusal.
LEMMA RefuseInv ==
    ASSUME IInv, NEW t \in Threads, Refuse(t)
    PROVE  IInv'
<1>1. thread' = [thread EXCEPT ![t] = Idle] /\ rows' = rows /\ base' \in [Devices -> Urls]
  BY DEF Refuse, IInv, TypeOK
<1> QED
  BY <1>1, LocalStep

\* A request that loads its tunnel's row, or none.
LEMMA LoadInv ==
    ASSUME IInv, NEW t \in Threads, thread[t].pc # "idle",
           NEW r \in RowsOf(thread[t].device) \cup {NoRow},
           NEW label \in PCs, Load(t, r, label), UNCHANGED <<base, rows>>,
           label = "enable_commit" => thread[t].port \in Allowed,
           label = "disable_commit" => r # NoRow
    PROVE  IInv'
<1> DEFINE q == [thread[t] EXCEPT !.pc = label, !.id = r,
                                  !.row = IF r = NoRow THEN NoRow ELSE rows[r]]
<1>1. thread[t] \in Request
  BY Busy DEF IInv
<1>2. r # NoRow => /\ r \in Inserted /\ r \in RowIds /\ rows[r] \in Row
                   /\ rows[r].internal_base_url = Internal(rows[r].remote_port)
  BY InsertedRow DEF IInv, UrlNamesPort
<1>3. q \in Request
  BY <1>1, <1>2 DEF Request
<1>4. thread' = [thread EXCEPT ![t] = q]
  BY <1>1 DEF Load, IInv, TypeOK
<1>5. base' \in [Devices -> Urls] /\ rows' = rows
  BY DEF IInv, TypeOK
<1>6. /\ q.pc = label /\ q.port = thread[t].port /\ q.device = thread[t].device
      /\ q.id = r /\ q.row = IF r = NoRow THEN NoRow ELSE rows[r]
  BY <1>1 DEF Request
<1> HIDE DEF q
<1> QED
  BY <1>2, <1>3, <1>4, <1>5, <1>6, LocalStep

LEMMA EnableLoadInv ==
    ASSUME IInv, NEW t \in Threads, EnableLoad(t)
    PROVE  IInv'
<1> DEFINE label == IF thread[t].port = AutoPort THEN "enable_port" ELSE "enable_commit"
<1>1. PICK r \in RowsOf(thread[t].device) \cup {NoRow} : Load(t, r, label)
  BY DEF EnableLoad
<1>2. label = "enable_commit" => thread[t].port \in Allowed
  BY DEF EnableLoad, Refused
<1>3. label \in PCs /\ label # "disable_commit" /\ thread[t].pc # "idle"
  BY DEF PCs, EnableLoad
<1>4. UNCHANGED <<base, rows>>
  BY DEF EnableLoad
<1> HIDE DEF label
<1> QED
  BY <1>1, <1>2, <1>3, <1>4, LoadInv

\* The port picked is in the range, whatever others have inserted since.
LEMMA EnablePortInv ==
    ASSUME IInv, NEW t \in Threads, EnablePort(t)
    PROVE  IInv'
<1>1. PICK p \in FreePorts :
         thread' = [thread EXCEPT ![t].pc = "enable_commit", ![t].port = p]
  BY DEF EnablePort
<1> DEFINE q == [thread[t] EXCEPT !.pc = "enable_commit", !.port = p]
<1>2. thread[t] \in Request /\ thread[t] # Idle
  BY Busy DEF EnablePort, IInv
<1>3. p \in Allowed
  BY DEF FreePorts
<1>4. q \in Request
  BY <1>2, <1>3 DEF Request, PCs
<1>5. thread' = [thread EXCEPT ![t] = q]
  BY <1>1, <1>2 DEF IInv, TypeOK
<1>6. base' \in [Devices -> Urls] /\ rows' = rows
  BY DEF EnablePort, IInv, TypeOK
<1>7. /\ q.pc = "enable_commit" /\ q.port = p /\ q.device = thread[t].device
      /\ q.id = thread[t].id /\ q.row = thread[t].row
  BY <1>2 DEF Request
<1>8. q.id # NoRow =>
         /\ q.row \in Row
         /\ q.id \in RowsOf(q.device)
         /\ q.row.internal_base_url = Internal(q.row.remote_port)
  BY <1>2, <1>7 DEF IInv, TypeOK, LoadedCoherent
<1> HIDE DEF q
<1> QED
  BY <1>3, <1>4, <1>5, <1>6, <1>7, <1>8, LocalStep

LEMMA DisableLoadInv ==
    ASSUME IInv, NEW t \in Threads, DisableLoad(t)
    PROVE  IInv'
<1>1. PICK r \in RowsOf(thread[t].device) : Load(t, r, "disable_commit")
  BY DEF DisableLoad
<1>2. r # NoRow
  BY NoRowAssumption DEF RowsOf, Inserted
<1>3. "disable_commit" \in PCs /\ thread[t].pc # "idle" /\ UNCHANGED <<base, rows>>
  BY DEF PCs, DisableLoad
<1> QED
  BY <1>1, <1>2, <1>3, LoadInv

LEMMA UpdateCheckInv ==
    ASSUME IInv, NEW t \in Threads, UpdateCheck(t)
    PROVE  IInv'
<1> DEFINE q == [thread[t] EXCEPT !.pc = "update_commit"]
<1>1. thread[t] \in Request /\ thread[t] # Idle
  BY Busy DEF UpdateCheck, IInv
<1>2. q \in Request
  BY <1>1 DEF Request, PCs
<1>3. thread' = [thread EXCEPT ![t] = q] /\ rows' = rows /\ base' \in [Devices -> Urls]
  BY <1>1 DEF UpdateCheck, IInv, TypeOK
<1>4. /\ q.pc = "update_commit" /\ q.device = thread[t].device
      /\ q.id = thread[t].id /\ q.row = thread[t].row
  BY <1>1 DEF Request
<1>5. q.id # NoRow =>
         /\ q.row \in Row
         /\ q.id \in RowsOf(q.device)
         /\ q.row.internal_base_url = Internal(q.row.remote_port)
  BY <1>1, <1>4 DEF IInv, TypeOK, LoadedCoherent
<1> HIDE DEF q
<1> QED
  BY <1>2, <1>3, <1>4, <1>5, LocalStep

\* The commit of an update leaves the tunnels alone.
LEMMA UpdateCommitInv ==
    ASSUME IInv, NEW t \in Threads, UpdateCommit(t)
    PROVE  IInv'
<1>1. thread[t] \in Request
  BY Busy DEF UpdateCommit, IInv
<1>2. thread[t].url \in Urls
  BY <1>1, InternalInjective DEF Request
<1>3. base' \in [Devices -> Urls]
  BY <1>2 DEF UpdateCommit, Flushed, IInv, TypeOK
<1>4. thread' = [thread EXCEPT ![t] = Idle] /\ rows' = rows
  BY DEF UpdateCommit
<1> QED
  BY <1>3, <1>4, LocalStep

LEMMA DisableCommitInv ==
    ASSUME IInv, NEW t \in Threads, DisableCommit(t)
    PROVE  IInv'
<1> DEFINE q == thread[t]
           new == [rows[q.id] EXCEPT !.enabled = Flushed(@, q.row.enabled, FALSE)]
<1>1. q \in Request /\ q # Idle /\ q.id # NoRow
  BY Busy DEF DisableCommit, IInv, DisableHasRow
<1>2. q.row \in Row /\ q.id \in RowsOf(q.device)
  BY <1>1 DEF IInv, TypeOK
<1>3. q.id \in Inserted /\ q.id \in RowIds /\ rows[q.id] \in Row
  BY <1>2, InsertedRow DEF IInv
<1>4. /\ new \in Row
      /\ new.device = rows[q.id].device
      /\ new.remote_port = rows[q.id].remote_port
      /\ new.internal_base_url = rows[q.id].internal_base_url
  BY <1>2, <1>3 DEF Row, Flushed
<1>5. rows' = [rows EXCEPT ![q.id] = new]
  BY <1>3 DEF DisableCommit, IInv, TypeOK
<1>6. base' \in [Devices -> Urls]
  <2>1. RestoredUrl(q) \in Urls
    BY <1>2 DEF RestoredUrl, Row
  <2> QED
    BY <2>1 DEF DisableCommit, Flushed, IInv, TypeOK
<1>7. new.internal_base_url = Internal(new.remote_port)
  BY <1>3, <1>4 DEF IInv, UrlNamesPort
<1>8. \A r \in Inserted \ {q.id} : rows[r].remote_port # new.remote_port
  BY <1>3, <1>4 DEF IInv, PortsUnique
<1>9. rows[q.id] # NoRow /\ thread' = [thread EXCEPT ![t] = Idle]
  BY <1>3 DEF Inserted, DisableCommit
<1> HIDE DEF q, new
<1> QED
  BY <1>3, <1>4, <1>5, <1>6, <1>7, <1>8, <1>9, CommitStep

\* The commit of an enable: the constraint on remote_port keeps the port the
\* row's own, and the two columns that name the port are flushed together,
\* since what the request loaded was coherent.
LEMMA EnableCommitInv ==
    ASSUME IInv, NEW t \in Threads, EnableCommit(t)
    PROVE  IInv'
<1> DEFINE q == thread[t]
<1>1. q \in Request /\ q # Idle /\ q.port \in Allowed
  BY Busy DEF EnableCommit, IInv, TypeOK
<1>2. Internal(q.port) \in Urls /\ q.base \in Urls /\ q.device \in Devices
  BY <1>1, InternalInjective DEF Request
<1>3. base' \in [Devices -> Urls]
  BY <1>2 DEF EnableCommit, Flushed, IInv, TypeOK
<1>4. thread' = [thread EXCEPT ![t] = Idle] /\ ~Conflict(q)
  BY DEF EnableCommit
<1>5. CASE q.id = NoRow
  <2> DEFINE new == NewRow(q)
  <2>1. PICK r \in RowIds \ Inserted : rows' = [rows EXCEPT ![r] = new]
    BY <1>5 DEF EnableCommit
  <2>2. /\ new \in Row
        /\ new.device = q.device
        /\ new.remote_port = q.port
        /\ new.internal_base_url = Internal(q.port)
    BY <1>1, <1>2 DEF NewRow, Row, PreviousUrl
  <2>3. rows[r] = NoRow /\ r \in RowIds
    BY <2>1 DEF Inserted
  <2>4. \A s \in Inserted : rows[s].remote_port # q.port
    BY <1>4, <1>5, NoRowAssumption DEF Conflict, PortTaken, Inserted
  <2>5. DeviceIdUnique => RowsOf(q.device) = {}
    BY <1>4, <1>5 DEF Conflict, DeviceTaken
  <2>6. /\ new.internal_base_url = Internal(new.remote_port)
        /\ \A s \in Inserted \ {r} : rows[s].remote_port # new.remote_port
        /\ DeviceIdUnique /\ rows[r] = NoRow => RowsOf(new.device) = {}
    BY <2>2, <2>4, <2>5
  <2> HIDE DEF q, new
  <2> QED
    BY <1>3, <1>4, <2>1, <2>2, <2>3, <2>6, CommitStep
<1>6. CASE q.id # NoRow
  <2> DEFINE cur == rows[q.id]
             new == EnabledRow(q, cur)
  <2>1. /\ q.row \in Row
        /\ q.id \in RowsOf(q.device)
        /\ q.row.internal_base_url = Internal(q.row.remote_port)
    BY <1>1, <1>6 DEF IInv, TypeOK, LoadedCoherent
  <2>2. q.id \in Inserted /\ q.id \in RowIds /\ cur \in Row /\ cur # NoRow
    BY <2>1, InsertedRow DEF IInv, Inserted
  <2>3. rows' = [rows EXCEPT ![q.id] = new]
    BY <1>6, <2>2 DEF EnableCommit, IInv, TypeOK
  <2>4. /\ new \in Row
        /\ new.device = cur.device
        /\ new.remote_port = Flushed(cur.remote_port, q.row.remote_port, q.port)
        /\ new.internal_base_url =
              Flushed(cur.internal_base_url, q.row.internal_base_url, Internal(q.port))
    BY <1>1, <1>2, <2>2 DEF EnabledRow, Row, PreviousUrl, Flushed
  <2>5. cur.internal_base_url = Internal(cur.remote_port)
    BY <2>2 DEF IInv, UrlNamesPort
  <2>6. new.internal_base_url = Internal(new.remote_port)
    BY <2>1, <2>4, <2>5, InternalInjective DEF Flushed
  <2>7. \A s \in Inserted \ {q.id} : rows[s].remote_port # new.remote_port
    <3>1. CASE q.row.remote_port = q.port
      BY <2>2, <2>4, <3>1 DEF Flushed, IInv, PortsUnique
    <3>2. CASE q.row.remote_port # q.port
      BY <1>4, <2>4, <3>2 DEF Flushed, Conflict, PortTaken
    <3> QED
      BY <3>1, <3>2
  <2> HIDE DEF new
  <2> QED
    BY <1>3, <1>4, <2>2, <2>3, <2>4, <2>6, <2>7, CommitStep
<1> QED
  BY <1>5, <1>6

-----------------------------------------------------------------------------
LEMMA StepInv == IInv /\ [Next]_vars => IInv'
<1> SUFFICES ASSUME IInv, [Next]_vars PROVE IInv'
  OBVIOUS
<1>1. ASSUME NEW t \in Threads, Start(t) PROVE IInv'
  <2>1. PICK d \in Devices :
           \/ \E p \in AskedPorts \cup {AutoPort}, s \in BOOLEAN : EnableBegin(t, d, p, s)
           \/ DisableBegin(t, d)
           \/ \E u \in Manual : UpdateBegin(t, d, u)
    BY <1>1 DEF Start
  <2>2. ASSUME NEW p \in AskedPorts \cup {AutoPort}, NEW s \in BOOLEAN,
               EnableBegin(t, d, p, s)
        PROVE  IInv'
    BY <2>2, BeginInv, ManualAssumption DEF EnableBegin
  <2>3. CASE DisableBegin(t, d)
    BY <2>3, BeginInv, ManualAssumption DEF DisableBegin
  <2>4. ASSUME NEW u \in Manual, UpdateBegin(t, d, u) PROVE IInv'
    BY <2>4, BeginInv DEF UpdateBegin
  <2> QED
    BY <2>1, <2>2, <2>3, <2>4
<1>2. ASSUME NEW t \in Threads, Continue(t) PROVE IInv'
  <2>1. CASE Refuse(t)
    BY <2>1, RefuseInv
  <2>2. \/ Refuse(t) \/ EnableLoad(t) \/ EnablePort(t) \/ EnableCommit(t)
        \/ DisableLoad(t) \/ DisableCommit(t) \/ UpdateCheck(t) \/ UpdateCommit(t)
    BY <1>2 DEF Continue, EnableRefused, EnablePortNone, EnableConflict,
                DisableRefused, UpdateRefused
  <2> QED
    BY <2>1, <2>2, EnableLoadInv, EnablePortInv, EnableCommitInv,
       DisableLoadInv, DisableCommitInv, UpdateCheckInv, UpdateCommitInv
<1>3. CASE UNCHANGED vars
  BY <1>3 DEF vars, IInv, TypeOK, LoadedCoherent, DisableHasRow, UrlNamesPort,
              PortsUnique, OneRow, Inserted, RowsOf
<1> QED
  BY <1>1, <1>2, <1>3 DEF Next

LEMMA Invariance == Spec => []IInv
  BY InitInv, StepInv, PTL DEF Spec

\* Every variable has its type, and a request that has loaded its row holds a
\* row of its device that is still there: rows are never deleted.
THEOREM TypeCorrect == Spec => []TypeOK
<1>1. IInv => TypeOK
  BY DEF IInv
<1> QED
  BY <1>1, Invariance, PTL

\* However many requests pick the same free port, only one tunnel gets it.
THEOREM PortsAreUnique == Spec => []PortsUnique
<1>1. IInv => PortsUnique
  BY DEF IInv
<1> QED
  BY <1>1, Invariance, PTL

\* The URL of a tunnel names the tunnel's port, whatever columns each of the
\* overlapping requests wrote.
THEOREM UrlFollowsPort == Spec => []UrlNamesPort
<1>1. IInv => UrlNamesPort
  BY DEF IInv
<1> QED
  BY <1>1, Invariance, PTL

LEMMA OneRowOneTunnel == OneRow => OneTunnelPerDevice
<1> SUFFICES ASSUME OneRow, NEW d \in Devices PROVE Cardinality(RowsOf(d)) <= 1
  BY DEF OneTunnelPerDevice
<1>1. CASE RowsOf(d) = {}
  BY <1>1, FS_EmptySet
<1>2. ASSUME NEW r \in RowsOf(d) PROVE Cardinality(RowsOf(d)) <= 1
  <2>1. RowsOf(d) = {r}
    BY DEF OneRow, RowsOf
  <2>2. Cardinality({r}) = 1
    BY FS_Singleton
  <2> QED
    BY <2>1, <2>2
<1> QED
  BY <1>1, <1>2
=============================================================================
