----------------------- MODULE TunnelSequentialProofs -----------------------
(***************************************************************************)
(* Theorems about TunnelService where the requests for one device do not   *)
(* overlap (SerialSpec): what a request has read of its device is still so *)
(* when it commits, whatever the requests for other devices do meanwhile.  *)
(* That it is not, where two requests for one device overlap, is what TLC  *)
(* shows (TunnelUnmanaged.cfg).                                            *)
(***************************************************************************)
EXTENDS TunnelServiceProofs

\* No operator gives a device the URL of a port of frps by hand.
OperatorsKeepOff == \A p \in Allowed : Internal(p) \notin Manual

-----------------------------------------------------------------------------
(* The inductive invariant. *)

\* What a request loaded is what the database holds, and what it checked is so.
Snapshot(q) ==
    /\ q.base = base[q.device]
    /\ q.id # NoRow => q.row = rows[q.id]
    /\ q.pc \in {"enable_port", "enable_commit", "update_commit"} => EnabledRowsOf(q.device) = {}
    /\ q.pc \in {"enable_port", "enable_commit"} /\ q.id = NoRow => RowsOf(q.device) = {}

Undisturbed == \A t \in Threads : thread[t] # Idle => Snapshot(thread[t])

\* Without an enabled tunnel a device has a URL that an operator set, and only
\* such URLs are saved.
OperatorsUrl ==
    /\ \A d \in Devices : EnabledRowsOf(d) = {} => base[d] \in Manual
    /\ SavedByOperator

SeqInv == IInv /\ OneRow /\ Undisturbed /\ OperatorsUrl /\ UrlExplained

LEMMA SeqInit == Init => SeqInv
<1> SUFFICES ASSUME Init PROVE SeqInv
  OBVIOUS
<1>1. Inserted = {} /\ \A d : RowsOf(d) = {} /\ EnabledRowsOf(d) = {}
  BY DEF Init, Inserted, RowsOf, EnabledRowsOf
<1>2. Undisturbed
  BY DEF Init, Undisturbed
<1> QED
  BY <1>1, <1>2, InitInv DEF Init, SeqInv, OneRow, OperatorsUrl, SavedByOperator, UrlExplained

-----------------------------------------------------------------------------
(* Steps that write nothing. *)

\* A request that loads or checks moves to a snapshot.
LEMMA SeqLocal ==
    ASSUME SeqInv, IInv', UNCHANGED <<base, rows>>, NEW t \in Threads, NEW q,
           thread' = [thread EXCEPT ![t] = q], q # Idle => Snapshot(q)
    PROVE  SeqInv'
<1>1. \A u \in Threads : thread'[u] = IF u = t THEN q ELSE thread[u]
  BY DEF SeqInv, IInv, TypeOK
<1>2. Inserted' = Inserted /\ \A d : RowsOf(d)' = RowsOf(d) /\ EnabledRowsOf(d)' = EnabledRowsOf(d)
  BY DEF Inserted, RowsOf, EnabledRowsOf
<1>3. Undisturbed'
  BY <1>1, <1>2 DEF SeqInv, Undisturbed, Snapshot
<1> QED
  BY <1>2, <1>3 DEF SeqInv, OneRow, OperatorsUrl, SavedByOperator, UrlExplained

\* The requests that only read keep the invariant.
Reads(t) ==
    \/ Start(t) \/ Refuse(t) \/ EnableLoad(t) \/ EnablePort(t) \/ DisableLoad(t) \/ UpdateCheck(t)

LEMMA SeqRead ==
    ASSUME SeqInv, IInv', NEW t \in Threads, Reads(t)
    PROVE  SeqInv' /\ UNCHANGED <<base, rows>>
<1> SUFFICES UNCHANGED <<base, rows>>
             /\ \E q : thread' = [thread EXCEPT ![t] = q] /\ (q # Idle => Snapshot(q))
  BY SeqLocal
<1>1. thread \in [Threads -> Request \cup {Idle}]
  BY DEF SeqInv, IInv, TypeOK
<1>2. CASE Start(t)
  <2>1. PICK d \in Devices, label \in {"enable_load", "disable_load", "update_check"},
             u \in Manual, p \in AskedPorts \cup {AutoPort}, s \in BOOLEAN :
           Begin(t, label, d, u, p, s)
    BY <1>2, ManualAssumption DEF Start, EnableBegin, DisableBegin, UpdateBegin
  <2> DEFINE q == [pc |-> label, device |-> d, base |-> base[d], url |-> u,
                   port |-> p, sync |-> s, id |-> NoRow, row |-> NoRow]
  <2>2. Snapshot(q)
    BY DEF Snapshot
  <2>3. thread' = [thread EXCEPT ![t] = q] /\ UNCHANGED <<base, rows>>
    BY <2>1 DEF Begin
  <2> QED
    BY <2>2, <2>3
<1>3. CASE Refuse(t)
  BY <1>3 DEF Refuse
<1>4. ASSUME NEW r \in RowsOf(thread[t].device) \cup {NoRow}, NEW label \in PCs,
             Load(t, r, label), thread[t] \in Request, UNCHANGED <<base, rows>>,
             label \notin {"enable_port", "enable_commit", "update_commit"}
             \/ /\ EnabledRowsOf(thread[t].device) = {}
                /\ r = NoRow => RowsOf(thread[t].device) = {}
      PROVE  \E q : thread' = [thread EXCEPT ![t] = q] /\ (q # Idle => Snapshot(q))
  <2> DEFINE q == [thread[t] EXCEPT !.pc = label, !.id = r,
                                    !.row = IF r = NoRow THEN NoRow ELSE rows[r]]
  <2>1. thread' = [thread EXCEPT ![t] = q]
    BY <1>1, <1>4 DEF Load
  <2>2. thread[t] # Idle /\ Snapshot(thread[t])
    BY <1>4, RequestNotIdle DEF SeqInv, Undisturbed
  <2>3. /\ q.pc = label /\ q.device = thread[t].device /\ q.base = thread[t].base
        /\ q.id = r /\ q.row = IF r = NoRow THEN NoRow ELSE rows[r]
    BY <1>4 DEF Request
  <2>4. Snapshot(q)
    BY <1>4, <2>2, <2>3 DEF Snapshot
  <2> QED
    BY <2>1, <2>4
<1>5. CASE EnableLoad(t)
  <2> DEFINE label == IF thread[t].port = AutoPort THEN "enable_port" ELSE "enable_commit"
  <2>1. PICK r \in RowsOf(thread[t].device) \cup {NoRow} :
           Load(t, r, label) /\ (r = NoRow => RowsOf(thread[t].device) = {})
    BY <1>5, NoRowAssumption DEF EnableLoad, RowsOf, Inserted
  <2>2. thread[t] \in Request /\ EnabledRowsOf(thread[t].device) = {}
    BY <1>5, Busy DEF EnableLoad, Refused, SeqInv, IInv
  <2>3. label \in PCs /\ UNCHANGED <<base, rows>>
    BY <1>5 DEF PCs, EnableLoad
  <2> HIDE DEF label
  <2> QED
    BY <1>4, <2>1, <2>2, <2>3
<1>6. CASE DisableLoad(t)
  <2>1. PICK r \in RowsOf(thread[t].device) : Load(t, r, "disable_commit")
    BY <1>6 DEF DisableLoad
  <2>2. thread[t] \in Request
    BY <1>6, Busy DEF DisableLoad, SeqInv, IInv
  <2>3. "disable_commit" \in PCs /\ UNCHANGED <<base, rows>>
    BY <1>6 DEF PCs, DisableLoad
  <2> QED
    BY <1>4, <2>1, <2>2, <2>3
<1>7. CASE EnablePort(t)
  <2>1. PICK p \in FreePorts :
           thread' = [thread EXCEPT ![t].pc = "enable_commit", ![t].port = p]
    BY <1>7 DEF EnablePort
  <2> DEFINE q == [thread[t] EXCEPT !.pc = "enable_commit", !.port = p]
  <2>2. thread[t] \in Request /\ thread[t] # Idle /\ thread[t].pc = "enable_port"
    BY <1>7, Busy DEF EnablePort, SeqInv, IInv
  <2>3. thread' = [thread EXCEPT ![t] = q] /\ UNCHANGED <<base, rows>>
    BY <1>1, <1>7, <2>1 DEF EnablePort
  <2>4. /\ q.pc = "enable_commit" /\ q.device = thread[t].device /\ q.base = thread[t].base
        /\ q.id = thread[t].id /\ q.row = thread[t].row
    BY <2>2 DEF Request
  <2>5. Snapshot(q)
    BY <2>2, <2>4 DEF SeqInv, Undisturbed, Snapshot
  <2> QED
    BY <2>3, <2>5
<1>8. CASE UpdateCheck(t)
  <2> DEFINE q == [thread[t] EXCEPT !.pc = "update_commit"]
  <2>1. thread[t] \in Request /\ thread[t] # Idle
    BY <1>8, Busy DEF UpdateCheck, SeqInv, IInv
  <2>2. /\ thread' = [thread EXCEPT ![t] = q] /\ UNCHANGED <<base, rows>>
        /\ EnabledRowsOf(thread[t].device) = {}
    BY <1>1, <1>8 DEF UpdateCheck, Managed
  <2>3. /\ q.pc = "update_commit" /\ q.device = thread[t].device /\ q.base = thread[t].base
        /\ q.id = thread[t].id /\ q.row = thread[t].row
    BY <2>1 DEF Request
  <2>4. Snapshot(q)
    BY <2>1, <2>2, <2>3 DEF SeqInv, Undisturbed, Snapshot
  <2> QED
    BY <2>2, <2>4
<1> QED
  BY <1>2, <1>3, <1>5, <1>6, <1>7, <1>8 DEF Reads

-----------------------------------------------------------------------------
(* Commits. *)

\* What writing the one row of a device does to the rows of every device.
LEMMA RowsAfter ==
    ASSUME TypeOK, OneRow, NEW r \in RowIds, NEW new \in Row,
           rows' = [rows EXCEPT ![r] = new],
           (rows[r] = NoRow /\ RowsOf(new.device) = {}) \/ r \in RowsOf(new.device)
    PROVE  /\ Inserted' = Inserted \cup {r}
           /\ rows'[r] = new
           /\ \A s \in Inserted \ {r} : rows'[s] = rows[s]
           /\ RowsOf(new.device)' = {r}
           /\ EnabledRowsOf(new.device)' = IF new.enabled THEN {r} ELSE {}
           /\ \A e \in Devices \ {new.device} :
                 /\ r \notin RowsOf(e)
                 /\ RowsOf(e)' = RowsOf(e)
                 /\ EnabledRowsOf(e)' = EnabledRowsOf(e)
           /\ OneRow'
<1>1. rows'[r] = new /\ \A s \in RowIds \ {r} : rows'[s] = rows[s]
  BY DEF TypeOK
<1>2. new # NoRow /\ Inserted' = Inserted \cup {r}
  BY <1>1, NoRowAssumption DEF Inserted
<1>3. \A s \in Inserted \ {r} : rows'[s] = rows[s] /\ rows[s].device # new.device
  <2>1. \A s \in Inserted \ {r} : rows'[s] = rows[s]
    BY <1>1, InsertedRow
  <2>2. \A s \in Inserted \ {r} : rows[s].device # new.device
    BY DEF OneRow, RowsOf
  <2> QED
    BY <2>1, <2>2
<1>4. \A e \in Devices \ {new.device} : r \notin RowsOf(e)
  BY DEF RowsOf, Inserted
<1>5. RowsOf(new.device)' = {r}
  BY <1>1, <1>2, <1>3 DEF RowsOf
<1>6. EnabledRowsOf(new.device)' = IF new.enabled THEN {r} ELSE {}
  BY <1>1, <1>5 DEF EnabledRowsOf
<1>7. ASSUME NEW e \in Devices \ {new.device} PROVE RowsOf(e)' = RowsOf(e)
  BY <1>1, <1>2, <1>3, <1>4 DEF RowsOf
<1>8. ASSUME NEW e \in Devices \ {new.device} PROVE EnabledRowsOf(e)' = EnabledRowsOf(e)
  <2>1. \A s \in RowsOf(e) : rows'[s] = rows[s]
    BY <1>3, <1>4 DEF RowsOf
  <2> QED
    BY <1>7, <2>1 DEF EnabledRowsOf
<1>9. OneRow'
  BY <1>1, <1>2, <1>3 DEF OneRow
<1> QED
  BY <1>1, <1>2, <1>3, <1>4, <1>5, <1>6, <1>7, <1>8, <1>9

\* An update sets the URL of a device without an enabled tunnel.
LEMMA UpdateEffect ==
    ASSUME SeqInv, NEW t \in Threads, UpdateCommit(t)
    PROVE  /\ thread[t].device \in Devices /\ thread[t].url \in Manual
           /\ EnabledRowsOf(thread[t].device) = {}
           /\ base' = [base EXCEPT ![thread[t].device] = thread[t].url]
           /\ UNCHANGED rows
<1> DEFINE q == thread[t]
<1>1. q \in Request /\ q # Idle
  BY Busy DEF UpdateCommit, SeqInv, IInv
<1>2. q.device \in Devices /\ q.url \in Manual
  BY <1>1 DEF Request
<1>3. q.base = base[q.device] /\ EnabledRowsOf(q.device) = {}
  BY <1>1 DEF UpdateCommit, SeqInv, Undisturbed, Snapshot
<1>4. base' = [base EXCEPT ![q.device] = q.url] /\ UNCHANGED rows
  BY <1>2, <1>3 DEF UpdateCommit, Flushed, SeqInv, IInv, TypeOK
<1> QED
  BY <1>2, <1>3, <1>4

\* A disable clears the flag of the device's row and restores the saved URL.
Disables(d, r, new) ==
    /\ r \in RowsOf(d)
    /\ new = [rows[r] EXCEPT !.enabled = FALSE]
    /\ rows' = [rows EXCEPT ![r] = new]
    /\ base' = [base EXCEPT ![d] = new.previous_base_url]

LEMMA DisableEffect ==
    ASSUME SeqInv, NEW t \in Threads, DisableCommit(t)
    PROVE  /\ thread[t].device \in Devices
           /\ \E r \in RowIds, new \in Row : Disables(thread[t].device, r, new)
<1> DEFINE q == thread[t]
           new == [rows[q.id] EXCEPT !.enabled = FALSE]
<1>1. q \in Request /\ q # Idle /\ q.id # NoRow
  BY Busy DEF DisableCommit, SeqInv, IInv, DisableHasRow
<1>2. q.id \in RowsOf(q.device) /\ q.base = base[q.device] /\ q.row = rows[q.id]
  BY <1>1 DEF SeqInv, IInv, TypeOK, Undisturbed, Snapshot
<1>3. q.device \in Devices /\ q.id \in RowIds /\ rows[q.id] \in Row
  BY <1>1, <1>2, InsertedRow DEF Request, SeqInv, IInv
<1>4. new \in Row /\ new.previous_base_url = rows[q.id].previous_base_url
  BY <1>3 DEF Row
<1>5. rows' = [rows EXCEPT ![q.id] = new]
  BY <1>2, <1>3 DEF DisableCommit, Flushed, Row, SeqInv, IInv, TypeOK
<1>6. base' = [base EXCEPT ![q.device] = new.previous_base_url]
  BY <1>2, <1>3, <1>4 DEF DisableCommit, Flushed, RestoredUrl, SeqInv, IInv, TypeOK
<1> QED
  BY <1>2, <1>3, <1>4, <1>5, <1>6 DEF Disables

\* An enable writes or inserts the device's row, with a port no other row has
\* and the URL that the device has had.
Enables(d, r, new) ==
    /\ EnabledRowsOf(d) = {}
    /\ (rows[r] = NoRow /\ RowsOf(d) = {}) \/ r \in RowsOf(d)
    /\ new.device = d /\ new.enabled
    /\ new.internal_base_url = Internal(new.remote_port)
    /\ new.previous_base_url = base[d]
    /\ \A s \in Inserted \ {r} : rows[s].remote_port # new.remote_port
    /\ rows' = [rows EXCEPT ![r] = new]
    /\ base' \in {base, [base EXCEPT ![d] = new.internal_base_url]}

LEMMA EnableEffect ==
    ASSUME SeqInv, NEW t \in Threads, EnableCommit(t)
    PROVE  /\ thread[t].device \in Devices
           /\ \E r \in RowIds, new \in Row : Enables(thread[t].device, r, new)
<1> DEFINE q == thread[t]
           d == q.device
<1>1. q \in Request /\ q # Idle /\ q.port \in Allowed
  BY Busy DEF EnableCommit, SeqInv, IInv, TypeOK
<1>2. d \in Devices /\ base[d] \in Urls /\ Internal(q.port) \in Urls
  BY <1>1, InternalInjective DEF Request, SeqInv, IInv, TypeOK
<1>3. /\ q.base = base[d]
      /\ q.id # NoRow => q.row = rows[q.id]
      /\ EnabledRowsOf(d) = {}
      /\ q.id = NoRow => RowsOf(d) = {}
  BY <1>1 DEF EnableCommit, SeqInv, Undisturbed, Snapshot
<1>4. base' \in {base, [base EXCEPT ![d] = Internal(q.port)]}
  BY <1>2, <1>3 DEF EnableCommit, Flushed, SeqInv, IInv, TypeOK
<1>5. CASE q.id = NoRow
  <2> DEFINE new == NewRow(q)
  <2>1. PICK r \in RowIds \ Inserted : rows' = [rows EXCEPT ![r] = new]
    BY <1>5 DEF EnableCommit
  <2>2. new \in Row
    BY <1>1, <1>2, <1>3 DEF NewRow, Row, PreviousUrl
  <2>3. /\ new.device = d /\ new.enabled /\ new.remote_port = q.port
        /\ new.internal_base_url = Internal(q.port) /\ new.previous_base_url = base[d]
    BY <1>3 DEF NewRow, PreviousUrl
  <2>4. \A s \in Inserted : rows[s].remote_port # q.port
    BY <1>5, NoRowAssumption DEF EnableCommit, Conflict, PortTaken, Inserted
  <2>5. rows[r] = NoRow
    BY <2>1 DEF Inserted
  <2>6. Enables(d, r, new)
    <3>1. base' \in {base, [base EXCEPT ![d] = new.internal_base_url]}
      BY <1>4, <2>3
    <3> HIDE DEF new
    <3> QED
      BY <1>3, <1>5, <2>1, <2>3, <2>4, <2>5, <3>1 DEF Enables
  <2> QED
    BY <1>2, <2>2, <2>6
<1>6. CASE q.id # NoRow
  <2> DEFINE cur == rows[q.id]
             new == EnabledRow(q, cur)
  <2>1. q.id \in RowsOf(d) /\ q.row = cur
    BY <1>1, <1>3, <1>6 DEF SeqInv, IInv, TypeOK
  <2>2. q.id \in RowIds /\ cur \in Row /\ cur.device = d
    BY <2>1, InsertedRow DEF SeqInv, IInv, RowsOf
  <2>3. rows' = [rows EXCEPT ![q.id] = new]
    BY <1>6, <2>2 DEF EnableCommit, SeqInv, IInv, TypeOK
  <2>4. /\ new \in Row /\ new.device = d /\ new.enabled /\ new.remote_port = q.port
        /\ new.internal_base_url = Internal(q.port) /\ new.previous_base_url = base[d]
    BY <1>1, <1>2, <1>3, <2>1, <2>2 DEF EnabledRow, Row, PreviousUrl, Flushed
  <2>5. \A s \in Inserted \ {q.id} : rows[s].remote_port # q.port
    <3>1. CASE q.row.remote_port = q.port
      BY <2>1, <3>1 DEF SeqInv, IInv, PortsUnique, RowsOf
    <3>2. CASE q.row.remote_port # q.port
      BY <3>2 DEF EnableCommit, Conflict, PortTaken
    <3> QED
      BY <3>1, <3>2
  <2>6. Enables(d, q.id, new)
    <3>1. base' \in {base, [base EXCEPT ![d] = new.internal_base_url]}
      BY <1>4, <2>4
    <3> HIDE DEF new
    <3> QED
      BY <1>3, <2>1, <2>3, <2>4, <2>5, <3>1 DEF Enables
  <2> QED
    BY <1>2, <2>2, <2>4, <2>6
<1> QED
  BY <1>5, <1>6

-----------------------------------------------------------------------------
(* The invariant is kept.  A commit changes the row and the URL of its     *)
(* device and nothing that a request for another device has read.          *)

UrlsInv == OneRow /\ OperatorsUrl /\ UrlExplained

Untouched(e) ==
    /\ base'[e] = base[e]
    /\ RowsOf(e)' = RowsOf(e) /\ EnabledRowsOf(e)' = EnabledRowsOf(e)
    /\ \A s \in RowsOf(e) : rows'[s] = rows[s]

LEMMA UpdateUrls ==
    ASSUME SeqInv, NEW d \in Devices, NEW u \in Manual, EnabledRowsOf(d) = {},
           base' = [base EXCEPT ![d] = u], UNCHANGED rows
    PROVE  UrlsInv' /\ \A e \in Devices \ {d} : Untouched(e)
<1>1. /\ base'[d] = u
      /\ \A e \in Devices \ {d} : base'[e] = base[e]
  BY DEF SeqInv, IInv, TypeOK
<1>2. Inserted' = Inserted /\ \A e : RowsOf(e)' = RowsOf(e) /\ EnabledRowsOf(e)' = EnabledRowsOf(e)
  BY DEF Inserted, RowsOf, EnabledRowsOf
<1>3. OneRow' /\ OperatorsUrl'
  BY <1>1, <1>2 DEF SeqInv, OneRow, OperatorsUrl, SavedByOperator
<1>4. UrlExplained'
  BY <1>1, <1>2 DEF SeqInv, UrlExplained
<1> QED
  BY <1>1, <1>2, <1>3, <1>4 DEF UrlsInv, Untouched

LEMMA DisableUrls ==
    ASSUME SeqInv, NEW d \in Devices, NEW r \in RowIds, NEW new \in Row, Disables(d, r, new)
    PROVE  UrlsInv' /\ \A e \in Devices \ {d} : Untouched(e)
<1> USE DEF Disables
<1>1. /\ rows[r] \in Row /\ rows[r].device = d /\ r \in Inserted
      /\ rows[r].previous_base_url \in Manual
  BY InsertedRow DEF SeqInv, IInv, RowsOf, OperatorsUrl, SavedByOperator
<1>2. new.device = d /\ new.enabled = FALSE /\ new.previous_base_url = rows[r].previous_base_url
  BY <1>1 DEF Row
<1>3. /\ Inserted' = Inserted \cup {r} /\ rows'[r] = new
      /\ \A s \in Inserted \ {r} : rows'[s] = rows[s]
      /\ EnabledRowsOf(d)' = {}
      /\ \A e \in Devices \ {d} : /\ r \notin RowsOf(e)
                                  /\ RowsOf(e)' = RowsOf(e)
                                  /\ EnabledRowsOf(e)' = EnabledRowsOf(e)
      /\ OneRow'
  BY <1>2, RowsAfter DEF SeqInv, IInv
<1>4. base'[d] \in Manual /\ \A e \in Devices \ {d} : base'[e] = base[e]
  BY <1>1, <1>2 DEF SeqInv, IInv, TypeOK
<1>5. OperatorsUrl'
  BY <1>1, <1>2, <1>3, <1>4 DEF SeqInv, OperatorsUrl, SavedByOperator
<1>6. UrlExplained'
  <2> SUFFICES ASSUME NEW e \in Devices, NEW s \in EnabledRowsOf(e)'
               PROVE  base'[e] \in {rows'[s].internal_base_url, rows'[s].previous_base_url}
    BY DEF UrlExplained
  <2>1. e # d /\ s \in EnabledRowsOf(e)
    BY <1>3
  <2>2. rows'[s] = rows[s] /\ base'[e] = base[e]
    BY <1>3, <1>4, <2>1 DEF EnabledRowsOf, RowsOf
  <2> QED
    BY <2>1, <2>2 DEF SeqInv, UrlExplained
<1>7. ASSUME NEW e \in Devices \ {d} PROVE Untouched(e)
  BY <1>3, <1>4 DEF Untouched, RowsOf
<1> QED
  BY <1>3, <1>5, <1>6, <1>7 DEF UrlsInv

LEMMA EnableUrls ==
    ASSUME SeqInv, NEW d \in Devices, NEW r \in RowIds, NEW new \in Row, Enables(d, r, new)
    PROVE  UrlsInv' /\ \A e \in Devices \ {d} : Untouched(e)
<1> USE DEF Enables
<1>1. /\ Inserted' = Inserted \cup {r} /\ rows'[r] = new
      /\ \A s \in Inserted \ {r} : rows'[s] = rows[s]
      /\ EnabledRowsOf(d)' = {r}
      /\ \A e \in Devices \ {d} : /\ r \notin RowsOf(e)
                                  /\ RowsOf(e)' = RowsOf(e)
                                  /\ EnabledRowsOf(e)' = EnabledRowsOf(e)
      /\ OneRow'
  BY RowsAfter DEF SeqInv, IInv
<1>2. /\ base'[d] \in {new.internal_base_url, new.previous_base_url}
      /\ \A e \in Devices \ {d} : base'[e] = base[e]
  BY DEF SeqInv, IInv, TypeOK
<1>3. new.previous_base_url \in Manual
  BY DEF SeqInv, OperatorsUrl, SavedByOperator
<1>4. OperatorsUrl'
  BY <1>1, <1>2, <1>3 DEF SeqInv, OperatorsUrl, SavedByOperator
<1>5. UrlExplained'
  <2> SUFFICES ASSUME NEW e \in Devices, NEW s \in EnabledRowsOf(e)'
               PROVE  base'[e] \in {rows'[s].internal_base_url, rows'[s].previous_base_url}
    BY DEF UrlExplained
  <2>1. CASE e = d
    BY <1>1, <1>2, <2>1
  <2>2. CASE e # d
    <3>1. s \in EnabledRowsOf(e) /\ rows'[s] = rows[s] /\ base'[e] = base[e]
      BY <1>1, <1>2, <2>2 DEF EnabledRowsOf, RowsOf
    <3> QED
      BY <3>1 DEF SeqInv, UrlExplained
  <2> QED
    BY <2>1, <2>2
<1>6. ASSUME NEW e \in Devices \ {d} PROVE Untouched(e)
  BY <1>1, <1>2 DEF Untouched, RowsOf
<1> QED
  BY <1>1, <1>4, <1>5, <1>6 DEF UrlsInv

\* What a step is.
LEMMA SeqKinds ==
    ASSUME SeqInv, [Next]_vars
    PROVE  \/ UNCHANGED vars
           \/ \E t \in Threads : Reads(t)
           \/ \E t \in Threads : /\ UpdateCommit(t) \/ DisableCommit(t) \/ EnableCommit(t)
                                 /\ thread' = [thread EXCEPT ![t] = Idle]
BY DEF Next, Reads, Continue, EnableRefused, EnablePortNone, EnableConflict, DisableRefused,
   UpdateRefused, UpdateCommit, DisableCommit, EnableCommit

LEMMA SeqStep == SeqInv /\ OnePerDevice /\ [Next]_vars => SeqInv'
<1> SUFFICES ASSUME SeqInv, OnePerDevice, [Next]_vars PROVE SeqInv'
  OBVIOUS
<1>1. IInv'
  BY StepInv DEF SeqInv
<1>2. CASE UNCHANGED vars
  BY <1>1, <1>2 DEF vars, SeqInv, OneRow, Undisturbed, Snapshot, OperatorsUrl,
     SavedByOperator, UrlExplained, Inserted, RowsOf, EnabledRowsOf
<1>3. ASSUME NEW t \in Threads, Reads(t) PROVE SeqInv'
  BY <1>1, <1>3, SeqRead
<1>4. ASSUME NEW t \in Threads, UpdateCommit(t) \/ DisableCommit(t) \/ EnableCommit(t),
             thread' = [thread EXCEPT ![t] = Idle]
      PROVE  SeqInv'
  <2> DEFINE d == thread[t].device
  <2>2. UrlsInv' /\ \A e \in Devices \ {d} : Untouched(e)
    BY <1>4, UpdateEffect, DisableEffect, EnableEffect, UpdateUrls, DisableUrls, EnableUrls
  <2>1. Undisturbed'
    <3> SUFFICES ASSUME NEW u \in Threads, thread'[u] # Idle PROVE Snapshot(thread[u])'
      BY DEF Undisturbed
    <3>1. u # t /\ thread'[u] = thread[u]
      BY <1>4 DEF SeqInv, IInv, TypeOK
    <3>2. thread[t] # Idle
      BY <1>4 DEF UpdateCommit, DisableCommit, EnableCommit, Idle
    <3>3. thread[u] \in Request /\ thread[u].device \in Devices \ {d}
      BY <3>1, <3>2 DEF OnePerDevice, SeqInv, IInv, TypeOK, Request
    <3>4. Untouched(thread[u].device) /\ Snapshot(thread[u])
      BY <2>2, <3>1, <3>3 DEF SeqInv, Undisturbed
    <3>5. thread[u].id # NoRow => thread[u].id \in RowsOf(thread[u].device)
      BY <3>1 DEF SeqInv, IInv, TypeOK
    <3> QED
      BY <3>1, <3>4, <3>5 DEF Snapshot, Untouched
  <2> QED
    BY <1>1, <2>1, <2>2 DEF SeqInv, UrlsInv
<1> QED
  BY <1>2, <1>3, <1>4, SeqKinds

LEMMA SerialInit == Init => OnePerDevice
BY DEF Init, OnePerDevice

LEMMA SerialStep == OnePerDevice /\ [Next /\ OnePerDevice']_vars => OnePerDevice'
BY DEF OnePerDevice, vars

LEMMA SeqInvariance == SerialSpec => [](SeqInv /\ OnePerDevice)
<1>1. SeqInv /\ OnePerDevice /\ [Next /\ OnePerDevice']_vars => (SeqInv /\ OnePerDevice)'
  BY SeqStep, SerialStep
<1> QED
  BY <1>1, SeqInit, SerialInit, PTL DEF SerialSpec

-----------------------------------------------------------------------------
(* What requests that do not overlap at their device keep. *)

\* A device with an enabled tunnel is reached through it or at its old URL.
THEOREM UrlIsExplained == SerialSpec => []UrlExplained
<1>1. SeqInv => UrlExplained
  BY DEF SeqInv
<1> QED
  BY <1>1, SeqInvariance, PTL

\* A device's URL is never a port that its own enabled tunnel does not have.
THEOREM NoPortIsForeign ==
    ASSUME OperatorsKeepOff
    PROVE  SerialSpec => []NoForeignPort
<1>1. SeqInv => NoForeignPort
  <2> SUFFICES ASSUME SeqInv, NEW d \in Devices, NEW p \in Allowed, base[d] = Internal(p)
               PROVE  \E r \in EnabledRowsOf(d) : rows[r].remote_port = p
    BY DEF NoForeignPort
  <2>1. base[d] \notin Manual
    BY DEF OperatorsKeepOff
  <2>2. PICK r \in EnabledRowsOf(d) : TRUE
    BY <2>1 DEF SeqInv, OperatorsUrl, SavedByOperator
  <2>3. r \in Inserted /\ rows[r].previous_base_url \in Manual
    BY DEF EnabledRowsOf, RowsOf, SeqInv, OperatorsUrl, SavedByOperator
  <2>4. base[d] = rows[r].internal_base_url
    BY <2>1, <2>3 DEF SeqInv, UrlExplained
  <2>5. rows[r].internal_base_url = Internal(rows[r].remote_port)
    BY <2>3 DEF SeqInv, IInv, UrlNamesPort
  <2> QED
    BY <2>4, <2>5, InternalInjective
<1> QED
  BY <1>1, SeqInvariance, PTL

\* A disable restores a URL that an operator set.
THEOREM RestoresOperatorsUrl == SerialSpec => []SavedByOperator
<1>1. SeqInv => SavedByOperator
  BY DEF SeqInv, OperatorsUrl
<1> QED
  BY <1>1, SeqInvariance, PTL

\* A device has one tunnel without the constraint on device_id as well.
THEOREM OneTunnelInSequence == SerialSpec => []OneTunnelPerDevice
<1>1. SeqInv => OneTunnelPerDevice
  BY OneRowOneTunnel DEF SeqInv
<1> QED
  BY <1>1, SeqInvariance, PTL

\* An update never changes the URL of a device whose tunnel is enabled.
THEOREM UpdateRespectsTunnel == SerialSpec => ManagedByTunnel
<1>1. ASSUME SeqInv, [Next]_vars, NEW t \in Threads, NEW d \in Devices,
             thread[t].pc = "update_commit", thread'[t] = Idle, EnabledRowsOf(d) # {}
      PROVE  base'[d] = base[d]
  <2>1. thread[t] # Idle
    BY <1>1 DEF Idle
  <2>2. CASE UNCHANGED vars
    BY <2>2 DEF vars
  <2>3. ASSUME NEW u \in Threads, Reads(u) PROVE base' = base
    BY <2>3 DEF Reads, Start, EnableBegin, DisableBegin, UpdateBegin, Begin, Refuse,
       EnableLoad, EnablePort, DisableLoad, UpdateCheck
  <2>4. ASSUME NEW u \in Threads, UpdateCommit(u) \/ DisableCommit(u) \/ EnableCommit(u),
               thread' = [thread EXCEPT ![u] = Idle]
        PROVE  base'[d] = base[d]
    <3>1. u = t
      BY <1>1, <2>1, <2>4 DEF SeqInv, IInv, TypeOK
    <3>2. UpdateCommit(t)
      BY <1>1, <2>4, <3>1 DEF DisableCommit, EnableCommit
    <3> QED
      BY <1>1, <3>2, UpdateEffect DEF SeqInv, IInv, TypeOK
  <2> QED
    BY <1>1, <2>2, <2>3, <2>4, SeqKinds
<1>2. SeqInv /\ [Next /\ OnePerDevice']_vars =>
         [\A t \in Threads, d \in Devices :
             thread[t].pc = "update_commit" /\ thread'[t] = Idle /\ EnabledRowsOf(d) # {}
                 => base'[d] = base[d]]_vars
  BY <1>1
<1> QED
  BY <1>2, SeqInvariance, PTL DEF SerialSpec, ManagedByTunnel

-----------------------------------------------------------------------------
(* The refinement: a commit is a step of the binding, a read is a stutter. *)

\* The tunnel that the mapping chooses is the only one there is.
Chosen(S) == CHOOSE s \in S : TRUE

LEMMA OnlyChoice == \A S, r : (S # {} => Chosen(S) \in S) /\ (S = {r} => Chosen(S) = r)
<1>1. \A S : S # {} => Chosen(S) \in S
  BY DEF Chosen
<1>2. \A S, r : S = {r} => Chosen(S) = r
  BY <1>1
<1> QED
  BY <1>1, <1>2

PortOf(R, S) == IF S = {} THEN AutoPort ELSE R[Chosen(S)].remote_port
UrlOf(R, S) == IF S = {} THEN [never |-> TRUE] ELSE R[Chosen(S)].previous_base_url

\* The port and the saved URL of a device, and what they are after its row r
\* was written.
LEMMA BindingAfter ==
    ASSUME TypeOK, OneRow, NEW r \in RowIds, NEW new \in Row,
           rows' = [rows EXCEPT ![r] = new],
           (rows[r] = NoRow /\ RowsOf(new.device) = {}) \/ r \in RowsOf(new.device)
    PROVE  /\ BoundPort(new.device)' = IF new.enabled THEN new.remote_port ELSE AutoPort
           /\ SavedUrl(new.device)' = new.previous_base_url
           /\ \A e \in Devices \ {new.device} :
                 BoundPort(e)' = BoundPort(e) /\ SavedUrl(e)' = SavedUrl(e)
<1> DEFINE d == new.device
<1>0. \A e : /\ BoundPort(e) = PortOf(rows, EnabledRowsOf(e))
             /\ BoundPort(e)' = PortOf(rows', EnabledRowsOf(e)')
             /\ SavedUrl(e) = UrlOf(rows, RowsOf(e))
             /\ SavedUrl(e)' = UrlOf(rows', RowsOf(e)')
  BY DEF BoundPort, SavedUrl, PortOf, UrlOf, Chosen
<1>1. /\ rows'[r] = new
      /\ \A s \in Inserted \ {r} : rows'[s] = rows[s]
      /\ RowsOf(d)' = {r}
      /\ EnabledRowsOf(d)' = IF new.enabled THEN {r} ELSE {}
      /\ \A e \in Devices \ {d} :
            /\ r \notin RowsOf(e)
            /\ RowsOf(e)' = RowsOf(e)
            /\ EnabledRowsOf(e)' = EnabledRowsOf(e)
  BY RowsAfter
<1>2. BoundPort(d)' = IF new.enabled THEN new.remote_port ELSE AutoPort
  <2>1. CASE new.enabled
    <3>1. EnabledRowsOf(d)' # {} /\ Chosen(EnabledRowsOf(d)') = r
      BY <1>1, <2>1, OnlyChoice
    <3>2. BoundPort(d)' = rows'[r].remote_port
      BY <3>1, <1>0 DEF PortOf, UrlOf
    <3> QED
      BY <1>1, <2>1, <3>2
  <2>2. CASE ~new.enabled
    BY <1>1, <2>2, <1>0 DEF PortOf, UrlOf
  <2> QED
    BY <2>1, <2>2
<1>3. SavedUrl(d)' = new.previous_base_url
  BY <1>1, <1>0, OnlyChoice DEF PortOf, UrlOf
<1>4. ASSUME NEW e \in Devices \ {d} PROVE BoundPort(e)' = BoundPort(e)
  <2>1. CASE EnabledRowsOf(e) = {}
    BY <1>1, <2>1, <1>0 DEF PortOf, UrlOf
  <2>2. CASE EnabledRowsOf(e) # {}
    <3> DEFINE s == Chosen(EnabledRowsOf(e))
    <3>1. s \in EnabledRowsOf(e)
      BY <2>2, OnlyChoice
    <3>2. rows'[s] = rows[s]
      BY <1>1, <3>1 DEF EnabledRowsOf, RowsOf
    <3> QED
      BY <1>1, <2>2, <3>2, <1>0 DEF PortOf, UrlOf
  <2> QED
    BY <2>1, <2>2
<1>5. ASSUME NEW e \in Devices \ {d} PROVE SavedUrl(e)' = SavedUrl(e)
  <2>1. CASE RowsOf(e) = {}
    BY <1>1, <2>1, <1>0 DEF PortOf, UrlOf
  <2>2. CASE RowsOf(e) # {}
    <3> DEFINE s == Chosen(RowsOf(e))
    <3>1. s \in RowsOf(e)
      BY <2>2, OnlyChoice
    <3>2. rows'[s] = rows[s]
      BY <1>1, <3>1 DEF RowsOf
    <3> QED
      BY <1>1, <2>2, <3>2, <1>0 DEF PortOf, UrlOf
  <2> QED
    BY <2>1, <2>2
<1> QED
  BY <1>2, <1>3, <1>4, <1>5

LEMMA BindingKept ==
    ASSUME UNCHANGED rows
    PROVE  \A e : BoundPort(e)' = BoundPort(e) /\ SavedUrl(e)' = SavedUrl(e)
<1>1. \A e : RowsOf(e)' = RowsOf(e) /\ EnabledRowsOf(e)' = EnabledRowsOf(e)
  BY DEF Inserted, RowsOf, EnabledRowsOf
<1>2. \A e : /\ BoundPort(e) = PortOf(rows, EnabledRowsOf(e))
             /\ BoundPort(e)' = PortOf(rows', EnabledRowsOf(e)')
             /\ SavedUrl(e) = UrlOf(rows, RowsOf(e))
             /\ SavedUrl(e)' = UrlOf(rows', RowsOf(e)')
  BY DEF BoundPort, SavedUrl, PortOf, UrlOf, Chosen
<1> QED
  BY <1>1, <1>2

LEMMA BindingInit == Init => Binding!Init
<1> SUFFICES ASSUME Init PROVE Binding!Init
  OBVIOUS
<1>1. \A d \in Devices : RowsOf(d) = {} /\ EnabledRowsOf(d) = {}
  BY DEF Init, Inserted, RowsOf, EnabledRowsOf
<1>2. \A d \in Devices : BoundPort(d) = AutoPort /\ SavedUrl(d) = [never |-> TRUE]
  BY <1>1 DEF BoundPort, SavedUrl
<1> QED
  BY <1>2 DEF Init, Binding!Init, Binding!Never

LEMMA BindingStutter == UNCHANGED <<base, rows>> => UNCHANGED Binding!vars
BY BindingKept DEF Binding!vars

LEMMA UpdateSets ==
    ASSUME SeqInv, NEW d \in Devices, NEW u \in Manual, EnabledRowsOf(d) = {},
           base' = [base EXCEPT ![d] = u], UNCHANGED rows
    PROVE  Binding!SetUrl(d, u)
<1>1. BoundPort(d) = AutoPort
  BY DEF BoundPort
<1> QED
  BY <1>1, BindingKept DEF Binding!SetUrl

LEMMA DisableReleases ==
    ASSUME SeqInv, NEW d \in Devices, NEW r \in RowIds, NEW new \in Row, Disables(d, r, new)
    PROVE  Binding!Release(d)
<1>1. rows[r] \in Row /\ rows[r].device = d /\ rows[r].previous_base_url \in Manual
  BY InsertedRow DEF SeqInv, IInv, RowsOf, OperatorsUrl, SavedByOperator, Disables
<1>2. /\ new.device = d /\ ~new.enabled
      /\ new.previous_base_url = rows[r].previous_base_url
  BY <1>1 DEF Row, Disables
<1>3. /\ BoundPort(d)' = AutoPort /\ SavedUrl(d)' = new.previous_base_url
      /\ \A e \in Devices \ {d} : BoundPort(e)' = BoundPort(e) /\ SavedUrl(e)' = SavedUrl(e)
  BY <1>2, BindingAfter DEF Disables, SeqInv, IInv
<1>4. SavedUrl(d) = new.previous_base_url
  <2>1. RowsOf(d) = {r}
    BY DEF Disables, SeqInv, OneRow, RowsOf
  <2>2. SavedUrl(d) = rows[Chosen(RowsOf(d))].previous_base_url
    BY <2>1 DEF SavedUrl, Chosen
  <2> QED
    BY <1>2, <2>1, <2>2, OnlyChoice
<1>5. SavedUrl(d) # [never |-> TRUE]
  BY <1>1, <1>2, <1>4, ManualAssumption
<1>6. base' = [base EXCEPT ![d] = SavedUrl(d)]
  BY <1>4 DEF Disables
<1> QED
  BY <1>3, <1>4, <1>5, <1>6 DEF Binding!Release, Binding!Never

LEMMA EnableBinds ==
    ASSUME SeqInv, NEW d \in Devices, NEW r \in RowIds, NEW new \in Row, Enables(d, r, new)
    PROVE  new.remote_port \in Allowed /\ Binding!Bind(d, new.remote_port)
<1>1. new.device = d /\ new.enabled /\ new.remote_port \in Allowed
  BY DEF Enables, Row
<1>2. /\ BoundPort(d)' = new.remote_port /\ SavedUrl(d)' = base[d]
      /\ \A e \in Devices \ {d} : BoundPort(e)' = BoundPort(e) /\ SavedUrl(e)' = SavedUrl(e)
  BY <1>1, BindingAfter DEF Enables, SeqInv, IInv
<1>3. BoundPort(d) = AutoPort
  BY DEF Enables, BoundPort
<1>4. ASSUME NEW e \in Devices PROVE BoundPort(e) # new.remote_port
  <2>1. CASE EnabledRowsOf(e) = {}
    BY <1>1, <2>1, PortAssumption DEF BoundPort, Allowed, AutoPort
  <2>2. CASE EnabledRowsOf(e) # {}
    <3> DEFINE s == Chosen(EnabledRowsOf(e))
    <3>1. s \in EnabledRowsOf(e)
      BY <2>2, OnlyChoice
    <3>2. e # d
      BY <2>2 DEF Enables
    <3>3. s \in Inserted \ {r}
      BY <3>1, <3>2, <1>1 DEF Enables, EnabledRowsOf, RowsOf, Inserted
    <3>4. BoundPort(e) = rows[s].remote_port
      BY <2>2 DEF BoundPort, Chosen
    <3> QED
      BY <3>3, <3>4 DEF Enables
  <2> QED
    BY <2>1, <2>2
<1>5. base' \in {base, [base EXCEPT ![d] = Internal(new.remote_port)]}
  BY DEF Enables
<1> QED
  BY <1>1, <1>2, <1>3, <1>4, <1>5 DEF Binding!Bind

LEMMA BindingStep == SeqInv /\ [Next]_vars => [Binding!Next]_(Binding!vars)
<1> SUFFICES ASSUME SeqInv, [Next]_vars PROVE [Binding!Next]_(Binding!vars)
  OBVIOUS
<1>1. CASE UNCHANGED vars
  BY <1>1, BindingStutter DEF vars
<1>2. ASSUME NEW t \in Threads, Reads(t) PROVE UNCHANGED Binding!vars
  BY <1>2, StepInv, SeqRead, BindingStutter DEF SeqInv
<1>3. ASSUME NEW t \in Threads, UpdateCommit(t) PROVE Binding!Next
  BY <1>3, UpdateEffect, UpdateSets DEF Binding!Next
<1>4. ASSUME NEW t \in Threads, DisableCommit(t) PROVE Binding!Next
  BY <1>4, DisableEffect, DisableReleases DEF Binding!Next
<1>5. ASSUME NEW t \in Threads, EnableCommit(t) PROVE Binding!Next
  BY <1>5, EnableEffect, EnableBinds DEF Binding!Next
<1> QED
  BY <1>1, <1>2, <1>3, <1>4, <1>5, SeqKinds

\* Where the requests for one device do not overlap, the endpoints bind devices
\* to ports and release them, with or without the constraint on device_id.
THEOREM ImplementsBinding == SerialSpec => BindingSpec
<1>1. Init => Binding!Init
  BY BindingInit
<1>2. SeqInv /\ [Next /\ OnePerDevice']_vars => [Binding!Next]_(Binding!vars)
  BY BindingStep
<1> QED
  BY <1>1, <1>2, SeqInvariance, PTL DEF SerialSpec, BindingSpec, Binding!Spec
=============================================================================
