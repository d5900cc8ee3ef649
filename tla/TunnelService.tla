--------------------------- MODULE TunnelService ---------------------------
(***************************************************************************)
(* The tunnel of a device and its base_url: enable and disable             *)
(* (app/services/tunnel_service.py), and the update of a device            *)
(* (app/services/device_service.py), which refuses a new base_url while a  *)
(* tunnel is enabled.                                                      *)
(*                                                                         *)
(* The endpoints are plain functions: each request runs in a thread of its *)
(* own, with its own session, and its SELECTs interleave with the commits  *)
(* of the others.  An action is one SELECT, or the flush and commit, with  *)
(* the Python code up to the next one.                                     *)
(*                                                                         *)
(* The session is part of the behaviour.  It writes a column only if the   *)
(* value assigned differs from the value loaded (Flushed), so a commit     *)
(* neither always overwrites nor always keeps what others wrote meanwhile. *)
(***************************************************************************)
EXTENDS Naturals, FiniteSets

CONSTANTS
    Threads,        \* requests in progress at the same time
    Devices,        \* devices with a row
    RowIds,         \* device_tunnels.id; bounds the rows ever inserted
    PortMin,        \* frps_allow_port_min
    PortMax,        \* frps_allow_port_max
    AskedPorts,     \* remote_port of requests; AutoPort leaves it out
    Manual,         \* base URLs that operators set, NoUrl (null) among them
    NoUrl,
    NoRow,          \* a row id that was not inserted, a SELECT without a row
    DeviceIdUnique  \* whether the table has UNIQUE (device_id): the model
                    \* class declares it, migration 0002 does not create it

AutoPort == 0

ASSUME PortAssumption == PortMin \in Nat \ {0} /\ PortMax \in Nat /\ AskedPorts \subseteq Nat
ASSUME SchemaAssumption == DeviceIdUnique \in BOOLEAN
ASSUME ManualAssumption == NoUrl \in Manual /\ [never |-> TRUE] \notin Manual

VARIABLES
    base,           \* devices.base_url
    rows,           \* device_tunnels by row id
    thread          \* what each request has loaded and is about to do

vars == <<base, rows, thread>>

Allowed == PortMin .. PortMax
Internal(p) == [internal |-> p]         \* http://{frps_internal_host}:{p}
Urls == Manual \cup {Internal(p) : p \in Allowed}

Row == [device : Devices, enabled : BOOLEAN, remote_port : Allowed,
        internal_base_url : Urls, previous_base_url : Urls]

ASSUME NoRowAssumption == NoRow \notin RowIds /\ NoRow \notin Row

Inserted == {r \in RowIds : rows[r] # NoRow}
RowsOf(d) == {r \in Inserted : rows[r].device = d}
EnabledRowsOf(d) == {r \in RowsOf(d) : rows[r].enabled}

(***************************************************************************)
(* A request: its operation and arguments, and the objects in its session. *)
(* `base` is devices.base_url as loaded; `id` and `row` are the tunnel's   *)
(* row as loaded.                                                          *)
(***************************************************************************)
PCs == {"enable_load", "enable_port", "enable_commit",
        "disable_load", "disable_commit", "update_check", "update_commit"}

Request == [pc : PCs, device : Devices, base : Urls, url : Manual,
            port : AskedPorts \cup Allowed \cup {AutoPort}, sync : BOOLEAN,
            id : RowIds \cup {NoRow}, row : Row \cup {NoRow}]

Idle == [pc |-> "idle"]

\* A SELECT of the device by a new request.
Begin(t, label, d, u, p, s) ==
    /\ thread[t] = Idle
    /\ thread' = [thread EXCEPT ![t] =
          [pc |-> label, device |-> d, base |-> base[d], url |-> u,
           port |-> p, sync |-> s, id |-> NoRow, row |-> NoRow]]
    /\ UNCHANGED <<base, rows>>

\* The request is answered with an error, its session closed without a commit.
Refuse(t) == thread' = [thread EXCEPT ![t] = Idle] /\ UNCHANGED <<base, rows>>

\* Init: devices were created, some with a base URL; no tunnel yet.
Init ==
    /\ base \in [Devices -> Manual]
    /\ rows = [r \in RowIds |-> NoRow]
    /\ thread = [t \in Threads |-> Idle]

\* The value of a column after a flush.
Flushed(current, loaded, new) == IF new # loaded THEN new ELSE current

-----------------------------------------------------------------------------
(* enable: SELECT device; SELECT tunnel; if the request names no port,     *)
(* SELECT the ports of all tunnels; flush and commit.                      *)

EnableBegin(t, d, p, s) == Begin(t, "enable_load", d, NoUrl, p, s)

\* one_or_none raises on two rows (500); an enabled tunnel, and a named port
\* outside the range of frps, are conflicts (409).
\* Fault: the range is not checked.
Refused_AnyPort(q) == Cardinality(RowsOf(q.device)) > 1 \/ EnabledRowsOf(q.device) # {}
Refused(q) ==
    \/ Cardinality(RowsOf(q.device)) > 1
    \/ EnabledRowsOf(q.device) # {}
    \/ q.port # AutoPort /\ q.port \notin Allowed

EnableRefused(t) ==
    /\ thread[t].pc = "enable_load"
    /\ Refused(thread[t])
    /\ Refuse(t)

Load(t, r, label) ==
    thread' = [thread EXCEPT ![t].pc = label, ![t].id = r,
                             ![t].row = IF r = NoRow THEN NoRow ELSE rows[r]]

EnableLoad(t) ==
    /\ thread[t].pc = "enable_load"
    /\ ~Refused(thread[t])
    /\ LET label == IF thread[t].port = AutoPort THEN "enable_port" ELSE "enable_commit"
           mine == RowsOf(thread[t].device)
       IN  \E r \in IF mine = {} THEN {NoRow} ELSE mine : Load(t, r, label)
    /\ UNCHANGED <<base, rows>>

\* _next_remote_port: the least port of the range that no row has, enabled or
\* not, the device's own included.
FreePorts == Allowed \ {rows[r].remote_port : r \in Inserted}

EnablePortNone(t) ==
    /\ thread[t].pc = "enable_port"
    /\ FreePorts = {}
    /\ Refuse(t)

EnablePort(t) ==
    /\ thread[t].pc = "enable_port"
    /\ \E p \in FreePorts :
           /\ \A q \in FreePorts : p <= q
           /\ thread' = [thread EXCEPT ![t].pc = "enable_commit", ![t].port = p]
    /\ UNCHANGED <<base, rows>>

\* UNIQUE (remote_port), checked when the flush writes the column.
\* Fault: the constraint is missing.
PortTaken_NoConstraint(q) == FALSE
PortTaken(q) ==
    /\ q.id # NoRow => q.row.remote_port # q.port
    /\ \E r \in Inserted \ {q.id} : rows[r].remote_port = q.port

\* UNIQUE (device_id), where the table has it.
\* Fault: the constraint is missing.
DeviceTaken_NoConstraint(q) == FALSE
DeviceTaken(q) == DeviceIdUnique /\ q.id = NoRow /\ RowsOf(q.device) # {}

Conflict(q) == PortTaken(q) \/ DeviceTaken(q)

\* IntegrityError: the session is rolled back, 409 "remote port already allocated".
EnableConflict(t) ==
    /\ thread[t].pc = "enable_commit"
    /\ Conflict(thread[t])
    /\ Refuse(t)

\* Fault: the assignment to device.base_url moved before the one that saves it.
PreviousUrl_AfterSync(q) == IF q.sync THEN Internal(q.port) ELSE q.base
PreviousUrl(q) == q.base

NewRow(q) ==
    [device |-> q.device, enabled |-> TRUE, remote_port |-> q.port,
     internal_base_url |-> Internal(q.port), previous_base_url |-> PreviousUrl(q)]

\* Fault: a second enable leaves internal_base_url as the first one set it.
EnabledRow_StaleUrl(q, cur) ==
    [cur EXCEPT !.enabled = TRUE,
                !.remote_port = Flushed(@, q.row.remote_port, q.port),
                !.previous_base_url = Flushed(@, q.row.previous_base_url, PreviousUrl(q))]
EnabledRow(q, cur) ==
    [cur EXCEPT !.enabled = TRUE,       \* it was loaded FALSE
                !.remote_port = Flushed(@, q.row.remote_port, q.port),
                !.internal_base_url = Flushed(@, q.row.internal_base_url, Internal(q.port)),
                !.previous_base_url = Flushed(@, q.row.previous_base_url, PreviousUrl(q))]

EnableCommit(t) ==
    LET q == thread[t] IN
    /\ q.pc = "enable_commit"
    /\ ~Conflict(q)
    /\ IF q.id = NoRow
       THEN \E r \in RowIds \ Inserted : rows' = [rows EXCEPT ![r] = NewRow(q)]
       ELSE rows' = [rows EXCEPT ![q.id] = EnabledRow(q, @)]
    /\ base' = IF q.sync
               THEN [base EXCEPT ![q.device] = Flushed(@, q.base, Internal(q.port))]
               ELSE base
    /\ thread' = [thread EXCEPT ![t] = Idle]

-----------------------------------------------------------------------------
(* disable: SELECT device; SELECT tunnel; flush and commit.  It does not   *)
(* ask whether the tunnel is enabled.                                      *)

DisableBegin(t, d) == Begin(t, "disable_load", d, NoUrl, AutoPort, FALSE)

\* No tunnel (404) or two of them (500).
DisableRefused(t) ==
    /\ thread[t].pc = "disable_load"
    /\ Cardinality(RowsOf(thread[t].device)) # 1
    /\ Refuse(t)

DisableLoad(t) ==
    /\ thread[t].pc = "disable_load"
    /\ Cardinality(RowsOf(thread[t].device)) = 1
    /\ \E r \in RowsOf(thread[t].device) : Load(t, r, "disable_commit")
    /\ UNCHANGED <<base, rows>>

\* Fault: a saved null counts as nothing to restore.
RestoredUrl_Or(q) ==
    IF q.row.previous_base_url = NoUrl THEN q.base ELSE q.row.previous_base_url
RestoredUrl(q) == q.row.previous_base_url

DisableCommit(t) ==
    LET q == thread[t] IN
    /\ q.pc = "disable_commit"
    /\ rows' = [rows EXCEPT ![q.id].enabled = Flushed(@, q.row.enabled, FALSE)]
    /\ base' = [base EXCEPT ![q.device] = Flushed(@, q.base, RestoredUrl(q))]
    /\ thread' = [thread EXCEPT ![t] = Idle]

-----------------------------------------------------------------------------
(* The update of a device whose payload holds base_url: SELECT device;     *)
(* SELECT an enabled tunnel; flush and commit.  (An update without         *)
(* base_url touches none of this state.)                                   *)

UpdateBegin(t, d, u) == Begin(t, "update_check", d, u, AutoPort, FALSE)

\* Fault: the check is dropped.
Managed_Unchecked(d) == FALSE
Managed(d) == EnabledRowsOf(d) # {}

\* 409 "base_url is managed by tunnel" (500 if two tunnels are enabled).
UpdateRefused(t) ==
    /\ thread[t].pc = "update_check"
    /\ Managed(thread[t].device)
    /\ Refuse(t)

UpdateCheck(t) ==
    /\ thread[t].pc = "update_check"
    /\ ~Managed(thread[t].device)
    /\ thread' = [thread EXCEPT ![t].pc = "update_commit"]
    /\ UNCHANGED <<base, rows>>

UpdateCommit(t) ==
    LET q == thread[t] IN
    /\ q.pc = "update_commit"
    /\ base' = [base EXCEPT ![q.device] = Flushed(@, q.base, q.url)]
    /\ thread' = [thread EXCEPT ![t] = Idle]
    /\ UNCHANGED rows

-----------------------------------------------------------------------------
Start(t) == \E d \in Devices :
    \/ \E p \in AskedPorts \cup {AutoPort}, s \in BOOLEAN : EnableBegin(t, d, p, s)
    \/ DisableBegin(t, d)
    \/ \E u \in Manual : UpdateBegin(t, d, u)

Continue(t) ==
    \/ EnableRefused(t) \/ EnableLoad(t) \/ EnablePortNone(t) \/ EnablePort(t)
    \/ EnableConflict(t) \/ EnableCommit(t)
    \/ DisableRefused(t) \/ DisableLoad(t) \/ DisableCommit(t)
    \/ UpdateRefused(t) \/ UpdateCheck(t) \/ UpdateCommit(t)

Next == \E t \in Threads : Start(t) \/ Continue(t)

Spec == Init /\ [][Next]_vars

\* The requests for one device come one after the other, as from one operator
\* who waits for the answers; those for different devices overlap.
OnePerDevice ==
    \A s, t \in Threads :
        thread[s] # Idle /\ thread[t] # Idle /\ thread[s].device = thread[t].device => s = t

SerialSpec == Init /\ [][Next /\ OnePerDevice']_vars

-----------------------------------------------------------------------------
(* Properties. *)

\* Every variable has its type; a request past its SELECTs holds a row of the
\* device it names.
TypeOK ==
    /\ base \in [Devices -> Urls]
    /\ rows \in [RowIds -> Row \cup {NoRow}]
    /\ thread \in [Threads -> Request \cup {Idle}]
    /\ \A t \in Threads :
          /\ thread[t].pc = "enable_commit" => thread[t].port \in Allowed
          /\ thread[t] # Idle /\ thread[t].id # NoRow =>
                /\ thread[t].row \in Row
                /\ thread[t].id \in RowsOf(thread[t].device)

\* remote_port is allocated once: two tunnels never share a port of frps,
\* although two requests may have picked the same free one.
PortsUnique ==
    \A r, q \in Inserted : rows[r].remote_port = rows[q].remote_port => r = q

\* internal_base_url names the port of its row, although the two columns are
\* written only where they differ from what the request loaded.
UrlNamesPort ==
    \A r \in Inserted : rows[r].internal_base_url = Internal(rows[r].remote_port)

\* A device has one tunnel: _get_tunnel's one_or_none never raises.
OneTunnelPerDevice == \A d \in Devices : Cardinality(RowsOf(d)) <= 1

\* While a tunnel is enabled the device is reached through it, or at the URL
\* it had before (sync_device_base_url was false), and nowhere else.
UrlExplained ==
    \A d \in Devices : \A r \in EnabledRowsOf(d) :
        base[d] \in {rows[r].internal_base_url, rows[r].previous_base_url}

\* A device whose base_url is a port of frps has its own tunnel enabled on
\* that port: requests never go to a port that is free or someone else's.
NoForeignPort ==
    \A d \in Devices, p \in Allowed :
        base[d] = Internal(p) => \E r \in EnabledRowsOf(d) : rows[r].remote_port = p

\* What a disable restores is a URL that an operator set, never that of a
\* tunnel which the enable found in the device's row.
SavedByOperator == \A r \in Inserted : rows[r].previous_base_url \in Manual

\* "base_url is managed by tunnel": the commit of a device update never
\* changes the base_url of a device whose tunnel is enabled.
ManagedByTunnel ==
    [][\A t \in Threads, d \in Devices :
          thread[t].pc = "update_commit" /\ thread'[t] = Idle /\ EnabledRowsOf(d) # {}
              => base'[d] = base[d]]_vars

\* Where the requests for one device do not overlap, the endpoints implement
\* the binding of a device to a port.
BoundPort(d) ==
    IF EnabledRowsOf(d) = {} THEN AutoPort
    ELSE rows[CHOOSE r \in EnabledRowsOf(d) : TRUE].remote_port

SavedUrl(d) ==
    IF RowsOf(d) = {} THEN [never |-> TRUE]
    ELSE rows[CHOOSE r \in RowsOf(d) : TRUE].previous_base_url

Binding == INSTANCE TunnelBinding
    WITH Ports <- Allowed, NoPort <- AutoPort, url <- base,
         port <- [d \in Devices |-> BoundPort(d)],
         saved <- [d \in Devices |-> SavedUrl(d)]

BindingSpec == Binding!Spec
=============================================================================
