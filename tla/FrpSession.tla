----------------------------- MODULE FrpSession -----------------------------
(***************************************************************************)
(* The tunnels of TunnelService put to use: the frpc clients of the phones,*)
(* the frps server of the container, the configuration that the API hands  *)
(* out for frpc (tunnel_service.py: update, rotate_token,                  *)
(* render_frpc_config) and the view of frps (frps_service.py).             *)
(*                                                                         *)
(* A device's configuration exists three times: as columns of              *)
(* device_tunnels, in the file its frpc was started with, and in frps as   *)
(* the port that frpc has bound.  Nothing carries a change from one to the *)
(* next but a person who installs a newly rendered file.  frps accepts the *)
(* one secret its container was started with; the tunnel has a copy of it. *)
(*                                                                         *)
(* `enables` is history: how often a device's tunnel was enabled, and in a *)
(* configuration or a proxy of frps, how often when it was rendered.       *)
(***************************************************************************)
EXTENDS TunnelService

CONSTANTS
    Viewers,        \* requests for a frpc configuration or for the frps view
    Secrets,        \* values of FRPS_AUTH_TOKEN
    LocalPorts,     \* local_port, and with it local_ip and the two flags
    NoConf,         \* a phone without frpc, a device without a tunnel
    MaxEnables      \* bounds how often a tunnel is enabled

ASSUME NoConfAssumption == NoConf \notin Secrets \cup LocalPorts
ASSUME EnablesAssumption == MaxEnables \in Nat

VARIABLES
    secret,         \* FRPS_AUTH_TOKEN of the running container
    token,          \* device_tunnels.auth_token_encrypted by device, decrypted
    local,          \* device_tunnels.local_port by device
    enables,
    phone,          \* the configuration of each device's frpc, and whether
                    \* frps has its proxy online
    view            \* what each viewer has read

session == <<secret, token, local, enables, phone, view>>
frpVars == <<vars, session>>

Conf == [token : Secrets, port : Allowed, enables : 0 .. MaxEnables]
Proxies == [name : Devices, port : Allowed, enables : 0 .. MaxEnables]
Views == [pc : {"render"}, id : RowIds, token : Secrets, port : Allowed]
             \cup [pc : {"list"}, proxies : SUBSET Proxies]

ASSUME NoConfNewAssumption == NoConf \notin Conf

Online(d, p) == phone[d].online /\ phone[d].conf.port = p

\* _require_tunnel, which answers 404 without a row (and 500 on two).
\* Fault: the tunnel is not required.
HasTunnel_Unchecked(d) == TRUE
HasTunnel(d) == Cardinality(RowsOf(d)) = 1

FrpInit ==
    /\ Init
    /\ secret \in Secrets
    /\ token = [d \in Devices |-> NoConf]
    /\ local = [d \in Devices |-> NoConf]
    /\ enables = [d \in Devices |-> 0]
    /\ phone = [d \in Devices |-> [conf |-> NoConf, online |-> FALSE]]
    /\ view = [v \in Viewers |-> Idle]

-----------------------------------------------------------------------------
(* The management requests.  Those of TunnelService are its own steps; the *)
(* commit of enable writes the columns it leaves out.                      *)

Enabling(t) == thread[t].pc = "enable_commit" /\ ~Conflict(thread[t])

EnableTunnel(t) ==
    LET d == thread[t].device IN
    /\ Enabling(t)
    /\ EnableCommit(t)
    /\ enables[d] < MaxEnables
    /\ enables' = [enables EXCEPT ![d] = @ + 1]
    /\ token' = [token EXCEPT ![d] = secret]
    /\ \E l \in LocalPorts : local' = [local EXCEPT ![d] = l]
    /\ UNCHANGED <<secret, phone, view>>

OtherRequest(t) ==
    /\ ~Enabling(t)
    /\ Start(t) \/ Continue(t)
    /\ UNCHANGED session

Update(d) ==
    /\ HasTunnel(d)
    /\ \E l \in LocalPorts : local' = [local EXCEPT ![d] = l]
    /\ UNCHANGED <<vars, secret, token, enables, phone, view>>

\* rotate_token stores and returns the secret of the container.
\* Fault: it makes up a token, as the name of the endpoint suggests.
NewToken_Generated == CHOOSE s \in Secrets : s # secret
NewToken == secret

RotateToken(d) ==
    /\ HasTunnel(d)
    /\ token' = [token EXCEPT ![d] = NewToken]
    /\ UNCHANGED <<vars, secret, local, enables, phone, view>>

-----------------------------------------------------------------------------
(* render_frpc_config: SELECT; commit of last_config_generated_at and of   *)
(* the audit record, which names the port selected; the expired tunnel is  *)
(* read again.  The file has the token of the first SELECT, and the rest   *)
(* of the second.  (What it says of the phone's own side is left out.)     *)

RenderLoad(v, d) ==
    /\ view[v] = Idle
    /\ HasTunnel(d)
    /\ \E r \in RowsOf(d) :
          view' = [view EXCEPT ![v] = [pc |-> "render", id |-> r, token |-> token[d],
                                       port |-> rows[r].remote_port]]
    /\ UNCHANGED <<vars, secret, token, local, enables, phone>>

\* Fault: sessionmaker(expire_on_commit=False).
FrpcToml_NotExpired(q) ==
    [token |-> q.token, port |-> q.port, enables |-> enables[rows[q.id].device]]
FrpcToml(q) ==
    [token |-> q.token, port |-> rows[q.id].remote_port, enables |-> enables[rows[q.id].device]]

\* The file is answered; frpc is started anew with it, or it is thrown away.
RenderReply(v) ==
    /\ view[v].pc = "render"
    /\ \/ phone' = [phone EXCEPT ![rows[view[v].id].device] =
                        [conf |-> FrpcToml(view[v]), online |-> FALSE]]
       \/ UNCHANGED phone
    /\ view' = [view EXCEPT ![v] = Idle]
    /\ UNCHANGED <<vars, secret, token, local, enables>>

-----------------------------------------------------------------------------
(* list_devices: the dashboard of frps is asked first (if that fails, the  *)
(* answer is a 502), then the tunnels are selected.                        *)

ListFetch(v) ==
    /\ view[v] = Idle
    /\ view' = [view EXCEPT ![v] =
          [pc |-> "list",
           proxies |-> {[name |-> d, port |-> phone[d].conf.port,
                         enables |-> phone[d].conf.enables] :
                            d \in {e \in Devices : phone[e].online}}]]
    /\ UNCHANGED <<vars, secret, token, local, enables, phone>>

ListReply(v) ==
    /\ view[v].pc = "list"
    /\ view' = [view EXCEPT ![v] = Idle]
    /\ UNCHANGED <<vars, secret, token, local, enables, phone>>

\* _build_item: a tunnel and the proxy of its name.
\* Fault: tunnels and proxies are joined by their port.
Connected_ByPort(q, row) == \E x \in q.proxies : x.port = row.remote_port
Connected(q, row) == \E x \in q.proxies : x.name = row.device

Item(q, row) == [device |-> row.device, remote_port |-> row.remote_port,
                 tunnel_enabled |-> row.enabled, connected |-> Connected(q, row)]

\* The answer, were the tunnels selected now.
Items(q, connected_only) ==
    {i \in {Item(q, rows[r]) : r \in Inserted} : connected_only => i.connected}

-----------------------------------------------------------------------------
(* frps and the phones. *)

\* frps checks the secret and binds a port once.
Connect(d) ==
    /\ phone[d].conf # NoConf
    /\ ~phone[d].online
    /\ phone[d].conf.token = secret
    /\ \A e \in Devices : ~Online(e, phone[d].conf.port)
    /\ phone' = [phone EXCEPT ![d].online = TRUE]
    /\ UNCHANGED <<vars, secret, token, local, enables, view>>

Disconnect(d) ==
    /\ phone[d].online
    /\ phone' = [phone EXCEPT ![d].online = FALSE]
    /\ UNCHANGED <<vars, secret, token, local, enables, view>>

\* The container is started again, with the same secret or another one.
Restart ==
    /\ secret' \in Secrets
    /\ thread' = [t \in Threads |-> Idle]
    /\ view' = [v \in Viewers |-> Idle]
    /\ phone' = [d \in Devices |-> [phone[d] EXCEPT !.online = FALSE]]
    /\ UNCHANGED <<base, rows, token, local, enables>>

FrpNext ==
    \/ \E t \in Threads : EnableTunnel(t) \/ OtherRequest(t)
    \/ \E d \in Devices : Update(d) \/ RotateToken(d) \/ Connect(d) \/ Disconnect(d)
    \/ \E v \in Viewers : RenderReply(v) \/ ListFetch(v) \/ ListReply(v)
    \/ \E v \in Viewers, d \in Devices : RenderLoad(v, d)
    \/ Restart

FrpSpec == FrpInit /\ [][FrpNext]_frpVars

-----------------------------------------------------------------------------
(* Properties. *)

\* Every variable has its type; a device has a token and a local port
\* once it has a tunnel.
FrpTypeOK ==
    /\ secret \in Secrets
    /\ token \in [Devices -> Secrets \cup {NoConf}]
    /\ local \in [Devices -> LocalPorts \cup {NoConf}]
    /\ enables \in [Devices -> 0 .. MaxEnables]
    /\ phone \in [Devices -> [conf : Conf \cup {NoConf}, online : BOOLEAN]]
    /\ view \in [Viewers -> Views \cup {Idle}]
    /\ \A d \in Devices :
          /\ phone[d].online => phone[d].conf # NoConf
          /\ (RowsOf(d) # {}) <=> (token[d] # NoConf)
          /\ (RowsOf(d) # {}) <=> (local[d] # NoConf)

\* A phone is bound to, or waits for, the port of another device's tunnel only
\* if its own tunnel was enabled again since its configuration was rendered:
\* that, and not disabling it, gives a tunnel's port to someone else.
StraysWereReenabled ==
    \A d \in Devices, r \in Inserted :
        phone[d].conf # NoConf /\ rows[r].device # d
            /\ rows[r].remote_port = phone[d].conf.port
        => phone[d].conf.enables < enables[d]

\* A device that the view of frps shows as connected has its phone bound to the
\* port that is shown, unless its tunnel was enabled again since the phone's
\* configuration was rendered: the proxies are older than the tunnels.
ShownPortIsBound ==
    \A v \in Viewers, connected_only \in BOOLEAN : view[v].pc = "list" =>
        \A i \in Items(view[v], connected_only) : i.connected =>
            \E x \in view[v].proxies :
                /\ x.name = i.device
                /\ x.port # i.remote_port => x.enables < enables[i.device]

\* The token that a tunnel is given is the one that frps accepts, and stays so
\* as long as the container lives.
TokensAccepted ==
    [][\A d \in Devices :
          token'[d] # token[d] \/ (token[d] = secret /\ secret' = secret)
              => token'[d] = secret']_frpVars

\* Queries of a device that go to a port of frps reach the device's own phone.
QueriesReachDevice ==
    \A d, e \in Devices, p \in Allowed :
        base[d] = Internal(p) /\ Online(e, p) => e = d
=============================================================================
