--------------------------- MODULE FrpSessionProofs ---------------------------
(***************************************************************************)
(* Theorems about FrpSession, for any number of devices, overlapping       *)
(* requests, viewers and restarts.                                         *)
(***************************************************************************)
EXTENDS FrpSession, TunnelServiceProofs

-----------------------------------------------------------------------------
(* The inductive invariant: that of the tunnels, and that every copy of a  *)
(* configuration is either older than the last enable of its tunnel, or    *)
(* names the port of its tunnel.                                           *)

Current(d, c) ==
    /\ c.enables <= enables[d]
    /\ c.enables = enables[d] => \E r \in RowsOf(d) : rows[r].remote_port = c.port

PhonesCurrent == \A d \in Devices : phone[d].conf # NoConf => Current(d, phone[d].conf)

ViewsCurrent == \A v \in Viewers :
    /\ view[v].pc = "list" => \A x \in view[v].proxies : Current(x.name, x)
    /\ view[v].pc = "render" => view[v].id \in Inserted

FInv == IInv /\ FrpTypeOK /\ PhonesCurrent /\ ViewsCurrent

\* A step that changes neither the ports nor the devices of the tunnels.
SamePorts ==
    /\ Inserted' = Inserted
    /\ \A r \in Inserted : /\ rows'[r].device = rows[r].device
                           /\ rows'[r].remote_port = rows[r].remote_port

LEMMA SameRowsOf ==
    ASSUME SamePorts
    PROVE  \A d : RowsOf(d)' = RowsOf(d)
BY DEF SamePorts, RowsOf

LEMMA CurrentKept ==
    ASSUME SamePorts, enables' = enables, NEW d, NEW c, Current(d, c)
    PROVE  Current(d, c)'
BY SameRowsOf DEF Current, SamePorts, RowsOf

\* The two ways in which rows change without an enable.
LEMMA UnchangedRows == ASSUME rows' = rows PROVE SamePorts
BY DEF SamePorts, Inserted

LEMMA DisableKeepsPorts ==
    ASSUME IInv, NEW t \in Threads, DisableCommit(t)
    PROVE  SamePorts
<1> DEFINE q == thread[t]
           new == [rows[q.id] EXCEPT !.enabled = Flushed(@, q.row.enabled, FALSE)]
<1>1. q \in Request /\ q # Idle /\ q.id # NoRow
  BY Busy DEF DisableCommit, IInv, DisableHasRow
<1>2. q.id \in RowsOf(q.device) /\ q.row \in Row
  BY <1>1 DEF IInv, TypeOK
<1>3. q.id \in Inserted /\ q.id \in RowIds /\ rows[q.id] \in Row
  BY <1>2, InsertedRow DEF IInv
<1>4. /\ new \in Row
      /\ new.device = rows[q.id].device /\ new.remote_port = rows[q.id].remote_port
  BY <1>2, <1>3 DEF Row, Flushed
<1>5. rows' = [rows EXCEPT ![q.id] = new]
  BY <1>3 DEF DisableCommit, IInv, TypeOK
<1>6. rows'[q.id] = new /\ \A r \in RowIds \ {q.id} : rows'[r] = rows[r]
  BY <1>3, <1>5 DEF IInv, TypeOK
<1>7. new # NoRow
  BY <1>4, NoRowAssumption
<1> HIDE DEF q, new
<1> QED
  BY <1>3, <1>4, <1>6, <1>7 DEF SamePorts, Inserted

\* Every request but the commit of an enable.
LEMMA OtherRequestKeepsPorts ==
    ASSUME IInv, NEW t \in Threads, OtherRequest(t)
    PROVE  SamePorts
<1>1. CASE Start(t)
  BY <1>1, UnchangedRows DEF Start, EnableBegin, DisableBegin, UpdateBegin, Begin
<1>2. CASE Continue(t)
  <2>1. ~EnableCommit(t)
    BY DEF OtherRequest, Enabling, EnableCommit
  <2>2. \/ DisableCommit(t)
        \/ rows' = rows
    BY <1>2, <2>1
    DEF Continue, EnableRefused, EnableLoad, EnablePortNone, EnablePort, EnableConflict,
        DisableRefused, DisableLoad, UpdateRefused, UpdateCheck, UpdateCommit, Refuse
  <2> QED
    BY <2>2, DisableKeepsPorts, UnchangedRows
<1> QED
  BY <1>1, <1>2 DEF OtherRequest

\* The commit of an enable leaves the other devices' tunnels as they were.
LEMMA EnableKeepsOthers ==
    ASSUME IInv, NEW t \in Threads, EnableCommit(t), NEW e, e = thread[t].device
    PROVE  /\ Inserted \subseteq Inserted'
           /\ RowsOf(e)' # {}
           /\ e \in Devices
           /\ \A d \in Devices \ {e} :
                 /\ RowsOf(d)' = RowsOf(d)
                 /\ \A r \in RowsOf(d) : rows'[r].remote_port = rows[r].remote_port
<1> DEFINE q == thread[t]
<1>1. q \in Request /\ q # Idle
  BY Busy DEF EnableCommit, IInv
<1>2. e = q.device /\ q.device \in Devices
  BY <1>1 DEF Request
<1>3. ASSUME NEW r \in RowIds, NEW new, rows' = [rows EXCEPT ![r] = new],
             new # NoRow, new.device = e,
             r \in Inserted => rows[r].device = e
      PROVE  /\ Inserted \subseteq Inserted' /\ RowsOf(e)' # {}
             /\ \A d \in Devices \ {e} :
                   /\ RowsOf(d)' = RowsOf(d)
                   /\ \A s \in RowsOf(d) : rows'[s].remote_port = rows[s].remote_port
  <2>1. rows'[r] = new /\ \A s \in RowIds \ {r} : rows'[s] = rows[s]
    BY <1>3 DEF IInv, TypeOK
  <2>2. Inserted' = Inserted \cup {r}
    BY <1>3, <2>1 DEF Inserted
  <2>3. r \in RowsOf(e)'
    BY <1>3, <2>1, <2>2 DEF RowsOf
  <2>4. ASSUME NEW d \in Devices \ {e}
        PROVE  /\ RowsOf(d)' = RowsOf(d)
               /\ \A s \in RowsOf(d) : rows'[s].remote_port = rows[s].remote_port
    <3>1. Inserted \subseteq RowIds
      BY DEF Inserted
    <3>2. r \notin RowsOf(d) /\ r \notin RowsOf(d)'
      BY <1>3, <2>1 DEF RowsOf
    <3>3. \A s \in RowIds \ {r} : s \in RowsOf(d)' <=> s \in RowsOf(d)
      BY <2>1, <2>2 DEF RowsOf
    <3>4. RowsOf(d) \subseteq RowIds /\ RowsOf(d)' \subseteq RowIds
      BY <1>3, <2>2, <3>1 DEF RowsOf
    <3> QED
      BY <2>1, <3>2, <3>3, <3>4
  <2> QED
    BY <2>2, <2>3, <2>4
<1>4. CASE q.id = NoRow
  <2>1. PICK r \in RowIds \ Inserted : rows' = [rows EXCEPT ![r] = NewRow(q)]
    BY <1>4 DEF EnableCommit
  <2>2. NewRow(q).device = q.device
    BY DEF NewRow
  <2>3. NewRow(q) # NoRow
    <3>1. q.port \in Allowed /\ q.base \in Urls
      BY <1>1 DEF EnableCommit, IInv, TypeOK, Request
    <3>2. NewRow(q) \in Row
      BY <1>2, <3>1, InternalInjective DEF NewRow, Row, PreviousUrl
    <3> QED
      BY <3>2, NoRowAssumption
  <2> HIDE DEF q
  <2> QED
    BY <1>2, <1>3, <2>1, <2>2, <2>3
<1>5. CASE q.id # NoRow
  <2> DEFINE new == EnabledRow(q, rows[q.id])
  <2>1. q.id \in RowsOf(q.device) /\ q.row \in Row
    BY <1>1, <1>5 DEF IInv, TypeOK
  <2>2. q.id \in RowIds /\ rows[q.id] \in Row /\ rows[q.id].device = q.device
    BY <2>1, InsertedRow DEF IInv, RowsOf
  <2>3. rows' = [rows EXCEPT ![q.id] = new]
    BY <1>5, <2>2 DEF EnableCommit, IInv, TypeOK
  <2>4. q.port \in Allowed /\ q.base \in Urls
    BY <1>1 DEF EnableCommit, IInv, TypeOK, Request
  <2>5. new \in Row /\ new.device = q.device
    BY <2>1, <2>2, <2>4, InternalInjective DEF EnabledRow, Row, PreviousUrl, Flushed
  <2>6. new # NoRow
    BY <2>5, NoRowAssumption
  <2> HIDE DEF q, new
  <2> QED
    BY <1>2, <1>3, <2>2, <2>3, <2>5, <2>6
<1> QED
  BY <1>2, <1>4, <1>5

-----------------------------------------------------------------------------
\* A step without an enable keeps the invariant if what it puts on a phone, or
\* shows a viewer, is current.
LEMMA QuietStep ==
    ASSUME FInv, IInv', SamePorts, enables' = enables, secret' \in Secrets,
           token' \in [Devices -> Secrets \cup {NoConf}],
           \A d \in Devices : token'[d] # NoConf <=> token[d] # NoConf,
           local' \in [Devices -> LocalPorts \cup {NoConf}],
           \A d \in Devices : local'[d] # NoConf <=> local[d] # NoConf,
           phone' \in [Devices -> [conf : Conf \cup {NoConf}, online : BOOLEAN]],
           \A d \in Devices : phone'[d].online => phone'[d].conf # NoConf,
           \A d \in Devices : \/ phone'[d].conf = phone[d].conf
                              \/ Current(d, phone'[d].conf),
           view' \in [Viewers -> Views \cup {Idle}],
           \A v \in Viewers :
               \/ view'[v] = view[v]
               \/ view'[v] = Idle
               \/ view'[v].pc = "list" /\ \A x \in view'[v].proxies : Current(x.name, x)
               \/ view'[v].pc = "render" /\ view'[v].id \in Inserted
    PROVE  FInv'
<1>1. FrpTypeOK'
  BY SameRowsOf DEF FInv, FrpTypeOK
<1>2. PhonesCurrent'
  <2> SUFFICES ASSUME NEW d \in Devices, phone'[d].conf # NoConf
               PROVE  Current(d, phone[d].conf)'
    BY DEF PhonesCurrent
  <2>1. Current(d, phone'[d].conf)
    BY DEF FInv, PhonesCurrent
  <2> QED
    BY <2>1, SameRowsOf DEF Current, SamePorts, RowsOf
<1>3. ViewsCurrent'
  <2> SUFFICES ASSUME NEW v \in Viewers
               PROVE  /\ view'[v].pc = "list" => \A x \in view'[v].proxies : Current(x.name, x)'
                      /\ view'[v].pc = "render" => view'[v].id \in Inserted'
    BY DEF ViewsCurrent
  <2>1. Idle.pc # "list" /\ Idle.pc # "render"
    BY DEF Idle
  <2>2. /\ view'[v].pc = "list" => \A x \in view'[v].proxies : Current(x.name, x)
        /\ view'[v].pc = "render" => view'[v].id \in Inserted
    BY <2>1 DEF FInv, ViewsCurrent
  <2> QED
    BY <2>2, CurrentKept DEF SamePorts
<1> QED
  BY <1>1, <1>2, <1>3 DEF FInv

\* The commit of an enable leaves every copy of the tunnel's configuration
\* behind, and the other devices' copies as they were.
LEMMA EnableTunnelInv ==
    ASSUME FInv, NEW t \in Threads, EnableTunnel(t)
    PROVE  FInv'
<1> DEFINE d == thread[t].device
<1>1. EnableCommit(t) /\ thread[t] \in Request
  BY Busy DEF EnableTunnel, EnableCommit, FInv, IInv
<1>2. IInv'
  BY <1>1, EnableCommitInv DEF FInv
<1>3. PICK e \in Devices : e = d
  BY <1>1 DEF Request
<1>4. /\ Inserted \subseteq Inserted'
      /\ RowsOf(e)' # {}
      /\ \A f \in Devices \ {e} :
            /\ RowsOf(f)' = RowsOf(f)
            /\ \A r \in RowsOf(f) : rows'[r].remote_port = rows[r].remote_port
  BY <1>1, <1>3, EnableKeepsOthers DEF FInv
<1>5. /\ enables[e] < MaxEnables
      /\ enables' = [enables EXCEPT ![e] = @ + 1]
      /\ token' = [token EXCEPT ![e] = secret]
      /\ \E l \in LocalPorts : local' = [local EXCEPT ![e] = l]
      /\ UNCHANGED <<secret, phone, view>>
  BY <1>3 DEF EnableTunnel
<1>6. enables[e] \in 0 .. MaxEnables /\ enables'[e] = enables[e] + 1
  BY <1>5 DEF FInv, FrpTypeOK
<1>7. FrpTypeOK'
  <2>1. enables' \in [Devices -> 0 .. MaxEnables]
    BY <1>5, <1>6, EnablesAssumption DEF FInv, FrpTypeOK
  <2>2. token' \in [Devices -> Secrets \cup {NoConf}] /\ token'[e] # NoConf
    BY <1>5, NoConfAssumption DEF FInv, FrpTypeOK
  <2>3. local' \in [Devices -> LocalPorts \cup {NoConf}] /\ local'[e] # NoConf
    BY <1>5, NoConfAssumption DEF FInv, FrpTypeOK
  <2>4. ASSUME NEW f \in Devices
        PROVE  ((RowsOf(f) # {} <=> token[f] # NoConf) /\ (RowsOf(f) # {} <=> local[f] # NoConf))'
    BY <1>4, <1>5, <2>2, <2>3 DEF FInv, FrpTypeOK
  <2> QED
    BY <1>5, <2>1, <2>2, <2>3, <2>4 DEF FInv, FrpTypeOK
<1>8. ASSUME NEW f \in Devices, NEW c, c.enables \in 0 .. MaxEnables, Current(f, c)
      PROVE  Current(f, c)'
  <2>1. CASE f = e
    BY <1>6, <1>8, <2>1 DEF Current
  <2>2. CASE f # e
    <3>1. enables'[f] = enables[f]
      BY <1>5, <2>2 DEF FInv, FrpTypeOK
    <3> QED
      BY <1>4, <1>8, <2>2, <3>1 DEF Current
  <2> QED
    BY <2>1, <2>2
<1>9. PhonesCurrent'
  <2> SUFFICES ASSUME NEW f \in Devices, phone[f].conf # NoConf
               PROVE  Current(f, phone[f].conf)'
    BY <1>5 DEF PhonesCurrent
  <2>1. phone[f].conf \in Conf /\ phone'[f].conf = phone[f].conf
    BY <1>5 DEF FInv, FrpTypeOK
  <2> DEFINE c == phone[f].conf
  <2>2. c.enables \in 0 .. MaxEnables /\ Current(f, c)
    BY <2>1 DEF Conf, FInv, PhonesCurrent
  <2>3. PICK x : x = c
    OBVIOUS
  <2>4. Current(f, x)'
    BY <1>8, <2>2, <2>3
  <2> QED
    BY <2>1, <2>3, <2>4
<1>10. ViewsCurrent'
  <2> SUFFICES ASSUME NEW v \in Viewers
               PROVE  /\ view[v].pc = "list" => \A x \in view[v].proxies : Current(x.name, x)'
                      /\ view[v].pc = "render" => view[v].id \in Inserted'
    BY <1>5 DEF ViewsCurrent
  <2>1. ASSUME view[v].pc = "list", NEW x \in view[v].proxies PROVE Current(x.name, x)'
    <3>1. view[v].proxies \subseteq Proxies
      BY <2>1 DEF FInv, FrpTypeOK, Views, Idle
    <3>2. x.name \in Devices /\ x.enables \in 0 .. MaxEnables
      BY <2>1, <3>1 DEF Proxies
    <3> QED
      BY <1>8, <2>1, <3>2 DEF FInv, ViewsCurrent
  <2> QED
    BY <1>4, <2>1 DEF FInv, ViewsCurrent
<1> QED
  BY <1>2, <1>7, <1>9, <1>10 DEF FInv

-----------------------------------------------------------------------------
(* The other actions, by QuietStep. *)

\* A step that leaves the tunnels and their requests alone.
LEMMA IdleTunnels ==
    ASSUME IInv, UNCHANGED vars
    PROVE  IInv' /\ SamePorts
BY StepInv, UnchangedRows DEF vars

LEMMA OtherRequestInv ==
    ASSUME FInv, NEW t \in Threads, OtherRequest(t)
    PROVE  FInv'
<1>1. IInv'
  BY StepInv DEF OtherRequest, Next, FInv
<1>2. SamePorts
  BY OtherRequestKeepsPorts DEF FInv
<1>3. UNCHANGED session
  BY DEF OtherRequest
<1> QED
  BY <1>1, <1>2, <1>3, QuietStep DEF session, FInv, FrpTypeOK

LEMMA UpdateInv ==
    ASSUME FInv, NEW d \in Devices, Update(d)
    PROVE  FInv'
<1>1. IInv' /\ SamePorts
  BY IdleTunnels DEF Update, FInv
<1>2. PICK l \in LocalPorts : local' = [local EXCEPT ![d] = l]
  BY DEF Update
<1>3. RowsOf(d) # {}
  BY FS_EmptySet DEF Update, HasTunnel
<1>4. /\ local' \in [Devices -> LocalPorts \cup {NoConf}]
      /\ \A e \in Devices : local'[e] # NoConf <=> local[e] # NoConf
  BY <1>2, <1>3, NoConfAssumption DEF FInv, FrpTypeOK
<1> QED
  BY <1>1, <1>4, QuietStep DEF Update, FInv, FrpTypeOK

LEMMA RotateTokenInv ==
    ASSUME FInv, NEW d \in Devices, RotateToken(d)
    PROVE  FInv'
<1>1. IInv' /\ SamePorts
  BY IdleTunnels DEF RotateToken, FInv
<1>2. token' = [token EXCEPT ![d] = secret] /\ secret \in Secrets
  BY DEF RotateToken, NewToken, FInv, FrpTypeOK
<1>3. RowsOf(d) # {}
  BY FS_EmptySet DEF RotateToken, HasTunnel
<1>4. /\ token' \in [Devices -> Secrets \cup {NoConf}]
      /\ \A e \in Devices : token'[e] # NoConf <=> token[e] # NoConf
  BY <1>2, <1>3, NoConfAssumption DEF FInv, FrpTypeOK
<1> QED
  BY <1>1, <1>4, QuietStep DEF RotateToken, FInv, FrpTypeOK

\* What is loaded is a row of the device, and rows are never deleted.
LEMMA RenderLoadInv ==
    ASSUME FInv, NEW v \in Viewers, NEW d \in Devices, RenderLoad(v, d)
    PROVE  FInv'
<1>1. IInv' /\ SamePorts
  BY IdleTunnels DEF RenderLoad, FInv
<1>2. PICK r \in RowsOf(d) :
         view' = [view EXCEPT ![v] = [pc |-> "render", id |-> r, token |-> token[d],
                                      port |-> rows[r].remote_port]]
  BY DEF RenderLoad
<1>3. r \in Inserted /\ r \in RowIds /\ rows[r].remote_port \in Allowed
  BY InsertedRow DEF FInv, IInv, Row
<1>4. token[d] \in Secrets
  BY <1>2 DEF FInv, FrpTypeOK
<1>5. [pc |-> "render", id |-> r, token |-> token[d], port |-> rows[r].remote_port] \in Views
  BY <1>3, <1>4 DEF Views
<1>6. view' \in [Viewers -> Views \cup {Idle}]
  BY <1>2, <1>5 DEF FInv, FrpTypeOK
<1>7. \A u \in Viewers : \/ view'[u] = view[u]
                         \/ view'[u].pc = "render" /\ view'[u].id \in Inserted
  BY <1>2, <1>3 DEF FInv, FrpTypeOK
<1> QED
  BY <1>1, <1>6, <1>7, QuietStep DEF RenderLoad, FInv, FrpTypeOK

\* The port is read after the commit, in the state in which the file is made.
LEMMA RenderReplyInv ==
    ASSUME FInv, NEW v \in Viewers, RenderReply(v)
    PROVE  FInv'
<1> DEFINE q == view[v]
           d == rows[q.id].device
           c == FrpcToml(q)
<1>1. IInv' /\ SamePorts
  BY IdleTunnels DEF RenderReply, FInv
<1>2. q \in Views /\ q.token \in Secrets /\ q.id \in Inserted
  BY DEF RenderReply, FInv, FrpTypeOK, ViewsCurrent, Views, Idle
<1>3. rows[q.id] \in Row /\ d \in Devices /\ rows[q.id].remote_port \in Allowed
  BY <1>2, InsertedRow DEF FInv, IInv, Row
<1>4. enables[d] \in 0 .. MaxEnables
  BY <1>3 DEF FInv, FrpTypeOK
<1>5. c \in Conf /\ c # NoConf
  BY <1>2, <1>3, <1>4, NoConfNewAssumption DEF FrpcToml, Conf
<1>6. Current(d, c)
  BY <1>2, <1>4 DEF FrpcToml, Current, RowsOf
<1>7. \/ phone' = [phone EXCEPT ![d] = [conf |-> c, online |-> FALSE]]
      \/ phone' = phone
  BY DEF RenderReply
<1>8. /\ phone' \in [Devices -> [conf : Conf \cup {NoConf}, online : BOOLEAN]]
      /\ \A e \in Devices : phone'[e].online => phone'[e].conf # NoConf
      /\ \A e \in Devices : phone'[e].conf = phone[e].conf \/ Current(e, phone'[e].conf)
  <2> DEFINE new == [conf |-> c, online |-> FALSE]
  <2>1. CASE phone' = phone
    BY <2>1 DEF FInv, FrpTypeOK
  <2>2. CASE phone' = [phone EXCEPT ![d] = new]
    <3>1. new \in [conf : Conf \cup {NoConf}, online : BOOLEAN]
      BY <1>5
    <3>2. new.online = FALSE /\ new.conf = c
      OBVIOUS
    <3> HIDE DEF new, c, d
    <3>3. phone'[d] = new /\ \A e \in Devices \ {d} : phone'[e] = phone[e]
      BY <1>3, <2>2 DEF FInv, FrpTypeOK
    <3>4. phone' \in [Devices -> [conf : Conf \cup {NoConf}, online : BOOLEAN]]
      BY <1>3, <2>2, <3>1 DEF FInv, FrpTypeOK
    <3> QED
      BY <1>6, <3>2, <3>3, <3>4 DEF FInv, FrpTypeOK
  <2> QED
    BY <1>7, <2>1, <2>2
<1>9. view' \in [Viewers -> Views \cup {Idle}] /\ \A u \in Viewers : view'[u] \in {view[u], Idle}
  BY DEF RenderReply, FInv, FrpTypeOK
<1> QED
  BY <1>1, <1>8, <1>9, QuietStep DEF RenderReply, FInv, FrpTypeOK

\* The proxies of frps are the configurations of the phones that are online.
LEMMA ListFetchInv ==
    ASSUME FInv, NEW v \in Viewers, ListFetch(v)
    PROVE  FInv'
<1> DEFINE ps == {[name |-> d, port |-> phone[d].conf.port, enables |-> phone[d].conf.enables] :
                     d \in {e \in Devices : phone[e].online}}
<1>1. IInv' /\ SamePorts
  BY IdleTunnels DEF ListFetch, FInv
<1>2. ASSUME NEW x \in ps PROVE x \in Proxies /\ Current(x.name, x)
  <2>1. PICK d \in Devices : /\ phone[d].online
                             /\ x = [name |-> d, port |-> phone[d].conf.port,
                                     enables |-> phone[d].conf.enables]
    OBVIOUS
  <2>2. phone[d].conf \in Conf /\ Current(d, phone[d].conf)
    BY <2>1 DEF FInv, FrpTypeOK, PhonesCurrent
  <2> QED
    BY <2>1, <2>2 DEF Conf, Proxies, Current
<1>3. view' = [view EXCEPT ![v] = [pc |-> "list", proxies |-> ps]]
  BY DEF ListFetch
<1>4. [pc |-> "list", proxies |-> ps] \in Views
  <2>1. ps \subseteq Proxies
    BY <1>2
  <2> HIDE DEF ps
  <2> QED
    BY <2>1 DEF Views
<1> HIDE DEF ps
<1>5. view' \in [Viewers -> Views \cup {Idle}]
  BY <1>3, <1>4 DEF FInv, FrpTypeOK
<1>6. \A u \in Viewers :
         \/ view'[u] = view[u]
         \/ view'[u].pc = "list" /\ \A x \in view'[u].proxies : Current(x.name, x)
  BY <1>2, <1>3 DEF FInv, FrpTypeOK
<1> QED
  BY <1>1, <1>5, <1>6, QuietStep DEF ListFetch, FInv, FrpTypeOK

LEMMA ListReplyInv ==
    ASSUME FInv, NEW v \in Viewers, ListReply(v)
    PROVE  FInv'
<1>1. IInv' /\ SamePorts
  BY IdleTunnels DEF ListReply, FInv
<1>2. view' \in [Viewers -> Views \cup {Idle}] /\ \A u \in Viewers : view'[u] \in {view[u], Idle}
  BY DEF ListReply, FInv, FrpTypeOK
<1> QED
  BY <1>1, <1>2, QuietStep DEF ListReply, FInv, FrpTypeOK

\* A phone that connects or drops keeps its configuration.
LEMMA PhoneInv ==
    ASSUME FInv, NEW d \in Devices, Connect(d) \/ Disconnect(d)
    PROVE  FInv'
<1>1. IInv' /\ SamePorts
  BY IdleTunnels DEF Connect, Disconnect, FInv
<1>2. /\ phone' \in [Devices -> [conf : Conf \cup {NoConf}, online : BOOLEAN]]
      /\ \A e \in Devices : phone'[e].online => phone'[e].conf # NoConf
      /\ \A e \in Devices : phone'[e].conf = phone[e].conf
  <2>1. PICK b \in BOOLEAN : phone' = [phone EXCEPT ![d].online = b]
    BY DEF Connect, Disconnect
  <2>2. phone[d].conf # NoConf
    BY DEF Connect, Disconnect, FInv, FrpTypeOK
  <2> DEFINE new == [phone[d] EXCEPT !.online = b]
  <2>3. /\ new \in [conf : Conf \cup {NoConf}, online : BOOLEAN]
        /\ new.conf = phone[d].conf
    BY DEF FInv, FrpTypeOK
  <2>4. phone' = [phone EXCEPT ![d] = new]
    BY <2>1 DEF FInv, FrpTypeOK
  <2> HIDE DEF new
  <2>5. phone'[d] = new /\ \A e \in Devices \ {d} : phone'[e] = phone[e]
    BY <2>4 DEF FInv, FrpTypeOK
  <2>6. phone' \in [Devices -> [conf : Conf \cup {NoConf}, online : BOOLEAN]]
    BY <2>3, <2>4 DEF FInv, FrpTypeOK
  <2> QED
    BY <2>2, <2>3, <2>5, <2>6 DEF FInv, FrpTypeOK
<1> QED
  BY <1>1, <1>2, QuietStep DEF Connect, Disconnect, FInv, FrpTypeOK

LEMMA RestartInv ==
    ASSUME FInv, Restart
    PROVE  FInv'
<1>1. SamePorts
  BY UnchangedRows DEF Restart
<1>2. IInv'
  <2>1. \A t \in Threads : thread'[t] = Idle
    BY DEF Restart
  <2>2. Idle.pc = "idle"
    BY DEF Idle
  <2>3. base' = base /\ rows' = rows /\ thread' \in [Threads -> Request \cup {Idle}]
    BY DEF Restart
  <2>4. TypeOK'
    BY <2>1, <2>2, <2>3 DEF TypeOK, FInv, IInv
  <2> QED
    BY <1>1, <2>1, <2>2, <2>3, <2>4
    DEF FInv, IInv, LoadedCoherent, DisableHasRow, UrlNamesPort, PortsUnique, OneRow, SamePorts
<1>3. /\ phone' \in [Devices -> [conf : Conf \cup {NoConf}, online : BOOLEAN]]
      /\ \A e \in Devices : ~phone'[e].online /\ phone'[e].conf = phone[e].conf
  BY DEF Restart, FInv, FrpTypeOK
<1>4. view' \in [Viewers -> Views \cup {Idle}] /\ \A u \in Viewers : view'[u] = Idle
  BY DEF Restart
<1> QED
  BY <1>1, <1>2, <1>3, <1>4, QuietStep DEF Restart, FInv, FrpTypeOK

-----------------------------------------------------------------------------
LEMMA FrpInitInv == FrpInit => FInv
<1> SUFFICES ASSUME FrpInit PROVE FInv
  OBVIOUS
<1>1. IInv
  BY InitInv DEF FrpInit
<1>2. \A d : RowsOf(d) = {}
  BY DEF FrpInit, Init, RowsOf, Inserted
<1>3. \A d \in Devices : phone[d].conf = NoConf /\ ~phone[d].online
  BY DEF FrpInit
<1>4. \A v \in Viewers : view[v] = Idle
  BY DEF FrpInit
<1>5. FrpTypeOK
  BY <1>2, <1>3, EnablesAssumption DEF FrpInit, FrpTypeOK
<1> QED
  BY <1>1, <1>3, <1>4, <1>5 DEF FInv, PhonesCurrent, ViewsCurrent, Idle

LEMMA FrpStepInv == FInv /\ [FrpNext]_frpVars => FInv'
<1> SUFFICES ASSUME FInv, [FrpNext]_frpVars PROVE FInv'
  OBVIOUS
<1>1. CASE UNCHANGED frpVars
  <2>1. IInv' /\ SamePorts
    BY <1>1, IdleTunnels DEF frpVars, FInv
  <2> QED
    BY <1>1, <2>1, QuietStep DEF frpVars, session, FInv, FrpTypeOK
<1> QED
  BY <1>1, EnableTunnelInv, OtherRequestInv, UpdateInv, RotateTokenInv, RenderLoadInv,
     RenderReplyInv, ListFetchInv, ListReplyInv, PhoneInv, RestartInv
  DEF FrpNext

LEMMA FrpInvariance == FrpSpec => []FInv
  BY FrpInitInv, FrpStepInv, PTL DEF FrpSpec

\* Every variable has its type, and a device has a token and a local port
\* exactly from its first enable on.
THEOREM FrpTypeCorrect == FrpSpec => []FrpTypeOK
<1>1. FInv => FrpTypeOK
  BY DEF FInv
<1> QED
  BY <1>1, FrpInvariance, PTL

\* Only a device that was enabled again since its phone was configured can have
\* that phone on a port of another device's tunnel, whatever the order of
\* enables, disables, rendered files, restarts and lost connections.
THEOREM StraysExplained == FrpSpec => []StraysWereReenabled
<1>1. FInv => StraysWereReenabled
  <2> SUFFICES ASSUME FInv, NEW d \in Devices, NEW r \in Inserted, phone[d].conf # NoConf,
                      rows[r].device # d, rows[r].remote_port = phone[d].conf.port
               PROVE  phone[d].conf.enables < enables[d]
    BY DEF StraysWereReenabled
  <2>1. Current(d, phone[d].conf) /\ phone[d].conf \in Conf
    BY DEF FInv, PhonesCurrent, FrpTypeOK
  <2>2. phone[d].conf.enables \in Nat /\ enables[d] \in Nat
    BY <2>1 DEF Conf, FInv, FrpTypeOK
  <2>3. phone[d].conf.enables # enables[d]
    BY <2>1 DEF Current, FInv, IInv, PortsUnique, RowsOf
  <2> QED
    BY <2>1, <2>2, <2>3 DEF Current
<1> QED
  BY <1>1, FrpInvariance, PTL

\* The view of frps shows a port that the phone has not bound only after the
\* tunnel was enabled again; with UNIQUE (device_id) in the table, so that a
\* device has one port.
THEOREM ShownPortsAreBound ==
    ASSUME DeviceIdUnique
    PROVE  FrpSpec => []ShownPortIsBound
<1>1. FInv => ShownPortIsBound
  <2> SUFFICES ASSUME FInv, NEW v \in Viewers, NEW connected_only \in BOOLEAN,
                      view[v].pc = "list", NEW i \in Items(view[v], connected_only),
                      i.connected
               PROVE  \E x \in view[v].proxies :
                         /\ x.name = i.device
                         /\ x.port # i.remote_port => x.enables < enables[i.device]
    BY DEF ShownPortIsBound
  <2>1. PICK r \in Inserted : i = Item(view[v], rows[r])
    BY DEF Items
  <2>2. PICK x \in view[v].proxies : x.name = rows[r].device
    BY <2>1 DEF Item, Connected
  <2>3. i.device = rows[r].device /\ i.remote_port = rows[r].remote_port
    BY <2>1 DEF Item
  <2>4. view[v].proxies \subseteq Proxies
    BY DEF FInv, FrpTypeOK, Views, Idle
  <2>5. /\ x.enables \in Nat /\ enables[x.name] \in Nat
        /\ Current(x.name, x)
    BY <2>4 DEF Proxies, FInv, FrpTypeOK, ViewsCurrent
  <2>6. x.enables = enables[x.name] => x.port = rows[r].remote_port
    BY <2>2, <2>5, DeviceIdUnique DEF Current, RowsOf, FInv, IInv, OneRow
  <2> QED
    BY <2>2, <2>3, <2>5, <2>6 DEF Current
<1> QED
  BY <1>1, FrpInvariance, PTL

\* Neither an enable nor a rotation stores a token that frps refuses.
THEOREM StoredTokensAccepted == FrpSpec => TokensAccepted
<1> DEFINE A == \A d \in Devices :
                   token'[d] # token[d] \/ (token[d] = secret /\ secret' = secret)
                       => token'[d] = secret'
<1>1. FInv /\ [FrpNext]_frpVars => [A]_frpVars
  <2> SUFFICES ASSUME FInv, FrpNext, NEW d \in Devices,
                      token'[d] # token[d] \/ (token[d] = secret /\ secret' = secret)
               PROVE  token'[d] = secret'
    OBVIOUS
  <2>1. CASE token' = token
    BY <2>1
  <2>2. CASE secret' = secret /\ \E e : token' = [token EXCEPT ![e] = secret]
    BY <2>2 DEF FInv, FrpTypeOK
  <2>3. \/ token' = token
        \/ secret' = secret /\ \E e : token' = [token EXCEPT ![e] = secret]
    BY DEF FrpNext, EnableTunnel, OtherRequest, Update, RotateToken, NewToken, RenderLoad,
           RenderReply, ListFetch, ListReply, Connect, Disconnect, Restart, session
  <2> QED
    BY <2>1, <2>2, <2>3
<1> QED
  BY <1>1, FrpInvariance, PTL DEF FrpSpec, TokensAccepted

=============================================================================
