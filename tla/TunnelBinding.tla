---------------------------- MODULE TunnelBinding ----------------------------
(***************************************************************************)
(* What the tunnel and device endpoints promise about a device's base_url  *)
(* when requests do not overlap.  A device is bound to a port of frps or   *)
(* not.  Unbound, its base URL is the operator's to set.  Binding saves    *)
(* the URL, and may replace it by the tunnel's; releasing restores what    *)
(* was saved.                                                              *)
(*                                                                         *)
(* A release is accepted of a device that is not bound any more, and puts  *)
(* the saved URL back once more: disable does not ask whether the tunnel   *)
(* is enabled (the web page does, it greys its button out).                *)
(***************************************************************************)
CONSTANTS
    Devices, Ports,
    Manual,         \* base URLs an operator sets, "none" among them
    Internal(_),    \* the URL at which the server reaches a port of frps
    NoPort

VARIABLES
    url,            \* devices.base_url
    port,           \* the port a device is bound to, or NoPort
    saved           \* the URL to restore, or Never before the first binding

vars == <<url, port, saved>>

Never == [never |-> TRUE]

Init ==
    /\ url \in [Devices -> Manual]
    /\ port = [d \in Devices |-> NoPort]
    /\ saved = [d \in Devices |-> Never]

SetUrl(d, u) ==
    /\ port[d] = NoPort
    /\ url' = [url EXCEPT ![d] = u]
    /\ UNCHANGED <<port, saved>>

Bind(d, p) ==
    /\ port[d] = NoPort
    /\ \A e \in Devices : port[e] # p
    /\ port' = [port EXCEPT ![d] = p]
    /\ saved' = [saved EXCEPT ![d] = url[d]]
    /\ url' \in {url, [url EXCEPT ![d] = Internal(p)]}

Release(d) ==
    /\ saved[d] # Never
    /\ port' = [port EXCEPT ![d] = NoPort]
    /\ url' = [url EXCEPT ![d] = saved[d]]
    /\ UNCHANGED saved

Next == \E d \in Devices :
    \/ \E u \in Manual : SetUrl(d, u)
    \/ \E p \in Ports : Bind(d, p)
    \/ Release(d)

Spec == Init /\ [][Next]_vars
=============================================================================
