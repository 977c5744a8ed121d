-------------------------- MODULE MCBoundedServer --------------------------
(***************************************************************************)
(* Instances of BoundedServer: clients of every kind (listed and not, in   *)
(* IPv4, IPv6 and mapped form, and the container's own health check) and   *)
(* fewer permits than requests.                                            *)
(***************************************************************************)
EXTENDS BoundedServer, TLC

CONSTANTS t1, t2, t3, u1, u2

LanHost == "lan"
OtherHost == "other"
LoopHost == "loop"
MCHost == {LanHost, OtherHost, LoopHost}

Addr(f, h) == [family |-> f, host |-> h]
Net(f, hs) == [family |-> f, hosts |-> hs]

(* t1: a LAN client over IPv4, seen mapped; t2: the health check over ::1; *)
(* t3: a stranger, mapped; u1: the LAN client; u2: a stranger over IPv6.   *)
MCPeer ==
  (t1 :> Addr("mapped", LanHost)) @@ (t2 :> Addr("v6", LoopHost)) @@
  (t3 :> Addr("mapped", OtherHost)) @@ (u1 :> Addr("v4", LanHost)) @@
  (u2 :> Addr("v6", OtherHost))

(* The same for the runs with one TCP and two UDP slots, or two and one. *)
SmallPeer == [r \in Request |-> MCPeer[r]]

MCLoopback == {Net("v4", {LoopHost}), Net("v6", {LoopHost})}
(* The last one is written in mapped form: it lists nobody. *)
MCConfigured == {Net("v4", {LanHost}), Net("mapped", {OtherHost})}
=============================================================================
