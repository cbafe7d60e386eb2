------------------------------ MODULE MCNodeDNAT ------------------------------
(***************************************************************************)
(* Two containers that publish a port of the public address each, among    *)
(* bindings that do not count.  Each of two networks has one address, so   *)
(* that a container may be on either or both, or get the other's address.  *)
(***************************************************************************)
EXTENDS NodeDNAT, TLC

CONSTANTS c1, c2, a1, b1, pub, lan

MCNetOf == (a1 :> 1) @@ (b1 :> 2)

Binding(ip, host, port, proto) ==
    [hostIP |-> ip, hostPort |-> host, port |-> port, proto |-> proto]

MCBindings ==
    (c1 :> {Binding(pub, 1, 7, "tcp"), Binding(lan, 2, 7, "tcp")}) @@
    (c2 :> {Binding(pub, 2, 8, "tcp"), Binding(pub, 1, 8, "udp"),
            Binding(pub, 3, 9, "tcp")})

=================================================================================
