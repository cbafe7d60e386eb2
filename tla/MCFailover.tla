------------------------------- MODULE MCFailover -------------------------------
(***************************************************************************)
(* Two hostnames of a region with two addresses, and the fallback.         *)
(***************************************************************************)
EXTENDS Failover, TLC

CONSTANTS eu, sg, h1, h2

MCHosts == <<h1, h2>>
MCRegionOf == (h1 :> eu) @@ (h2 :> eu)
MCAnswerIPs == (eu :> {"eu1", "eu2"}) @@ (sg :> {"sg1"})

=================================================================================
