------------------------------ MODULE MCBootstrap ------------------------------
(***************************************************************************)
(* Two proxies on a host each.                                             *)
(***************************************************************************)
EXTENDS Bootstrap, TLC

CONSTANTS a, b, a1, b1

MCIdOf == (a1 :> a) @@ (b1 :> b)

=================================================================================
