------------------------------ MODULE MCAssignment ------------------------------
(***************************************************************************)
(* Finite instances of Assignment: two players, two proxies and a /16      *)
(* shrunk to Wrap identities.                                              *)
(***************************************************************************)
EXTENDS Assignment, TLC

CONSTANTS p1, p2

MCSlot == (p1 :> 1) @@ (p2 :> 2)
MCMaxCount == (p1 :> 4) @@ (p2 :> 4)
MCTTL == (p1 :> 2) @@ (p2 :> 2)

=================================================================================
