------------------------------ MODULE MCBanWatcher ------------------------------
(***************************************************************************)
(* Two proxies and small identity spaces, with and without expiry.         *)
(***************************************************************************)
EXTENDS BanWatcher, TLC

CONSTANTS p1, p2

MCSlot == (p1 :> 1) @@ (p2 :> 2)
MCTTL == (p1 :> 1) @@ (p2 :> 1)
MCMaxCount == (p1 :> 2) @@ (p2 :> 1)
MCNoTTL == (p1 :> 0) @@ (p2 :> 0)
Symmetry == Permutations(RealIP)

=================================================================================
