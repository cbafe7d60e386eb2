---------------------------- MODULE MCPlayerSessions ----------------------------
(***************************************************************************)
(* One proxy with few identities; the handlers' InternalIP are those of    *)
(* its /16.                                                                *)
(***************************************************************************)
EXTENDS PlayerSessions, TLC

MCSlot == (Self :> 1)
MCMaxCount == (Self :> 3)
MCTTL == (Self :> 1)
MCInternalIP == ProxyNum \X (0..(Wrap - 1))

=================================================================================
