------------------------------ MODULE MCProxyConn ------------------------------
(***************************************************************************)
(* Finite instances of ProxyConn: more connections than players, so that   *)
(* counts above one, conflicting identities and stale elements all occur.  *)
(***************************************************************************)
EXTENDS ProxyConn

=================================================================================
