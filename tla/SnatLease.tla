------------------------------- MODULE SnatLease -------------------------------
(***************************************************************************)
(* What the source-NAT bookkeeping of mcproxy promises, without reference  *)
(* counts, goroutines or a kernel that may refuse an operation.            *)
(*                                                                         *)
(* A real IP is leased one internal identity while sessions of that IP are *)
(* open.  The lease is the element real_ip : internal_ip of the nftables   *)
(* map nat_map.  It never changes under an open session, every open        *)
(* session uses it, and it may outlive its last session (a failed delete,  *)
(* a crashed process), in which case it still blocks a different identity. *)
(***************************************************************************)
EXTENDS Naturals

CONSTANTS Session, RealIP, InternalIP, None

VARIABLES
    users,      \* users[r]: the open sessions of real IP r
    element     \* element[r]: the leased identity of r, or None

vars == <<users, element>>

Init ==
    /\ users = [r \in RealIP |-> {}]
    /\ element = [r \in RealIP |-> None]

\* A session opens under the identity ip, which is the lease from then on.
Acquire(s, r, ip) ==
    /\ \A q \in RealIP : s \notin users[q]
    /\ element[r] \in {ip} \cup (IF users[r] = {} THEN {None} ELSE {})
    /\ users' = [users EXCEPT ![r] = @ \cup {s}]
    /\ element' = [element EXCEPT ![r] = ip]

\* A session ends.  Only the last one of its real IP may end the lease.
Release(s, r) ==
    /\ s \in users[r]
    /\ users' = [users EXCEPT ![r] = @ \ {s}]
    /\ \/ UNCHANGED element
       \/ /\ users[r] = {s}
          /\ element' = [element EXCEPT ![r] = None]

\* The process or its host goes down: every session ends, and the leases
\* stay (the process died) or go (the host did).
Drop ==
    /\ users' = [r \in RealIP |-> {}]
    /\ element' \in {element, [r \in RealIP |-> None]}

Next ==
    \/ \E s \in Session, r \in RealIP, ip \in InternalIP : Acquire(s, r, ip)
    \/ \E s \in Session, r \in RealIP : Release(s, r)
    \/ Drop

Spec == Init /\ [][Next]_vars
=================================================================================
