------------------------------- MODULE Assignment -------------------------------
(***************************************************************************)
(* The identity store in Redis and the script that is its only writer      *)
(* (internal/assignment/assign.lua): the hash map:real with one field per  *)
(* proxy, the reverse keys rmap:ip, the set reserved:real, one counter per *)
(* proxy, and the TTLs of the two kinds of keys.  A script call is atomic. *)
(***************************************************************************)
EXTENDS Naturals

CONSTANTS
    RealIP, Proxy,
    ProxyNum,   \* second octets that a proxy may be registered with
    Slot,       \* Slot[p]: the number proxy p is registered with
    TTL,        \* TTL[p]: ip_ttl_seconds of proxy p in clock ticks, 0 is off
    Wrap,       \* identities of one /16: 65536
    MaxCount,   \* MaxCount[p]: bound on the counter of p, for TLC
    None        \* absent

ASSUME SlotAssumption ==
    /\ Slot \in [Proxy -> ProxyNum]
    /\ \A p, q \in Proxy : Slot[p] = Slot[q] => p = q
ASSUME TTLAssumption == TTL \in [Proxy -> Nat]
ASSUME WrapAssumption == Wrap \in Nat \ {0} /\ MaxCount \in [Proxy -> Nat]
ASSUME NoneAssumption ==
    /\ None \notin ProxyNum \X (0..(Wrap - 1))
    /\ None \notin [real : RealIP, proxy : Proxy]

VARIABLES
    map,        \* map[r][p]: field p of map:r
    mapTtl,     \* mapTtl[r]: ticks map:r has left, 0 when it does not expire
    rmap,       \* rmap[ip]: the value of rmap:ip
    rmapTtl,    \* rmapTtl[ip]: as mapTtl
    reserved,   \* the set reserved:real
    counter     \* counter[p]: proxy:p:counter

vars == <<map, mapTtl, rmap, rmapTtl, reserved, counter>>

\* 10.num.x.y, with x and y the two bytes of host.
Identity == ProxyNum \X (0..(Wrap - 1))
Reverse == [real : RealIP, proxy : Proxy]

TypeOK ==
    /\ map \in [RealIP -> [Proxy -> Identity \cup {None}]]
    /\ mapTtl \in [RealIP -> Nat]
    /\ rmap \in [Identity -> Reverse \cup {None}]
    /\ rmapTtl \in [Identity -> Nat]
    /\ reserved \in SUBSET RealIP
    /\ counter \in [Proxy -> Nat]

Init ==
    /\ map = [r \in RealIP |-> [p \in Proxy |-> None]]
    /\ mapTtl = [r \in RealIP |-> 0]
    /\ rmap = [ip \in Identity |-> None]
    /\ rmapTtl = [ip \in Identity |-> 0]
    /\ reserved = {}
    /\ counter = [p \in Proxy |-> 0]

(***************************************************************************)
(* assign.lua with real_ip r, proxy_id p, proxy_num num and reserve.       *)
(***************************************************************************)
\* Mutant of IdentityOf: the high byte is not reduced.
IdentityUnreduced(num, n) == <<num, n>>

\* The n-th identity: the two low bytes of the counter.
IdentityOf(num, n) == <<num, n % Wrap>>

\* Mutant of Pin: the hash keeps its TTL.
PinReverseOnly(r, ip) ==
    /\ reserved' = reserved \cup {r}
    /\ rmapTtl' = [rmapTtl EXCEPT ![ip] = 0]
    /\ UNCHANGED mapTtl

\* SADD and two PERSISTs.
Pin(r, ip) ==
    /\ reserved' = reserved \cup {r}
    /\ mapTtl' = [mapTtl EXCEPT ![r] = 0]
    /\ rmapTtl' = [rmapTtl EXCEPT ![ip] = 0]

\* Mutant of Extend: a later call renews the reverse key only.
ExtendReverseOnly(r, p, ip) ==
    /\ mapTtl' = [mapTtl EXCEPT ![r] = IF @ = 0 THEN TTL[p] ELSE @]
    /\ rmapTtl' = [rmapTtl EXCEPT ![ip] = IF rmap'[ip] = None THEN 0 ELSE TTL[p]]
    /\ UNCHANGED reserved

\* Two EXPIREs, of which that of an absent reverse key has no effect.
Extend(r, p, ip) ==
    /\ mapTtl' = [mapTtl EXCEPT ![r] = TTL[p]]
    /\ rmapTtl' = [rmapTtl EXCEPT ![ip] = IF rmap'[ip] = None THEN 0 ELSE TTL[p]]
    /\ UNCHANGED reserved

Expires(r, p) == r \notin reserved /\ TTL[p] > 0

\* The proxy has an identity for r: its TTLs restart or it is made permanent.
AssignExisting(r, p, reserve) ==
    LET ip == map[r][p] IN
    /\ ip # None
    /\ UNCHANGED <<map, rmap, counter>>
    /\ \/ reserve /\ Pin(r, ip)
       \/ ~reserve /\ Expires(r, p) /\ Extend(r, p, ip)
       \/ ~reserve /\ ~Expires(r, p) /\ UNCHANGED <<mapTtl, rmapTtl, reserved>>

\* The proxy has none: the next identity of its subnet, which may be in use
\* after Wrap of them.  HSET keeps the TTL of the hash, SET clears that of
\* the reverse key.
AssignFresh(r, p, num, reserve) ==
    LET n == counter[p] + 1
        ip == IdentityOf(num, n)
    IN
    /\ map[r][p] = None
    /\ counter[p] < MaxCount[p]
    /\ counter' = [counter EXCEPT ![p] = n]
    /\ map' = [map EXCEPT ![r] = [@ EXCEPT ![p] = ip]]
    /\ rmap' = [rmap EXCEPT ![ip] = [real |-> r, proxy |-> p]]
    /\ \/ reserve /\ Pin(r, ip)
       \/ ~reserve /\ Expires(r, p) /\ Extend(r, p, ip)
       \/ /\ ~reserve /\ ~Expires(r, p)
          /\ rmapTtl' = [rmapTtl EXCEPT ![ip] = 0]
          /\ UNCHANGED <<mapTtl, reserved>>

RunAssign(r, p, num, reserve) ==
    AssignExisting(r, p, reserve) \/ AssignFresh(r, p, num, reserve)

\* What the script returns.
Reply(r, p, num) ==
    IF map[r][p] # None THEN map[r][p] ELSE IdentityOf(num, counter[p] + 1)

\* Service.Assign of the proxy that handles a connection of r.
Assign(r, p) == RunAssign(r, p, Slot[p], FALSE)

\* One round of ReserveForAllProxies, which may be its last: the loop stops
\* at the first error.
Reserve(r, p) == RunAssign(r, p, Slot[p], TRUE)

\* Mutant of Tick: a counter expires with the mappings of its proxy.
TickResetsCounters ==
    /\ map' = [r \in RealIP |-> IF mapTtl[r] = 1 THEN [p \in Proxy |-> None]
                                                 ELSE map[r]]
    /\ rmap' = [ip \in Identity |-> IF rmapTtl[ip] = 1 THEN None ELSE rmap[ip]]
    /\ mapTtl' = [r \in RealIP |-> IF mapTtl[r] > 0 THEN mapTtl[r] - 1 ELSE 0]
    /\ rmapTtl' = [ip \in Identity |-> IF rmapTtl[ip] > 0 THEN rmapTtl[ip] - 1
                                                            ELSE 0]
    /\ counter' = [p \in Proxy |-> IF \E r \in RealIP : mapTtl[r] = 1
                                   THEN 0 ELSE counter[p]]
    /\ UNCHANGED reserved

\* Time passes by one tick; keys that run out of it are gone.
Tick ==
    /\ map' = [r \in RealIP |-> IF mapTtl[r] = 1 THEN [p \in Proxy |-> None]
                                                 ELSE map[r]]
    /\ rmap' = [ip \in Identity |-> IF rmapTtl[ip] = 1 THEN None ELSE rmap[ip]]
    /\ mapTtl' = [r \in RealIP |-> IF mapTtl[r] > 0 THEN mapTtl[r] - 1 ELSE 0]
    /\ rmapTtl' = [ip \in Identity |-> IF rmapTtl[ip] > 0 THEN rmapTtl[ip] - 1
                                                            ELSE 0]
    /\ UNCHANGED <<reserved, counter>>

Next ==
    \/ \E r \in RealIP, p \in Proxy : Assign(r, p) \/ Reserve(r, p)
    \/ Tick

Spec == Init /\ [][Next]_vars

(***************************************************************************)
(* Properties.                                                             *)
(***************************************************************************)
\* No proxy has used up its subnet.
NoWrap == \A p \in Proxy : counter[p] < Wrap

SameTTL == \A p, q \in Proxy : TTL[p] = TTL[q]

\* Before a counter wraps no two live mappings share an identity, whatever
\* expired and was assigned again in between.
IdentityUnique ==
    NoWrap => \A r, s \in RealIP, p, q \in Proxy :
        map[r][p] # None /\ map[r][p] = map[s][q] => r = s /\ p = q

\* With one ip_ttl_seconds for all proxies, a reverse key never outlives the
\* mapping it reverses: what LookupReverse answers still has that identity,
\* so a ban seeded with it reserves the same identity again.
ReverseIsCurrent ==
    NoWrap /\ SameTTL => \A ip \in Identity :
        rmap[ip] # None => map[rmap[ip].real][rmap[ip].proxy] = ip

\* A reserved player keeps every identity it has on any proxy for good: no
\* later Assign, Reserve or passing of time changes or expires it.
ReservedIsPermanent ==
    [][\A r \in reserved, p \in Proxy :
          map[r][p] # None => map'[r][p] = map[r][p]]_vars

(***************************************************************************)
(* What makes them inductive.                                              *)
(***************************************************************************)
\* Every identity was numbered by a counter that has not moved back.
Numbered ==
    NoWrap => \A r \in RealIP, p \in Proxy :
        map[r][p] # None => \E n \in 1..counter[p] : map[r][p] = <<Slot[p], n>>

\* Whatever the TTLs of the proxies, a reverse key that outlives the mapping it
\* reverses never names another player than the one who has the identity now.
ReverseNamesOwner ==
    NoWrap => \A r \in RealIP, p \in Proxy :
        map[r][p] # None /\ rmap[map[r][p]] # None => rmap[map[r][p]].real = r

\* The hash of a reserved player has no TTL.
ReservedUntimed == \A r \in reserved : mapTtl[r] = 0

\* With one ip_ttl_seconds for all proxies, no key has more than that left,
\* and the hash of a player that is not reserved always has some.
MapTimed ==
    SameTTL => \A r \in RealIP, p \in Proxy :
        /\ mapTtl[r] <= TTL[p]
        /\ map[r][p] # None /\ Expires(r, p) => mapTtl[r] > 0

\* A reverse key has a TTL that ends no later than that of the hash, unless
\* the hash has none.
ReverseExpiresFirst ==
    NoWrap /\ SameTTL => \A ip \in Identity :
        /\ \A p \in Proxy : rmapTtl[ip] <= TTL[p]
        /\ rmap[ip] # None =>
              \/ mapTtl[rmap[ip].real] = 0
              \/ rmapTtl[ip] \in 1..mapTtl[rmap[ip].real]

IInv ==
    /\ TypeOK
    /\ Numbered
    /\ IdentityUnique
    /\ ReservedUntimed
    /\ MapTimed
    /\ ReverseIsCurrent
    /\ ReverseExpiresFirst

=================================================================================
