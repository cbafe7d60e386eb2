---------------------------- MODULE AssignmentProofs ----------------------------
(***************************************************************************)
(* Theorems about Assignment for every set of players and proxies, every   *)
(* TTL and every size of the subnets.  Uniqueness rests on identities      *)
(* being numbered by a counter that only grows; currency of the reverse    *)
(* keys on their TTL never exceeding that of the hash they mirror.         *)
(***************************************************************************)
EXTENDS Assignment, TLAPS

\* The values the script writes are identities and reverse entries.
LEMMA IdentityType ==
    ASSUME NEW num \in ProxyNum, NEW n \in Nat
    PROVE  IdentityOf(num, n) \in Identity
<1>1. n % Wrap \in 0..(Wrap - 1)
  BY WrapAssumption
<1> QED
  BY <1>1 DEF IdentityOf, Identity

\* Below the wrap the host part of an identity is the counter itself.
LEMMA IdentityBelowWrap ==
    ASSUME NEW num, NEW n \in Nat, n < Wrap
    PROVE  IdentityOf(num, n) = <<num, n>>
<1>1. n % Wrap = n
  BY WrapAssumption
<1> QED
  BY <1>1 DEF IdentityOf

\* Neither reverse keys nor hashes get a TTL outside the naturals.
LEMMA TTLType ==
    ASSUME TypeOK, NEW r \in RealIP, NEW p \in Proxy, NEW ip \in Identity,
           Pin(r, ip) \/ Extend(r, p, ip)
    PROVE  /\ mapTtl' \in [RealIP -> Nat]
           /\ rmapTtl' \in [Identity -> Nat]
           /\ reserved' \in SUBSET RealIP
BY TTLAssumption DEF TypeOK, Pin, Extend

\* Every way through assign.lua keeps the types, with the identities in the /16.
LEMMA AssignTyped ==
    ASSUME TypeOK, NEW r \in RealIP, NEW p \in Proxy, NEW reserve \in BOOLEAN,
           RunAssign(r, p, Slot[p], reserve)
    PROVE  TypeOK'
<1>1. CASE AssignExisting(r, p, reserve)
  <2> DEFINE ip == map[r][p]
  <2>1. ip \in Identity
    BY <1>1 DEF AssignExisting, TypeOK
  <2>2. UNCHANGED <<map, rmap, counter>>
    BY <1>1 DEF AssignExisting
  <2>3. \/ Pin(r, ip) \/ Extend(r, p, ip)
        \/ UNCHANGED <<mapTtl, rmapTtl, reserved>>
    BY <1>1 DEF AssignExisting
  <2> QED
    BY <2>1, <2>2, <2>3, TTLType DEF TypeOK
<1>2. CASE AssignFresh(r, p, Slot[p], reserve)
  <2> DEFINE n == counter[p] + 1
             ip == IdentityOf(Slot[p], n)
             entry == [real |-> r, proxy |-> p]
  <2>1. n \in Nat /\ ip \in Identity
    BY IdentityType, SlotAssumption DEF TypeOK
  <2>2. /\ counter' = [counter EXCEPT ![p] = n]
        /\ map' = [map EXCEPT ![r] = [@ EXCEPT ![p] = ip]]
        /\ rmap' = [rmap EXCEPT ![ip] = entry]
    BY <1>2 DEF AssignFresh
  <2>3. entry \in Reverse
    BY DEF Reverse
  <2>4. \/ Pin(r, ip) \/ Extend(r, p, ip)
        \/ rmapTtl' = [rmapTtl EXCEPT ![ip] = 0] /\ UNCHANGED <<mapTtl, reserved>>
    BY <1>2 DEF AssignFresh
  <2> HIDE DEF n, ip, entry
  <2>5. /\ mapTtl' \in [RealIP -> Nat]
        /\ rmapTtl' \in [Identity -> Nat]
        /\ reserved' \in SUBSET RealIP
    BY <2>1, <2>4, TTLType DEF TypeOK
  <2>6. /\ counter' \in [Proxy -> Nat]
        /\ map' \in [RealIP -> [Proxy -> Identity \cup {None}]]
        /\ rmap' \in [Identity -> Reverse \cup {None}]
    BY <2>1, <2>2, <2>3 DEF TypeOK
  <2> QED
    BY <2>5, <2>6 DEF TypeOK
<1> QED
  BY <1>1, <1>2 DEF RunAssign

\* TypeOK is inductive alone.
LEMMA TypeStep == TypeOK /\ [Next]_vars => TypeOK'
<1> SUFFICES ASSUME TypeOK, [Next]_vars
             PROVE  TypeOK'
  OBVIOUS
<1>1. ASSUME NEW r \in RealIP, NEW p \in Proxy, Assign(r, p) \/ Reserve(r, p)
      PROVE  TypeOK'
  BY <1>1, AssignTyped DEF Assign, Reserve
<1>2. CASE Tick
  BY <1>2 DEF Tick, TypeOK
<1>3. CASE UNCHANGED vars
  BY <1>3 DEF vars, TypeOK
<1> QED
  BY <1>1, <1>2, <1>3 DEF Next

\* The store keeps its shape under every script call and every expiry.
THEOREM StoreTyped == Spec => []TypeOK
<1>1. Init => TypeOK
  BY DEF Init, TypeOK
<1> QED
  BY <1>1, TypeStep, PTL DEF Spec

(***************************************************************************)
(* The inductive invariant, one lemma per branch of the script.            *)
(***************************************************************************)
\* The reverse entries of a player other than those just written keep their
\* order with its hash when the TTL of the hash restarts.
LEMMA ExtendKeepsOrder ==
    ASSUME IInv, NoWrap, SameTTL, TypeOK',
           NEW r \in RealIP, NEW p \in Proxy, NEW ip \in Identity,
           Expires(r, p), Extend(r, p, ip),
           rmap'[ip] # None => rmap'[ip].real = r,
           \A j \in Identity : j # ip => rmap'[j] = rmap[j]
    PROVE  \A j \in Identity :
             /\ \A q \in Proxy : rmapTtl'[j] <= TTL[q]
             /\ rmap'[j] # None =>
                   \/ mapTtl'[rmap'[j].real] = 0
                   \/ rmapTtl'[j] \in 1..mapTtl'[rmap'[j].real]
<1> SUFFICES ASSUME NEW j \in Identity
             PROVE  /\ \A q \in Proxy : rmapTtl'[j] <= TTL[q]
                    /\ rmap'[j] # None =>
                          \/ mapTtl'[rmap'[j].real] = 0
                          \/ rmapTtl'[j] \in 1..mapTtl'[rmap'[j].real]
  OBVIOUS
<1>1. /\ mapTtl' = [mapTtl EXCEPT ![r] = TTL[p]]
      /\ rmapTtl' = [rmapTtl EXCEPT ![ip] = IF rmap'[ip] = None THEN 0 ELSE TTL[p]]
      /\ TTL[p] \in Nat /\ TTL[p] > 0
      /\ \A q \in Proxy : TTL[q] = TTL[p]
  BY TTLAssumption DEF Extend, Expires, SameTTL
<1>2. mapTtl'[r] = TTL[p] /\ (\A s \in RealIP : s # r => mapTtl'[s] = mapTtl[s])
  BY <1>1 DEF IInv, TypeOK
<1>3. CASE j = ip
  <2>1. rmapTtl'[j] = IF rmap'[ip] = None THEN 0 ELSE TTL[p]
    BY <1>1, <1>3 DEF IInv, TypeOK
  <2> QED
    BY <1>1, <1>2, <1>3, <2>1
<1>4. CASE j # ip
  <2>1. rmapTtl'[j] = rmapTtl[j] /\ rmap'[j] = rmap[j] /\ rmapTtl[j] \in Nat
    BY <1>1, <1>4 DEF IInv, TypeOK
  <2>2. \A q \in Proxy : rmapTtl[j] <= TTL[q]
    BY DEF IInv, ReverseExpiresFirst
  <2>3. ASSUME rmap[j] # None
        PROVE  \/ mapTtl'[rmap[j].real] = 0
               \/ rmapTtl[j] \in 1..mapTtl'[rmap[j].real]
    <3> DEFINE s == rmap[j].real
               q == rmap[j].proxy
    <3>1. s \in RealIP /\ q \in Proxy /\ map[s][q] = j /\ j # None
      BY <2>3, NoneAssumption
         DEF IInv, TypeOK, Reverse, ReverseIsCurrent, Identity
    <3>2. mapTtl[s] = 0 \/ rmapTtl[j] \in 1..mapTtl[s]
      BY <2>3 DEF IInv, ReverseExpiresFirst
    <3>3. CASE s = r
      <4>1. Expires(s, q)
        BY <1>1, <3>1, <3>3 DEF Expires
      <4>2. mapTtl[s] > 0
        BY <3>1, <4>1 DEF IInv, MapTimed
      <4> QED
        BY <1>1, <1>2, <2>1, <2>2, <3>1, <3>2, <3>3, <4>2
    <3>4. CASE s # r
      BY <1>2, <3>1, <3>2, <3>4
    <3> QED
      BY <3>3, <3>4
  <2> QED
    BY <2>1, <2>2, <2>3
<1> QED
  BY <1>3, <1>4

\* A mapping that is found: nothing is numbered, only TTLs and reservations move.
LEMMA ExistingStep ==
    ASSUME IInv, TypeOK', NEW r \in RealIP, NEW p \in Proxy,
           NEW reserve \in BOOLEAN, AssignExisting(r, p, reserve)
    PROVE  IInv'
<1> DEFINE ip == map[r][p]
<1>1. ip \in Identity /\ ip # None /\ UNCHANGED <<map, rmap, counter>>
  BY DEF AssignExisting, IInv, TypeOK
<1>2. \/ Pin(r, ip)
      \/ Expires(r, p) /\ Extend(r, p, ip)
      \/ UNCHANGED <<mapTtl, rmapTtl, reserved>>
  BY DEF AssignExisting
<1>3. NoWrap /\ SameTTL /\ rmap[ip] # None => rmap[ip].real = r
  <2> SUFFICES ASSUME NoWrap, SameTTL, rmap[ip] # None
               PROVE  rmap[ip].real = r
    OBVIOUS
  <2>1. /\ rmap[ip].real \in RealIP
        /\ rmap[ip].proxy \in Proxy
        /\ map[rmap[ip].real][rmap[ip].proxy] = ip
    BY <1>1 DEF IInv, TypeOK, Reverse, ReverseIsCurrent
  <2> QED
    BY <1>1, <2>1 DEF IInv, IdentityUnique
<1>4. Numbered' /\ IdentityUnique' /\ ReverseIsCurrent'
  BY <1>1 DEF IInv, Numbered, IdentityUnique, ReverseIsCurrent, NoWrap, SameTTL
<1> HIDE DEF ip
<1>5. CASE Pin(r, ip)
  <2>1. /\ mapTtl' = [mapTtl EXCEPT ![r] = 0]
        /\ rmapTtl' = [rmapTtl EXCEPT ![ip] = 0]
        /\ reserved' = reserved \cup {r}
    BY <1>5 DEF Pin
  <2>2. ReservedUntimed'
    BY <2>1 DEF IInv, TypeOK, ReservedUntimed
  <2>3. MapTimed'
    BY <1>1, <2>1, TTLAssumption DEF IInv, TypeOK, MapTimed, SameTTL, Expires
  <2>4. ReverseExpiresFirst'
    BY <1>1, <1>3, <2>1, TTLAssumption
       DEF IInv, TypeOK, Reverse, ReverseExpiresFirst, SameTTL, NoWrap
  <2> QED
    BY <1>4, <2>2, <2>3, <2>4 DEF IInv
<1>6. CASE Expires(r, p) /\ Extend(r, p, ip)
  <2>1. mapTtl' = [mapTtl EXCEPT ![r] = TTL[p]] /\ UNCHANGED reserved
    BY <1>6 DEF Extend
  <2>2. ReservedUntimed'
    BY <1>6, <2>1 DEF IInv, TypeOK, ReservedUntimed, Expires
  <2>3. MapTimed'
    BY <1>1, <1>6, <2>1, TTLAssumption
       DEF IInv, TypeOK, MapTimed, SameTTL, Expires
  <2>4. ReverseExpiresFirst'
    <3> SUFFICES ASSUME NoWrap, SameTTL
                 PROVE  \A j \in Identity :
                          /\ \A q \in Proxy : rmapTtl'[j] <= TTL[q]
                          /\ rmap'[j] # None =>
                                \/ mapTtl'[rmap'[j].real] = 0
                                \/ rmapTtl'[j] \in 1..mapTtl'[rmap'[j].real]
      BY <1>1 DEF ReverseExpiresFirst, NoWrap, SameTTL
    <3> QED
      BY <1>1, <1>3, <1>6, ExtendKeepsOrder
  <2> QED
    BY <1>4, <2>2, <2>3, <2>4 DEF IInv
<1>7. CASE UNCHANGED <<mapTtl, rmapTtl, reserved>>
  <2>1. ReservedUntimed' /\ MapTimed' /\ ReverseExpiresFirst'
    BY <1>1, <1>7 DEF IInv, ReservedUntimed, MapTimed, ReverseExpiresFirst,
                      SameTTL, NoWrap, Expires
  <2> QED
    BY <1>4, <2>1 DEF IInv
<1> QED
  BY <1>2, <1>5, <1>6, <1>7

\* A fresh identity is above every identity of its proxy and so new.
LEMMA FreshStep ==
    ASSUME IInv, TypeOK', NEW r \in RealIP, NEW p \in Proxy,
           NEW reserve \in BOOLEAN, AssignFresh(r, p, Slot[p], reserve)
    PROVE  IInv'
<1> DEFINE n == counter[p] + 1
           ip == IdentityOf(Slot[p], n)
           entry == [real |-> r, proxy |-> p]
<1>1. /\ map[r][p] = None
      /\ counter' = [counter EXCEPT ![p] = n]
      /\ map' = [map EXCEPT ![r] = [@ EXCEPT ![p] = ip]]
      /\ rmap' = [rmap EXCEPT ![ip] = entry]
      /\ \/ Pin(r, ip)
         \/ Expires(r, p) /\ Extend(r, p, ip)
         \/ /\ ~Expires(r, p)
            /\ rmapTtl' = [rmapTtl EXCEPT ![ip] = 0]
            /\ UNCHANGED <<mapTtl, reserved>>
  BY DEF AssignFresh
<1>2. /\ n \in Nat /\ counter[p] \in Nat /\ n = counter[p] + 1
      /\ ip \in Identity /\ ip # None
  <2>1. n \in Nat /\ counter[p] \in Nat
    BY DEF IInv, TypeOK
  <2>2. ip \in Identity
    BY <2>1, IdentityType, SlotAssumption
  <2> QED
    BY <2>1, <2>2, NoneAssumption DEF Identity
<1>3. n < Wrap => ip = <<Slot[p], n>>
  BY <1>2, IdentityBelowWrap
<1>4. entry.real = r /\ entry.proxy = p /\ entry # None
  BY NoneAssumption
<1> HIDE DEF n, ip, entry
<1>5. /\ counter'[p] = n
      /\ \A q \in Proxy : q # p => counter'[q] = counter[q]
      /\ map'[r][p] = ip
      /\ \A s \in RealIP, q \in Proxy :
            s # r \/ q # p => map'[s][q] = map[s][q]
      /\ rmap'[ip] = entry
      /\ \A j \in Identity : j # ip => rmap'[j] = rmap[j]
  BY <1>1, <1>2 DEF IInv, TypeOK
<1>6. NoWrap' => NoWrap /\ ip = <<Slot[p], n>>
  <2>1. \A q \in Proxy : counter[q] \in Nat /\ counter[q] <= counter'[q]
    BY <1>2, <1>5 DEF IInv, TypeOK
  <2>2. NoWrap' => NoWrap
    <3> SUFFICES ASSUME NoWrap', NEW q \in Proxy PROVE counter[q] < Wrap
      BY DEF NoWrap
    <3>1. counter'[q] < Wrap /\ counter'[q] \in Nat
      BY DEF NoWrap, TypeOK
    <3> QED
      BY <2>1, <3>1, WrapAssumption
  <2> QED
    BY <1>3, <1>5, <2>2 DEF NoWrap
<1>7. Numbered'
  <2> SUFFICES ASSUME NoWrap', NEW s \in RealIP, NEW q \in Proxy,
                      map'[s][q] # None
               PROVE  \E k \in 1..counter'[q] : map'[s][q] = <<Slot[q], k>>
    BY DEF Numbered
  <2>1. CASE s = r /\ q = p
    BY <1>2, <1>5, <1>6, <2>1, SMTT(20) DEF IInv, TypeOK
  <2>2. CASE s # r \/ q # p
    <3>1. PICK k \in 1..counter[q] : map[s][q] = <<Slot[q], k>>
      BY <1>5, <1>6, <2>2 DEF IInv, Numbered
    <3>2. k \in 1..counter'[q]
      <4>1. counter[q] \in Nat /\ counter'[q] \in Nat
        BY DEF IInv, TypeOK
      <4>2. counter[q] <= counter'[q]
        BY <1>2, <1>5, <4>1
      <4> QED
        BY <4>1, <4>2
    <3> QED
      BY <1>5, <2>2, <3>1, <3>2
  <2> QED
    BY <2>1, <2>2
<1>8. ASSUME NoWrap', NEW s \in RealIP, NEW q \in Proxy
      PROVE  map[s][q] # ip
  <2> SUFFICES ASSUME map[s][q] = ip PROVE FALSE
    OBVIOUS
  <2>1. PICK k \in 1..counter[q] : map[s][q] = <<Slot[q], k>>
    BY <1>2, <1>6, <1>8 DEF IInv, Numbered
  <2>2. Slot[q] = Slot[p] /\ k = n
    BY <1>6, <1>8, <2>1
  <2>3. q = p
    BY <2>2, SlotAssumption
  <2> QED
    BY <1>2, <2>2, <2>3 DEF IInv, TypeOK
<1>9. IdentityUnique'
  <2> SUFFICES ASSUME NoWrap',
                      NEW s \in RealIP, NEW t \in RealIP,
                      NEW q \in Proxy, NEW u \in Proxy,
                      map'[s][q] # None, map'[s][q] = map'[t][u]
               PROVE  s = t /\ q = u
    BY DEF IdentityUnique
  <2>1. CASE (s = r /\ q = p) \/ (t = r /\ u = p)
    BY <1>5, <1>8, <2>1
  <2>2. CASE ~((s = r /\ q = p) \/ (t = r /\ u = p))
    BY <1>5, <1>6, <2>2 DEF IInv, IdentityUnique
  <2> QED
    BY <2>1, <2>2
<1>10. ReverseIsCurrent'
  <2> SUFFICES ASSUME NoWrap', SameTTL, NEW j \in Identity, rmap'[j] # None
               PROVE  map'[rmap'[j].real][rmap'[j].proxy] = j
    BY DEF ReverseIsCurrent, SameTTL
  <2>1. CASE j = ip
    BY <1>4, <1>5, <2>1
  <2>2. CASE j # ip
    <3> DEFINE s == rmap[j].real
               q == rmap[j].proxy
    <3>1. rmap'[j] = rmap[j] /\ rmap[j] # None
      BY <1>5, <2>2
    <3>2. s \in RealIP /\ q \in Proxy /\ map[s][q] = j /\ j # None
      BY <1>6, <3>1, NoneAssumption
         DEF IInv, TypeOK, Reverse, ReverseIsCurrent, Identity
    <3>3. s # r \/ q # p
      BY <1>1, <3>2
    <3> QED
      BY <1>5, <3>1, <3>2, <3>3
  <2> QED
    BY <2>1, <2>2
<1>11. CASE Pin(r, ip)
  <2>1. /\ mapTtl' = [mapTtl EXCEPT ![r] = 0]
        /\ rmapTtl' = [rmapTtl EXCEPT ![ip] = 0]
        /\ reserved' = reserved \cup {r}
    BY <1>11 DEF Pin
  <2>2. ReservedUntimed'
    BY <2>1 DEF IInv, TypeOK, ReservedUntimed
  <2>3. MapTimed'
    BY <1>5, <2>1, TTLAssumption DEF IInv, TypeOK, MapTimed, SameTTL, Expires
  <2>4. ReverseExpiresFirst'
    <3> SUFFICES ASSUME NoWrap', SameTTL, NEW j \in Identity
                 PROVE  /\ \A q \in Proxy : rmapTtl'[j] <= TTL[q]
                        /\ rmap'[j] # None =>
                              \/ mapTtl'[rmap'[j].real] = 0
                              \/ rmapTtl'[j] \in 1..mapTtl'[rmap'[j].real]
      BY DEF ReverseExpiresFirst, SameTTL
    <3>1. CASE j = ip
      BY <1>2, <1>4, <1>5, <2>1, <3>1, TTLAssumption DEF IInv, TypeOK
    <3>2. CASE j # ip
      BY <1>2, <1>5, <1>6, <2>1, <3>2
         DEF IInv, TypeOK, Reverse, ReverseExpiresFirst
    <3> QED
      BY <3>1, <3>2
  <2> QED
    BY <1>7, <1>9, <1>10, <2>2, <2>3, <2>4 DEF IInv
<1>12. CASE Expires(r, p) /\ Extend(r, p, ip)
  <2>1. mapTtl' = [mapTtl EXCEPT ![r] = TTL[p]] /\ UNCHANGED reserved
    BY <1>12 DEF Extend
  <2>2. ReservedUntimed'
    BY <1>12, <2>1 DEF IInv, TypeOK, ReservedUntimed, Expires
  <2>3. MapTimed'
    BY <1>5, <1>12, <2>1, TTLAssumption
       DEF IInv, TypeOK, MapTimed, SameTTL, Expires
  <2>4. ReverseExpiresFirst'
    <3> SUFFICES ASSUME NoWrap', SameTTL
                 PROVE  \A j \in Identity :
                          /\ \A q \in Proxy : rmapTtl'[j] <= TTL[q]
                          /\ rmap'[j] # None =>
                                \/ mapTtl'[rmap'[j].real] = 0
                                \/ rmapTtl'[j] \in 1..mapTtl'[rmap'[j].real]
      BY DEF ReverseExpiresFirst, SameTTL
    <3> QED
      BY <1>2, <1>4, <1>5, <1>6, <1>12, ExtendKeepsOrder
  <2> QED
    BY <1>7, <1>9, <1>10, <2>2, <2>3, <2>4 DEF IInv
<1>13. CASE /\ ~Expires(r, p)
            /\ rmapTtl' = [rmapTtl EXCEPT ![ip] = 0]
            /\ UNCHANGED <<mapTtl, reserved>>
  <2>1. ReservedUntimed'
    BY <1>13 DEF IInv, ReservedUntimed
  <2>2. MapTimed'
    BY <1>5, <1>13, TTLAssumption, SMTT(20) DEF IInv, TypeOK, MapTimed, SameTTL, Expires
  <2>3. SameTTL => mapTtl[r] = 0
    <3>1. CASE r \in reserved
      BY <3>1 DEF IInv, ReservedUntimed
    <3>2. CASE TTL[p] = 0
      BY <3>2 DEF IInv, TypeOK, MapTimed
    <3> QED
      BY <1>13, <3>1, <3>2, TTLAssumption DEF Expires
  <2>4. ReverseExpiresFirst'
    <3> SUFFICES ASSUME NoWrap', SameTTL, NEW j \in Identity
                 PROVE  /\ \A q \in Proxy : rmapTtl'[j] <= TTL[q]
                        /\ rmap'[j] # None =>
                              \/ mapTtl'[rmap'[j].real] = 0
                              \/ rmapTtl'[j] \in 1..mapTtl'[rmap'[j].real]
      BY DEF ReverseExpiresFirst, SameTTL
    <3>1. CASE j = ip
      BY <1>2, <1>4, <1>5, <1>13, <2>3, <3>1, TTLAssumption DEF IInv, TypeOK
    <3>2. CASE j # ip
      BY <1>2, <1>5, <1>6, <1>13, <3>2
         DEF IInv, TypeOK, Reverse, ReverseExpiresFirst
    <3> QED
      BY <3>1, <3>2
  <2> QED
    BY <1>7, <1>9, <1>10, <2>1, <2>2, <2>4 DEF IInv
<1> QED
  BY <1>1, <1>11, <1>12, <1>13

\* Expiry: mappings and reverse keys run out, numbers are never given back.
LEMMA TickStep ==
    ASSUME IInv, TypeOK', Tick
    PROVE  IInv'
<1>1. /\ \A r \in RealIP, p \in Proxy :
           map'[r][p] = IF mapTtl[r] = 1 THEN None ELSE map[r][p]
      /\ \A j \in Identity :
           rmap'[j] = IF rmapTtl[j] = 1 THEN None ELSE rmap[j]
      /\ \A r \in RealIP :
           mapTtl'[r] = IF mapTtl[r] > 0 THEN mapTtl[r] - 1 ELSE 0
      /\ \A j \in Identity :
           rmapTtl'[j] = IF rmapTtl[j] > 0 THEN rmapTtl[j] - 1 ELSE 0
      /\ UNCHANGED <<reserved, counter>>
  BY DEF Tick
<1>2. NoWrap' = NoWrap
  BY <1>1 DEF NoWrap
<1>3. Numbered' /\ IdentityUnique'
  BY <1>1, <1>2 DEF IInv, Numbered, IdentityUnique
<1>4. ReservedUntimed'
  BY <1>1 DEF IInv, TypeOK, ReservedUntimed
<1>5. MapTimed'
  BY <1>1, TTLAssumption DEF IInv, TypeOK, MapTimed, SameTTL, Expires
<1>6. ReverseIsCurrent' /\ ReverseExpiresFirst'
  <2>1. ASSUME NoWrap, SameTTL, NEW j \in Identity
        PROVE  /\ \A q \in Proxy : rmapTtl'[j] <= TTL[q]
               /\ rmap'[j] # None =>
                     /\ map'[rmap'[j].real][rmap'[j].proxy] = j
                     /\ \/ mapTtl'[rmap'[j].real] = 0
                        \/ rmapTtl'[j] \in 1..mapTtl'[rmap'[j].real]
    <3>1. \A q \in Proxy : rmapTtl'[j] <= TTL[q]
      BY <1>1, <2>1, TTLAssumption DEF IInv, TypeOK, ReverseExpiresFirst
    <3>2. ASSUME rmap'[j] # None
          PROVE  /\ map'[rmap'[j].real][rmap'[j].proxy] = j
                 /\ \/ mapTtl'[rmap'[j].real] = 0
                    \/ rmapTtl'[j] \in 1..mapTtl'[rmap'[j].real]
      <4> DEFINE s == rmap[j].real
                 q == rmap[j].proxy
      <4>1. rmap'[j] = rmap[j] /\ rmap[j] # None /\ rmapTtl[j] # 1
        BY <1>1, <3>2
      <4>2. s \in RealIP /\ q \in Proxy /\ map[s][q] = j
        BY <2>1, <4>1 DEF IInv, TypeOK, Reverse, ReverseIsCurrent
      <4>3. mapTtl[s] = 0 \/ rmapTtl[j] \in 1..mapTtl[s]
        BY <2>1, <4>1 DEF IInv, ReverseExpiresFirst
      <4>4. mapTtl[s] \in Nat /\ rmapTtl[j] \in Nat
        BY <4>2 DEF IInv, TypeOK
      <4> QED
        BY <1>1, <4>1, <4>2, <4>3, <4>4
    <3> QED
      BY <3>1, <3>2
  <2> QED
    BY <1>2, <2>1 DEF ReverseIsCurrent, ReverseExpiresFirst, SameTTL
<1> QED
  BY <1>3, <1>4, <1>5, <1>6 DEF IInv

\* An empty store, and every step of it.
LEMMA StoreInit == Init => IInv
<1> SUFFICES ASSUME Init PROVE IInv
  OBVIOUS
<1>1. TypeOK
  BY DEF Init, TypeOK
<1> QED
  BY <1>1, TTLAssumption
     DEF Init, IInv, Numbered, IdentityUnique, ReservedUntimed, MapTimed,
         ReverseIsCurrent, ReverseExpiresFirst, Expires

\* Every call and every tick keeps the invariant.
LEMMA StoreStep == IInv /\ [Next]_vars => IInv'
<1> SUFFICES ASSUME IInv, TypeOK', [Next]_vars
             PROVE  IInv'
  BY TypeStep DEF IInv
<1>1. ASSUME NEW r \in RealIP, NEW p \in Proxy, Assign(r, p) \/ Reserve(r, p)
      PROVE  IInv'
  BY <1>1, ExistingStep, FreshStep DEF Assign, Reserve, RunAssign
<1>2. CASE Tick
  BY <1>2, TickStep
<1>3. CASE UNCHANGED vars
  BY <1>3 DEF vars, IInv, TypeOK, Numbered, IdentityUnique, ReservedUntimed,
              MapTimed, ReverseIsCurrent, ReverseExpiresFirst, NoWrap, SameTTL,
              Expires
<1> QED
  BY <1>1, <1>2, <1>3 DEF Next

\* The inductive invariant holds in every reachable state.
THEOREM StoreInvariant == Spec => []IInv
  BY StoreInit, StoreStep, PTL DEF Spec

\* Two live mappings never share an identity before a counter wraps.
THEOREM Uniqueness == Spec => []IdentityUnique
<1>1. IInv => IdentityUnique
  BY DEF IInv
<1> QED
  BY <1>1, StoreInvariant, PTL

\* What LookupReverse answers is a player that still has that identity.
THEOREM ReverseCurrency == Spec => []ReverseIsCurrent
<1>1. IInv => ReverseIsCurrent
  BY DEF IInv
<1> QED
  BY <1>1, StoreInvariant, PTL

(***************************************************************************)
(* What a step of the store does to an identity that it knows.             *)
(***************************************************************************)
\* The identity has been handed out by the counter of a proxy.
Issued(ip) == \E p \in Proxy : \E n \in 1..counter[p] : ip = <<Slot[p], n>>

\* A script call that numbers a new identity, and any other step.
Fresh(r, p) == \E reserve \in BOOLEAN : AssignFresh(r, p, Slot[p], reserve)
NextIdentity(p) == IdentityOf(Slot[p], counter[p] + 1)

\* A step writes one new mapping with its reverse key, or keys only expire.
LEMMA StepShape ==
    ASSUME TypeOK, [Next]_vars
    PROVE  \/ \E r \in RealIP, p \in Proxy : Fresh(r, p)
           \/ /\ counter' = counter
              /\ \A r \in RealIP, p \in Proxy : map'[r][p] \in {map[r][p], None}
              /\ \A ip \in Identity : rmap'[ip] \in {rmap[ip], None}
<1>1. ASSUME NEW r \in RealIP, NEW p \in Proxy, NEW reserve \in BOOLEAN,
             RunAssign(r, p, Slot[p], reserve)
      PROVE  Fresh(r, p) \/ UNCHANGED <<map, rmap, counter>>
  BY <1>1 DEF RunAssign, AssignExisting, Fresh
<1>2. CASE Tick
  BY <1>2 DEF Tick
<1>3. CASE UNCHANGED vars
  BY <1>3 DEF vars
<1> QED
  BY <1>1, <1>2, <1>3 DEF Next, Assign, Reserve

\* No counter moves back, so that before a wrap there was none.
LEMMA CountersGrow ==
    ASSUME TypeOK, [Next]_vars
    PROVE  /\ \A p \in Proxy : counter[p] <= counter'[p]
           /\ NoWrap' => NoWrap
<1>1. \A p \in Proxy : counter[p] \in Nat /\ counter'[p] \in Nat
  BY TypeStep DEF TypeOK
<1>2. \A p \in Proxy : counter[p] <= counter'[p]
  <2>1. ASSUME NEW r \in RealIP, NEW q \in Proxy, Fresh(r, q), NEW p \in Proxy
        PROVE  counter[p] <= counter'[p]
    <3>1. counter' = [counter EXCEPT ![q] = counter[q] + 1]
      BY <2>1 DEF Fresh, AssignFresh
    <3> QED
      BY <1>1, <3>1 DEF TypeOK
  <2> QED
    BY <1>1, <2>1, StepShape
<1>3. ASSUME NoWrap', NEW p \in Proxy
      PROVE  counter[p] < Wrap
  <2>1. counter'[p] < Wrap
    BY <1>3 DEF NoWrap
  <2> QED
    BY <1>1, <1>2, <2>1, WrapAssumption
<1> QED
  BY <1>2, <1>3 DEF NoWrap

\* What has been handed out stays so.
LEMMA IssuedStays ==
    ASSUME TypeOK, [Next]_vars, NEW ip, Issued(ip)
    PROVE  Issued(ip)'
<1>1. PICK p \in Proxy : \E n \in 1..counter[p] : ip = <<Slot[p], n>>
  BY DEF Issued
<1>2. PICK n \in 1..counter[p] : ip = <<Slot[p], n>>
  BY <1>1
<1>3. counter[p] \in Nat /\ counter'[p] \in Nat /\ counter[p] <= counter'[p]
  BY CountersGrow, TypeStep DEF TypeOK
<1>4. n \in 1..counter'[p]
  BY <1>3
<1> QED
  BY <1>2, <1>4 DEF Issued

\* A new identity was not handed out before, unless the counter has wrapped.
LEMMA FreshIsNew ==
    ASSUME TypeOK, NoWrap', NEW r \in RealIP, NEW p \in Proxy, Fresh(r, p),
           NEW ip, ip = NextIdentity(p)
    PROVE  /\ ip = <<Slot[p], counter[p] + 1>> /\ ip \in Identity /\ ip # None
           /\ ~Issued(ip) /\ Issued(ip)'
           /\ rmap' = [rmap EXCEPT ![ip] = [real |-> r, proxy |-> p]]
           /\ map[r][p] = None
           /\ map' = [map EXCEPT ![r] = [@ EXCEPT ![p] = ip]]
<1> DEFINE n == counter[p] + 1
<1>1. /\ counter' = [counter EXCEPT ![p] = n]
      /\ rmap' = [rmap EXCEPT ![ip] = [real |-> r, proxy |-> p]]
      /\ map[r][p] = None
      /\ map' = [map EXCEPT ![r] = [@ EXCEPT ![p] = ip]]
  BY DEF Fresh, AssignFresh, NextIdentity
<1>2. counter[p] \in Nat /\ n \in 1..n /\ counter'[p] = n
  BY <1>1 DEF TypeOK
<1>3. n < Wrap
  BY <1>2 DEF NoWrap
<1>4. ip = <<Slot[p], n>>
  BY <1>2, <1>3, IdentityBelowWrap DEF NextIdentity
<1>5. ip \in Identity /\ ip # None
  <2>1. n \in Nat /\ Slot[p] \in ProxyNum
    BY <1>2, SlotAssumption
  <2>2. ip \in Identity
    BY <2>1, IdentityType DEF NextIdentity
  <2> QED
    BY <2>2, NoneAssumption DEF Identity
<1>6. ~Issued(ip)
  <2> SUFFICES ASSUME NEW q \in Proxy, NEW k \in 1..counter[q],
                      <<Slot[p], n>> = <<Slot[q], k>>
               PROVE  FALSE
    BY <1>4 DEF Issued
  <2>1. q = p /\ k = n
    BY SlotAssumption
  <2> QED
    BY <1>2, <2>1
<1>7. \E q \in Proxy : \E k \in 1..counter'[q] : ip = <<Slot[q], k>>
  BY <1>2, <1>4
<1>8. Issued(ip)'
  BY <1>7 DEF Issued
<1> QED
  BY <1>1, <1>4, <1>5, <1>6, <1>8

\* The reverse key of an identity that was handed out is what it was, or gone.
LEMMA NeverReissued ==
    ASSUME TypeOK, [Next]_vars, NoWrap', NEW ip \in Identity, Issued(ip)
    PROVE  rmap'[ip] \in {rmap[ip], None}
<1>1. ASSUME NEW r \in RealIP, NEW p \in Proxy, Fresh(r, p)
      PROVE  rmap'[ip] = rmap[ip]
  <2>1. PICK new : new = NextIdentity(p)
    OBVIOUS
  <2>2. new # ip /\ rmap' = [rmap EXCEPT ![new] = [real |-> r, proxy |-> p]]
    BY <1>1, <2>1, FreshIsNew
  <2> QED
    BY <2>2 DEF TypeOK
<1> QED
  BY <1>1, StepShape

\* Two keys that are written together are not written again before a wrap.
LEMMA OwnerStep == IInv /\ ReverseNamesOwner /\ [Next]_vars => ReverseNamesOwner'
<1> SUFFICES ASSUME IInv, ReverseNamesOwner, [Next]_vars, NoWrap',
                    NEW r \in RealIP, NEW p \in Proxy, NEW ip,
                    map'[r][p] = ip, ip # None, rmap'[ip] # None
             PROVE  rmap'[ip].real = r
  BY DEF ReverseNamesOwner
<1> USE DEF IInv
<1>1. ip \in Identity /\ NoWrap
  BY CountersGrow, TypeStep DEF TypeOK
<1>2. ASSUME map[r][p] = ip
      PROVE  rmap'[ip].real = r
  <2>1. Issued(ip)
    BY <1>1, <1>2 DEF Numbered, Issued
  <2> QED
    BY <1>1, <1>2, <2>1, NeverReissued DEF ReverseNamesOwner
<1>3. ASSUME NEW s \in RealIP, NEW q \in Proxy, Fresh(s, q)
      PROVE  rmap'[ip].real = r
  <2>1. PICK new : new = NextIdentity(q)
    OBVIOUS
  <2>2. /\ rmap' = [rmap EXCEPT ![new] = [real |-> s, proxy |-> q]]
        /\ map' = [map EXCEPT ![s] = [@ EXCEPT ![q] = new]]
    BY <1>3, <2>1, FreshIsNew
  <2>3. CASE s = r /\ q = p
    BY <1>1, <2>2, <2>3 DEF TypeOK
  <2>4. CASE s # r \/ q # p
    BY <1>2, <2>2, <2>4 DEF TypeOK
  <2> QED
    BY <2>3, <2>4
<1> QED
  BY <1>2, <1>3, StepShape

\* What LookupReverse answers for an identity that is in use is its player,
\* with any ip_ttl_seconds of the proxies.
THEOREM ReverseOwner == Spec => []ReverseNamesOwner
<1>1. Init => ReverseNamesOwner
  BY DEF Init, ReverseNamesOwner
<1> QED
  BY <1>1, OwnerStep, StoreInvariant, PTL DEF Spec

\* A reserved player stays so, with every identity it has.
LEMMA ReservedStays ==
    ASSUME IInv, [Next]_vars, NEW r \in reserved
    PROVE  /\ r \in reserved'
           /\ \A p \in Proxy : map[r][p] # None => map'[r][p] = map[r][p]
<1>1. r \in RealIP /\ mapTtl[r] = 0
  BY DEF IInv, TypeOK, ReservedUntimed
<1>2. ASSUME NEW s \in RealIP, NEW q \in Proxy, NEW reserve \in BOOLEAN,
             RunAssign(s, q, Slot[q], reserve)
      PROVE  /\ r \in reserved'
             /\ \A p \in Proxy : map[r][p] # None => map'[r][p] = map[r][p]
  <2>1. r \in reserved'
    BY <1>2 DEF RunAssign, AssignExisting, AssignFresh, Pin, Extend
  <2>2. CASE AssignExisting(s, q, reserve)
    BY <2>1, <2>2 DEF AssignExisting
  <2>3. CASE AssignFresh(s, q, Slot[q], reserve)
    <3>1. /\ map[s][q] = None
          /\ map' = [map EXCEPT ![s] = [@ EXCEPT ![q] =
                        IdentityOf(Slot[q], counter[q] + 1)]]
      BY <2>3 DEF AssignFresh
    <3> QED
      BY <1>1, <2>1, <3>1 DEF IInv, TypeOK
  <2> QED
    BY <1>2, <2>2, <2>3 DEF RunAssign
<1>3. CASE Tick
  BY <1>1, <1>3 DEF Tick
<1>4. CASE UNCHANGED vars
  BY <1>4 DEF vars
<1> QED
  BY <1>2, <1>3, <1>4 DEF Next, Assign, Reserve

\* An identity of a reserved player is never replaced and never expires.
THEOREM ReservedForever == Spec => ReservedIsPermanent
<1>1. IInv /\ [Next]_vars =>
        [\A r \in reserved, p \in Proxy :
            map[r][p] # None => map'[r][p] = map[r][p]]_vars
  BY ReservedStays
<1> QED
  BY <1>1, StoreInvariant, PTL DEF Spec, ReservedIsPermanent

=================================================================================
