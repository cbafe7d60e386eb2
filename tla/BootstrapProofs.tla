---------------------------- MODULE BootstrapProofs ----------------------------
(***************************************************************************)
(* Theorems about Bootstrap for every number of hosts, proxies and         *)
(* subnets.  That no two proxies claim one subnet rests on the counter     *)
(* being past every claim there is, stored or not; that a proxy serves     *)
(* what the registry says, on nobody else writing its entry.               *)
(***************************************************************************)
EXTENDS Bootstrap, TLAPS

(***************************************************************************)
(* The inductive invariant.                                                *)
(***************************************************************************)
\* Every subnet that anybody claims was handed out by the counter.
ClaimsCounted ==
    \A i \in ProxyID : \A n \in Claims(i) : n \in 1..MaxSlot /\ n <= slots

\* A process has a subnet from Register on, and one that a sole host registers
\* for the first time is not in the registry yet.
Numbered ==
    \A h \in Host :
        /\ num[h] = None <=> pc[h] \in {"down", "load", "incr"}
        /\ Sole(h) /\ pc[h] \in {"incr", "store"} => registry[IdOf[h]] = None

\* main goes on past a table only when it is complete.
TablesInOrder ==
    \A h \in Host :
        /\ ready[h] => pc[h] = "serving"
        /\ pc[h] \in {"filter", "intercept", "listen", "serving"} =>
              rules[h]["nat"] = "complete"
        /\ pc[h] \in {"intercept", "listen", "serving"} => rules[h]["filter"] = "complete"
        /\ pc[h] \in {"listen", "serving"} => rules[h]["intercept"] = "complete"

IInv ==
    /\ TypeOK /\ ClaimsCounted /\ SubnetsDisjoint
    /\ Numbered /\ ServesRegisteredSubnet /\ TablesInOrder

\* A claim, spelled out.
LEMMA ClaimsElements ==
    ASSUME NEW i \in ProxyID, NEW n
    PROVE  n \in Claims(i) <=>
             /\ n # None
             /\ \/ n = registry[i]
                \/ \E h \in Host : IdOf[h] = i /\ (n = num[h] \/ n \in routes[h])
BY DEF Claims

(***************************************************************************)
(* Types.                                                                  *)
(***************************************************************************)
\* An empty registry and fresh hosts satisfy the invariant.
LEMMA InitHolds == Init => IInv
<1> SUFFICES ASSUME Init
             PROVE  IInv
  OBVIOUS
<1>1. TypeOK
  BY SlotAssumption DEF Init, TypeOK
<1>2. \A i \in ProxyID : Claims(i) = {}
  BY IdAssumption DEF Init, Claims
<1>3. ClaimsCounted /\ SubnetsDisjoint
  BY <1>2 DEF ClaimsCounted, SubnetsDisjoint
<1>4. Numbered /\ TablesInOrder /\ ServesRegisteredSubnet
  BY DEF Init, Numbered, TablesInOrder, ServesRegisteredSubnet
<1> QED
  BY <1>1, <1>3, <1>4 DEF IInv

\* The subnet a host finds in the registry is a subnet.
LEMMA RegistryRange ==
    ASSUME TypeOK, ClaimsCounted, NEW i \in ProxyID, registry[i] # None
    PROVE  registry[i] \in 1..MaxSlot /\ registry[i] <= slots
BY ClaimsElements DEF ClaimsCounted

\* Every step of main, a panic and a reboot keep the types; TakeSlot needs the
\* counter's bound, Store and EnsureLocalSubnet that the process has a subnet.
LEMMA TypeStep == IInv /\ [Next]_vars => TypeOK'
<1> SUFFICES ASSUME IInv, [Next]_vars
             PROVE  TypeOK'
  OBVIOUS
<1> USE DEF redisVars, hostVars, kernelVars, Goto
<1>1. ASSUME NEW h \in Host, Start(h) \/ Listen(h) \/ Panic(h) \/ Reboot(h)
      PROVE  TypeOK'
  <2>1. pc' \in [Host -> {"down", "load", "incr", "store", "route", "listen", "serving"}
                            \cup Table]
    BY <1>1 DEF IInv, TypeOK, Start, Listen, Panic, Reboot
  <2>2. /\ num' \in [Host -> (1..MaxSlot) \cup {None}] /\ ready' \in [Host -> BOOLEAN]
        /\ registry' = registry /\ slots' = slots /\ trouble' = trouble
    BY <1>1 DEF IInv, TypeOK, Start, Listen, Panic, Reboot
  <2>3. routes' \in [Host -> SUBSET (1..MaxSlot)]
    BY <1>1 DEF IInv, TypeOK, Start, Listen, Panic, Reboot
  <2>4. rules' \in [Host -> [Table -> {"absent", "flushed", "complete"}]]
    <3>1. [t \in Table |-> "absent"] \in [Table -> {"absent", "flushed", "complete"}]
      OBVIOUS
    <3> QED
      BY <1>1, <3>1 DEF IInv, TypeOK, Start, Listen, Panic, Reboot
  <2> QED
    BY <2>1, <2>2, <2>3, <2>4 DEF IInv, TypeOK
<1>2. ASSUME NEW h \in Host, Load(h)
      PROVE  TypeOK'
  <2>1. registry[IdOf[h]] \in (1..MaxSlot) \cup {None}
    BY RegistryRange, IdAssumption DEF IInv
  <2> QED
    BY <1>2, <2>1 DEF IInv, TypeOK, Load
<1>3. ASSUME NEW h \in Host, TakeSlot(h)
      PROVE  TypeOK'
  <2>1. NextSlot \in 1..(MaxSlot + 1)
    BY SlotAssumption DEF IInv, TypeOK, NextSlot
  <2>2. slots' = NextSlot /\ slots' \in 1..(MaxSlot + 1)
    BY <1>3, <2>1 DEF TakeSlot
  <2>3. num' \in [Host -> (1..MaxSlot) \cup {None}]
    <3>1. slots' <= MaxSlot => slots' \in 1..MaxSlot
      BY <2>2, SlotAssumption
    <3> QED
      BY <1>3, <3>1, <2>2, SlotAssumption DEF IInv, TypeOK, TakeSlot
  <2>4. pc' \in [Host -> {"down", "load", "incr", "store", "route", "listen", "serving"}
                            \cup Table]
    BY <1>3 DEF IInv, TypeOK, TakeSlot
  <2> QED
    BY <1>3, <2>2, <2>3, <2>4, SlotAssumption DEF IInv, TypeOK, TakeSlot
<1>4. ASSUME NEW h \in Host, Store(h)
      PROVE  TypeOK'
  <2>0. num[h] # None
    BY <1>4 DEF IInv, Numbered, Store
  <2>1. num[h] \in Nat
    BY <2>0, SlotAssumption DEF IInv, TypeOK
  <2> QED
    BY <1>4, <2>1, IdAssumption DEF IInv, TypeOK, Store
<1>5. ASSUME NEW h \in Host, EnsureLocalSubnet(h)
      PROVE  TypeOK'
  <2>0. num[h] # None
    BY <1>5 DEF IInv, Numbered, EnsureLocalSubnet
  <2>1. num[h] \in 1..MaxSlot
    BY <2>0 DEF IInv, TypeOK
  <2>2. routes' \in [Host -> SUBSET (1..MaxSlot)]
    <3>1. routes[h] \cup {num[h]} \in SUBSET (1..MaxSlot)
      BY <2>1 DEF IInv, TypeOK
    <3>2. routes' = [routes EXCEPT ![h] = routes[h] \cup {num[h]}]
      BY <1>5 DEF EnsureLocalSubnet
    <3> QED
      BY <3>1, <3>2 DEF IInv, TypeOK
  <2> QED
    BY <1>5, <2>2 DEF IInv, TypeOK, EnsureLocalSubnet, Table
<1>6. ASSUME NEW h \in Host, NEW t \in Table, EnsureTable(h, t)
      PROVE  TypeOK'
  <2>1. ASSUME NEW state \in {"flushed", "complete"}, SetRules(h, t, state)
        PROVE  rules' \in [Host -> [Table -> {"absent", "flushed", "complete"}]]
    <3>1. [rules[h] EXCEPT ![t] = state] \in [Table -> {"absent", "flushed", "complete"}]
      BY DEF IInv, TypeOK
    <3> QED
      BY <2>1, <3>1 DEF IInv, TypeOK, SetRules
  <2>2. NextTable[t] \in Table \cup {"listen"}
    BY DEF NextTable, Table
  <2> QED
    BY <1>6, <2>1, <2>2 DEF IInv, TypeOK, EnsureTable, FlushTable, FillTable
<1>7. CASE Calm \/ UNCHANGED vars
  BY <1>7 DEF IInv, TypeOK, Calm, vars
<1> QED
  BY <1>1, <1>2, <1>3, <1>4, <1>5, <1>6, <1>7 DEF Next, MainStep, Register

(***************************************************************************)
(* Claims.                                                                 *)
(***************************************************************************)
\* A step after which nobody claims a subnet that he did not claim before keeps
\* the claims apart and counted.
LEMMA FewerClaims ==
    ASSUME ClaimsCounted, SubnetsDisjoint, slots \in Nat, slots' \in Nat, slots <= slots',
           \A i \in ProxyID : Claims(i)' \subseteq Claims(i)
    PROVE  ClaimsCounted' /\ SubnetsDisjoint'
<1>1. ClaimsCounted'
  <2> SUFFICES ASSUME NEW i \in ProxyID, NEW n \in Claims(i)'
               PROVE  n \in 1..MaxSlot /\ n <= slots'
    BY DEF ClaimsCounted
  <2>1. n \in 1..MaxSlot /\ n <= slots
    BY DEF ClaimsCounted
  <2> QED
    BY <2>1
<1>2. SubnetsDisjoint'
  BY DEF SubnetsDisjoint
<1> QED
  BY <1>1, <1>2

\* The claims of a host that neither registers nor adds a route.
LEMMA ClaimsShrink ==
    ASSUME registry' = registry,
           \A h \in Host : /\ num'[h] \in {num[h], None, registry[IdOf[h]]}
                          /\ routes'[h] \subseteq routes[h] \cup ({num[h]} \ {None}),
           NEW i \in ProxyID
    PROVE  Claims(i)' \subseteq Claims(i)
<1> SUFFICES ASSUME NEW n \in Claims(i)'
             PROVE  n \in Claims(i)
  OBVIOUS
<1>1. /\ n # None
      /\ \/ n = registry[i]
         \/ \E h \in Host : IdOf[h] = i /\ (n = num'[h] \/ n \in routes'[h])
  BY DEF Claims
<1>2. \A h \in Host : IdOf[h] = i /\ (n = num'[h] \/ n \in routes'[h]) =>
        n = registry[i] \/ n = num[h] \/ n \in routes[h]
  BY <1>1
<1> QED
  BY <1>1, <1>2, ClaimsElements

\* Only TakeSlot makes a claim to a subnet nobody had, and it is past the others;
\* Store and EnsureLocalSubnet repeat one that the process has.
LEMMA ClaimsStep == IInv /\ [Next]_vars => ClaimsCounted' /\ SubnetsDisjoint'
<1> SUFFICES ASSUME IInv, [Next]_vars
             PROVE  ClaimsCounted' /\ SubnetsDisjoint'
  OBVIOUS
<1> USE DEF redisVars, hostVars, kernelVars, Goto
<1>0. slots \in Nat
  BY SlotAssumption DEF IInv, TypeOK
<1>1. ASSUME registry' = registry, slots' = slots,
             \A h \in Host : /\ num'[h] \in {num[h], None, registry[IdOf[h]]}
                            /\ routes'[h] \subseteq routes[h] \cup ({num[h]} \ {None})
      PROVE  ClaimsCounted' /\ SubnetsDisjoint'
  BY <1>0, <1>1, ClaimsShrink, FewerClaims DEF IInv
<1>2. ASSUME NEW h \in Host, Start(h) \/ Load(h) \/ EnsureLocalSubnet(h) \/ Listen(h)
                              \/ Panic(h) \/ Reboot(h)
      PROVE  ClaimsCounted' /\ SubnetsDisjoint'
  <2>1. registry' = registry /\ slots' = slots
    BY <1>2 DEF Start, Load, EnsureLocalSubnet, Listen, Panic, Reboot
  <2>2. \A g \in Host : num'[g] \in {num[g], None, registry[IdOf[g]]}
    BY <1>2 DEF IInv, TypeOK, Start, Load, EnsureLocalSubnet, Listen, Panic, Reboot
  <2>3. EnsureLocalSubnet(h) => num[h] # None
    BY DEF IInv, Numbered, EnsureLocalSubnet
  <2>4. \A g \in Host : routes'[g] \subseteq routes[g] \cup ({num[g]} \ {None})
    BY <1>2, <2>3 DEF IInv, TypeOK, Start, Load, EnsureLocalSubnet, Listen, Panic, Reboot
  <2> QED
    BY <1>1, <2>1, <2>2, <2>4
<1>3. ASSUME NEW h \in Host, NEW t \in Table, EnsureTable(h, t)
      PROVE  ClaimsCounted' /\ SubnetsDisjoint'
  <2>1. UNCHANGED <<registry, slots, num, routes>>
    BY <1>3 DEF EnsureTable, FlushTable, FillTable
  <2> QED
    BY <1>1, <2>1
<1>4. CASE Calm \/ UNCHANGED vars
  <2>1. UNCHANGED <<registry, slots, num, routes>>
    BY <1>4 DEF Calm, vars
  <2> QED
    BY <1>1, <2>1
<1>5. ASSUME NEW h \in Host, Store(h)
      PROVE  ClaimsCounted' /\ SubnetsDisjoint'
  \* What is stored was claimed by the process; what it replaces goes.
  <2>1. num[h] # None
    BY <1>5 DEF IInv, Numbered, Store
  <2>2. \A i \in ProxyID : Claims(i)' \subseteq Claims(i)
    <3> SUFFICES ASSUME NEW i \in ProxyID, NEW n \in Claims(i)'
                 PROVE  n \in Claims(i)
      OBVIOUS
    <3>1. /\ n # None
          /\ \/ n = registry'[i]
             \/ \E g \in Host : IdOf[g] = i /\ (n = num[g] \/ n \in routes[g])
      BY <1>5 DEF Claims, Store
    <3>2. registry'[i] = registry[i] \/ (IdOf[h] = i /\ registry'[i] = num[h])
      <4>1. DOMAIN registry = ProxyID
        BY DEF IInv, TypeOK
      <4>2. registry' = [registry EXCEPT ![IdOf[h]] = num[h]]
        BY <1>5 DEF Store
      <4> QED
        BY <4>1, <4>2
    <3> QED
      BY <3>1, <3>2, ClaimsElements
  <2> QED
    BY <1>0, <1>5, <2>2, FewerClaims DEF IInv, Store
<1>6. ASSUME NEW h \in Host, TakeSlot(h)
      PROVE  ClaimsCounted' /\ SubnetsDisjoint'
  <2>1. registry' = registry /\ routes' = routes /\ slots' \in Nat /\ slots <= slots'
    BY <1>0, <1>6 DEF TakeSlot, NextSlot
  <2>2. CASE slots' > MaxSlot
    <3>1. num' = num
      BY <1>6, <2>2 DEF TakeSlot
    <3>2. \A i \in ProxyID : Claims(i)' \subseteq Claims(i)
      BY <2>1, <3>1 DEF Claims
    <3> QED
      BY <1>0, <2>1, <3>2, FewerClaims DEF IInv
  <2>3. CASE ~(slots' > MaxSlot)
    \* The new subnet is past all claims.
    <3>1. slots' = slots + 1 /\ slots' \in 1..MaxSlot
      BY <1>0, <1>6, <2>1, <2>3, SlotAssumption DEF TakeSlot, NextSlot
    <3>2. num' = [num EXCEPT ![h] = slots']
      BY <1>6, <2>3 DEF TakeSlot
    <3>3. \A i \in ProxyID : \A n \in Claims(i)' :
            n \in Claims(i) \/ (n = slots' /\ i = IdOf[h])
      <4> TAKE i \in ProxyID
      <4> TAKE n \in Claims(i)'
      <4>1. /\ n # None
            /\ \/ n = registry[i]
               \/ \E g \in Host : IdOf[g] = i /\ (n = num'[g] \/ n \in routes[g])
        BY <2>1 DEF Claims
      <4>2. \A g \in Host : num'[g] = num[g] \/ (g = h /\ num'[g] = slots')
        <5>1. DOMAIN num = Host
          BY DEF IInv, TypeOK
        <5> QED
          BY <3>2, <5>1
      <4> QED
        BY <4>1, <4>2, ClaimsElements
    <3>4. \A i \in ProxyID : slots' \notin Claims(i)
      BY <1>0, <3>1 DEF IInv, ClaimsCounted
    <3>5. ClaimsCounted'
      <4> SUFFICES ASSUME NEW i \in ProxyID, NEW n \in Claims(i)'
                   PROVE  n \in 1..MaxSlot /\ n <= slots'
        BY DEF ClaimsCounted
      <4>1. n \in Claims(i) => n \in 1..MaxSlot /\ n <= slots
        BY DEF IInv, ClaimsCounted
      <4> QED
        BY <1>0, <3>1, <3>3, <4>1
    <3>6. SubnetsDisjoint'
      <4> SUFFICES ASSUME NEW i \in ProxyID, NEW j \in ProxyID, i # j,
                          NEW n \in Claims(i)', n \in Claims(j)'
                   PROVE  FALSE
        BY DEF SubnetsDisjoint
      <4>1. ~(n \in Claims(i) /\ n \in Claims(j))
        BY DEF IInv, SubnetsDisjoint
      <4> QED
        BY <3>3, <3>4, <4>1
    <3> QED
      BY <3>5, <3>6
  <2> QED
    BY <2>2, <2>3
<1> QED
  BY <1>2, <1>3, <1>4, <1>5, <1>6 DEF Next, MainStep, Register

(***************************************************************************)
(* The course of main.                                                     *)
(***************************************************************************)
\* The entry of a sole host's proxy is written by nobody else.
LEMMA SoleEntry ==
    ASSUME TypeOK, NEW g \in Host, Store(g), NEW h \in Host, Sole(h), h # g
    PROVE  registry'[IdOf[h]] = registry[IdOf[h]]
<1>1. IdOf[g] # IdOf[h]
  BY DEF Sole
<1> QED
  BY <1>1 DEF Store, TypeOK

\* A process keeps its subnet until it ends, and its entry stays absent until it
\* stores it.
LEMMA NumberedStep == IInv /\ [Next]_vars => Numbered'
<1> SUFFICES ASSUME IInv, [Next]_vars, NEW h \in Host
             PROVE  /\ num'[h] = None <=> pc'[h] \in {"down", "load", "incr"}
                    /\ Sole(h) /\ pc'[h] \in {"incr", "store"} => registry'[IdOf[h]] = None
  BY DEF Numbered, Sole
<1> USE DEF redisVars, hostVars, kernelVars, Goto
<1>0. /\ num[h] = None <=> pc[h] \in {"down", "load", "incr"}
      /\ Sole(h) /\ pc[h] \in {"incr", "store"} => registry[IdOf[h]] = None
  BY DEF IInv, Numbered
<1>1. ASSUME NEW g \in Host, Start(g) \/ Load(g) \/ EnsureLocalSubnet(g) \/ Listen(g)
                              \/ Panic(g) \/ Reboot(g)
      PROVE  /\ num'[h] = None <=> pc'[h] \in {"down", "load", "incr"}
             /\ Sole(h) /\ pc'[h] \in {"incr", "store"} => registry'[IdOf[h]] = None
  BY <1>0, <1>1 DEF IInv, TypeOK, Start, Load, EnsureLocalSubnet, Listen, Panic, Reboot
<1>2. ASSUME NEW g \in Host, TakeSlot(g)
      PROVE  /\ num'[h] = None <=> pc'[h] \in {"down", "load", "incr"}
             /\ Sole(h) /\ pc'[h] \in {"incr", "store"} => registry'[IdOf[h]] = None
  <2>1. slots' \in Nat /\ slots' # None
    BY <1>2, SlotAssumption DEF IInv, TypeOK, TakeSlot, NextSlot
  <2> QED
    BY <1>0, <1>2, <2>1 DEF IInv, TypeOK, TakeSlot
<1>3. ASSUME NEW g \in Host, Store(g)
      PROVE  /\ num'[h] = None <=> pc'[h] \in {"down", "load", "incr"}
             /\ Sole(h) /\ pc'[h] \in {"incr", "store"} => registry'[IdOf[h]] = None
  <2>1. pc'[g] = "route" /\ num' = num /\ (h # g => pc'[h] = pc[h])
    BY <1>3 DEF IInv, TypeOK, Store
  <2>2. Sole(h) /\ h # g => registry'[IdOf[h]] = registry[IdOf[h]]
    BY <1>3, SoleEntry DEF IInv
  <2>3. pc[g] = "store"
    BY <1>3 DEF Store
  <2> QED
    BY <1>0, <2>1, <2>2, <2>3
<1>4. ASSUME NEW g \in Host, NEW t \in Table, EnsureTable(g, t)
      PROVE  /\ num'[h] = None <=> pc'[h] \in {"down", "load", "incr"}
             /\ Sole(h) /\ pc'[h] \in {"incr", "store"} => registry'[IdOf[h]] = None
  <2>1. NextTable[t] \in {"filter", "intercept", "listen"} /\ t \in {"nat", "filter", "intercept"}
    BY DEF NextTable, Table
  <2>2. num' = num /\ registry' = registry
    BY <1>4 DEF EnsureTable, FlushTable, FillTable
  <2>3. \/ pc' = pc
        \/ pc[g] = t /\ pc' = [pc EXCEPT ![g] = NextTable[t]]
    BY <1>4 DEF EnsureTable, FlushTable, FillTable
  <2> QED
    BY <1>0, <2>1, <2>2, <2>3 DEF IInv, TypeOK
<1>5. CASE Calm \/ UNCHANGED vars
  BY <1>0, <1>5 DEF Calm, vars
<1> QED
  BY <1>1, <1>2, <1>3, <1>4, <1>5 DEF Next, MainStep, Register

\* What is stored, and what is routed, is the subnet the process has.
LEMMA ServesStep == IInv /\ [Next]_vars => ServesRegisteredSubnet'
<1> SUFFICES ASSUME IInv, [Next]_vars, NEW h \in Host, Sole(h)
             PROVE  /\ num'[h] # None /\ pc'[h] # "store" => registry'[IdOf[h]] = num'[h]
                    /\ routes'[h] \subseteq {registry'[IdOf[h]]}
  BY DEF ServesRegisteredSubnet, Sole
<1> USE DEF redisVars, hostVars, kernelVars, Goto
<1>0. /\ num[h] # None /\ pc[h] # "store" => registry[IdOf[h]] = num[h]
      /\ routes[h] \subseteq {registry[IdOf[h]]}
  BY DEF IInv, ServesRegisteredSubnet
<1>1. ASSUME NEW g \in Host, Start(g) \/ Load(g) \/ Listen(g) \/ Panic(g) \/ Reboot(g)
      PROVE  /\ num'[h] # None /\ pc'[h] # "store" => registry'[IdOf[h]] = num'[h]
             /\ routes'[h] \subseteq {registry'[IdOf[h]]}
  BY <1>0, <1>1 DEF IInv, TypeOK, Numbered, Start, Load, Listen, Panic, Reboot
<1>2. ASSUME NEW g \in Host, TakeSlot(g)
      PROVE  /\ num'[h] # None /\ pc'[h] # "store" => registry'[IdOf[h]] = num'[h]
             /\ routes'[h] \subseteq {registry'[IdOf[h]]}
  BY <1>0, <1>2 DEF IInv, TypeOK, Numbered, TakeSlot
<1>3. ASSUME NEW g \in Host, Store(g)
      PROVE  /\ num'[h] # None /\ pc'[h] # "store" => registry'[IdOf[h]] = num'[h]
             /\ routes'[h] \subseteq {registry'[IdOf[h]]}
  <2>1. CASE h # g
    <3>1. registry'[IdOf[h]] = registry[IdOf[h]]
      BY <1>3, <2>1, SoleEntry DEF IInv
    <3> QED
      BY <1>0, <1>3, <2>1, <3>1 DEF IInv, TypeOK, Store
  <2>2. CASE h = g
    \* No route was added while there was no entry.
    <3>1. registry[IdOf[h]] = None
      BY <1>3, <2>2 DEF IInv, Numbered, Store
    <3>2. routes[h] = {}
      BY <1>0, <3>1, SlotAssumption DEF IInv, TypeOK
    <3>3. registry'[IdOf[h]] = num[h]
      BY <1>3, <2>2, IdAssumption DEF IInv, TypeOK, Store
    <3> QED
      BY <1>3, <3>2, <3>3 DEF Store
  <2> QED
    BY <2>1, <2>2
<1>4. ASSUME NEW g \in Host, EnsureLocalSubnet(g)
      PROVE  /\ num'[h] # None /\ pc'[h] # "store" => registry'[IdOf[h]] = num'[h]
             /\ routes'[h] \subseteq {registry'[IdOf[h]]}
  <2>1. num[g] # None
    BY <1>4 DEF IInv, Numbered, EnsureLocalSubnet
  <2> QED
    BY <1>0, <1>4, <2>1 DEF IInv, TypeOK, EnsureLocalSubnet
<1>5. ASSUME NEW g \in Host, NEW t \in Table, EnsureTable(g, t)
      PROVE  /\ num'[h] # None /\ pc'[h] # "store" => registry'[IdOf[h]] = num'[h]
             /\ routes'[h] \subseteq {registry'[IdOf[h]]}
  <2>1. num' = num /\ registry' = registry /\ routes' = routes
    BY <1>5 DEF EnsureTable, FlushTable, FillTable
  <2>2. pc'[h] # pc[h] => pc[h] \in Table
    BY <1>5 DEF IInv, TypeOK, EnsureTable, FlushTable, FillTable
  <2> QED
    BY <1>0, <2>1, <2>2 DEF Table
<1>6. CASE Calm \/ UNCHANGED vars
  BY <1>0, <1>6 DEF Calm, vars
<1> QED
  BY <1>1, <1>2, <1>3, <1>4, <1>5, <1>6 DEF Next, MainStep, Register

\* A table that main has passed is touched again only by a process that starts
\* over and has to pass it again.
LEMMA TablesStep == IInv /\ [Next]_vars => TablesInOrder'
<1> SUFFICES ASSUME IInv, [Next]_vars
             PROVE  TablesInOrder'
  OBVIOUS
<1> USE DEF redisVars, hostVars, kernelVars, Goto
<1>0. \A h \in Host : ready[h] => pc[h] = "serving"
  BY DEF IInv, TablesInOrder
<1>1. ASSUME NEW g \in Host, MainStep(g) \/ Panic(g) \/ Reboot(g),
             ~ \E t \in Table : EnsureTable(g, t)
      PROVE  TablesInOrder'
  BY <1>1 DEF IInv, TypeOK, TablesInOrder, MainStep, Register, Start, Load, TakeSlot, Store,
              EnsureLocalSubnet, Listen, Panic, Reboot
<1>2. ASSUME NEW g \in Host, NEW t \in Table, EnsureTable(g, t)
      PROVE  TablesInOrder'
  <2>1. pc[g] = t /\ ready' = ready
    BY <1>2 DEF EnsureTable, FlushTable, FillTable
  <2>2. ~ready[g]
    BY <1>0, <2>1 DEF Table
  <2>3. \A h \in Host \ {g} : pc'[h] = pc[h] /\ rules'[h] = rules[h]
    BY <1>2 DEF IInv, TypeOK, EnsureTable, FlushTable, FillTable, SetRules
  <2>4. CASE FlushTable(g, t)
    <3>1. pc' = pc /\ \A u \in Table \ {t} : rules'[g][u] = rules[g][u]
      BY <2>4 DEF IInv, TypeOK, FlushTable, SetRules
    <3> QED
      BY <2>1, <2>2, <2>3, <3>1 DEF IInv, TablesInOrder, Table
  <2>5. CASE FillTable(g, t)
    <3>1. /\ pc'[g] = NextTable[t] /\ rules'[g][t] = "complete"
          /\ \A u \in Table \ {t} : rules'[g][u] = rules[g][u]
      BY <2>5 DEF IInv, TypeOK, FillTable, SetRules
    <3> QED
      BY <2>1, <2>2, <2>3, <3>1 DEF IInv, TablesInOrder, Table, NextTable
  <2> QED
    BY <1>2, <2>4, <2>5 DEF EnsureTable
<1>3. CASE Calm \/ UNCHANGED vars
  BY <1>3 DEF IInv, TablesInOrder, Calm, vars
<1> QED
  BY <1>1, <1>2, <1>3 DEF Next, MainStep

(***************************************************************************)
(* The theorems.                                                           *)
(***************************************************************************)
\* The invariant holds throughout, for every number of hosts and proxies.
THEOREM Invariance == Spec => []IInv
<1>1. IInv /\ [Next]_vars => IInv'
  BY TypeStep, ClaimsStep, NumberedStep, ServesStep, TablesStep DEF IInv
<1> QED
  BY <1>1, InitHolds, PTL DEF Spec

\* Every value stays of its type: in particular every subnet in use is one of the
\* MaxSlot there are, however often the counter is raised.
THEOREM StartTyped == Spec => []TypeOK
<1>1. IInv => TypeOK
  BY DEF IInv
<1> QED
  BY <1>1, Invariance, PTL

\* No two proxies ever have a claim to one subnet.
THEOREM Disjoint == Spec => []SubnetsDisjoint
<1>1. IInv => SubnetsDisjoint
  BY DEF IInv
<1> QED
  BY <1>1, Invariance, PTL

\* A proxy on a host of its own serves the subnet that the registry gives it.
THEOREM ServesRegistered == Spec => []ServesRegisteredSubnet
<1>1. IInv => ServesRegisteredSubnet
  BY DEF IInv
<1> QED
  BY <1>1, Invariance, PTL

\* A host that passes the health check is completely set up.
THEOREM HealthComplete == Spec => []HealthyIsComplete
<1>1. IInv => HealthyIsComplete
  BY DEF IInv, TablesInOrder, HealthyIsComplete, Healthy, Table
<1> QED
  BY <1>1, Invariance, PTL

=================================================================================
