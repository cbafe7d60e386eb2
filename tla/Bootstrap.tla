------------------------------- MODULE Bootstrap -------------------------------
(***************************************************************************)
(* Start of mcproxy (cmd/proxy/main.go): a host registers its proxy id in  *)
(* Redis for a /16 (registration.Register), then brings the kernel into    *)
(* shape one command at a time and listens.  Any step may fail, which is a *)
(* panic and, with Restart=always, another attempt over what it left.      *)
(* Hosts start concurrently, and two of them may carry one proxy id.       *)
(***************************************************************************)
EXTENDS Naturals, FiniteSets

CONSTANTS
    Host,
    ProxyID,
    IdOf,       \* IdOf[h]: proxy_id in the configuration of host h
    MaxSlot,    \* number of /16 subnets: 254
    None        \* absent

ASSUME IdAssumption == IdOf \in [Host -> ProxyID]
ASSUME SlotAssumption == MaxSlot \in Nat /\ None \notin Nat

VARIABLES
    registry,   \* registry[i]: the slot of proxy i in proxy:registry
    slots,      \* proxy:subnet_counter
    trouble,    \* may steps still fail?
    pc,         \* pc[h]: the next step of main on host h
    num,        \* num[h]: proxyNum of the process
    ready,      \* ready[h]: health.ListenerState
    routes,     \* routes[h]: slots whose /16 host h has local routes for
    rules       \* rules[h][t]: nftables table t of host h

redisVars == <<registry, slots>>
hostVars == <<pc, num, ready>>
kernelVars == <<routes, rules>>
vars == <<redisVars, trouble, hostVars, kernelVars>>

\* The tables in the order main sets them up.
Table == {"nat", "filter", "intercept"}
NextTable == [nat |-> "filter", filter |-> "intercept", intercept |-> "listen"]

TypeOK ==
    /\ registry \in [ProxyID -> Nat \cup {None}]
    /\ slots \in 0..(MaxSlot + 1)
    /\ trouble \in BOOLEAN
    /\ pc \in [Host -> {"down", "load", "incr", "store", "route", "listen", "serving"}
                         \cup Table]
    /\ num \in [Host -> (1..MaxSlot) \cup {None}]
    /\ ready \in [Host -> BOOLEAN]
    /\ routes \in [Host -> SUBSET (1..MaxSlot)]
    /\ rules \in [Host -> [Table -> {"absent", "flushed", "complete"}]]

Init ==
    /\ registry = [i \in ProxyID |-> None]
    /\ slots = 0
    /\ trouble = TRUE
    /\ pc = [h \in Host |-> "down"]
    /\ num = [h \in Host |-> None]
    /\ ready = [h \in Host |-> FALSE]
    /\ routes = [h \in Host |-> {}]
    /\ rules = [h \in Host |-> [t \in Table |-> "absent"]]

Goto(h, label) == pc' = [pc EXCEPT ![h] = label]

(***************************************************************************)
(* registration.Register.                                                  *)
(***************************************************************************)
Start(h) ==
    /\ pc[h] = "down"
    /\ Goto(h, "load")
    /\ UNCHANGED <<redisVars, trouble, num, ready, kernelVars>>

\* HGET: the proxy resumes its subnet or asks for one.
Load(h) ==
    /\ pc[h] = "load"
    /\ num' = [num EXCEPT ![h] = registry[IdOf[h]]]
    /\ Goto(h, IF registry[IdOf[h]] = None THEN "incr" ELSE "route")
    /\ UNCHANGED <<redisVars, trouble, ready, kernelVars>>

\* Numbers past the last slot are all alike.
NextSlot == IF slots > MaxSlot THEN slots ELSE slots + 1

\* Mutant of TakeSlot: the next slot is read off the registry.
TakeSlotByCount(h) ==
    /\ pc[h] = "incr"
    /\ slots' = Cardinality({i \in ProxyID : registry[i] # None}) + 1
    /\ IF slots' > MaxSlot
       THEN Goto(h, "down") /\ UNCHANGED num
       ELSE Goto(h, "store") /\ num' = [num EXCEPT ![h] = slots']
    /\ UNCHANGED <<registry, trouble, ready, kernelVars>>

\* Mutant of TakeSlot: the limit is not checked.
TakeAnySlot(h) ==
    /\ pc[h] = "incr"
    /\ slots' = NextSlot
    /\ Goto(h, "store") /\ num' = [num EXCEPT ![h] = slots']
    /\ UNCHANGED <<registry, trouble, ready, kernelVars>>

\* INCR; the process ends when the subnets are used up.
TakeSlot(h) ==
    /\ pc[h] = "incr"
    /\ slots' = NextSlot
    /\ IF slots' > MaxSlot
       THEN Goto(h, "down") /\ UNCHANGED num
       ELSE Goto(h, "store") /\ num' = [num EXCEPT ![h] = slots']
    /\ UNCHANGED <<registry, trouble, ready, kernelVars>>

\* Mutant of Store: an error of HSET is ignored.
StoreIgnoresError(h) ==
    /\ pc[h] = "store"
    /\ \/ registry' = [registry EXCEPT ![IdOf[h]] = num[h]]
       \/ trouble /\ UNCHANGED registry
    /\ Goto(h, "route")
    /\ UNCHANGED <<slots, trouble, num, ready, kernelVars>>

\* HSET, which overwrites what another host stored for the id since.
Store(h) ==
    /\ pc[h] = "store"
    /\ registry' = [registry EXCEPT ![IdOf[h]] = num[h]]
    /\ Goto(h, "route")
    /\ UNCHANGED <<slots, trouble, num, ready, kernelVars>>

(***************************************************************************)
(* The kernel.                                                             *)
(***************************************************************************)
\* ip route replace local.
EnsureLocalSubnet(h) ==
    /\ pc[h] = "route"
    /\ routes' = [routes EXCEPT ![h] = @ \cup {num[h]}]
    /\ Goto(h, "nat")
    /\ UNCHANGED <<redisVars, trouble, num, ready, rules>>

SetRules(h, t, state) == rules' = [rules EXCEPT ![h] = [@ EXCEPT ![t] = state]]

\* Mutant of FlushTable: a table left by an earlier process is an error.
FlushNewTable(h, t) ==
    /\ pc[h] = t
    /\ rules[h][t] = "absent"
    /\ SetRules(h, t, "flushed")
    /\ UNCHANGED <<redisVars, trouble, hostVars, routes>>

\* First half of an Ensure: table, sets and chain exist, and what an earlier
\* process put into them is flushed; a half filled table counts as flushed.
FlushTable(h, t) ==
    /\ pc[h] = t
    /\ rules[h][t] # "flushed"
    /\ SetRules(h, t, "flushed")
    /\ UNCHANGED <<redisVars, trouble, hostVars, routes>>

\* Mutant of FillTable: main goes on after an error.
FillTableAnyway(h, t) ==
    /\ pc[h] = t
    /\ rules[h][t] = "flushed"
    /\ SetRules(h, t, "complete") \/ (trouble /\ UNCHANGED rules)
    /\ Goto(h, NextTable[t])
    /\ UNCHANGED <<redisVars, trouble, num, ready, routes>>

\* Second half: its elements and rules.
FillTable(h, t) ==
    /\ pc[h] = t
    /\ rules[h][t] = "flushed"
    /\ SetRules(h, t, "complete")
    /\ Goto(h, NextTable[t])
    /\ UNCHANGED <<redisVars, trouble, num, ready, routes>>

\* Router.Start: the socket listens and the ready hook runs.
Listen(h) ==
    /\ pc[h] = "listen"
    /\ Goto(h, "serving")
    /\ ready' = [ready EXCEPT ![h] = TRUE]
    /\ UNCHANGED <<redisVars, trouble, num, kernelVars>>

(***************************************************************************)
(* What goes wrong, until it does no more.                                 *)
(***************************************************************************)
\* A step fails or the process is killed.  The kernel keeps its state.
Panic(h) ==
    /\ trouble
    /\ pc[h] # "down"
    /\ Goto(h, "down")
    /\ num' = [num EXCEPT ![h] = None]
    /\ ready' = [ready EXCEPT ![h] = FALSE]
    /\ UNCHANGED <<redisVars, trouble, kernelVars>>

Reboot(h) ==
    /\ trouble
    /\ Goto(h, "down")
    /\ num' = [num EXCEPT ![h] = None]
    /\ ready' = [ready EXCEPT ![h] = FALSE]
    /\ routes' = [routes EXCEPT ![h] = {}]
    /\ rules' = [rules EXCEPT ![h] = [t \in Table |-> "absent"]]
    /\ UNCHANGED <<redisVars, trouble>>

Calm ==
    /\ trouble
    /\ trouble' = FALSE
    /\ UNCHANGED <<redisVars, hostVars, kernelVars>>

Register(h) == Load(h) \/ TakeSlot(h) \/ Store(h)
EnsureTable(h, t) == FlushTable(h, t) \/ FillTable(h, t)

MainStep(h) ==
    \/ Start(h) \/ Register(h) \/ EnsureLocalSubnet(h)
    \/ \E t \in Table : EnsureTable(h, t)
    \/ Listen(h)

Next ==
    \/ \E h \in Host : MainStep(h) \/ Panic(h) \/ Reboot(h)
    \/ Calm

Spec == Init /\ [][Next]_vars

\* Every step of main returns, and systemd restarts the process.
FairSpec == Spec /\ \A h \in Host : WF_vars(MainStep(h))

(***************************************************************************)
(* Properties.                                                             *)
(***************************************************************************)
\* The subnets a proxy has any claim to: in the registry, in a process that
\* has not stored it, or in routes of an earlier attempt.
Claims(i) ==
    ({registry[i]} \cup {num[h] : h \in {g \in Host : IdOf[g] = i}}
        \cup UNION {routes[h] : h \in {g \in Host : IdOf[g] = i}}) \ {None}

\* No subnet ever has two claimants, however the registrations of several
\* proxies interleave, fail and are repeated.
SubnetsDisjoint ==
    \A i, j \in ProxyID : i # j => Claims(i) \cap Claims(j) = {}

\* The configuration gives the id of h to no other host.
Sole(h) == \A g \in Host : IdOf[g] = IdOf[h] => g = h

\* Past Register a process serves the subnet that every later start of its
\* proxy and the watcher will read, and its host routes no other: a subnet
\* taken by an attempt that died before HSET is never used.
ServesRegisteredSubnet ==
    \A h \in Host : Sole(h) =>
        /\ num[h] # None /\ pc[h] # "store" => registry[IdOf[h]] = num[h]
        /\ routes[h] \subseteq {registry[IdOf[h]]}

\* The conditions of health.Checker: it looks for tables, not for rules.
Healthy(h) ==
    /\ ready[h]
    /\ \A t \in Table : rules[h][t] # "absent"
    /\ num[h] \in routes[h]

\* A host that answers 200, and so attracts players through DNS, has every
\* rule in place although the check only looks at the names of the tables.
HealthyIsComplete ==
    \A h \in Host : Healthy(h) => \A t \in Table : rules[h][t] = "complete"

\* Once steps stop failing every host comes up healthy, over whatever half
\* finished attempts left in Redis and in its kernel, unless the subnets ran
\* out before its proxy was registered.
ComesUp ==
    \A h \in Host :
        []<>trouble \/ <>[](Healthy(h) \/ (registry[IdOf[h]] = None /\ slots >= MaxSlot))

=================================================================================
