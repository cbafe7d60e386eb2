---------------------------- MODULE NodeDNATProofs -----------------------------
(***************************************************************************)
(* Theorems about NodeDNAT for any containers, networks, addresses and     *)
(* bindings.  That the two tables agree is an invariant of the round.      *)
(* That a quiet goroutine has installed what Docker has needs to know, at  *)
(* each place of a round, what has been made of the containers inspected   *)
(* so far, as long as nothing has changed since docker ps.                 *)
(***************************************************************************)
EXTENDS NodeDNAT, WellFoundedInduction, TLAPS

(***************************************************************************)
(* The inductive invariant.                                                *)
(***************************************************************************)
\* Outside a round nothing is left of it, and the stream starts after the first.
Between ==
    /\ wpc \in {"down", "ps", "select", "gone"} => ids = {} /\ dest = NoRules /\ nets = {}
    /\ wpc \notin {"ps", "inspect"} => ids = {}
    /\ wpc \in {"clear", "exempt"} => dest = NoRules
    /\ wpc = "down" \/ boot => stream = "none"

\* The rules lead to networks of N only.
Within(rules, N) == \A p \in Port : rules[p] # None => NetOf[rules[p].ip] \in N

\* The networks of a round are those of its rules, until they are exempt.
TablesAgree ==
    /\ wpc \in {"inspect", "rules"} => Within(dest, nets)
    /\ wpc \in {"rules", "clear"} => Within(chain, nets)
    /\ wpc = "exempt" => Within(chain, nets \cup exempt)
    /\ wpc \in {"clear", "exempt"} => jump
    /\ wpc = "select" /\ lastOk => Within(chain, exempt) /\ jump

\* Docker gives a port of an address to one running container.
PortsExclusive ==
    \A c, d \in Running : c # d =>
        \A b \in Bindings[c], e \in Bindings[d] :
            <<b.hostIP, b.hostPort, b.proto>> # <<e.hostIP, e.hostPort, e.proto>>

\* Nothing has changed since docker ps that a later round would not be told of.
Fresh == stream # "ended" /\ ~event /\ ~trigger /\ ~unseen

\* The rules are those of the containers of S.
RulesFor(rules, S) ==
    \A p \in Port :
        /\ rules[p] = None <=> \A c \in S : p \notin Published(c)
        /\ \A c \in S : p \in Published(c) => rules[p] = DestinationOf(c, p)

EndpointNets(S) == {EndpointNet(c) : c \in S}

\* The rules there are and those still to be added.
Ahead == [p \in Port |-> IF dest[p] # None THEN dest[p] ELSE chain[p]]

\* As long as nothing changes, a round has made of the containers what it owes.
RoundFollows ==
    Fresh =>
        /\ wpc = "inspect" =>
              /\ ids \subseteq Running
              /\ RulesFor(dest, Running \ ids)
              /\ nets = EndpointNets(Running \ ids)
        /\ wpc = "rules" => RulesFor(Ahead, Running) /\ nets = EndpointNets(Running)
        /\ wpc = "clear" => RulesFor(chain, Running) /\ nets = EndpointNets(Running)
        /\ wpc = "exempt" =>
              RulesFor(chain, Running) /\ nets \cup exempt = EndpointNets(Running)
        /\ wpc = "select" /\ lastOk =>
              RulesFor(chain, Running) /\ exempt = EndpointNets(Running)

IInv == TypeOK /\ Between /\ TablesAgree /\ PortsExclusive /\ RoundFollows

(***************************************************************************)
(* What docker reports.                                                    *)
(***************************************************************************)
\* Of several networks, one has the first name.
LEMMA FirstNetwork ==
    ASSUME NEW on, on \subseteq Network, on # {}
    PROVE  \E n \in on : \A m \in on : n <= m
<1>1. on \subseteq Nat
  BY DockerAssumption
<1>2. IsWellFoundedOn(OpToRel(<, Nat), Nat)
  BY NatLessThanWellFounded
<1>3. \E n \in on : \A m \in on : ~(<<m, n>> \in OpToRel(<, Nat))
  BY <1>1, <1>2, WFMin, Zenon
<1>4. \A m, n \in Nat : m < n => <<m, n>> \in OpToRel(<, Nat)
  BY Zenon DEF OpToRel
<1>5. PICK n \in on : \A m \in on : ~(m < n)
  BY <1>1, <1>3, <1>4, Zenon
<1> QED
  BY <1>1, <1>5

\* A running container has an endpoint: an address of its own on the network
\* that is its endpoint's.
LEMMA EndpointExists ==
    ASSUME TypeOK, NEW c \in Running
    PROVE  /\ EndpointNet(c) \in Network
           /\ EndpointIP(c) \in Addr /\ NetOf[EndpointIP(c)] = EndpointNet(c)
<1> DEFINE on == {NetOf[a] : a \in attached[c]}
<1>1. c \in Container /\ attached[c] # {} /\ attached[c] \subseteq Addr
  BY DEF Running, TypeOK
<1>2. on # {} /\ on \subseteq Network
  BY <1>1, DockerAssumption
<1>3. \E n \in on : \A m \in on : n <= m
  BY <1>2, FirstNetwork
<1>4. EndpointNet(c) \in on
  <2>1. CASE DockerNetwork \in on
    BY <2>1 DEF EndpointNet
  <2>2. CASE DockerNetwork \notin on
    BY <1>3, <2>2 DEF EndpointNet
  <2> QED
    BY <2>1, <2>2
<1>5. \E a \in attached[c] : NetOf[a] = EndpointNet(c)
  BY <1>4
<1>6. EndpointIP(c) \in attached[c] /\ NetOf[EndpointIP(c)] = EndpointNet(c)
  BY <1>5 DEF EndpointIP
<1> QED
  BY <1>1, <1>2, <1>4, <1>6

\* The port inside the container is one of a binding that publishes the port.
LEMMA ContainerPortPublished ==
    ASSUME NEW c \in Container, NEW p \in Published(c)
    PROVE  \E b \in Bindings[c] :
              Usable(b) /\ b.hostPort = p /\ b.port = ContainerPort(c, p)
<1>1. \E b \in Bindings[c] : Usable(b) /\ b.hostPort = p
  BY DEF Published
<1> QED
  BY <1>1 DEF ContainerPort

\* What a round makes of a running container is a destination.
LEMMA DestinationTyped ==
    ASSUME TypeOK, NEW c \in Running, NEW p \in Published(c)
    PROVE  /\ DestinationOf(c, p) \in Destination
           /\ DestinationOf(c, p) # None
           /\ NetOf[DestinationOf(c, p).ip] = EndpointNet(c)
<1>1. c \in Container
  BY DEF Running
<1>2. EndpointIP(c) \in Addr /\ NetOf[EndpointIP(c)] = EndpointNet(c)
  BY EndpointExists
<1>3. PICK b \in Bindings[c] : b.port = ContainerPort(c, p)
  BY <1>1, ContainerPortPublished
<1>4. /\ ContainerPort(c, p) \in {d.port : d \in UNION {Bindings[e] : e \in Container}}
      /\ ContainerPort(c, p) \in Nat
  BY <1>1, <1>3, DockerAssumption
<1>5. DestinationOf(c, p) \in [ip : Addr, port : Nat]
  BY <1>2, <1>4 DEF DestinationOf
<1> QED
  BY <1>2, <1>4, <1>5, DockerAssumption DEF DestinationOf, Destination

(***************************************************************************)
(* The steps by what they leave alone.                                     *)
(***************************************************************************)
\* Steps of Docker and its stream leave the round, the kernel and the loop alone;
\* steps of the loop between two rounds leave Docker, the round and the kernel.
Outside ==
    DockerStep \/ StreamStarts \/ StreamEnds \/ DecodeEvent \/ Calm

Loop == Boot \/ WatchDocker

\* Nothing is running or translated at first.
LEMMA InitHolds == Init => IInv
<1> SUFFICES ASSUME Init
             PROVE  IInv
  OBVIOUS
<1>1. Running = {}
  BY DEF Init, Running
<1>2. TypeOK
  BY DEF Init, TypeOK, NoRules, Round
<1>3. Between /\ TablesAgree /\ RoundFollows
  BY DEF Init, Between, TablesAgree, RoundFollows
<1>4. PortsExclusive
  BY <1>1 DEF PortsExclusive
<1> QED
  BY <1>2, <1>3, <1>4 DEF IInv

\* Every step keeps the types: what is inspected gives destinations on networks,
\* and Docker's steps one address per network.
LEMMA TypeStep == IInv /\ [Next]_vars => TypeOK'
<1> SUFFICES ASSUME TypeOK, Between, [Next]_vars
             PROVE  TypeOK'
  BY DEF IInv
<1> USE DEF dockerVars, streamVars, roundVars, kernelVars, loopVars
<1>1. ASSUME NEW c \in Container, NEW A \in SUBSET Addr, ContainerStart(c, A)
      PROVE  TypeOK'
  BY <1>1, ZenonT(40) DEF TypeOK, ContainerStart, Emit
<1>2. ASSUME NEW c \in Container, ContainerStop(c)
      PROVE  TypeOK'
  BY <1>2, ZenonT(40) DEF TypeOK, ContainerStop, Emit
<1>3. ASSUME NEW c \in Container, NEW a \in Addr, NetworkConnect(c, a)
      PROVE  TypeOK'
  <2>1. attached'[c] = attached[c] \cup {a} /\ \A d \in Container \ {c} : attached'[d] = attached[d]
    BY <1>3 DEF TypeOK, NetworkConnect
  <2>2. attached' \in [Container -> SUBSET Addr]
    BY <1>3 DEF TypeOK, NetworkConnect
  <2>3. \A b, d \in attached'[c] : NetOf[b] = NetOf[d] => b = d
    BY <1>3, <2>1 DEF TypeOK, NetworkConnect
  <2> QED
    BY <1>3, <2>1, <2>2, <2>3 DEF TypeOK, NetworkConnect
<1>4. ASSUME NEW c \in Container, NEW a \in Addr, NetworkDisconnect(c, a)
      PROVE  TypeOK'
  BY <1>4 DEF TypeOK, NetworkDisconnect
<1>5. CASE StreamStarts \/ StreamEnds \/ DecodeEvent \/ Calm
  BY <1>5, ZenonT(40) DEF TypeOK, StreamStarts, StreamEnds, DecodeEvent, Calm
<1>6. CASE ListContainers
  BY <1>6 DEF TypeOK, ListContainers, Running, Round
<1>7. ASSUME NEW c \in Container, Inspect(c)
      PROVE  TypeOK'
  <2>1. CASE attached[c] = {}
    BY <1>7, <2>1 DEF TypeOK, Inspect
  <2>2. CASE c \in Running
    <3>1. EndpointNet(c) \in Network
      BY <2>2, EndpointExists
    <3>2. \A p \in Published(c) : DestinationOf(c, p) \in Destination
      BY <2>2, DestinationTyped
    <3>3. dest' \in [Port -> Destination \cup {None}]
      BY <1>7, <2>2, <3>2 DEF TypeOK, Inspect, Running
    <3>4. nets' \subseteq Network
      BY <1>7, <2>2, <3>1 DEF TypeOK, Inspect, Running
    <3> QED
      BY <1>7, <3>3, <3>4 DEF TypeOK, Inspect
  <2> QED
    BY <2>1, <2>2 DEF Running
<1>8. CASE Flush
  BY <1>8 DEF TypeOK, Flush, NoRules, Round
<1>9. ASSUME NEW p \in Port, AddRule(p)
      PROVE  TypeOK'
  BY <1>9 DEF TypeOK, AddRule
<1>10. CASE EnsureJump \/ ClearExempt \/ RoundDone
  BY <1>10, ZenonT(40) DEF TypeOK, EnsureJump, ClearExempt, RoundDone, Round
<1>11. ASSUME NEW n \in Network, AddExempt(n)
       PROVE  TypeOK'
  BY <1>11 DEF TypeOK, AddExempt
<1>12. CASE RoundFails \/ Crash
  BY <1>12 DEF TypeOK, RoundFails, Crash, ForgetRound, NoRules, Round
<1>13. CASE Loop
  <2>1. CASE Boot
    BY <2>1, ZenonT(40) DEF TypeOK, Boot, Round
  <2>2. CASE Tick \/ TakeTrigger
    BY <2>2, ZenonT(40) DEF TypeOK, Tick, TakeTrigger, Round
  <2>3. CASE ClosedTrigger \/ WatcherReturns
    BY <2>3, ZenonT(40) DEF TypeOK, ClosedTrigger, WatcherReturns, Round
  <2> QED
    BY <1>13, <2>1, <2>2, <2>3 DEF Loop, WatchDocker
<1>14. CASE UNCHANGED vars
  BY <1>14 DEF TypeOK, vars
<1> QED
  BY <1>1, <1>2, <1>3, <1>4, <1>5, <1>6, <1>7, <1>8, <1>9, <1>10, <1>11, <1>12, <1>13, <1>14
     DEF Next, DockerStep, EnsureNodeDNAT, Loop

\* A round is empty when it starts and when it is over.
LEMMA BetweenStep == IInv /\ [Next]_vars => Between'
<1> SUFFICES ASSUME TypeOK, Between, [Next]_vars
             PROVE  Between'
  BY DEF IInv
<1> USE DEF dockerVars, streamVars, roundVars, kernelVars, loopVars
<1>1. CASE Outside
  <2>1. /\ wpc' = wpc /\ ids' = ids /\ dest' = dest /\ nets' = nets /\ boot' = boot
        /\ stream = "none" => stream' = "none"
    BY <1>1 DEF Outside, DockerStep, ContainerStart, ContainerStop, NetworkConnect,
                NetworkDisconnect, StreamStarts, StreamEnds, DecodeEvent, Calm
  <2> QED
    BY <2>1 DEF Between
<1>2. CASE ListContainers \/ Flush \/ EnsureJump \/ ClearExempt
  BY <1>2 DEF Between, ListContainers, Flush, EnsureJump, ClearExempt
<1>3. ASSUME NEW c \in Container, Inspect(c)
      PROVE  Between'
  BY <1>3 DEF Between, Inspect
<1>4. ASSUME NEW p \in Port, AddRule(p)
      PROVE  Between'
  BY <1>4 DEF Between, AddRule
<1>5. ASSUME NEW n \in Network, AddExempt(n)
      PROVE  Between'
  BY <1>5 DEF Between, AddExempt
<1>6. CASE RoundDone
  BY <1>6 DEF Between, RoundDone
<1>7. CASE RoundFails \/ Crash
  BY <1>7 DEF Between, RoundFails, Crash, ForgetRound, TypeOK, Round
<1>8. CASE Loop
  BY <1>8 DEF Between, Loop, Boot, WatchDocker, Tick, TakeTrigger, ClosedTrigger,
              WatcherReturns
<1>9. CASE UNCHANGED vars
  BY <1>9 DEF Between, vars
<1> QED
  BY <1>1, <1>2, <1>3, <1>4, <1>5, <1>6, <1>7, <1>8, <1>9
     DEF Next, Outside, Loop, EnsureNodeDNAT

(***************************************************************************)
(* The two tables.                                                         *)
(***************************************************************************)
\* What a round inspects is added to its rules and to its networks at once, and
\* the kernel gets the networks of the rules it has.
LEMMA TablesStep == IInv /\ [Next]_vars => TablesAgree'
<1> SUFFICES ASSUME TypeOK, Between, TablesAgree, [Next]_vars
             PROVE  TablesAgree'
  BY DEF IInv
<1> USE DEF dockerVars, streamVars, roundVars, kernelVars, loopVars
<1>1. CASE Outside
  <2>1. /\ wpc' = wpc /\ dest' = dest /\ nets' = nets /\ lastOk' = lastOk
        /\ chain' = chain /\ jump' = jump /\ exempt' = exempt
    BY <1>1 DEF Outside, DockerStep, ContainerStart, ContainerStop, NetworkConnect,
                NetworkDisconnect, StreamStarts, StreamEnds, DecodeEvent, Calm
  <2> QED
    BY <2>1 DEF TablesAgree, Within
<1>2. CASE ListContainers
  <2>1. dest' = NoRules /\ wpc' = "inspect"
    BY <1>2 DEF ListContainers, Between
  <2> QED
    BY <2>1 DEF TablesAgree, Within, NoRules
<1>3. ASSUME NEW c \in Container, Inspect(c)
      PROVE  TablesAgree'
  <2>1. wpc = "inspect" /\ wpc' = "inspect"
    BY <1>3 DEF Inspect
  <2>2. CASE attached[c] = {}
    BY <1>3, <2>1, <2>2 DEF TablesAgree, Within, Inspect
  <2>3. CASE c \in Running
    <3>1. /\ dest' = [p \in Port |-> IF p \in Published(c) THEN DestinationOf(c, p) ELSE dest[p]]
          /\ nets' = nets \cup {EndpointNet(c)}
      BY <1>3, <2>3 DEF Inspect, Running
    <3>2. ASSUME NEW p \in Port, dest'[p] # None
          PROVE  NetOf[dest'[p].ip] \in nets'
      <4>1. CASE p \in Published(c)
        BY <2>3, <3>1, <4>1, DestinationTyped
      <4>2. CASE p \notin Published(c)
        BY <2>1, <3>1, <3>2, <4>2 DEF TablesAgree, Within
      <4> QED
        BY <4>1, <4>2
    <3> QED
      BY <2>1, <3>2 DEF TablesAgree, Within
  <2> QED
    BY <2>2, <2>3 DEF Running
<1>4. CASE Flush
  BY <1>4 DEF TablesAgree, Within, Flush, NoRules
<1>5. ASSUME NEW p \in Port, AddRule(p)
      PROVE  TablesAgree'
  <2>1. /\ wpc = "rules" /\ wpc' = "rules" /\ nets' = nets /\ dest[p] # None
        /\ \A q \in Port : chain'[q] = (IF q = p THEN dest[p] ELSE chain[q])
        /\ \A q \in Port : dest'[q] = (IF q = p THEN None ELSE dest[q])
    BY <1>5 DEF AddRule, TypeOK
  <2> QED
    BY <2>1 DEF TablesAgree, Within
<1>6. CASE EnsureJump \/ ClearExempt
  BY <1>6 DEF TablesAgree, Within, EnsureJump, ClearExempt
<1>7. ASSUME NEW n \in Network, AddExempt(n)
      PROVE  TablesAgree'
  BY <1>7 DEF TablesAgree, Within, AddExempt
<1>8. CASE RoundDone
  BY <1>8 DEF TablesAgree, Within, RoundDone
<1>9. CASE RoundFails \/ Crash
  BY <1>9 DEF TablesAgree, RoundFails, Crash
<1>10. CASE Loop
  BY <1>10 DEF TablesAgree, Loop, Boot, WatchDocker, Tick, TakeTrigger, ClosedTrigger,
               WatcherReturns
<1>11. CASE UNCHANGED vars
  BY <1>11 DEF TablesAgree, Within, vars
<1> QED
  BY <1>1, <1>2, <1>3, <1>4, <1>5, <1>6, <1>7, <1>8, <1>9, <1>10, <1>11
     DEF Next, Outside, Loop, EnsureNodeDNAT

(***************************************************************************)
(* The containers that a round has seen.                                   *)
(***************************************************************************)
\* Only a start makes a container run, and Docker lets it only with free ports.
LEMMA PortsStep == IInv /\ [Next]_vars => PortsExclusive'
<1> SUFFICES ASSUME TypeOK, PortsExclusive, [Next]_vars
             PROVE  PortsExclusive'
  BY DEF IInv
<1> USE DEF dockerVars, streamVars, roundVars, kernelVars, loopVars
<1>1. ASSUME Running' \subseteq Running
      PROVE  PortsExclusive'
  BY <1>1 DEF PortsExclusive
<1>2. ASSUME NEW c \in Container, NEW A \in SUBSET Addr, ContainerStart(c, A)
      PROVE  PortsExclusive'
  <2>1. Running' \subseteq Running \cup {c}
    BY <1>2 DEF ContainerStart, Running, TypeOK
  <2>2. PortsFree(c)
    BY <1>2 DEF ContainerStart
  <2> SUFFICES ASSUME NEW d \in Running', NEW e \in Running', d # e,
                      NEW b \in Bindings[d], NEW f \in Bindings[e]
               PROVE  <<b.hostIP, b.hostPort, b.proto>> # <<f.hostIP, f.hostPort, f.proto>>
    BY DEF PortsExclusive
  <2>3. CASE d = c
    BY <2>1, <2>2, <2>3 DEF PortsFree
  <2>4. CASE e = c
    BY <2>1, <2>2, <2>4 DEF PortsFree
  <2>5. CASE d # c /\ e # c
    BY <2>1, <2>5 DEF PortsExclusive
  <2> QED
    BY <2>3, <2>4, <2>5
<1>3. ASSUME NEW c \in Container, NEW a \in Addr,
             ContainerStop(c) \/ NetworkConnect(c, a) \/ NetworkDisconnect(c, a)
      PROVE  Running' \subseteq Running
  BY <1>3 DEF ContainerStop, NetworkConnect, NetworkDisconnect, Running, TypeOK
<1>4. CASE attached' = attached
  BY <1>1, <1>4 DEF Running
<1>5. CASE ~DockerStep
  <2>1. attached' = attached
    BY <1>5 DEF Next, vars, StreamStarts, StreamEnds, DecodeEvent, EnsureNodeDNAT, ListContainers,
       Inspect, Flush, AddRule, EnsureJump, ClearExempt, AddExempt, RoundDone, RoundFails,
       Boot, WatchDocker, Tick, TakeTrigger, ClosedTrigger, WatcherReturns, Crash, Calm
  <2> QED
    BY <1>4, <2>1
<1>6. CASE \E c \in Container : ContainerStop(c)
  <2>1. PICK c \in Container : ContainerStop(c)
    BY <1>6
  <2>2. Running' \subseteq Running
    BY <2>1 DEF ContainerStop, Running, TypeOK
  <2> QED
    BY <1>1, <2>2
<1> QED
  BY <1>1, <1>2, <1>3, <1>5, <1>6 DEF DockerStep

\* One more container: its ports get its rules, and no port of another's is its.
LEMMA RulesGrow ==
    ASSUME TypeOK, PortsExclusive, NEW c \in Running, NEW S \in SUBSET Running,
           NEW old, NEW new, RulesFor(old, S),
           \A p \in Port : new[p] = IF p \in Published(c) THEN DestinationOf(c, p) ELSE old[p]
    PROVE  RulesFor(new, S \cup {c})
<1> SUFFICES ASSUME NEW p \in Port
             PROVE  /\ new[p] = None <=> \A d \in S \cup {c} : p \notin Published(d)
                    /\ \A d \in S \cup {c} : p \in Published(d) => new[p] = DestinationOf(d, p)
  BY DEF RulesFor
<1>1. CASE p \in Published(c)
  <2>1. new[p] = DestinationOf(c, p) /\ new[p] # None
    BY <1>1, DestinationTyped
  <2>2. ASSUME NEW d \in S, p \in Published(d)
        PROVE  d = c
    <3>1. PICK b \in Bindings[c] : Usable(b) /\ b.hostPort = p
      BY <1>1 DEF Published
    <3>2. PICK e \in Bindings[d] : Usable(e) /\ e.hostPort = p
      BY <2>2 DEF Published
    <3>3. <<b.hostIP, b.hostPort, b.proto>> = <<e.hostIP, e.hostPort, e.proto>>
      BY <3>1, <3>2 DEF Usable
    <3> QED
      BY <3>3 DEF PortsExclusive
  <2> QED
    BY <1>1, <2>1, <2>2
<1>2. CASE p \notin Published(c)
  BY <1>2 DEF RulesFor
<1> QED
  BY <1>1, <1>2

\* Where no container starts, stops or changes networks, each stands for what it
\* did before.
LEMMA SameContainers ==
    ASSUME attached' = attached
    PROVE  /\ Running' = Running
           /\ \A c \in Container : EndpointNet(c)' = EndpointNet(c)
           /\ \A c \in Container, p \in Port : DestinationOf(c, p)' = DestinationOf(c, p)
<1>1. Running' = Running
  BY DEF Running
<1>2. \A c \in Container : EndpointNet(c)' = EndpointNet(c)
  BY DEF EndpointNet
<1>3. \A c \in Container : EndpointIP(c)' = EndpointIP(c)
  BY <1>2 DEF EndpointIP
<1>4. \A c \in Container, p \in Port : DestinationOf(c, p)' = DestinationOf(c, p)
  BY <1>3 DEF DestinationOf
<1> QED
  BY <1>1, <1>2, <1>4

\* Only docker ps, a trigger that is taken and a process that ends make a round
\* fresh that was not: whatever else changes is announced or remembered.
LEMMA FreshBefore ==
    ASSUME TypeOK, Between, Next, Fresh', ~(ListContainers \/ TakeTrigger \/ Crash)
    PROVE  Fresh /\ attached' = attached
<1> USE DEF dockerVars, streamVars, roundVars, kernelVars, loopVars
<1>1. CASE DockerStep
  BY <1>1 DEF DockerStep, ContainerStart, ContainerStop, NetworkConnect, NetworkDisconnect,
              Emit, Fresh
<1>2. CASE StreamStarts \/ StreamEnds \/ DecodeEvent \/ Calm
  BY <1>2 DEF StreamStarts, StreamEnds, DecodeEvent, Calm, Fresh
<1>3. CASE EnsureNodeDNAT
  BY <1>3 DEF EnsureNodeDNAT, Inspect, Flush, AddRule, EnsureJump, ClearExempt,
              AddExempt, RoundDone, Between, Fresh
<1>4. CASE RoundFails \/ Boot \/ Tick \/ ClosedTrigger \/ WatcherReturns
  BY <1>4 DEF RoundFails, Boot, Tick, ClosedTrigger, WatcherReturns, Fresh
<1> QED
  BY <1>1, <1>2, <1>3, <1>4 DEF Next, WatchDocker

\* Between docker ps and the end of a round in which nothing changes, each command
\* makes of the containers what it owes.
LEMMA FollowsStep == IInv /\ [Next]_vars => RoundFollows'
<1> SUFFICES ASSUME TypeOK, Between, TablesAgree, PortsExclusive, RoundFollows, [Next]_vars,
                    Fresh'
             PROVE  RoundFollows'
  BY DEF IInv, RoundFollows
<1> USE DEF dockerVars, streamVars, roundVars, kernelVars, loopVars
<1>1. CASE ListContainers
  <2>1. /\ wpc' = "inspect" /\ ids' = Running /\ dest' = NoRules /\ nets' = {}
        /\ attached' = attached
    BY <1>1 DEF ListContainers, Between
  <2>2. Running' = Running
    BY <2>1, SameContainers
  <2>3. Running' \ ids' = {}
    BY <2>1, <2>2
  <2>4. RulesFor(dest, {})' /\ EndpointNets({})' = {}
    BY <2>1 DEF RulesFor, NoRules, EndpointNets
  <2> QED
    BY <2>1, <2>2, <2>3, <2>4 DEF RoundFollows
<1>2. CASE TakeTrigger \/ Crash
  BY <1>2 DEF TakeTrigger, Crash, RoundFollows
<1>3. CASE UNCHANGED vars
  <2>1. attached' = attached /\ Fresh
    BY <1>3 DEF vars, Fresh
  <2> QED
    BY <1>3, <2>1, SameContainers
       DEF vars, RoundFollows, RulesFor, EndpointNets, Ahead, Running
<1>4. CASE Next /\ ~(ListContainers \/ TakeTrigger \/ Crash)
  <2>1. Fresh /\ attached' = attached
    BY <1>4, FreshBefore
  <2>2. /\ Running' = Running /\ Running \subseteq Container
        /\ \A c \in Container : EndpointNet(c)' = EndpointNet(c)
        /\ \A c \in Container, p \in Port : DestinationOf(c, p)' = DestinationOf(c, p)
    BY <2>1, SameContainers DEF Running
  <2>3. \A S \in SUBSET Running : EndpointNets(S)' = EndpointNets(S)
    BY <2>2 DEF EndpointNets
  <2>4. ASSUME NEW S \in SUBSET Running, NEW f, RulesFor(f, S)
        PROVE  \A p \in Port :
                  /\ f[p] = None <=> \A c \in S : p \notin Published(c)
                  /\ \A c \in S : p \in Published(c) => f[p] = DestinationOf(c, p)'
    BY <2>2, <2>4 DEF RulesFor
  <2>5. ASSUME wpc' = wpc, ids' = ids, dest' = dest, nets' = nets, chain' = chain,
               exempt' = exempt, lastOk' = lastOk
        PROVE  RoundFollows'
    BY <2>1, <2>2, <2>3, <2>5 DEF RoundFollows, RulesFor, Ahead
  <2>6. CASE Outside
    BY <2>5, <2>6 DEF Outside, DockerStep, ContainerStart, ContainerStop, NetworkConnect,
                NetworkDisconnect, StreamStarts, StreamEnds, DecodeEvent, Calm
  <2>7. ASSUME NEW c \in Container, Inspect(c)
        PROVE  RoundFollows'
    <3>1. /\ wpc = "inspect" /\ wpc' = "inspect" /\ c \in Running /\ c \in ids
          /\ ids \subseteq Running /\ ids' = ids \ {c}
      BY <2>1, <2>7 DEF Inspect, RoundFollows
    <3>2. /\ dest' = [p \in Port |-> IF p \in Published(c) THEN DestinationOf(c, p) ELSE dest[p]]
          /\ nets' = nets \cup {EndpointNet(c)}
      BY <2>7, <3>1 DEF Inspect, Running
    <3>3. Running \ ids' = (Running \ ids) \cup {c}
      BY <3>1
    <3>4. RulesFor(dest, Running \ ids) /\ nets = EndpointNets(Running \ ids)
      BY <2>1, <3>1 DEF RoundFollows
    <3>5. RulesFor(dest', Running \ ids')
      <4>1. Running \ ids \in SUBSET Running
        OBVIOUS
      <4>2. \A p \in Port : dest'[p] = IF p \in Published(c) THEN DestinationOf(c, p) ELSE dest[p]
        BY <3>2
      <4>3. RulesFor(dest', (Running \ ids) \cup {c})
        BY <3>1, <3>4, <4>1, <4>2, RulesGrow
      <4> QED
        BY <3>3, <4>3
    <3>6. nets' = EndpointNets(Running \ ids')
      BY <3>2, <3>3, <3>4 DEF EndpointNets
    <3>7. RulesFor(dest, Running \ ids)'
      BY <2>2, <2>4, <3>5 DEF RulesFor
    <3>8. (nets = EndpointNets(Running \ ids))'
      BY <2>2, <2>3, <3>6
    <3> QED
      BY <2>2, <3>1, <3>7, <3>8 DEF RoundFollows
  <2>8. CASE Flush
    <3>1. /\ wpc = "inspect" /\ wpc' = "rules" /\ ids = {} /\ chain' = NoRules
          /\ dest' = dest /\ nets' = nets
      BY <2>8 DEF Flush
    <3>2. Running \ ids = Running
      BY <3>1
    <3>3. RulesFor(dest, Running) /\ nets = EndpointNets(Running)
      BY <2>1, <3>1, <3>2 DEF RoundFollows
    <3>4. \A p \in Port : Ahead'[p] = dest[p]
      BY <3>1 DEF Ahead, NoRules
    <3>5. RulesFor(Ahead, Running)'
      BY <2>2, <2>4, <3>3, <3>4 DEF RulesFor
    <3> QED
      BY <2>2, <2>3, <3>1, <3>3, <3>5 DEF RoundFollows
  <2>9. ASSUME NEW p \in Port, AddRule(p)
        PROVE  RoundFollows'
    <3>1. /\ wpc = "rules" /\ wpc' = "rules" /\ nets' = nets /\ dest[p] # None
          /\ \A q \in Port : chain'[q] = (IF q = p THEN dest[p] ELSE chain[q])
          /\ \A q \in Port : dest'[q] = (IF q = p THEN None ELSE dest[q])
      BY <2>9 DEF AddRule, TypeOK
    <3>2. \A q \in Port : Ahead'[q] = Ahead[q]
      BY <3>1 DEF Ahead
    <3>3. RulesFor(Ahead, Running) /\ nets = EndpointNets(Running)
      BY <2>1, <3>1 DEF RoundFollows
    <3>4. RulesFor(Ahead, Running)'
      BY <2>2, <2>4, <3>2, <3>3 DEF RulesFor
    <3> QED
      BY <2>2, <2>3, <3>1, <3>3, <3>4 DEF RoundFollows
  <2>10. CASE EnsureJump
    <3>1. /\ wpc = "rules" /\ wpc' = "clear" /\ dest = NoRules /\ chain' = chain
          /\ nets' = nets
      BY <2>10 DEF EnsureJump
    <3>2. RulesFor(Ahead, Running) /\ nets = EndpointNets(Running)
      BY <2>1, <3>1 DEF RoundFollows
    <3>3. \A p \in Port : chain'[p] = Ahead[p]
      BY <3>1 DEF Ahead, NoRules
    <3>4. RulesFor(chain, Running)'
      BY <2>2, <2>4, <3>2, <3>3 DEF RulesFor
    <3> QED
      BY <2>2, <2>3, <3>1, <3>2, <3>4 DEF RoundFollows
  <2>11. CASE ClearExempt \/ (\E n \in Network : AddExempt(n)) \/ RoundDone
    <3>1. chain' = chain /\ wpc \in {"clear", "exempt"}
      BY <2>11 DEF ClearExempt, AddExempt, RoundDone
    <3>2. RulesFor(chain, Running)
      BY <2>1, <3>1 DEF RoundFollows
    <3>3. RulesFor(chain, Running)'
      BY <2>2, <2>4, <3>1, <3>2 DEF RulesFor
    <3>4. \/ wpc' = "exempt" /\ nets' \cup exempt' = EndpointNets(Running)
          \/ wpc' = "select" /\ exempt' = EndpointNets(Running)
      BY <2>1, <2>11, <3>1 DEF RoundFollows, ClearExempt, AddExempt, RoundDone
    <3> QED
      BY <2>2, <2>3, <3>3, <3>4 DEF RoundFollows
  <2>12. CASE RoundFails
    BY <2>12 DEF RoundFails, RoundFollows
  <2>13. CASE Boot \/ Tick \/ ClosedTrigger \/ WatcherReturns
    BY <2>13 DEF Boot, Tick, ClosedTrigger, WatcherReturns, RoundFollows
  <2> QED
    BY <1>4, <2>6, <2>7, <2>8, <2>9, <2>10, <2>11, <2>12, <2>13
       DEF Next, Outside, EnsureNodeDNAT, WatchDocker
<1> QED
  BY <1>1, <1>2, <1>3, <1>4

(***************************************************************************)
(* The theorems.                                                           *)
(***************************************************************************)
\* The invariant holds throughout, whatever Docker does and whatever fails.
THEOREM Invariance == Spec => []IInv
<1>1. IInv /\ [Next]_vars => IInv'
  BY TypeStep, BetweenStep, TablesStep, PortsStep, FollowsStep DEF IInv
<1> QED
  BY <1>1, InitHolds, PTL DEF Spec

\* Every value stays of its type: what a round makes of Docker's answers is always
\* a destination on a network, also where they contradict each other.
THEOREM NodeTyped == Spec => []TypeOK
<1>1. IInv => TypeOK
  BY DEF IInv
<1> QED
  BY <1>1, Invariance, PTL

\* After a good round no rule leads to a network that is not exempt from the node's
\* source NAT.
THEOREM Exempted == Spec => []TranslatedIsExempt
<1>1. IInv => TranslatedIsExempt
  BY DEF IInv, TablesAgree, Within, TranslatedIsExempt
<1> QED
  BY <1>1, Invariance, PTL

\* The ports by which a container may be dialed are those it publishes.
LEMMA ServesPublished ==
    ASSUME NEW c \in Container, NEW p \in Port
    PROVE  Serves(c, p) <=> c \in Running /\ p \in Published(c)
BY DEF Serves, Published, Usable

\* With no event on its way and no trigger buffered, the rules that the last good
\* round left are those of the containers there are.
THEOREM NothingMissed == Spec => []QuietMeansCurrent
<1>1. IInv => QuietMeansCurrent
  <2> SUFFICES ASSUME IInv, wpc = "select", lastOk, Fresh
               PROVE  Current
    BY DEF QuietMeansCurrent, Fresh
  <2>1. RulesFor(chain, Running) /\ exempt = EndpointNets(Running)
    BY DEF IInv, RoundFollows
  <2>2. jump
    BY DEF IInv, TablesAgree
  <2>3. RulesCurrent
    <3> SUFFICES ASSUME NEW p \in Port
                 PROVE  /\ chain[p] = None <=> \A c \in Container : ~Serves(c, p)
                        /\ \A c \in Container : Serves(c, p) =>
                              \E b \in Bindings[c] :
                                 /\ b.proto = "tcp" /\ b.hostIP = PublicIP /\ b.hostPort = p
                                 /\ chain[p] = [ip |-> EndpointIP(c), port |-> b.port]
      BY DEF RulesCurrent
    <3>1. chain[p] = None <=> \A c \in Container : ~Serves(c, p)
      BY <2>1, ServesPublished DEF RulesFor, Running
    <3>2. ASSUME NEW c \in Container, Serves(c, p)
          PROVE  \E b \in Bindings[c] :
                    /\ b.proto = "tcp" /\ b.hostIP = PublicIP /\ b.hostPort = p
                    /\ chain[p] = [ip |-> EndpointIP(c), port |-> b.port]
      <4>1. c \in Running /\ p \in Published(c)
        BY <3>2, ServesPublished
      <4>2. chain[p] = DestinationOf(c, p)
        BY <2>1, <4>1 DEF RulesFor
      <4>3. PICK b \in Bindings[c] : Usable(b) /\ b.hostPort = p /\ b.port = ContainerPort(c, p)
        BY <4>1, ContainerPortPublished
      <4> QED
        BY <4>2, <4>3 DEF Usable, DestinationOf
    <3> QED
      BY <3>1, <3>2
  <2> QED
    BY <2>1, <2>2, <2>3 DEF Current, EndpointNets
<1> QED
  BY <1>1, Invariance, PTL

=================================================================================
