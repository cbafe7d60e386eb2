-------------------------------- MODULE NodeDNAT --------------------------------
(***************************************************************************)
(* The node side of mcwatcher (internal/watcher/docker.go, nosnat.go,      *)
(* watchDocker and ensureNodeDNAT of watcher.go, NodeDNATManager of        *)
(* nat.go): one goroutine at a time resolves the containers that publish   *)
(* game ports, rebuilds the chain that translates those ports to them and  *)
(* the chain that exempts them from the node's own source NAT.  Docker     *)
(* changes between any two of its commands, any command may fail, and the  *)
(* event stream that announces the changes starts late, is lossy at its    *)
(* ends and may stop.                                                      *)
(***************************************************************************)
EXTENDS Naturals, FiniteSets

CONSTANTS
    Container,
    Network,        \* numbers, in the order of the network names
    Addr,           \* addresses, each on a network
    NetOf,          \* NetOf[a]: the network of address a
    DockerNetwork,  \* node_dnat.docker_network
    Bindings,       \* Bindings[c]: what c publishes, as of docker inspect
    PublicIP,       \* node_dnat.public_ip
    StartPort, EndPort,     \* node_dnat.port_range
    None

Proto == {"tcp", "udp"}

ASSUME DockerAssumption ==
    /\ Network \subseteq Nat
    /\ NetOf \in [Addr -> Network]
    /\ DockerNetwork \in Network
    /\ None \notin Addr /\ None \notin Network /\ None \notin [ip : Addr, port : Nat]
    /\ \A c \in Container : \A b \in Bindings[c] :
          /\ {"hostIP", "hostPort", "port", "proto"} \subseteq DOMAIN b
          /\ b.hostPort \in Nat /\ b.port \in Nat /\ b.proto \in Proto

\* PortRange.Validate.
ASSUME RangeAssumption == StartPort \in 1..EndPort /\ EndPort \in 1..65535

\* No container binds one port of an address twice.
ASSUME BindingAssumption ==
    \A c \in Container : \A b, d \in Bindings[c] :
        /\ b.hostIP = d.hostIP /\ b.hostPort = d.hostPort /\ b.proto = d.proto
        => b = d

Port == StartPort..EndPort

VARIABLES
    trouble,    \* may docker change, a command fail, a process or stream end?
    attached,   \* attached[c]: the addresses of container c; {} if it is down
    event,      \* events of the stream that Events has not decoded
    unseen,     \* history: a change no event tells of since docker ps
    wpc,        \* where the goroutine that reconciles is
    boot,       \* is the round that of Service.Start?
    stream,     \* the docker events command
    trigger,    \* the value buffered in triggerCh
    ids,        \* containers listed and not inspected yet
    dest,       \* Destinations resolved so far in this round
    nets,       \* networks of the containers inspected in this round
    lastOk,     \* did the last round succeed?
    chain,      \* kernel: rules of chain mcproxy_node prerouting
    jump,       \* kernel: does POSTROUTING jump to MCPROXY_NOSNAT?
    exempt      \* kernel: networks accepted by MCPROXY_NOSNAT

dockerVars == <<attached, event, unseen>>
streamVars == <<stream, trigger>>
roundVars == <<ids, dest, nets>>
kernelVars == <<chain, jump, exempt>>
loopVars == <<wpc, boot, lastOk>>
vars == <<trouble, dockerVars, streamVars, roundVars, kernelVars, loopVars>>

(***************************************************************************)
(* Resolve, as functions of what docker reports.                           *)
(***************************************************************************)
Destination ==
    [ip : Addr, port : {b.port : b \in UNION {Bindings[c] : c \in Container}}]
NoRules == [p \in Port |-> None]
Running == {c \in Container : attached[c] # {}}

\* A published port the proxies may dial: tcp, on the public address, in range.
Usable(b) == b.proto = "tcp" /\ b.hostIP = PublicIP /\ b.hostPort \in Port

Published(c) == {b.hostPort : b \in {b \in Bindings[c] : Usable(b)}}

\* Mutant of ContainerPort: the port is the same on both sides.
SamePort(c, p) == p

\* The port inside the container that host port p stands for.
ContainerPort(c, p) ==
    (CHOOSE b \in Bindings[c] : Usable(b) /\ b.hostPort = p).port

\* containerEndpoint: the configured network first, else the first by name.
EndpointNet(c) ==
    LET on == {NetOf[a] : a \in attached[c]} IN
    IF DockerNetwork \in on THEN DockerNetwork
    ELSE CHOOSE n \in on : \A m \in on : n <= m

EndpointIP(c) == CHOOSE a \in attached[c] : NetOf[a] = EndpointNet(c)

DestinationOf(c, p) == [ip |-> EndpointIP(c), port |-> ContainerPort(c, p)]

\* Places within ensureNodeDNAT.
Round == {"ps", "inspect", "rules", "clear", "exempt"}

TypeOK ==
    /\ trouble \in BOOLEAN /\ event \in BOOLEAN /\ unseen \in BOOLEAN
    /\ attached \in [Container -> SUBSET Addr]
    /\ \A c \in Container : \A a, b \in attached[c] : NetOf[a] = NetOf[b] => a = b
    /\ wpc \in Round \cup {"down", "select", "gone"}
    /\ boot \in BOOLEAN /\ lastOk \in BOOLEAN
    /\ stream \in {"none", "starting", "live", "ended"}
    /\ trigger \in BOOLEAN
    /\ ids \subseteq Container
    /\ dest \in [Port -> Destination \cup {None}]
    /\ nets \subseteq Network
    /\ chain \in [Port -> Destination \cup {None}]
    /\ jump \in BOOLEAN
    /\ exempt \subseteq Network

Init ==
    /\ trouble = TRUE
    /\ attached = [c \in Container |-> {}]
    /\ event = FALSE /\ unseen = FALSE
    /\ wpc = "down" /\ boot = FALSE /\ lastOk = FALSE
    /\ stream = "none" /\ trigger = FALSE
    /\ ids = {} /\ dest = NoRules /\ nets = {}
    /\ chain = NoRules /\ jump = FALSE /\ exempt = {}

(***************************************************************************)
(* Docker and the events it sends.                                         *)
(***************************************************************************)
Free(a) == \A c \in Container : a \notin attached[c]

\* Docker refuses a binding that another running container has.
PortsFree(c) ==
    \A d \in Running : \A b \in Bindings[c], e \in Bindings[d] :
        <<b.hostIP, b.hostPort, b.proto>> # <<e.hostIP, e.hostPort, e.proto>>

\* An event, or a change that the stream does not show.
Emit == IF stream = "live" THEN event' = TRUE /\ UNCHANGED unseen
                           ELSE unseen' = TRUE /\ UNCHANGED event

ContainerStart(c, A) ==
    /\ trouble
    /\ attached[c] = {}
    /\ PortsFree(c)
    /\ \A a \in A : Free(a)
    /\ \A a, b \in A : NetOf[a] = NetOf[b] => a = b
    /\ attached' = [attached EXCEPT ![c] = A]
    /\ Emit
    /\ UNCHANGED <<trouble, streamVars, roundVars, kernelVars, loopVars>>

ContainerStop(c) ==
    /\ trouble
    /\ attached[c] # {}
    /\ attached' = [attached EXCEPT ![c] = {}]
    /\ Emit
    /\ UNCHANGED <<trouble, streamVars, roundVars, kernelVars, loopVars>>

\* Events drops events whose Type is not container, and connect and disconnect
\* come with Type network.
NetworkConnect(c, a) ==
    /\ trouble
    /\ attached[c] # {}
    /\ Free(a)
    /\ \A b \in attached[c] : NetOf[a] # NetOf[b]
    /\ attached' = [attached EXCEPT ![c] = @ \cup {a}]
    /\ unseen' = TRUE
    /\ UNCHANGED <<trouble, event, streamVars, roundVars, kernelVars, loopVars>>

NetworkDisconnect(c, a) ==
    /\ trouble
    /\ a \in attached[c] /\ attached[c] # {a}
    /\ attached' = [attached EXCEPT ![c] = @ \ {a}]
    /\ unseen' = TRUE
    /\ UNCHANGED <<trouble, event, streamVars, roundVars, kernelVars, loopVars>>

StreamStarts ==
    /\ stream = "starting"
    /\ stream' = "live"
    /\ UNCHANGED <<trouble, dockerVars, trigger, roundVars, kernelVars, loopVars>>

\* The command fails or ends, and with it go the events it had not delivered.
\* Events reports the error and closes both channels.
StreamEnds ==
    /\ trouble
    /\ stream \in {"starting", "live"}
    /\ stream' = "ended"
    /\ event' = FALSE
    /\ UNCHANGED <<trouble, attached, unseen, trigger, roundVars, kernelVars, loopVars>>

\* Events decodes all that is there; a full channel takes no second trigger.
DecodeEvent ==
    /\ event
    /\ event' = FALSE
    /\ trigger' = TRUE
    /\ UNCHANGED <<trouble, attached, unseen, stream, roundVars, kernelVars, loopVars>>

(***************************************************************************)
(* ensureNodeDNAT, one command at a time.                                  *)
(***************************************************************************)
\* docker ps
ListContainers ==
    /\ wpc = "ps"
    /\ ids' = Running
    /\ unseen' = FALSE
    /\ wpc' = "inspect"
    /\ UNCHANGED <<trouble, attached, event, streamVars, dest, nets, kernelVars,
                   boot, lastOk>>

\* Mutant of Inspect: only the configured network is exempted.
InspectConfigured(c) ==
    /\ wpc = "inspect"
    /\ c \in ids
    /\ ids' = ids \ {c}
    /\ IF attached[c] = {} THEN UNCHANGED <<dest, nets>>
       ELSE /\ dest' = [p \in Port |-> IF p \in Published(c) THEN DestinationOf(c, p)
                                       ELSE dest[p]]
            /\ nets' = nets \cup ({EndpointNet(c)} \cap {DockerNetwork})
    /\ UNCHANGED <<trouble, dockerVars, streamVars, kernelVars, loopVars>>

\* One object of docker inspect, which is read when its turn comes: a container
\* that was listed may have stopped since or have another address.
Inspect(c) ==
    /\ wpc = "inspect"
    /\ c \in ids
    /\ ids' = ids \ {c}
    /\ IF attached[c] = {} THEN UNCHANGED <<dest, nets>>
       ELSE /\ dest' = [p \in Port |-> IF p \in Published(c) THEN DestinationOf(c, p)
                                       ELSE dest[p]]
            /\ nets' = nets \cup {EndpointNet(c)}
    /\ UNCHANGED <<trouble, dockerVars, streamVars, kernelVars, loopVars>>

\* The subnets are known (they do not change); EnsureDestinations adds table
\* and chain and flushes it.
Flush ==
    /\ wpc = "inspect"
    /\ ids = {}
    /\ chain' = NoRules
    /\ wpc' = "rules"
    /\ UNCHANGED <<trouble, dockerVars, streamVars, roundVars, jump, exempt, boot,
                   lastOk>>

\* Rules are added in the order of their ports.
AddRule(p) ==
    /\ wpc = "rules"
    /\ dest[p] # None
    /\ \A q \in Port : q < p => dest[q] = None
    /\ chain' = [chain EXCEPT ![p] = dest[p]]
    /\ dest' = [dest EXCEPT ![p] = None]
    /\ UNCHANGED <<trouble, dockerVars, streamVars, ids, nets, jump, exempt, loopVars>>

\* NoSNATManager.Ensure: -N, and -I if -C does not find the jump.
EnsureJump ==
    /\ wpc = "rules"
    /\ dest = NoRules
    /\ jump' = TRUE
    /\ wpc' = "clear"
    /\ UNCHANGED <<trouble, dockerVars, streamVars, roundVars, chain, exempt, boot,
                   lastOk>>

\* -F
ClearExempt ==
    /\ wpc = "clear"
    /\ exempt' = {}
    /\ wpc' = "exempt"
    /\ UNCHANGED <<trouble, dockerVars, streamVars, roundVars, chain, jump, boot,
                   lastOk>>

\* -A for one subnet
AddExempt(n) ==
    /\ wpc = "exempt"
    /\ n \in nets
    /\ exempt' = exempt \cup {n}
    /\ nets' = nets \ {n}
    /\ UNCHANGED <<trouble, dockerVars, streamVars, ids, dest, chain, jump, loopVars>>

\* Mutant of RoundDone: what was triggered before the end is taken as served.
RoundDoneDrains ==
    /\ wpc = "exempt"
    /\ nets = {}
    /\ lastOk' = TRUE
    /\ wpc' = "select"
    /\ boot' = FALSE
    /\ stream' = IF boot THEN "starting" ELSE stream
    /\ trigger' = FALSE
    /\ UNCHANGED <<trouble, dockerVars, roundVars, kernelVars>>

\* After the first round Service.Start starts watchDocker, and that the stream.
RoundDone ==
    /\ wpc = "exempt"
    /\ nets = {}
    /\ lastOk' = TRUE
    /\ wpc' = "select"
    /\ boot' = FALSE
    /\ stream' = IF boot THEN "starting" ELSE stream
    /\ UNCHANGED <<trouble, dockerVars, trigger, roundVars, kernelVars>>

ForgetRound == ids' = {} /\ dest' = NoRules /\ nets' = {}

\* Mutant of RoundFails: watchDocker returns the error.
RoundFailsForGood ==
    /\ trouble
    /\ wpc \in Round
    /\ ForgetRound
    /\ lastOk' = FALSE
    /\ wpc' = IF boot THEN "down" ELSE "gone"
    /\ boot' = FALSE
    /\ UNCHANGED <<trouble, dockerVars, streamVars, kernelVars>>

\* A command fails: main panics in the first round, watchDocker logs it later.
RoundFails ==
    /\ trouble
    /\ wpc \in Round
    /\ ForgetRound
    /\ lastOk' = FALSE
    /\ wpc' = IF boot THEN "down" ELSE "select"
    /\ boot' = FALSE
    /\ UNCHANGED <<trouble, dockerVars, streamVars, kernelVars>>

(***************************************************************************)
(* Service.Start and the loop of watchDocker.                              *)
(***************************************************************************)
Boot ==
    /\ wpc = "down"
    /\ wpc' = "ps"
    /\ boot' = TRUE
    /\ UNCHANGED <<trouble, dockerVars, streamVars, roundVars, kernelVars, lastOk>>

Tick ==
    /\ wpc = "select"
    /\ wpc' = "ps"
    /\ UNCHANGED <<trouble, dockerVars, streamVars, roundVars, kernelVars, boot, lastOk>>

TakeTrigger ==
    /\ wpc = "select"
    /\ trigger
    /\ trigger' = FALSE
    /\ wpc' = "ps"
    /\ UNCHANGED <<trouble, dockerVars, stream, roundVars, kernelVars, boot, lastOk>>

\* A receive from the closed triggerCh does not block and counts as a trigger.
ClosedTrigger ==
    /\ wpc = "select"
    /\ stream = "ended" /\ ~trigger
    /\ wpc' = "ps"
    /\ UNCHANGED <<trouble, dockerVars, streamVars, roundVars, kernelVars, boot, lastOk>>

\* The case of errCh: the goroutine, its ticker included, is gone until the
\* process restarts.
WatcherReturns ==
    /\ wpc = "select"
    /\ stream = "ended"
    /\ wpc' = "gone"
    /\ UNCHANGED <<trouble, dockerVars, streamVars, roundVars, kernelVars, boot, lastOk>>

\* The process ends; the kernel and Docker go on.
Crash ==
    /\ trouble
    /\ wpc # "down"
    /\ wpc' = "down" /\ boot' = FALSE /\ lastOk' = FALSE
    /\ stream' = "none" /\ trigger' = FALSE /\ event' = FALSE
    /\ ForgetRound
    /\ UNCHANGED <<trouble, attached, unseen, kernelVars>>

Calm ==
    /\ trouble
    /\ trouble' = FALSE
    /\ UNCHANGED <<dockerVars, streamVars, roundVars, kernelVars, loopVars>>

DockerStep ==
    \E c \in Container :
        \/ \E A \in SUBSET Addr \ {{}} : ContainerStart(c, A)
        \/ ContainerStop(c)
        \/ \E a \in Addr : NetworkConnect(c, a) \/ NetworkDisconnect(c, a)

EnsureNodeDNAT ==
    \/ ListContainers \/ (\E c \in Container : Inspect(c))
    \/ Flush \/ (\E p \in Port : AddRule(p))
    \/ EnsureJump \/ ClearExempt \/ (\E n \in Network : AddExempt(n))
    \/ RoundDone

WatchDocker == Tick \/ TakeTrigger \/ ClosedTrigger \/ WatcherReturns

Next ==
    \/ DockerStep \/ StreamStarts \/ StreamEnds \/ DecodeEvent
    \/ EnsureNodeDNAT \/ RoundFails
    \/ Boot \/ WatchDocker \/ Crash \/ Calm

Spec == Init /\ [][Next]_vars

\* The ticker fires, commands return and systemd restarts the process.  Nothing
\* is asked of the event stream.
FairSpec == Spec /\ WF_vars(Boot \/ EnsureNodeDNAT \/ WatchDocker)

(***************************************************************************)
(* Properties.                                                             *)
(***************************************************************************)
\* Container c may be dialed by way of port p of the public address.
Serves(c, p) ==
    /\ c \in Running
    /\ \E b \in Bindings[c] : b.proto = "tcp" /\ b.hostIP = PublicIP /\ b.hostPort = p

\* The rules are those of the containers there are now: each leads to the
\* container that publishes its port, and to the port it publishes.
RulesCurrent ==
    \A p \in Port :
        /\ chain[p] = None <=> \A c \in Container : ~Serves(c, p)
        /\ \A c \in Container : Serves(c, p) =>
              \E b \in Bindings[c] :
                 /\ b.proto = "tcp" /\ b.hostIP = PublicIP /\ b.hostPort = p
                 /\ chain[p] = [ip |-> EndpointIP(c), port |-> b.port]

Current == RulesCurrent /\ jump /\ exempt = {EndpointNet(c) : c \in Running}

\* No change is lost between Docker and the kernel: with no event on its way and
\* no trigger buffered, the rules that the last good round left are those of the
\* containers there are, although docker ps and docker inspect read them at
\* different times and triggers coalesce while a round runs.
QuietMeansCurrent ==
    wpc = "select" /\ lastOk /\ stream = "live" /\ ~event /\ ~trigger /\ ~unseen
        => Current

\* After a good round no player is translated to a container whose replies the
\* node's own source NAT would see: the two tables, built one after the other
\* from one resolution, name the same networks.
TranslatedIsExempt ==
    wpc = "select" /\ lastOk =>
        \A p \in Port : chain[p] # None => jump /\ NetOf[chain[p].ip] \in exempt

\* When the trouble ends, the tables become and stay those of the containers,
\* whatever rounds failed half way and whatever the stream missed before it
\* started, network changes it never tells of included.  The exception is a
\* stream that ended, which takes the reconciliation with it.
Converges ==
    \/ []<>trouble
    \/ <>[](stream = "ended")
    \/ <>[](wpc = "select" => Current) /\ []<>(wpc = "select")

=================================================================================
