----------------------------- MODULE PlayerSessions -----------------------------
(***************************************************************************)
(* ProxyConn closed with the identity store it asks: the handlers of one   *)
(* proxy, Self, call assign.lua over Redis, whose keys expire while their  *)
(* connections live, and the watcher may make an identity permanent.       *)
(***************************************************************************)
EXTENDS ProxyConn

CONSTANTS Proxy, ProxyNum, Slot, TTL, Wrap, MaxCount, Self

VARIABLES map, mapTtl, rmap, rmapTtl, reserved, counter

Ids == INSTANCE Assignment WITH None <- NoIP

ASSUME SelfAssumption == Self \in Proxy
ASSUME SlotAssumption ==
    /\ Slot \in [Proxy -> ProxyNum]
    /\ \A p, q \in Proxy : Slot[p] = Slot[q] => p = q
ASSUME TTLAssumption == TTL \in [Proxy -> Nat]
ASSUME WrapAssumption == Wrap \in Nat \ {0} /\ MaxCount \in [Proxy -> Nat]
ASSUME NoIPAssumption ==
    /\ NoIP \notin ProxyNum \X (0..(Wrap - 1))
    /\ NoIP \notin [real : RealIP, proxy : Proxy]
ASSUME IdentityAssumption == InternalIP = Ids!Identity

idVars == <<map, mapTtl, rmap, rmapTtl, reserved, counter>>
allVars == <<vars, idVars>>

SessionsInit == Init /\ Ids!Init

\* The round trip of assigner.Assign: the script runs and its answer arrives
\* or is lost.
AssignIdentity(c) ==
    /\ pc[c] = "assign"
    /\ AssignOk(c, Ids!Reply(peer[c], Self, Slot[Self])) \/ AssignErr(c)
    /\ Ids!Assign(peer[c], Self)

\* Everything a handler does without Redis.
LocalStep(c) ==
    /\ \/ AssignErr(c) \/ NatAdd(c) \/ Route(c) \/ Dial(c)
       \/ WriteHandshake(c) \/ NatDelete(c)
    /\ UNCHANGED idVars

ClientStep(c) ==
    /\ \/ \E r \in RealIP : Accept(c, r)
       \/ \E d \in Directions : PipeEnds(c, d)
    /\ UNCHANGED idVars

\* Mutant of ProcessStep: a start sets the counter of its proxy back.
ProcessStepRestartsCounter ==
    \/ /\ Boot
       /\ counter' = [counter EXCEPT ![Self] = 0]
       /\ UNCHANGED <<map, mapTtl, rmap, rmapTtl, reserved>>
    \/ (Cancel \/ Crash \/ HostReboot) /\ UNCHANGED idVars

ProcessStep ==
    /\ Boot \/ Cancel \/ Crash \/ HostReboot
    /\ UNCHANGED idVars

ExitStep == Exit /\ UNCHANGED idVars

\* Redis without this proxy: time, and a promotion by the watcher.
StoreStep ==
    /\ Ids!Tick \/ \E r \in RealIP : Ids!Reserve(r, Self)
    /\ UNCHANGED vars

SessionStep(c) == AssignIdentity(c) \/ LocalStep(c)

SessionsNext ==
    \/ \E c \in Conn : SessionStep(c) \/ ClientStep(c)
    \/ ProcessStep \/ ExitStep \/ StoreStep

SessionsSpec == SessionsInit /\ [][SessionsNext]_allVars

FairSessions ==
    /\ SessionsSpec
    /\ \A c \in Conn : WF_allVars(SessionStep(c))

(***************************************************************************)
(* Properties.                                                             *)
(***************************************************************************)
\* A backend never sees two players behind one address at a time, although a
\* live connection does not keep its own mapping alive: what it holds may
\* have expired in Redis and still is not handed out again.
BackendSeesOnePlayer ==
    Ids!NoWrap => \A c, d \in Conn :
        pc[c] \in Holding /\ pc[d] \in Holding /\ ident[c] = ident[d]
            => peer[c] = peer[d]

\* Nor does the kernel, whose map outlives the process and the identities it
\* was made of: with the elements that ended or failing processes left behind,
\* and however often those identities expired in Redis and players came back,
\* nat_map never translates two players to one address.
ElementsNameOnePlayer ==
    Ids!NoWrap => \A r, s \in RealIP :
        natMap[r] # NoIP /\ natMap[r] = natMap[s] => r = s

\* docs/DEPLOYMENT.md, same-IP concurrency check: "both connections succeed".
\* A connection of a player that has a live one is not refused.
SameIPConnectionsSucceed ==
    [][\A c \in Conn :
          pc[c] = "natAdd" /\ Holders(peer[c]) # {} /\ pc'[c] = "idle"
              => proc' = "down"]_allVars

\* docs/stages/06: "first live connection for a real IP adds the nftables
\* element".  It is not refused when the kernel works.
FirstConnectionAddsElement ==
    [][\A c \in Conn :
          pc[c] = "natAdd" /\ Holders(peer[c]) = {} /\ pc'[c] = "idle"
              => proc' = "down"]_allVars

=================================================================================
