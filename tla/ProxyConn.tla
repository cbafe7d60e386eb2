------------------------------- MODULE ProxyConn -------------------------------
(***************************************************************************)
(* One mcproxy process: the handler goroutine of every accepted connection *)
(* (router.handleConn), the reference-counted NATManager they share, the   *)
(* kernel's nat_map that outlives the process, and the process lifecycle.  *)
(*                                                                         *)
(* The identity service behind Assign is open here: it answers any         *)
(* internal IP or an error.  PlayerSessions closes it with Assignment.     *)
(***************************************************************************)
EXTENDS Naturals, FiniteSets

CONSTANTS
    Conn,           \* handler goroutines; an identifier is reused once idle
    RealIP,         \* source addresses of clients
    InternalIP,     \* identities the backends see
    NoIP,           \* no address
    KernelMayFail   \* may an nftables add or delete fail for good?

ASSUME ConnAssumption == IsFiniteSet(Conn)
ASSUME AddressAssumption == NoIP \notin RealIP \cup InternalIP
ASSUME KernelAssumption == KernelMayFail \in BOOLEAN

VARIABLES
    proc,       \* "down", "up" (accepting) or "stopping" (ctx cancelled)
    pc,         \* pc[c]: where the handler of c is
    peer,       \* peer[c]: realIP of the handler
    ident,      \* ident[c]: internalIP of the handler
    pipes,      \* pipes[c]: the io.Copy directions still running
    refs,       \* NATManager.refs
    natMap      \* the kernel's nat_map

connVars == <<pc, peer, ident, pipes>>
vars == <<proc, pc, peer, ident, pipes, refs, natMap>>

Directions == {"toBackend", "toClient"}

\* Labels after a successful nat.Add, where the deferred nat.Delete is owed.
Holding == {"route", "dial", "write", "relay", "release"}
Labels == {"idle", "assign", "natAdd"} \cup Holding

NatEntry == [internalIP : InternalIP \cup {NoIP}, refCount : Nat]
Entry(ip, n) == [internalIP |-> ip, refCount |-> n]
NoEntry == Entry(NoIP, 0)     \* no key in refs

Present(r) == refs[r] # NoEntry
Holders(r) == {c \in Conn : pc[c] \in Holding /\ peer[c] = r}

TypeOK ==
    /\ proc \in {"down", "up", "stopping"}
    /\ pc \in [Conn -> Labels]
    /\ peer \in [Conn -> RealIP \cup {NoIP}]
    /\ ident \in [Conn -> InternalIP \cup {NoIP}]
    /\ pipes \in [Conn -> SUBSET Directions]
    /\ refs \in [RealIP -> NatEntry]
    /\ natMap \in [RealIP -> InternalIP \cup {NoIP}]

Init ==
    /\ proc = "down"
    /\ pc = [c \in Conn |-> "idle"]
    /\ peer = [c \in Conn |-> NoIP]
    /\ ident = [c \in Conn |-> NoIP]
    /\ pipes = [c \in Conn |-> {}]
    /\ refs = [r \in RealIP |-> NoEntry]
    /\ natMap = [r \in RealIP |-> NoIP]

(***************************************************************************)
(* The handler of one connection.                                          *)
(***************************************************************************)
Goto(c, label) == pc' = [pc EXCEPT ![c] = label]

\* The handler returns before or after its deferred nat.Delete: the client
\* socket closes and the goroutine is gone.
Return(c) ==
    /\ Goto(c, "idle")
    /\ peer' = [peer EXCEPT ![c] = NoIP]
    /\ ident' = [ident EXCEPT ![c] = NoIP]

\* ln.Accept returns a connection of a client at r; it still may between the
\* cancellation of ctx and the close of the listener.
Accept(c, r) ==
    /\ proc # "down"
    /\ pc[c] = "idle"
    /\ Goto(c, "assign")
    /\ peer' = [peer EXCEPT ![c] = r]
    /\ UNCHANGED <<proc, ident, pipes, refs, natMap>>

\* assigner.Assign answers ip.  A cancelled ctx never gets an answer.
AssignOk(c, ip) ==
    /\ proc = "up"
    /\ pc[c] = "assign"
    /\ Goto(c, "natAdd")
    /\ ident' = [ident EXCEPT ![c] = ip]
    /\ UNCHANGED <<proc, peer, pipes, refs, natMap>>

AssignErr(c) ==
    /\ pc[c] = "assign"
    /\ Return(c)
    /\ UNCHANGED <<proc, pipes, refs, natMap>>

(***************************************************************************)
(* NATManager.Add.  The mutex is held across the kernel operation, so the  *)
(* call is one step; a crash between its two halves loses refs anyway.     *)
(***************************************************************************)
\* Mutant of AddRef: the count is not raised.
AddRefUncounted(c) ==
    /\ pc[c] = "natAdd"
    /\ Present(peer[c])
    /\ refs[peer[c]].internalIP = ident[c]
    /\ Goto(c, "route")
    /\ UNCHANGED <<proc, peer, ident, pipes, refs, natMap>>

AddRef(c) ==
    /\ pc[c] = "natAdd"
    /\ Present(peer[c])
    /\ refs[peer[c]].internalIP = ident[c]
    /\ refs' = [refs EXCEPT ![peer[c]] = Entry(@.internalIP, @.refCount + 1)]
    /\ Goto(c, "route")
    /\ UNCHANGED <<proc, peer, ident, pipes, natMap>>

\* Mutants of AddElement: the addresses are swapped; a clash in the kernel is
\* swallowed as "File exists"; the element an earlier process left is replaced.
AddElementSwapped(c) ==
    /\ pc[c] = "natAdd"
    /\ ~Present(peer[c])
    /\ natMap[peer[c]] = NoIP
    /\ natMap' = [natMap EXCEPT ![peer[c]] = peer[c]]
    /\ refs' = [refs EXCEPT ![peer[c]] = Entry(ident[c], 1)]
    /\ Goto(c, "route")
    /\ UNCHANGED <<proc, peer, ident, pipes>>

AddElementSwallowed(c) ==
    /\ pc[c] = "natAdd"
    /\ ~Present(peer[c])
    /\ natMap' = [natMap EXCEPT ![peer[c]] = IF @ = NoIP THEN ident[c] ELSE @]
    /\ refs' = [refs EXCEPT ![peer[c]] = Entry(ident[c], 1)]
    /\ Goto(c, "route")
    /\ UNCHANGED <<proc, peer, ident, pipes>>

AddElementReplaced(c) ==
    /\ pc[c] = "natAdd"
    /\ ~Present(peer[c])
    /\ natMap' = [natMap EXCEPT ![peer[c]] = ident[c]]
    /\ refs' = [refs EXCEPT ![peer[c]] = Entry(ident[c], 1)]
    /\ Goto(c, "route")
    /\ UNCHANGED <<proc, peer, ident, pipes>>

\* The kernel accepts an element that is already there with the same value.
AddElement(c) ==
    /\ pc[c] = "natAdd"
    /\ ~Present(peer[c])
    /\ natMap[peer[c]] \in {NoIP, ident[c]}
    /\ natMap' = [natMap EXCEPT ![peer[c]] = ident[c]]
    /\ refs' = [refs EXCEPT ![peer[c]] = Entry(ident[c], 1)]
    /\ Goto(c, "route")
    /\ UNCHANGED <<proc, peer, ident, pipes>>

\* Add returns an error: another identity is active, the kernel holds the
\* element with another value (ignoreAlreadyExists looks for "File exists",
\* which the errno text of the native runner does not contain), or the
\* kernel operation fails.  Nothing changes and no Delete is owed.
AddErr(c) ==
    /\ pc[c] = "natAdd"
    /\ \/ Present(peer[c]) /\ refs[peer[c]].internalIP # ident[c]
       \/ ~Present(peer[c]) /\ natMap[peer[c]] \notin {NoIP, ident[c]}
       \/ ~Present(peer[c]) /\ KernelMayFail
    /\ Return(c)
    /\ UNCHANGED <<proc, pipes, refs, natMap>>

\* originalDst, readHandshake and resolveServer find a backend, or any of
\* them sends the handler to its deferred calls.
Route(c) ==
    /\ pc[c] = "route"
    /\ \E next \in {"dial", "release"} : Goto(c, next)
    /\ UNCHANGED <<proc, peer, ident, pipes, refs, natMap>>

\* Mutant of Dial: a failed dial returns without the deferred Delete.
DialForgetsDelete(c) ==
    /\ pc[c] = "dial"
    /\ \/ proc = "up" /\ Goto(c, "write") /\ UNCHANGED <<peer, ident>>
       \/ Return(c)
    /\ UNCHANGED <<proc, pipes, refs, natMap>>

\* The transparent dial from ident[c]; ctx cancels it.
Dial(c) ==
    /\ pc[c] = "dial"
    /\ \/ proc = "up" /\ Goto(c, "write")
       \/ Goto(c, "release")
    /\ UNCHANGED <<proc, peer, ident, pipes, refs, natMap>>

\* The handshake bytes go to the backend and the relay starts.
WriteHandshake(c) ==
    /\ pc[c] = "write"
    /\ \/ Goto(c, "relay") /\ pipes' = [pipes EXCEPT ![c] = Directions]
       \/ Goto(c, "release") /\ UNCHANGED pipes
    /\ UNCHANGED <<proc, peer, ident, refs, natMap>>

\* One io.Copy of forwarder.Proxy ends; the handler waits for both.
PipeEnds(c, d) ==
    /\ pc[c] = "relay"
    /\ d \in pipes[c]
    /\ pipes' = [pipes EXCEPT ![c] = @ \ {d}]
    /\ IF pipes[c] = {d} THEN Goto(c, "release") ELSE UNCHANGED pc
    /\ UNCHANGED <<proc, peer, ident, refs, natMap>>

(***************************************************************************)
(* The deferred NATManager.Delete, and the end of the handler.             *)
(***************************************************************************)
DropRef(c) ==
    /\ pc[c] = "release"
    /\ Present(peer[c])
    /\ refs[peer[c]].refCount > 1
    /\ refs' = [refs EXCEPT ![peer[c]] = Entry(@.internalIP, @.refCount - 1)]
    /\ Return(c)
    /\ UNCHANGED <<proc, pipes, natMap>>

\* Mutant of DropElement: the first disconnect deletes (before stage 06).
DropElementUncounted(c) ==
    /\ pc[c] = "release"
    /\ Present(peer[c])
    /\ natMap[peer[c]] # NoIP
    /\ natMap' = [natMap EXCEPT ![peer[c]] = NoIP]
    /\ refs' = [refs EXCEPT ![peer[c]] = NoEntry]
    /\ Return(c)
    /\ UNCHANGED <<proc, pipes>>

DropElement(c) ==
    /\ pc[c] = "release"
    /\ Present(peer[c])
    /\ refs[peer[c]].refCount <= 1
    /\ natMap[peer[c]] # NoIP
    /\ natMap' = [natMap EXCEPT ![peer[c]] = NoIP]
    /\ refs' = [refs EXCEPT ![peer[c]] = NoEntry]
    /\ Return(c)
    /\ UNCHANGED <<proc, pipes>>

\* Delete returns without a change: refs has no entry, elems.Delete fails, or
\* the kernel has no such element (ignoreMissing does not know the native
\* runner's errno text either).  An entry keeps its count of 1 and nobody
\* retries.
DropErr(c) ==
    /\ pc[c] = "release"
    /\ Present(peer[c]) => /\ refs[peer[c]].refCount <= 1
                           /\ KernelMayFail \/ natMap[peer[c]] = NoIP
    /\ Return(c)
    /\ UNCHANGED <<proc, pipes, refs, natMap>>

(***************************************************************************)
(* The process.                                                            *)
(***************************************************************************)
\* main reaches router.Start.  NATManager.Ensure flushes the postrouting
\* chain but not nat_map, and refs starts empty.
Boot ==
    /\ proc = "down"
    /\ proc' = "up"
    /\ UNCHANGED <<connVars, refs, natMap>>

\* SIGTERM cancels ctx, which closes the listener.
Cancel ==
    /\ proc = "up"
    /\ proc' = "stopping"
    /\ UNCHANGED <<connVars, refs, natMap>>

\* The memory of the process is gone, its goroutines with it.
ProcessGone ==
    /\ proc' = "down"
    /\ pc' = [c \in Conn |-> "idle"]
    /\ peer' = [c \in Conn |-> NoIP]
    /\ ident' = [c \in Conn |-> NoIP]
    /\ pipes' = [c \in Conn |-> {}]
    /\ refs' = [r \in RealIP |-> NoEntry]

\* Start returns once serveListener does; no handler is waited for and their
\* deferred calls never run.
Exit ==
    /\ proc = "stopping"
    /\ ProcessGone
    /\ UNCHANGED natMap

Crash ==
    /\ proc # "down"
    /\ ProcessGone
    /\ UNCHANGED natMap

HostReboot ==
    /\ ProcessGone
    /\ natMap' = [r \in RealIP |-> NoIP]

AssignReply(c) == AssignErr(c) \/ \E ip \in InternalIP : AssignOk(c, ip)
NatAdd(c) == AddRef(c) \/ AddElement(c) \/ AddErr(c)
NatDelete(c) == DropRef(c) \/ DropElement(c) \/ DropErr(c)

\* What the handler does without waiting for a peer.
HandlerStep(c) ==
    \/ AssignReply(c) \/ NatAdd(c) \/ Route(c) \/ Dial(c)
    \/ WriteHandshake(c) \/ NatDelete(c)

Next ==
    \/ \E c \in Conn :
         \/ \E r \in RealIP : Accept(c, r)
         \/ HandlerStep(c)
         \/ \E d \in Directions : PipeEnds(c, d)
    \/ Boot \/ Cancel \/ Exit \/ Crash \/ HostReboot

Spec == Init /\ [][Next]_vars

(***************************************************************************)
(* Every wait of a handler but the relay is bounded: the Redis client has  *)
(* timeouts, the mutex is starvation-free, the handshake has a 5 s         *)
(* deadline and a connect times out; the few bytes of the handshake are    *)
(* assumed to fit into the backend's socket buffer.  The relay has no idle *)
(* timeout, so PipeEnds gets no fairness.                                  *)
(***************************************************************************)
FairSpec ==
    /\ Spec
    /\ \A c \in Conn : WF_vars(HandlerStep(c))

(***************************************************************************)
(* Safety.                                                                 *)
(***************************************************************************)
\* NATManager.refs counts at least the handlers that owe a Delete, so that no
\* decrement reaches the kernel while one of them runs; it exceeds them by at
\* most the one reference a failed Delete leaves behind.
Leaked == IF KernelMayFail THEN 1 ELSE 0

RefCountCoversHolders ==
    \A r \in RealIP :
        /\ Cardinality(Holders(r)) <= refs[r].refCount
        /\ refs[r].refCount <= Cardinality(Holders(r)) + Leaked

\* Every handler past nat.Add has the identity it dials with in the kernel's
\* nat_map, whatever the other connections of its player do, so the TCP relay
\* and the packets the kernel translates show the backend one address.
LiveIdentityInstalled ==
    \A c \in Conn : pc[c] \in Holding => natMap[peer[c]] = ident[c]

\* An installed element is removed or given another value only by a step
\* after which no handler of that real IP is left (docs/stages/06: deleted
\* only when the last live connection closes).
ElementPinned ==
    [][\A r \in RealIP :
        natMap[r] \notin {NoIP, natMap'[r]} => Holders(r)' = {}]_vars

\* What makes the three properties above inductive: the addresses a handler
\* has read by now, one identity per player with live handlers, and refs as a
\* faithful copy of what this process put into the kernel.
ConnTyped ==
    \A c \in Conn :
        /\ pc[c] # "idle" => peer[c] \in RealIP
        /\ pc[c] \in Holding \cup {"natAdd"} => ident[c] \in InternalIP

HoldersAgree ==
    \A c \in Conn : pc[c] \in Holding => refs[peer[c]].internalIP = ident[c]

EntriesInKernel ==
    \A r \in RealIP :
        Present(r) => /\ refs[r].internalIP \in InternalIP
                      /\ natMap[r] = refs[r].internalIP

IInv ==
    /\ TypeOK
    /\ ConnTyped
    /\ HoldersAgree
    /\ EntriesInKernel
    /\ RefCountCoversHolders

\* The reference counting implements the lease.
Lease == INSTANCE SnatLease WITH
    Session <- Conn, None <- NoIP,
    users <- [r \in RealIP |-> Holders(r)],
    element <- natMap

LeaseSpec == Lease!Spec

(***************************************************************************)
(* Liveness.                                                               *)
(***************************************************************************)
\* A player whose connections stop arriving and whose relays have ended is
\* eventually released for good: no path of the handler forgets its Delete.
Busy(r) == \E c \in Conn : peer[c] = r /\ pc[c] \in {"assign", "relay"}

QuietPlayerReleased ==
    \A r \in RealIP : <>[]~Busy(r) => <>[]~Present(r)

================================================================================
