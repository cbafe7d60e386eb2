-------------------------- MODULE PlayerSessionsProofs --------------------------
(***************************************************************************)
(* Theorems about PlayerSessions for any connections, players, proxies and *)
(* TTLs.  The composition implements each of its two components, whose     *)
(* theorems therefore hold in it; that neither a backend nor the kernel    *)
(* ever has two players behind one address needs one invariant more, about *)
(* the identities that are in use when they may have expired in Redis.     *)
(***************************************************************************)
EXTENDS PlayerSessions, ProxyConnProofs

\* The store as its own theorems have it.
Store == INSTANCE AssignmentProofs WITH None <- NoIP

(***************************************************************************)
(* The inductive invariant.                                                *)
(***************************************************************************)
\* The handler has an identity: nat.Add is to come or has been called.
Held(c) == pc[c] \in Holding \cup {"natAdd"}

\* The kernel or a handler has ip for player r, whatever Redis says.
Used(r, ip) ==
    \/ natMap[r] = ip
    \/ \E c \in Conn : Held(c) /\ peer[c] = r /\ ident[c] = ip

\* What is in use was handed out, and is neither mapped to another player nor in
\* use for one.
UsedIdentities ==
    Store!NoWrap => \A r \in RealIP, ip \in InternalIP : Used(r, ip) =>
        /\ Store!Issued(ip)
        /\ \A s \in RealIP, p \in Proxy : map[s][p] = ip => s = r
        /\ \A s \in RealIP : Used(s, ip) => s = r

SessionsInv ==
    /\ IInv
    /\ Store!IInv
    /\ UsedIdentities

(***************************************************************************)
(* The two names of the store.                                             *)
(***************************************************************************)
\* The store the handlers call is the one whose invariant is proved in AssignmentProofs.
LEMMA SameStore ==
    /\ Ids!Init <=> Store!Init
    /\ Ids!Next <=> Store!Next
    /\ Ids!vars = Store!vars
    /\ Ids!NoWrap <=> Store!NoWrap
    /\ Ids!Identity = Store!Identity
  BY DEF Ids!Init, Store!Init, Ids!Next, Store!Next, Ids!vars, Store!vars,
         Ids!NoWrap, Store!NoWrap, Ids!Identity, Store!Identity,
         Ids!Assign, Store!Assign, Ids!Reserve, Store!Reserve,
         Ids!RunAssign, Store!RunAssign, Ids!AssignExisting, Store!AssignExisting,
         Ids!AssignFresh, Store!AssignFresh, Ids!Pin, Store!Pin,
         Ids!Extend, Store!Extend, Ids!Expires, Store!Expires,
         Ids!IdentityOf, Store!IdentityOf, Ids!Tick, Store!Tick

\* The answer of the script is an identity.
LEMMA ReplyTyped ==
    ASSUME Store!TypeOK, NEW r \in RealIP
    PROVE  Ids!Reply(r, Self, Slot[Self]) \in InternalIP
<1>1. Self \in Proxy /\ Slot[Self] \in ProxyNum /\ counter[Self] + 1 \in Nat
  BY SelfAssumption, SlotAssumption DEF Store!TypeOK
<1>2. Store!IdentityOf(Slot[Self], counter[Self] + 1) \in Store!Identity
  BY <1>1, Store!IdentityType, SlotAssumption, TTLAssumption, WrapAssumption, NoIPAssumption
<1>3. map[r][Self] \in Store!Identity \cup {NoIP}
  BY <1>1 DEF Store!TypeOK
<1> QED
  BY <1>2, <1>3, IdentityAssumption
     DEF Ids!Reply, Ids!Identity, Store!Identity, Ids!IdentityOf, Store!IdentityOf

(***************************************************************************)
(* The composition implements its components.                              *)
(***************************************************************************)
\* What a step does to the handlers and to the store.
LEMMA Projection ==
    ASSUME TypeOK, ConnTyped, Store!TypeOK, [SessionsNext]_allVars
    PROVE  [Next]_vars /\ [Store!Next]_(Store!vars)
<1> USE DEF idVars, allVars
<1>1. ASSUME NEW c \in Conn, AssignIdentity(c)
      PROVE  Next /\ Store!Next
  <2>1. peer[c] \in RealIP
    BY <1>1 DEF AssignIdentity, ConnTyped
  <2>2. Ids!Reply(peer[c], Self, Slot[Self]) \in InternalIP
    BY <2>1, ReplyTyped
  <2>3. AssignReply(c)
    BY <1>1, <2>2 DEF AssignIdentity, AssignReply
  <2>4. Ids!Next
    BY <1>1, <2>1, SelfAssumption DEF AssignIdentity, Ids!Next
  <2> QED
    BY <2>3, <2>4, SameStore DEF Next, HandlerStep
<1>2. ASSUME NEW c \in Conn, LocalStep(c) \/ ClientStep(c)
      PROVE  Next /\ UNCHANGED Store!vars
  BY <1>2 DEF LocalStep, ClientStep, Next, HandlerStep, AssignReply, Store!vars
<1>3. CASE ProcessStep \/ ExitStep
  BY <1>3 DEF ProcessStep, ExitStep, Next, Store!vars
<1>4. CASE StoreStep
  <2>1. Ids!Next
    BY <1>4, SelfAssumption DEF StoreStep, Ids!Next
  <2> QED
    BY <1>4, <2>1, SameStore DEF StoreStep
<1>5. CASE UNCHANGED allVars
  BY <1>5 DEF Store!vars, vars
<1> QED
  BY <1>1, <1>2, <1>3, <1>4, <1>5 DEF SessionsNext, SessionStep

(***************************************************************************)
(* The identities in use.                                                  *)
(***************************************************************************)
\* Whatever the store does, an identity that was handed out is not handed out
\* again, nor mapped to a player it was not mapped to.
LEMMA MappedBefore ==
    ASSUME Store!IInv, [Store!Next]_(Store!vars), Store!NoWrap', NEW ip, Store!Issued(ip),
           NEW r \in RealIP, NEW p \in Proxy, map'[r][p] = ip, ip # NoIP
    PROVE  map[r][p] = ip
<1>1. Store!TypeOK
  BY DEF Store!IInv
<1>2. CASE map'[r][p] \in {map[r][p], NoIP}
  BY <1>2
<1>3. ASSUME NEW s \in RealIP, NEW q \in Proxy, Store!Fresh(s, q)
      PROVE  map[r][p] = ip
  <2>1. PICK new : new = Store!NextIdentity(q)
    OBVIOUS
  <2>2. /\ ~Store!Issued(new)
        /\ map' = [map EXCEPT ![s] = [@ EXCEPT ![q] = new]]
    BY <1>1, <1>3, <2>1, Store!FreshIsNew, SlotAssumption, TTLAssumption,
       WrapAssumption, NoIPAssumption
  <2>3. new # ip
    BY <2>2
  <2> QED
    BY <1>1, <2>2, <2>3 DEF Store!TypeOK
<1> QED
  BY <1>1, <1>2, <1>3, Store!StepShape, SlotAssumption, TTLAssumption,
     WrapAssumption, NoIPAssumption

\* What is said of an identity in use goes on being true of it.
LEMMA UsedStays ==
    ASSUME SessionsInv, [SessionsNext]_allVars, Store!NoWrap',
           NEW r \in RealIP, NEW ip \in InternalIP, Used(r, ip)
    PROVE  /\ Store!Issued(ip) /\ Store!Issued(ip)'
           /\ \A s \in RealIP, p \in Proxy : map'[s][p] = ip => s = r
<1>1. Store!IInv /\ Store!TypeOK /\ [Store!Next]_(Store!vars)
  BY Projection DEF SessionsInv, IInv, Store!IInv
<1>2. Store!NoWrap
  BY <1>1, Store!CountersGrow, SlotAssumption, TTLAssumption, WrapAssumption, NoIPAssumption
<1>3. ip # NoIP
  BY AddressAssumption
<1>4. Store!Issued(ip)
  BY <1>2 DEF SessionsInv, UsedIdentities
<1>5. Store!Issued(ip)'
  BY <1>1, <1>4, Store!IssuedStays, SlotAssumption, TTLAssumption, WrapAssumption, NoIPAssumption
<1>6. ASSUME NEW s \in RealIP, NEW p \in Proxy, map'[s][p] = ip
      PROVE  s = r
  <2>1. map[s][p] = ip
    BY <1>1, <1>3, <1>4, <1>6, MappedBefore
  <2> QED
    BY <1>2, <2>1 DEF SessionsInv, UsedIdentities
<1> QED
  BY <1>4, <1>5, <1>6

\* What the script answers for a player is nobody else's, on any proxy, in any
\* handler and in the kernel.
LEMMA ReplyIsOwn ==
    ASSUME SessionsInv, Store!NoWrap', NEW r \in RealIP, Ids!Assign(r, Self),
           NEW ip, ip = Ids!Reply(r, Self, Slot[Self])
    PROVE  /\ Store!Issued(ip)'
           /\ \A s \in RealIP, p \in Proxy : map'[s][p] = ip => s = r
           /\ \A s \in RealIP : Used(s, ip) => s = r
<1>1. Store!IInv /\ Store!TypeOK /\ Self \in Proxy /\ ip \in InternalIP
  BY SelfAssumption, ReplyTyped DEF SessionsInv, Store!IInv
<1>2. [Store!Next]_(Store!vars)
  BY <1>1, SameStore DEF Ids!Next
<1>3. Store!NoWrap
  BY <1>1, <1>2, Store!CountersGrow, SlotAssumption, TTLAssumption, WrapAssumption, NoIPAssumption
<1>4. CASE map[r][Self] # NoIP
  <2>1. ip = map[r][Self] /\ map' = map
    BY <1>4 DEF Ids!Reply, Ids!Assign, Ids!RunAssign, Ids!AssignExisting, Ids!AssignFresh
  <2>2. Store!Issued(ip)
    BY <1>1, <1>3, <1>4, <2>1 DEF Store!IInv, Store!Numbered, Store!Issued
  <2>3. Store!Issued(ip)'
    BY <1>1, <1>2, <2>2, Store!IssuedStays, SlotAssumption, TTLAssumption, WrapAssumption,
       NoIPAssumption
  <2>4. \A s \in RealIP, p \in Proxy : map[s][p] = ip => s = r
    BY <1>1, <1>3, <1>4, <2>1 DEF Store!IInv, Store!IdentityUnique
  <2>5. \A s \in RealIP : Used(s, ip) => s = r
    BY <1>1, <1>3, <2>1 DEF SessionsInv, UsedIdentities
  <2> QED
    BY <2>1, <2>3, <2>4, <2>5
<1>5. CASE map[r][Self] = NoIP
  <2>1. Store!Fresh(r, Self) /\ ip = Store!NextIdentity(Self)
    BY <1>5 DEF Ids!Reply, Ids!Assign, Ids!RunAssign, Ids!AssignExisting, Ids!AssignFresh,
                Store!Fresh, Store!AssignFresh, Store!NextIdentity, Ids!IdentityOf,
                Store!IdentityOf, Ids!Pin, Store!Pin, Ids!Extend, Store!Extend,
                Ids!Expires, Store!Expires
  <2>2. /\ ip # NoIP /\ ~Store!Issued(ip) /\ Store!Issued(ip)'
        /\ map' = [map EXCEPT ![r] = [@ EXCEPT ![Self] = ip]]
    BY <1>1, <2>1, Store!FreshIsNew, SlotAssumption, TTLAssumption, WrapAssumption,
       NoIPAssumption
  <2>3. \A s \in RealIP, p \in Proxy : map[s][p] # ip
    BY <1>1, <1>3, <2>2 DEF Store!IInv, Store!Numbered, Store!Issued
  <2>4. \A s \in RealIP, p \in Proxy : map'[s][p] = ip => s = r
    BY <1>1, <2>2, <2>3 DEF Store!TypeOK
  <2>5. \A s \in RealIP : ~Used(s, ip)
    BY <1>1, <1>3, <2>2 DEF SessionsInv, UsedIdentities
  <2> QED
    BY <2>2, <2>4, <2>5
<1> QED
  BY <1>4, <1>5

\* A handler gets its identity from the store, and keeps it until it returns.
LEMMA HeldFrom ==
    ASSUME SessionsInv, [SessionsNext]_allVars
    PROVE  \/ \A d \in Conn : Held(d)' =>
                 Held(d) /\ ident'[d] = ident[d] /\ peer'[d] = peer[d]
           \/ \E c \in Conn :
                 /\ peer[c] \in RealIP /\ peer'[c] = peer[c]
                 /\ Ids!Assign(peer[c], Self)
                 /\ ident'[c] = Ids!Reply(peer[c], Self, Slot[Self])
                 /\ \A d \in Conn \ {c} : Held(d)' =>
                       Held(d) /\ ident'[d] = ident[d] /\ peer'[d] = peer[d]
<1> USE DEF Goto, Return
<1>1. TypeOK /\ ConnTyped
  BY DEF SessionsInv, IInv
<1>2. ASSUME NEW c \in Conn, AssignIdentity(c)
      PROVE  \/ \A d \in Conn : Held(d)' =>
                   Held(d) /\ ident'[d] = ident[d] /\ peer'[d] = peer[d]
             \/ /\ peer[c] \in RealIP /\ peer'[c] = peer[c]
                /\ Ids!Assign(peer[c], Self)
                /\ ident'[c] = Ids!Reply(peer[c], Self, Slot[Self])
                /\ \A d \in Conn \ {c} : Held(d)' =>
                      Held(d) /\ ident'[d] = ident[d] /\ peer'[d] = peer[d]
  <2>1. CASE AssignErr(c)
    BY <1>1, <2>1 DEF TypeOK, AssignErr, Held, Holding
  <2>2. CASE AssignOk(c, Ids!Reply(peer[c], Self, Slot[Self]))
    BY <1>1, <1>2, <2>2 DEF TypeOK, ConnTyped, AssignIdentity, AssignOk, Held, Holding
  <2> QED
    BY <1>2, <2>1, <2>2 DEF AssignIdentity
<1>3. ASSUME NEW c \in Conn, LocalStep(c)
      PROVE  \A d \in Conn : Held(d)' =>
                Held(d) /\ ident'[d] = ident[d] /\ peer'[d] = peer[d]
  <2>1. CASE AssignErr(c) \/ AddErr(c) \/ NatDelete(c)
    BY <1>1, <2>1 DEF TypeOK, AssignErr, AddErr, NatDelete, DropRef, DropElement, DropErr,
                      Held, Holding
  <2>2. CASE AddRef(c) \/ AddElement(c) \/ Route(c) \/ Dial(c) \/ WriteHandshake(c)
    BY <1>1, <2>2 DEF TypeOK, AddRef, AddElement, Route, Dial, WriteHandshake, Held, Holding
  <2> QED
    BY <1>3, <2>1, <2>2 DEF LocalStep, NatAdd
<1>4. ASSUME NEW c \in Conn, ClientStep(c)
      PROVE  \A d \in Conn : Held(d)' =>
                Held(d) /\ ident'[d] = ident[d] /\ peer'[d] = peer[d]
  BY <1>1, <1>4 DEF TypeOK, ClientStep, Accept, PipeEnds, Held, Holding
<1>5. CASE ProcessStep \/ ExitStep
  BY <1>5 DEF ProcessStep, ExitStep, Boot, Cancel, Crash, HostReboot, Exit, ProcessGone,
              connVars, Held, Holding
<1>6. CASE StoreStep \/ UNCHANGED allVars
  BY <1>6 DEF StoreStep, vars, allVars, Held
<1> QED
  BY <1>2, <1>3, <1>4, <1>5, <1>6 DEF SessionsNext, SessionStep

\* An element comes from a handler of its player, which has its identity.
LEMMA ElementFrom ==
    ASSUME SessionsInv, [SessionsNext]_allVars, NEW r \in RealIP
    PROVE  natMap'[r] \in {natMap[r], NoIP} \/ Used(r, natMap'[r])
<1>1. TypeOK
  BY DEF SessionsInv, IInv
<1>2. ASSUME NEW c \in Conn, AddElement(c)
      PROVE  natMap'[r] = natMap[r] \/ Used(r, natMap'[r])
  BY <1>1, <1>2 DEF TypeOK, AddElement, Used, Held
<1>3. ASSUME NEW c \in Conn, DropElement(c)
      PROVE  natMap'[r] \in {natMap[r], NoIP}
  BY <1>1, <1>3 DEF TypeOK, DropElement
<1>4. ASSUME NEW c \in Conn, AssignIdentity(c) \/ LocalStep(c) \/ ClientStep(c),
             ~AddElement(c), ~DropElement(c)
      PROVE  natMap' = natMap
  BY <1>4 DEF AssignIdentity, LocalStep, ClientStep, AssignOk, AssignErr, NatAdd, AddRef,
              AddErr, Route, Dial, WriteHandshake, NatDelete, DropRef, DropErr, Accept,
              PipeEnds
<1>5. CASE ProcessStep \/ ExitStep
  BY <1>5 DEF ProcessStep, ExitStep, Boot, Cancel, Crash, HostReboot, Exit
<1>6. CASE StoreStep \/ UNCHANGED allVars
  BY <1>6 DEF StoreStep, vars, allVars
<1> QED
  BY <1>2, <1>3, <1>4, <1>5, <1>6 DEF SessionsNext, SessionStep

\* An identity comes into use by an answer of the script.
LEMMA UsedFrom ==
    ASSUME SessionsInv, [SessionsNext]_allVars
    PROVE  \/ \A s \in RealIP, ip \in InternalIP : Used(s, ip)' => Used(s, ip)
           \/ \E r \in RealIP :
                 /\ Ids!Assign(r, Self)
                 /\ \A s \in RealIP, ip \in InternalIP : Used(s, ip)' =>
                       \/ Used(s, ip)
                       \/ s = r /\ ip = Ids!Reply(r, Self, Slot[Self])
<1>1. ASSUME NEW s \in RealIP, NEW ip \in InternalIP, natMap'[s] = ip
      PROVE  Used(s, ip)
  BY <1>1, ElementFrom, AddressAssumption DEF Used
<1>2. CASE \A d \in Conn : Held(d)' => Held(d) /\ ident'[d] = ident[d] /\ peer'[d] = peer[d]
  BY <1>1, <1>2 DEF Used
<1>3. ASSUME NEW c \in Conn, peer[c] \in RealIP, peer'[c] = peer[c],
             Ids!Assign(peer[c], Self), ident'[c] = Ids!Reply(peer[c], Self, Slot[Self]),
             \A d \in Conn \ {c} : Held(d)' =>
                Held(d) /\ ident'[d] = ident[d] /\ peer'[d] = peer[d]
      PROVE  \A s \in RealIP, ip \in InternalIP : Used(s, ip)' =>
                \/ Used(s, ip)
                \/ s = peer[c] /\ ip = Ids!Reply(peer[c], Self, Slot[Self])
  <2> SUFFICES ASSUME NEW s \in RealIP, NEW ip \in InternalIP, Used(s, ip)', ~Used(s, ip)
               PROVE  s = peer[c] /\ ip = Ids!Reply(peer[c], Self, Slot[Self])
    OBVIOUS
  <2>1. PICK d \in Conn : Held(d)' /\ peer'[d] = s /\ ident'[d] = ip
    BY <1>1 DEF Used
  <2>2. d = c
    BY <1>3, <2>1 DEF Used
  <2> QED
    BY <1>3, <2>1, <2>2
<1> QED
  BY <1>2, <1>3, HeldFrom

\* A new identity is the player's own, and those in use before stay so.
LEMMA UsedStep ==
    ASSUME SessionsInv, [SessionsNext]_allVars
    PROVE  UsedIdentities'
<1> SUFFICES ASSUME Store!NoWrap', NEW r \in RealIP, NEW ip \in InternalIP, Used(r, ip)'
             PROVE  /\ Store!Issued(ip)'
                    /\ \A s \in RealIP, p \in Proxy : map'[s][p] = ip => s = r
                    /\ \A s \in RealIP : Used(s, ip)' => s = r
  BY DEF UsedIdentities
<1>1. Store!NoWrap
  BY Projection, Store!CountersGrow, SlotAssumption, TTLAssumption, WrapAssumption,
     NoIPAssumption DEF SessionsInv, IInv, Store!IInv
<1>2. \A s, t \in RealIP : Used(s, ip) /\ Used(t, ip) => s = t
  BY <1>1 DEF SessionsInv, UsedIdentities
<1>3. CASE \A s \in RealIP : Used(s, ip)' => Used(s, ip)
  BY <1>2, <1>3, UsedStays
<1>4. ASSUME NEW n \in RealIP, Ids!Assign(n, Self),
             \A s \in RealIP : Used(s, ip)' =>
                Used(s, ip) \/ (s = n /\ ip = Ids!Reply(n, Self, Slot[Self]))
      PROVE  /\ Store!Issued(ip)'
             /\ \A s \in RealIP, p \in Proxy : map'[s][p] = ip => s = r
             /\ \A s \in RealIP : Used(s, ip)' => s = r
  <2>1. CASE ip = Ids!Reply(n, Self, Slot[Self])
    <3>1. /\ Store!Issued(ip)'
          /\ \A s \in RealIP, p \in Proxy : map'[s][p] = ip => s = n
          /\ \A s \in RealIP : Used(s, ip) => s = n
      BY <1>4, <2>1, ReplyIsOwn
    <3>2. \A s \in RealIP : Used(s, ip)' => s = n
      BY <1>4, <3>1
    <3> QED
      BY <3>1, <3>2
  <2>2. CASE ip # Ids!Reply(n, Self, Slot[Self])
    BY <1>2, <1>4, <2>2, UsedStays
  <2> QED
    BY <2>1, <2>2
<1> QED
  BY <1>3, <1>4, UsedFrom

(***************************************************************************)
(* The theorems.                                                           *)
(***************************************************************************)
\* What handlers, the kernel and Redis agree on at every step.
THEOREM SessionsInvariance == SessionsSpec => []SessionsInv
<1>1. SessionsInit => SessionsInv
  <2> SUFFICES ASSUME SessionsInit
               PROVE  SessionsInv
    OBVIOUS
  <2>1. IInv
    BY InitHolds DEF SessionsInit
  <2>2. Store!IInv
    BY SameStore, Store!StoreInit, SlotAssumption, TTLAssumption, WrapAssumption,
       NoIPAssumption DEF SessionsInit
  <2>3. UsedIdentities
    BY AddressAssumption DEF SessionsInit, Init, UsedIdentities, Used, Held, Holding
  <2> QED
    BY <2>1, <2>2, <2>3 DEF SessionsInv
<1>2. SessionsInv /\ [SessionsNext]_allVars => SessionsInv'
  <2> SUFFICES ASSUME SessionsInv, [SessionsNext]_allVars
               PROVE  SessionsInv'
    OBVIOUS
  <2>1. [Next]_vars /\ [Store!Next]_(Store!vars)
    BY Projection DEF SessionsInv, IInv, Store!IInv
  <2>2. IInv'
    BY <2>1, InvariantStep, TypeStep DEF SessionsInv, IInv
  <2>3. Store!IInv'
    BY <2>1, Store!StoreStep, SlotAssumption, TTLAssumption, WrapAssumption, NoIPAssumption
       DEF SessionsInv
  <2> QED
    BY <2>2, <2>3, UsedStep DEF SessionsInv
<1> QED
  BY <1>1, <1>2, PTL DEF SessionsSpec

\* A backend never sees two players behind one address at a time, although what
\* a live connection holds may have expired in Redis meanwhile.
THEOREM OnePlayerPerAddress == SessionsSpec => []BackendSeesOnePlayer
<1>1. SessionsInv => BackendSeesOnePlayer
  <2> SUFFICES ASSUME SessionsInv, Ids!NoWrap, NEW c \in Conn, NEW d \in Conn,
                      pc[c] \in Holding, pc[d] \in Holding, ident[c] = ident[d]
               PROVE  peer[c] = peer[d]
    BY DEF BackendSeesOnePlayer
  <2>1. peer[c] \in RealIP /\ peer[d] \in RealIP /\ ident[c] \in InternalIP
    BY DEF SessionsInv, IInv, ConnTyped, Holding
  <2>2. Used(peer[c], ident[c]) /\ Used(peer[d], ident[c])
    BY DEF Used, Held
  <2> QED
    BY <2>1, <2>2, SameStore DEF SessionsInv, UsedIdentities
<1> QED
  BY <1>1, SessionsInvariance, PTL

\* The kernel's map keeps players apart, with all that ended processes left in it,
\* and whatever expired and was handed out since.
THEOREM ElementsApart == SessionsSpec => []ElementsNameOnePlayer
<1>1. SessionsInv => ElementsNameOnePlayer
  <2> SUFFICES ASSUME SessionsInv, Ids!NoWrap, NEW r \in RealIP, NEW s \in RealIP,
                      natMap[r] # NoIP, natMap[r] = natMap[s]
               PROVE  r = s
    BY DEF ElementsNameOnePlayer
  <2>1. natMap[r] \in InternalIP
    BY DEF SessionsInv, IInv, TypeOK
  <2>2. Used(r, natMap[r]) /\ Used(s, natMap[r])
    BY DEF Used
  <2> QED
    BY <2>1, <2>2, SameStore DEF SessionsInv, UsedIdentities
<1> QED
  BY <1>1, SessionsInvariance, PTL

\* Closed with the store, the proxy behaves as ProxyConn allows: everything
\* proved of handleConn and the NATManager holds with the real assign.lua.
THEOREM ImplementsProxyConn == SessionsSpec => Spec
<1>1. SessionsInit => Init
  BY DEF SessionsInit
<1>2. SessionsInv /\ [SessionsNext]_allVars => [Next]_vars
  BY Projection DEF SessionsInv, IInv, Store!IInv
<1> QED
  BY <1>1, <1>2, SessionsInvariance, PTL DEF SessionsSpec, Spec

\* Called by handlers only, the store behaves as Assignment allows.
THEOREM ImplementsAssignment == SessionsSpec => Ids!Spec
<1>1. SessionsInit => Ids!Init
  BY DEF SessionsInit
<1>2. SessionsInv /\ [SessionsNext]_allVars => [Ids!Next]_(Ids!vars)
  <2> SUFFICES ASSUME SessionsInv, [SessionsNext]_allVars
               PROVE  [Ids!Next]_(Ids!vars)
    OBVIOUS
  <2>1. [Store!Next]_(Store!vars)
    BY Projection DEF SessionsInv, IInv, Store!IInv
  <2>2. CASE Store!Next
    BY <2>2, SameStore
  <2>3. CASE UNCHANGED Store!vars
    BY <2>3 DEF Store!vars, Ids!vars
  <2> QED
    BY <2>1, <2>2, <2>3
<1> QED
  BY <1>1, <1>2, SessionsInvariance, PTL DEF SessionsSpec, Ids!Spec

=================================================================================
