---------------------------- MODULE ProxyConnProofs ----------------------------
(***************************************************************************)
(* Theorems about ProxyConn for every set of connections and addresses.    *)
(* The inductive invariant is IInv: reference counts bound the handlers    *)
(* that owe a Delete, handlers of one player agree on the identity, and    *)
(* refs mirrors the elements this process installed.                       *)
(***************************************************************************)
EXTENDS ProxyConn, FiniteSetTheorems, TLAPS

(***************************************************************************)
(* Lemmas about the handlers of a player.                                  *)
(***************************************************************************)
\* The handlers of a player are a finite set, before and after a step.
LEMMA HoldersFinite ==
    \A r : /\ IsFiniteSet(Holders(r))
           /\ Cardinality(Holders(r)) \in Nat
           /\ IsFiniteSet(Holders(r)')
           /\ Cardinality(Holders(r)') \in Nat
<1>1. ASSUME NEW r
      PROVE  /\ Holders(r) \in SUBSET Conn
             /\ Holders(r)' \in SUBSET Conn
  BY DEF Holders
<1>2. ASSUME NEW r
      PROVE  IsFiniteSet(Holders(r)) /\ IsFiniteSet(Holders(r)')
  BY <1>1, ConnAssumption, FS_Subset
<1> QED
  BY <1>2, FS_CardinalityType

\* A player with a handler past nat.Add has a positive count.
LEMMA HolderCounted ==
    ASSUME TypeOK, RefCountCoversHolders,
           NEW c \in Conn, pc[c] \in Holding, peer[c] \in RealIP
    PROVE  /\ refs[peer[c]].refCount \in Nat
           /\ refs[peer[c]].refCount >= 1
           /\ Present(peer[c])
<1> DEFINE H == Holders(peer[c])
<1>1. c \in H
  BY DEF Holders
<1>2. IsFiniteSet(H) /\ Cardinality(H) \in Nat
  BY HoldersFinite
<1>3. Cardinality(H) # 0
  BY <1>1, <1>2, FS_EmptySet
<1>4. refs[peer[c]].refCount \in Nat
  BY DEF TypeOK, NatEntry
<1>5. Cardinality(H) <= refs[peer[c]].refCount
  BY DEF RefCountCoversHolders
<1>6. refs[peer[c]].refCount >= 1
  BY <1>2, <1>3, <1>4, <1>5
<1> QED
  BY <1>4, <1>6 DEF Present, NoEntry, Entry

\* A step that leaves the owed Deletes and the counts alone keeps the bounds.
LEMMA SameHolders ==
    ASSUME RefCountCoversHolders,
           \A r \in RealIP : Holders(r)' = Holders(r),
           UNCHANGED refs
    PROVE  RefCountCoversHolders'
BY DEF RefCountCoversHolders, Leaked

\* One more handler and a count one higher keep the bounds.
LEMMA OneMoreHolder ==
    ASSUME RefCountCoversHolders, TypeOK,
           NEW c \in Conn, NEW p \in RealIP,
           c \notin Holders(p),
           \A r \in RealIP :
               Holders(r)' = IF r = p THEN Holders(r) \cup {c} ELSE Holders(r),
           \A r \in RealIP :
               refs'[r].refCount = IF r = p THEN refs[r].refCount + 1
                                            ELSE refs[r].refCount
    PROVE  RefCountCoversHolders'
<1> SUFFICES ASSUME NEW r \in RealIP
             PROVE  /\ Cardinality(Holders(r)') <= refs'[r].refCount
                    /\ refs'[r].refCount <= Cardinality(Holders(r)') + Leaked
  BY DEF RefCountCoversHolders, Leaked
<1>1. /\ refs[r].refCount \in Nat
      /\ Cardinality(Holders(r)) \in Nat
      /\ Leaked \in Nat
      /\ Cardinality(Holders(r)) <= refs[r].refCount
      /\ refs[r].refCount <= Cardinality(Holders(r)) + Leaked
  BY HoldersFinite DEF TypeOK, NatEntry, Leaked, RefCountCoversHolders
<1>2. CASE r = p
  <2>1. Cardinality(Holders(r)') = Cardinality(Holders(r)) + 1
    BY <1>2, HoldersFinite, FS_AddElement
  <2> QED
    BY <1>1, <1>2, <2>1
<1>3. CASE r # p
  BY <1>1, <1>3
<1> QED
  BY <1>2, <1>3

\* One handler less and a count one lower keep the bounds.
LEMMA OneHolderLess ==
    ASSUME RefCountCoversHolders, TypeOK,
           NEW c \in Conn, NEW p \in RealIP,
           c \in Holders(p),
           \A r \in RealIP :
               Holders(r)' = IF r = p THEN Holders(r) \ {c} ELSE Holders(r),
           \A r \in RealIP :
               refs'[r].refCount = IF r = p THEN refs[r].refCount - 1
                                            ELSE refs[r].refCount
    PROVE  RefCountCoversHolders'
<1> SUFFICES ASSUME NEW r \in RealIP
             PROVE  /\ Cardinality(Holders(r)') <= refs'[r].refCount
                    /\ refs'[r].refCount <= Cardinality(Holders(r)') + Leaked
  BY DEF RefCountCoversHolders, Leaked
<1>1. /\ refs[r].refCount \in Nat
      /\ Cardinality(Holders(r)) \in Nat
      /\ Leaked \in Nat
      /\ Cardinality(Holders(r)) <= refs[r].refCount
      /\ refs[r].refCount <= Cardinality(Holders(r)) + Leaked
  BY HoldersFinite DEF TypeOK, NatEntry, Leaked, RefCountCoversHolders
<1>2. CASE r = p
  <2>1. Cardinality(Holders(r)') = Cardinality(Holders(r)) - 1
    BY <1>2, HoldersFinite, FS_RemoveElement
  <2> QED
    BY <1>1, <1>2, <2>1
<1>3. CASE r # p
  BY <1>1, <1>3
<1> QED
  BY <1>2, <1>3

(***************************************************************************)
(* Type correctness, which needs no other invariant.                       *)
(***************************************************************************)
\* No step of the handlers or of the process leaves the types.
LEMMA TypeStep == TypeOK /\ [Next]_vars => TypeOK'
<1> USE DEF TypeOK, NatEntry, Entry, NoEntry, Labels, Holding, Directions
<1> SUFFICES ASSUME TypeOK, [Next]_vars
             PROVE  TypeOK'
  OBVIOUS
<1>1. ASSUME NEW c \in Conn, NEW r \in RealIP, Accept(c, r)
      PROVE  TypeOK'
  BY <1>1 DEF Accept, Goto
<1>2. ASSUME NEW c \in Conn, AssignReply(c)
      PROVE  TypeOK'
  BY <1>2 DEF AssignReply, AssignOk, AssignErr, Return, Goto
<1>3. ASSUME NEW c \in Conn, AddRef(c)
      PROVE  TypeOK'
  <2>1. refs' \in [RealIP -> NatEntry]
    <3> DEFINE e == Entry(refs[peer[c]].internalIP, refs[peer[c]].refCount + 1)
    <3>1. refs' = [refs EXCEPT ![peer[c]] = e]
      BY <1>3 DEF AddRef
    <3>2. peer[c] \in RealIP => e \in NatEntry
      OBVIOUS
    <3> HIDE DEF e
    <3> QED
      BY <3>1, <3>2
  <2> QED
    BY <1>3, <2>1 DEF AddRef, Goto
<1>4. ASSUME NEW c \in Conn, AddErr(c)
      PROVE  TypeOK'
  BY <1>4 DEF AddErr, Return, Goto
<1>5. ASSUME NEW c \in Conn, AddElement(c)
      PROVE  TypeOK'
  BY <1>5 DEF AddElement, Return, Goto
<1>6. ASSUME NEW c \in Conn, Route(c) \/ Dial(c) \/ WriteHandshake(c)
      PROVE  TypeOK'
  BY <1>6 DEF Route, Dial, WriteHandshake, Goto
<1>7. ASSUME NEW c \in Conn, NEW d \in Directions, PipeEnds(c, d)
      PROVE  TypeOK'
  BY <1>7 DEF PipeEnds, Goto
<1>8. ASSUME NEW c \in Conn, DropRef(c)
      PROVE  TypeOK'
  <2>1. refs' \in [RealIP -> NatEntry]
    <3> DEFINE e == Entry(refs[peer[c]].internalIP, refs[peer[c]].refCount - 1)
    <3>1. /\ refs' = [refs EXCEPT ![peer[c]] = e]
          /\ refs[peer[c]].refCount > 1
      BY <1>8 DEF DropRef
    <3>2. peer[c] \in RealIP => e \in NatEntry
      BY <3>1
    <3> HIDE DEF e
    <3> QED
      BY <3>1, <3>2
  <2> QED
    BY <1>8, <2>1 DEF DropRef, Return, Goto
<1>9. ASSUME NEW c \in Conn, DropElement(c)
      PROVE  TypeOK'
  BY <1>9 DEF DropElement, Return, Goto
<1>10. ASSUME NEW c \in Conn, DropErr(c)
      PROVE  TypeOK'
  BY <1>10 DEF DropErr, Return, Goto
<1>11. CASE Boot \/ Cancel \/ Exit \/ Crash \/ HostReboot
  BY <1>11 DEF Boot, Cancel, Exit, Crash, HostReboot, ProcessGone, connVars
<1>12. CASE UNCHANGED vars
  BY <1>12 DEF vars
<1> QED
  BY <1>1, <1>2, <1>3, <1>4, <1>5, <1>6, <1>7, <1>8, <1>9,
     <1>10, <1>11, <1>12
     DEF Next, HandlerStep, NatAdd, NatDelete

\* The state of the process and of the kernel map stays in its declared types
\* along every step of the handlers and of the process.
THEOREM TypeCorrect == Spec => []TypeOK
<1>1. Init => TypeOK
  BY DEF Init, TypeOK, NatEntry, Entry, NoEntry, Labels, Holding, Directions
<1> QED
  BY <1>1, TypeStep, PTL DEF Spec

(***************************************************************************)
(* The inductive invariant.                                                *)
(***************************************************************************)
\* A step that changes neither refs nor natMap nor who owes a Delete.
LEMMA QuietStep ==
    ASSUME IInv, TypeOK', ConnTyped', UNCHANGED <<refs, natMap>>,
           \A r \in RealIP : Holders(r)' = Holders(r),
           \A c \in Conn : pc'[c] \in Holding =>
                /\ pc[c] \in Holding
                /\ peer'[c] = peer[c]
                /\ ident'[c] = ident[c]
    PROVE  IInv'
<1>1. HoldersAgree'
  BY DEF IInv, HoldersAgree
<1>2. EntriesInKernel'
  BY DEF IInv, EntriesInKernel, Present
<1>3. RefCountCoversHolders'
  BY SameHolders DEF IInv
<1> QED
  BY <1>1, <1>2, <1>3 DEF IInv

\* Nothing but handlers past nat.Add was changed by a successful nat.Add.
LEMMA AddHolders ==
    ASSUME TypeOK, NEW c \in Conn, pc[c] = "natAdd", peer[c] \in RealIP,
           Goto(c, "route"), UNCHANGED peer
    PROVE  /\ c \notin Holders(peer[c])
           /\ \A r \in RealIP :
                Holders(r)' = IF r = peer[c] THEN Holders(r) \cup {c}
                                             ELSE Holders(r)
BY DEF TypeOK, Goto, Holders, Holding

\* The handler that returns is the only one that leaves the holders.
LEMMA ReturnHolders ==
    ASSUME TypeOK, ConnTyped, NEW c \in Conn, pc[c] = "release", Return(c)
    PROVE  /\ peer[c] \in RealIP
           /\ c \in Holders(peer[c])
           /\ \A r \in RealIP :
                Holders(r)' = IF r = peer[c] THEN Holders(r) \ {c}
                                             ELSE Holders(r)
<1>1. peer[c] \in RealIP
  BY DEF ConnTyped
<1> QED
  BY <1>1, AddressAssumption DEF TypeOK, Goto, Return, Holders, Holding

\* Add under an existing entry: one holder more and one reference more.
LEMMA AddRefStep ==
    ASSUME IInv, TypeOK', NEW c \in Conn, AddRef(c)
    PROVE  IInv'
<1> DEFINE p == peer[c]
<1>1. /\ p \in RealIP
      /\ ident[c] \in InternalIP
      /\ refs[p] \in NatEntry
      /\ refs[p].internalIP = ident[c]
      /\ natMap[p] = ident[c]
  BY DEF IInv, TypeOK, ConnTyped, EntriesInKernel, AddRef, Holding
<1>2. refs' = [refs EXCEPT ![p] = Entry(refs[p].internalIP, refs[p].refCount + 1)]
  BY DEF AddRef
<1>3. \A r \in RealIP :
        /\ refs'[r].internalIP = refs[r].internalIP
        /\ refs'[r].refCount = IF r = p THEN refs[r].refCount + 1
                                        ELSE refs[r].refCount
        /\ r # p => refs'[r] = refs[r]
  BY <1>1, <1>2 DEF IInv, TypeOK, Entry
<1>4. pc' = [pc EXCEPT ![c] = "route"] /\ UNCHANGED <<peer, ident, natMap>>
  BY DEF AddRef, Goto
<1>5. ConnTyped'
  BY <1>1, <1>4 DEF IInv, TypeOK, ConnTyped, Holding
<1>6. HoldersAgree'
  BY <1>1, <1>3, <1>4, <1>5 DEF IInv, TypeOK, ConnTyped, HoldersAgree, Holding
<1>7. EntriesInKernel'
  BY <1>1, <1>3, <1>4 DEF IInv, EntriesInKernel, Present
<1>8. RefCountCoversHolders'
  <2>1. pc[c] = "natAdd" /\ Goto(c, "route")
    BY DEF AddRef
  <2>2. /\ c \notin Holders(p)
        /\ \A r \in RealIP :
             Holders(r)' = IF r = p THEN Holders(r) \cup {c} ELSE Holders(r)
    BY <1>1, <1>4, <2>1, AddHolders DEF IInv
  <2> HIDE DEF p
  <2> QED
    BY <1>1, <1>3, <2>2, OneMoreHolder DEF IInv
<1> QED
  BY <1>5, <1>6, <1>7, <1>8 DEF IInv

\* Add of a player without an entry: the first holder, entry and element together.
LEMMA AddElementStep ==
    ASSUME IInv, TypeOK', NEW c \in Conn, AddElement(c)
    PROVE  IInv'
<1> DEFINE p == peer[c]
<1>1. /\ p \in RealIP
      /\ ident[c] \in InternalIP
      /\ refs[p] = NoEntry
  BY DEF IInv, TypeOK, ConnTyped, AddElement, Holding, Present
<1>2. /\ refs' = [refs EXCEPT ![p] = Entry(ident[c], 1)]
      /\ natMap' = [natMap EXCEPT ![p] = ident[c]]
  BY DEF AddElement
<1>3. /\ \A r \in RealIP : r # p => refs'[r] = refs[r] /\ natMap'[r] = natMap[r]
      /\ refs'[p].internalIP = ident[c]
      /\ refs'[p].refCount = refs[p].refCount + 1
      /\ natMap'[p] = ident[c]
  BY <1>1, <1>2 DEF IInv, TypeOK, Entry, NoEntry
<1>4. pc' = [pc EXCEPT ![c] = "route"] /\ UNCHANGED <<peer, ident>>
  BY DEF AddElement, Goto
<1>5. ConnTyped'
  BY <1>1, <1>4 DEF IInv, TypeOK, ConnTyped, Holding
<1>6. HoldersAgree'
  <2> SUFFICES ASSUME NEW d \in Conn, pc'[d] \in Holding
               PROVE  refs'[peer[d]].internalIP = ident[d]
    BY <1>4 DEF HoldersAgree
  <2>1. CASE d = c
    BY <1>3, <2>1
  <2>2. CASE d # c
    <3>1. pc[d] \in Holding /\ peer[d] \in RealIP
      BY <1>4, <2>2 DEF IInv, TypeOK, ConnTyped, Holding
    <3>2. peer[d] # p
      BY <1>1, <3>1, HolderCounted DEF IInv, Present
    <3> QED
      BY <1>3, <3>1, <3>2 DEF IInv, HoldersAgree
  <2> QED
    BY <2>1, <2>2
<1>7. EntriesInKernel'
  BY <1>1, <1>3 DEF IInv, EntriesInKernel, Present
<1>8. RefCountCoversHolders'
  <2>1. pc[c] = "natAdd" /\ Goto(c, "route")
    BY DEF AddElement
  <2>2. /\ c \notin Holders(p)
        /\ \A r \in RealIP :
             Holders(r)' = IF r = p THEN Holders(r) \cup {c} ELSE Holders(r)
    BY <1>1, <1>4, <2>1, AddHolders DEF IInv
  <2> HIDE DEF p
  <2> QED
    BY <1>1, <1>3, <2>2, OneMoreHolder DEF IInv
<1> QED
  BY <1>5, <1>6, <1>7, <1>8 DEF IInv

\* Delete with others left: one holder less and one reference less.
LEMMA DropRefStep ==
    ASSUME IInv, TypeOK', NEW c \in Conn, DropRef(c)
    PROVE  IInv'
<1> DEFINE p == peer[c]
<1>1. /\ p \in RealIP
      /\ c \in Holders(p)
      /\ \A r \in RealIP :
           Holders(r)' = IF r = p THEN Holders(r) \ {c} ELSE Holders(r)
  BY ReturnHolders DEF DropRef, IInv
<1>2. refs' = [refs EXCEPT ![p] = Entry(refs[p].internalIP, refs[p].refCount - 1)]
  BY DEF DropRef
<1>3. \A r \in RealIP :
        /\ refs'[r].internalIP = refs[r].internalIP
        /\ refs'[r].refCount = IF r = p THEN refs[r].refCount - 1
                                        ELSE refs[r].refCount
        /\ r # p => refs'[r] = refs[r]
  BY <1>1, <1>2 DEF IInv, TypeOK, Entry
<1>4. /\ pc' = [pc EXCEPT ![c] = "idle"]
      /\ peer' = [peer EXCEPT ![c] = NoIP]
      /\ ident' = [ident EXCEPT ![c] = NoIP]
      /\ UNCHANGED natMap
      /\ Present(p)
  BY DEF DropRef, Return, Goto
<1>5. ConnTyped'
  BY <1>4 DEF IInv, TypeOK, ConnTyped, Holding
<1>6. HoldersAgree'
  BY <1>3, <1>4, <1>5 DEF IInv, TypeOK, ConnTyped, HoldersAgree, Holding
<1>7. EntriesInKernel'
  BY <1>1, <1>3, <1>4 DEF IInv, EntriesInKernel, Present
<1>8. RefCountCoversHolders'
  <2> HIDE DEF p
  <2> QED
    BY <1>1, <1>3, OneHolderLess DEF IInv
<1> QED
  BY <1>5, <1>6, <1>7, <1>8 DEF IInv

\* The handler that finds a count of 1 is the only one of its player.
LEMMA LastHolder ==
    ASSUME IInv, NEW c \in Conn, pc[c] = "release",
           refs[peer[c]].refCount <= 1
    PROVE  /\ peer[c] \in RealIP
           /\ refs[peer[c]].refCount = 1
           /\ Holders(peer[c]) = {c}
<1> DEFINE H == Holders(peer[c])
<1>1. peer[c] \in RealIP /\ c \in H
  BY DEF IInv, ConnTyped, Holders, Holding
<1>2. refs[peer[c]].refCount = 1
  BY <1>1, HolderCounted DEF IInv, Holding
<1>3. IsFiniteSet(H) /\ Cardinality(H) \in Nat
  BY HoldersFinite
<1>4. Cardinality(H) <= 1
  BY <1>1, <1>2 DEF IInv, RefCountCoversHolders
<1>5. Cardinality(H) # 0
  BY <1>1, <1>3, FS_EmptySet
<1>6. Cardinality(H) = 1
  BY <1>3, <1>4, <1>5
<1>7. PICK x : H = {x}
  BY <1>3, <1>6, FS_Singleton
<1> QED
  BY <1>1, <1>2, <1>7

\* Delete of the last reference: there is no holder left whose element it takes.
LEMMA DropElementStep ==
    ASSUME IInv, TypeOK', NEW c \in Conn, DropElement(c)
    PROVE  IInv'
<1> DEFINE p == peer[c]
<1>1. /\ p \in RealIP
      /\ c \in Holders(p)
      /\ \A r \in RealIP :
           Holders(r)' = IF r = p THEN Holders(r) \ {c} ELSE Holders(r)
  BY ReturnHolders DEF DropElement, IInv
<1>2. refs[p].refCount = 1 /\ Holders(p) = {c}
  BY LastHolder DEF DropElement
<1>3. /\ \A r \in RealIP : r # p => refs'[r] = refs[r] /\ natMap'[r] = natMap[r]
      /\ refs'[p] = NoEntry
      /\ refs'[p].refCount = refs[p].refCount - 1
  BY <1>1, <1>2 DEF DropElement, IInv, TypeOK, NoEntry, Entry
<1>4. /\ pc' = [pc EXCEPT ![c] = "idle"]
      /\ peer' = [peer EXCEPT ![c] = NoIP]
      /\ ident' = [ident EXCEPT ![c] = NoIP]
  BY DEF DropElement, Return, Goto
<1>5. ConnTyped'
  BY <1>4 DEF IInv, TypeOK, ConnTyped, Holding
<1>6. HoldersAgree'
  <2> SUFFICES ASSUME NEW d \in Conn, pc'[d] \in Holding
               PROVE  refs'[peer'[d]].internalIP = ident'[d]
    BY DEF HoldersAgree
  <2>1. d # c /\ pc[d] \in Holding /\ peer[d] \in RealIP
    BY <1>4 DEF IInv, TypeOK, ConnTyped, Holding
  <2>2. peer[d] # p
    BY <1>2, <2>1 DEF Holders
  <2> QED
    BY <1>3, <1>4, <2>1, <2>2 DEF IInv, TypeOK, HoldersAgree
<1>7. EntriesInKernel'
  BY <1>1, <1>3 DEF IInv, EntriesInKernel, Present
<1>8. RefCountCoversHolders'
  <2> HIDE DEF p
  <2> QED
    BY <1>1, <1>3, OneHolderLess DEF IInv
<1> QED
  BY <1>5, <1>6, <1>7, <1>8 DEF IInv

\* A failed delete is the one step that opens the gap between count and
\* handlers: the count of 1 stays while its last handler goes.
LEMMA DropErrStep ==
    ASSUME IInv, TypeOK', NEW c \in Conn, DropErr(c)
    PROVE  IInv'
<1> DEFINE p == peer[c]
<1>1. /\ p \in RealIP
      /\ \A r \in RealIP :
           Holders(r)' = IF r = p THEN Holders(r) \ {c} ELSE Holders(r)
  BY ReturnHolders DEF DropErr, IInv
<1>2. Present(p)
  BY <1>1, HolderCounted DEF IInv, DropErr, Holding
<1>3. refs[p].refCount = 1 /\ Holders(p) = {c}
  BY <1>2, LastHolder DEF DropErr
<1>4. natMap[p] # NoIP
  BY <1>1, <1>2, AddressAssumption DEF DropErr, IInv, EntriesInKernel
<1>5. Leaked = 1
  BY <1>2, <1>4 DEF DropErr, Leaked
<1>6. /\ pc' = [pc EXCEPT ![c] = "idle"]
      /\ peer' = [peer EXCEPT ![c] = NoIP]
      /\ ident' = [ident EXCEPT ![c] = NoIP]
      /\ UNCHANGED <<refs, natMap>>
  BY DEF DropErr, Return, Goto
<1>7. ConnTyped'
  BY <1>6 DEF IInv, TypeOK, ConnTyped, Holding
<1>8. HoldersAgree'
  BY <1>6 DEF IInv, TypeOK, ConnTyped, HoldersAgree, Holding
<1>9. EntriesInKernel'
  BY <1>6 DEF IInv, EntriesInKernel, Present
<1>10. RefCountCoversHolders'
  <2> SUFFICES ASSUME NEW r \in RealIP
               PROVE  /\ Cardinality(Holders(r)') <= refs'[r].refCount
                      /\ refs'[r].refCount <= Cardinality(Holders(r)') + Leaked
    BY DEF RefCountCoversHolders, Leaked
  <2>1. CASE r = p
    <3>1. Cardinality(Holders(r)') = 0
      BY <1>1, <1>3, <2>1, FS_EmptySet
    <3> QED
      BY <1>3, <1>5, <1>6, <2>1, <3>1
  <2>2. CASE r # p
    BY <1>1, <1>6, <2>2 DEF IInv, RefCountCoversHolders
  <2> QED
    BY <2>1, <2>2
<1> QED
  BY <1>7, <1>8, <1>9, <1>10 DEF IInv

\* Nothing is owed once the process is gone.
LEMMA ProcessGoneStep ==
    ASSUME IInv, TypeOK', ProcessGone
    PROVE  IInv'
<1>1. \A r : Holders(r)' = {}
  BY DEF ProcessGone, Holders, Holding
<1>2. ConnTyped' /\ HoldersAgree'
  BY DEF ProcessGone, ConnTyped, HoldersAgree, Holding
<1>3. EntriesInKernel'
  BY DEF ProcessGone, EntriesInKernel, Present
<1>4. RefCountCoversHolders'
  BY <1>1, FS_EmptySet, KernelAssumption
     DEF ProcessGone, RefCountCoversHolders, NoEntry, Entry, Leaked
<1> QED
  BY <1>2, <1>3, <1>4 DEF IInv

\* Every step preserves the rest; TypeStep has the types.
LEMMA InvariantStep == IInv /\ TypeOK' /\ [Next]_vars => IInv'
<1> SUFFICES ASSUME IInv, TypeOK', [Next]_vars
             PROVE  IInv'
  OBVIOUS
<1> USE DEF Holding
<1>1. ASSUME NEW c \in Conn, NEW r \in RealIP, Accept(c, r)
      PROVE  IInv'
  <2>1. ConnTyped'
    BY <1>1 DEF IInv, TypeOK, ConnTyped, Accept, Goto
  <2>2. \A q \in RealIP : Holders(q)' = Holders(q)
    BY <1>1 DEF IInv, TypeOK, Accept, Goto, Holders
  <2> QED
    BY <1>1, <2>1, <2>2, QuietStep DEF IInv, TypeOK, Accept, Goto
<1>2. ASSUME NEW c \in Conn, AssignReply(c) \/ AddErr(c)
      PROVE  IInv'
  <2>1. ConnTyped'
    BY <1>2 DEF IInv, TypeOK, ConnTyped, AssignReply, AssignOk, AssignErr,
                AddErr, Return, Goto
  <2>2. \A q \in RealIP : Holders(q)' = Holders(q)
    BY <1>2 DEF IInv, TypeOK, AssignReply, AssignOk, AssignErr, AddErr,
                Return, Goto, Holders
  <2> QED
    BY <1>2, <2>1, <2>2, QuietStep
       DEF IInv, TypeOK, AssignReply, AssignOk, AssignErr, AddErr, Return, Goto
<1>3. ASSUME NEW c \in Conn, Route(c) \/ Dial(c) \/ WriteHandshake(c)
      PROVE  IInv'
  <2>1. ConnTyped'
    BY <1>3 DEF IInv, TypeOK, ConnTyped, Route, Dial, WriteHandshake, Goto
  <2>2. \A q \in RealIP : Holders(q)' = Holders(q)
    BY <1>3 DEF IInv, TypeOK, Route, Dial, WriteHandshake, Goto, Holders
  <2> QED
    BY <1>3, <2>1, <2>2, QuietStep
       DEF IInv, TypeOK, Route, Dial, WriteHandshake, Goto
<1>4. ASSUME NEW c \in Conn, NEW d \in Directions, PipeEnds(c, d)
      PROVE  IInv'
  <2>1. ConnTyped'
    BY <1>4 DEF IInv, TypeOK, ConnTyped, PipeEnds, Goto
  <2>2. \A q \in RealIP : Holders(q)' = Holders(q)
    BY <1>4 DEF IInv, TypeOK, PipeEnds, Goto, Holders
  <2> QED
    BY <1>4, <2>1, <2>2, QuietStep DEF IInv, TypeOK, PipeEnds, Goto
<1>5. ASSUME NEW c \in Conn, AddRef(c) \/ AddElement(c)
      PROVE  IInv'
  BY <1>5, AddRefStep, AddElementStep
<1>6. ASSUME NEW c \in Conn, DropRef(c) \/ DropElement(c) \/ DropErr(c)
      PROVE  IInv'
  BY <1>6, DropRefStep, DropElementStep, DropErrStep
<1>7. CASE Exit \/ Crash \/ HostReboot
  BY <1>7, ProcessGoneStep DEF Exit, Crash, HostReboot
<1>8. CASE Boot \/ Cancel \/ UNCHANGED vars
  <2>1. UNCHANGED <<pc, peer, ident, refs, natMap>>
    BY <1>8 DEF Boot, Cancel, vars, connVars
  <2>2. ConnTyped' /\ \A q \in RealIP : Holders(q)' = Holders(q)
    BY <2>1 DEF IInv, ConnTyped, Holders
  <2> QED
    BY <2>1, <2>2, QuietStep
<1> QED
  BY <1>1, <1>2, <1>3, <1>4, <1>5, <1>6, <1>7, <1>8
     DEF Next, HandlerStep, NatAdd, NatDelete

\* Nothing is counted or installed at first.
LEMMA InitHolds == Init => IInv
<1> SUFFICES ASSUME Init PROVE IInv
  OBVIOUS
<1>1. TypeOK
  BY DEF Init, TypeOK, NatEntry, NoEntry, Entry, Labels, Directions
<1>2. \A r : Holders(r) = {}
  BY DEF Init, Holders, Holding
<1>3. ConnTyped /\ HoldersAgree /\ EntriesInKernel
  BY DEF Init, ConnTyped, HoldersAgree, EntriesInKernel, Present, Holding
<1>4. RefCountCoversHolders
  BY <1>2, FS_EmptySet, KernelAssumption
     DEF Init, RefCountCoversHolders, NoEntry, Entry, Leaked
<1> QED
  BY <1>1, <1>3, <1>4 DEF IInv

\* The inductive invariant holds in every reachable state.
THEOREM Invariance == Spec => []IInv
<1>1. IInv /\ [Next]_vars => IInv'
  BY InvariantStep, TypeStep DEF IInv
<1> QED
  BY <1>1, InitHolds, PTL DEF Spec

\* refs counts every handler that owes a Delete, plus at most the one
\* reference a failed delete leaked; without kernel failures exactly.
THEOREM RefCounting == Spec => []RefCountCoversHolders
<1>1. IInv => RefCountCoversHolders
  BY DEF IInv
<1> QED
  BY <1>1, Invariance, PTL

\* Holders have the identity of the entry, and the entry is in the kernel.
LEMMA LiveIdentity == IInv => LiveIdentityInstalled
<1> SUFFICES ASSUME IInv, NEW c \in Conn, pc[c] \in Holding
             PROVE  natMap[peer[c]] = ident[c]
  BY DEF LiveIdentityInstalled
<1>1. peer[c] \in RealIP
  BY DEF IInv, ConnTyped, Holding
<1>2. Present(peer[c])
  BY <1>1, HolderCounted DEF IInv
<1> QED
  BY <1>1, <1>2 DEF IInv, HoldersAgree, EntriesInKernel

\* Every handler past nat.Add has its identity in the kernel.
THEOREM IdentityInstalled == Spec => []LiveIdentityInstalled
BY LiveIdentity, Invariance, PTL

\* Who may change an element: an Add on an absent one, the Delete of the last
\* handler, and the end of the host.
LEMMA ElementStep ==
    ASSUME IInv, [Next]_vars, NEW r \in RealIP,
           natMap[r] \notin {NoIP, natMap'[r]}
    PROVE  Holders(r)' = {}
<1>1. ASSUME NEW c \in Conn, AddElement(c)
      PROVE  FALSE
  <2>1. natMap' = [natMap EXCEPT ![peer[c]] = ident[c]]
    BY <1>1 DEF AddElement
  <2>2. natMap[peer[c]] \in {NoIP, ident[c]}
    BY <1>1 DEF AddElement
  <2> QED
    BY <2>1, <2>2 DEF IInv, TypeOK
<1>2. ASSUME NEW c \in Conn, DropElement(c)
      PROVE  Holders(r)' = {}
  <2>1. natMap' = [natMap EXCEPT ![peer[c]] = NoIP]
    BY <1>2 DEF DropElement
  <2>2. r = peer[c]
    BY <2>1 DEF IInv, TypeOK
  <2>3. Holders(r) = {c}
    BY <1>2, <2>2, LastHolder DEF DropElement
  <2>4. Holders(r)' = Holders(r) \ {c}
    BY <1>2, <2>2, ReturnHolders DEF DropElement, IInv
  <2> QED
    BY <2>3, <2>4
<1>3. ASSUME HostReboot
      PROVE  Holders(r)' = {}
  BY <1>3 DEF HostReboot, ProcessGone, Holders, Holding
<1> QED
  BY <1>1, <1>2, <1>3
     DEF Next, vars, HandlerStep, NatAdd, NatDelete, Accept, AssignReply,
         AssignOk, AssignErr, AddRef, AddErr, Route, Dial, WriteHandshake,
         PipeEnds, DropRef, DropErr, Boot, Cancel, Exit, Crash

\* The element of a player is removed or repointed only when nobody is left.
THEOREM Pinned == Spec => ElementPinned
<1>1. IInv /\ [Next]_vars =>
        [\A r \in RealIP :
            natMap[r] \notin {NoIP, natMap'[r]} => Holders(r)' = {}]_vars
  BY ElementStep
<1> QED
  BY <1>1, Invariance, PTL DEF Spec, ElementPinned

(***************************************************************************)
(* ProxyConn implements SnatLease: an Add is an Acquire, a Delete is a     *)
(* Release, the end of the process is a Drop, the rest stutters.           *)
(***************************************************************************)
LEMMA LeaseAdd ==
    ASSUME IInv, NEW c \in Conn, AddRef(c) \/ AddElement(c)
    PROVE  Lease!Acquire(c, peer[c], ident[c])
<1> DEFINE p == peer[c]
<1>1. p \in RealIP /\ ident[c] \in InternalIP /\ pc[c] = "natAdd"
  BY DEF IInv, ConnTyped, AddRef, AddElement
<1>2. \A r \in RealIP : c \notin Holders(r)
  BY <1>1 DEF Holders, Holding
<1>3. \A r \in RealIP :
        Holders(r)' = IF r = p THEN Holders(r) \cup {c} ELSE Holders(r)
  BY <1>1, AddHolders DEF IInv, AddRef, AddElement
<1>4. [r \in RealIP |-> Holders(r)]'
        = [[r \in RealIP |-> Holders(r)] EXCEPT ![p] = @ \cup {c}]
  BY <1>1, <1>3
<1>5. CASE AddRef(c)
  <2>1. natMap[p] = ident[c] /\ UNCHANGED natMap
    BY <1>1, <1>5 DEF AddRef, IInv, EntriesInKernel
  <2>2. natMap' = [natMap EXCEPT ![p] = ident[c]]
    BY <1>1, <2>1 DEF IInv, TypeOK
  <2> QED
    BY <1>1, <1>2, <1>4, <2>1, <2>2 DEF Lease!Acquire
<1>6. CASE AddElement(c)
  <2>1. Holders(p) = {}
    <3> SUFFICES ASSUME NEW d \in Holders(p) PROVE FALSE
      OBVIOUS
    <3>1. d \in Conn /\ pc[d] \in Holding /\ peer[d] = p
      BY DEF Holders
    <3> QED
      BY <1>1, <1>6, <3>1, HolderCounted DEF IInv, AddElement
  <2>2. /\ natMap[p] \in {NoIP, ident[c]}
        /\ natMap' = [natMap EXCEPT ![p] = ident[c]]
    BY <1>6 DEF AddElement
  <2> QED
    BY <1>1, <1>2, <1>4, <2>1, <2>2 DEF Lease!Acquire
<1> QED
  BY <1>5, <1>6

\* Each outcome of Delete is a release of the lease.
LEMMA LeaseDelete ==
    ASSUME IInv, NEW c \in Conn,
           DropRef(c) \/ DropElement(c) \/ DropErr(c)
    PROVE  Lease!Release(c, peer[c])
<1> DEFINE p == peer[c]
<1>1. pc[c] = "release" /\ Return(c)
  BY DEF DropRef, DropElement, DropErr
<1>2. /\ p \in RealIP
      /\ c \in Holders(p)
      /\ \A r \in RealIP :
           Holders(r)' = IF r = p THEN Holders(r) \ {c} ELSE Holders(r)
  BY <1>1, ReturnHolders DEF IInv
<1>3. [r \in RealIP |-> Holders(r)]'
        = [[r \in RealIP |-> Holders(r)] EXCEPT ![p] = @ \ {c}]
  BY <1>2
<1>4. CASE UNCHANGED natMap
  BY <1>2, <1>3, <1>4 DEF Lease!Release
<1>5. CASE DropElement(c)
  <2>1. Holders(p) = {c}
    BY <1>5, LastHolder DEF DropElement
  <2> QED
    BY <1>2, <1>3, <1>5, <2>1 DEF Lease!Release, DropElement
<1> QED
  BY <1>4, <1>5 DEF DropRef, DropErr

\* Every step is a step of the lease or leaves it as it is.
LEMMA LeaseStep ==
    ASSUME IInv, [Next]_vars
    PROVE  [Lease!Next]_(Lease!vars)
<1> USE DEF Holding
<1>1. ASSUME NEW c \in Conn, AddRef(c) \/ AddElement(c)
      PROVE  Lease!Next
  <2>1. peer[c] \in RealIP /\ ident[c] \in InternalIP
    BY <1>1 DEF IInv, ConnTyped, AddRef, AddElement
  <2> QED
    BY <1>1, <2>1, LeaseAdd DEF Lease!Next
<1>2. ASSUME NEW c \in Conn,
             DropRef(c) \/ DropElement(c) \/ DropErr(c)
      PROVE  Lease!Next
  <2>1. peer[c] \in RealIP
    BY <1>2 DEF IInv, ConnTyped, DropRef, DropElement, DropErr
  <2> QED
    BY <1>2, <2>1, LeaseDelete DEF Lease!Next
<1>3. CASE Exit \/ Crash \/ HostReboot
  <2>1. \A r : Holders(r)' = {}
    BY <1>3 DEF Exit, Crash, HostReboot, ProcessGone, Holders
  <2>2. natMap' \in {natMap, [r \in RealIP |-> NoIP]}
    BY <1>3 DEF Exit, Crash, HostReboot
  <2> QED
    BY <2>1, <2>2 DEF Lease!Next, Lease!Drop
<1>4. ASSUME NEW c \in Conn, NEW r \in RealIP, Accept(c, r)
      PROVE  UNCHANGED Lease!vars
  <2>1. \A q \in RealIP : Holders(q)' = Holders(q)
    BY <1>4 DEF IInv, TypeOK, Accept, Goto, Holders
  <2> QED
    BY <1>4, <2>1 DEF Lease!vars, Accept
<1>5. ASSUME NEW c \in Conn, AssignReply(c) \/ AddErr(c)
      PROVE  UNCHANGED Lease!vars
  <2>1. \A q \in RealIP : Holders(q)' = Holders(q)
    BY <1>5 DEF IInv, TypeOK, AssignReply, AssignOk, AssignErr, AddErr,
                Return, Goto, Holders
  <2> QED
    BY <1>5, <2>1 DEF Lease!vars, AssignReply, AssignOk, AssignErr, AddErr
<1>6. ASSUME NEW c \in Conn, NEW d \in Directions, PipeEnds(c, d)
      PROVE  UNCHANGED Lease!vars
  <2>1. \A q \in RealIP : Holders(q)' = Holders(q)
    BY <1>6 DEF IInv, TypeOK, PipeEnds, Goto, Holders
  <2> QED
    BY <1>6, <2>1 DEF Lease!vars, PipeEnds
<1>7. CASE Boot \/ Cancel \/ UNCHANGED vars
  <2>1. UNCHANGED <<pc, peer, natMap>>
    BY <1>7 DEF Boot, Cancel, vars, connVars
  <2> QED
    BY <2>1 DEF Lease!vars, Holders
<1>8. ASSUME NEW c \in Conn, Route(c) \/ Dial(c) \/ WriteHandshake(c)
      PROVE  UNCHANGED Lease!vars
  <2>1. \A q \in RealIP : Holders(q)' = Holders(q)
    BY <1>8 DEF IInv, TypeOK, Route, Dial, WriteHandshake, Goto, Holders
  <2> QED
    BY <1>8, <2>1 DEF Lease!vars, Route, Dial, WriteHandshake
<1> QED
  BY <1>1, <1>2, <1>3, <1>4, <1>5, <1>6, <1>7, <1>8
     DEF Next, HandlerStep, NatAdd, NatDelete

\* The reference-counted manager implements the lease of SnatLease.
THEOREM ImplementsLease == Spec => LeaseSpec
<1>1. Init => Lease!Init
  BY DEF Init, Lease!Init, Holders, Holding
<1> QED
  BY <1>1, LeaseStep, Invariance, PTL DEF Spec, LeaseSpec, Lease!Spec

=================================================================================
