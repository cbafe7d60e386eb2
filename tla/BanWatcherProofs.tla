---------------------------- MODULE BanWatcherProofs -----------------------------
(***************************************************************************)
(* Theorems about BanWatcher for any players, proxies, TTLs and server     *)
(* directories, and any failures of Redis and of the watcher.  The store   *)
(* brings its own inductive invariant; the watcher's relates the entries   *)
(* that servers have written, that snapshots hold and that are still to be *)
(* promoted to the players who had these identities.                       *)
(***************************************************************************)
EXTENDS BanWatcher, AssignmentProofs

(***************************************************************************)
(* The inductive invariant.                                                *)
(***************************************************************************)
\* What the places of the goroutine leave behind.
Places ==
    /\ scan \subseteq created
    /\ wpc = "snapshot" => cur \in watched
    /\ wpc \notin {"promote", "reserve"} => todo = {}
    /\ wpc = "reserve" => real \in RealIP

\* Entries that a server, a snapshot or the handler still has.
Entries == todo \cup UNION {bans[d] \cup snapshot[d] : d \in Dir}

\* They were banned when a culprit had them, and are nobody else's since.
EntriesOfCulprits ==
    NoWrap => \A ip \in Entries :
        Issued(ip) /\ (rmap[ip] # None => rmap[ip].real \in culprits)

\* So is the player that is being promoted.
RealIsCulprit == NoWrap /\ wpc = "reserve" => real \in culprits

\* ReserveForAllProxies has reached the proxies it has not left.
ReserveProgress ==
    wpc = "reserve" => \A p \in Proxy \ left : real \in reserved /\ map[real][p] # None

\* Without an event to come, the snapshot is what the file says.
SnapshotCurrent ==
    \A d \in watched \ pending :
        disk[d] = "full" /\ ~(wpc = "snapshot" /\ cur = d) => snapshot[d] = bans[d]

\* The entries of a snapshot have had their effect, are on the way to it, or
\* are among those passed over.
Settled(ip) ==
    \/ ip \in missed
    \/ rmap[ip] = None
    \/ ReservedEverywhere(rmap[ip].real)

SnapshotSettled ==
    NoWrap => \A d \in Dir : \A ip \in snapshot[d] :
        \/ Settled(ip)
        \/ ip \in todo
        \/ wpc = "reserve" /\ rmap[ip].real = real

WatcherInv ==
    /\ IInv
    /\ WatcherTypeOK
    /\ Places
    /\ ReverseNamesOwner
    /\ EntriesOfCulprits
    /\ RealIsCulprit
    /\ OnlyCulpritsReserved
    /\ ReserveProgress
    /\ SnapshotCurrent
    /\ SnapshotSettled

(***************************************************************************)
(* The steps by what they leave alone.                                     *)
(***************************************************************************)
\* Servers, players and time move while the goroutine stands still.
World ==
    \/ \E d \in Dir : ServerStep(d)
    \/ \E r \in RealIP, p \in Proxy : PlayerConnects(r, p)
    \/ TimePasses
    \/ UNCHANGED allVars

\* The goroutine moves between directories.
Scanning ==
    \/ WatcherBoot \/ ListDirs
    \/ \E d \in Dir : WatchDir(d) \/ WatchNewDir(d)

\* Every step is one of these.
LEMMA StepCases ==
    ASSUME [WatcherNext]_allVars
    PROVE  \/ World \/ Scanning \/ RefreshSnapshot
           \/ \E d \in Dir : HandleBannedIPs(d)
           \/ \E ip \in Identity : LookupReverse(ip) \/ LookupFails(ip)
           \/ \E p \in Proxy : ReserveNext(p)
           \/ ReserveFails \/ WatcherCrash
  BY DEF WatcherNext, ScanStep, PromoteStep, World, Scanning

\* The world leaves the goroutine and its snapshots alone.
LEMMA WorldFrame ==
    ASSUME World
    PROVE  /\ UNCHANGED <<promoteVars, wpc, scan, cur, watched, snapshot>>
           /\ created \subseteq created' /\ culprits \subseteq culprits'
<1> USE DEF idVars, serverVars, promoteVars, watchVars, allVars
<1>1. ASSUME NEW d \in Dir, ServerStep(d)
      PROVE  /\ UNCHANGED <<promoteVars, wpc, scan, cur, watched, snapshot>>
             /\ created \subseteq created' /\ culprits \subseteq culprits'
  BY <1>1 DEF ServerStep, CreateDir, WriteBans, BanIP, PardonIP, RewriteBans, Notify
<1>2. CASE (\E r \in RealIP, p \in Proxy : PlayerConnects(r, p)) \/ TimePasses \/ UNCHANGED allVars
  BY <1>2 DEF PlayerConnects, TimePasses
<1> QED
  BY <1>1, <1>2 DEF World

\* What a step does to the store is a step of the store.
LEMMA StorePart ==
    ASSUME Places, [WatcherNext]_allVars
    PROVE  [Next]_vars
<1> USE DEF idVars, serverVars, promoteVars, watchVars, allVars, vars
<1>1. CASE World
  <2>1. ASSUME NEW d \in Dir, ServerStep(d)
        PROVE  UNCHANGED vars
    BY <2>1 DEF ServerStep, CreateDir, WriteBans, BanIP, PardonIP, RewriteBans
  <2>2. ASSUME NEW r \in RealIP, NEW p \in Proxy, PlayerConnects(r, p)
        PROVE  Next
    BY <2>2 DEF PlayerConnects, Next
  <2>3. CASE TimePasses
    BY <2>3 DEF TimePasses, Next
  <2> QED
    BY <1>1, <2>1, <2>2, <2>3 DEF World
<1>2. CASE Scanning \/ RefreshSnapshot \/ ReserveFails \/ WatcherCrash
  BY <1>2 DEF Scanning, WatcherBoot, ListDirs, WatchDir, WatchNewDir, RefreshSnapshot,
              ReserveFails, WatcherCrash
<1>3. ASSUME NEW d \in Dir, HandleBannedIPs(d)
      PROVE  UNCHANGED vars
  BY <1>3 DEF HandleBannedIPs
<1>4. ASSUME NEW ip \in Identity, LookupReverse(ip) \/ LookupFails(ip)
      PROVE  UNCHANGED vars
  BY <1>4 DEF LookupReverse, LookupFails
<1>5. ASSUME NEW p \in Proxy, ReserveNext(p)
      PROVE  Next
  BY <1>5 DEF ReserveNext, Places, Next
<1> QED
  BY <1>1, <1>2, <1>3, <1>4, <1>5, StepCases

\* Only promotions reserve, and they reserve the player at hand.
LEMMA ReservedBy ==
    ASSUME [WatcherNext]_allVars
    PROVE  \/ reserved' = reserved
           \/ wpc = "reserve" /\ reserved' = reserved \cup {real}
<1> USE DEF idVars, serverVars, promoteVars, watchVars, allVars
<1>1. CASE World
  <2>1. ASSUME NEW d \in Dir, ServerStep(d)
        PROVE  reserved' = reserved
    BY <2>1 DEF ServerStep, CreateDir, WriteBans, BanIP, PardonIP, RewriteBans
  <2>2. ASSUME NEW r \in RealIP, NEW p \in Proxy, PlayerConnects(r, p)
        PROVE  reserved' = reserved
    BY <2>2 DEF PlayerConnects, Assign, RunAssign, AssignExisting, AssignFresh, Extend
  <2>3. CASE TimePasses
    BY <2>3 DEF TimePasses, Tick
  <2> QED
    BY <1>1, <2>1, <2>2, <2>3 DEF World
<1>2. CASE Scanning \/ RefreshSnapshot \/ ReserveFails \/ WatcherCrash
  BY <1>2 DEF Scanning, WatcherBoot, ListDirs, WatchDir, WatchNewDir, RefreshSnapshot,
              ReserveFails, WatcherCrash
<1>3. ASSUME NEW d \in Dir, HandleBannedIPs(d)
      PROVE  reserved' = reserved
  BY <1>3 DEF HandleBannedIPs
<1>4. ASSUME NEW ip \in Identity, LookupReverse(ip) \/ LookupFails(ip)
      PROVE  reserved' = reserved
  BY <1>4 DEF LookupReverse, LookupFails
<1>5. ASSUME NEW p \in Proxy, ReserveNext(p)
      PROVE  wpc = "reserve" /\ reserved' = reserved \cup {real}
  BY <1>5 DEF ReserveNext, Reserve, RunAssign, AssignExisting, AssignFresh, Pin
<1> QED
  BY <1>1, <1>2, <1>3, <1>4, <1>5, StepCases

(***************************************************************************)
(* Types and places.                                                       *)
(***************************************************************************)
\* What a server writes into its list is a list.
LEMMA ServerTyped ==
    ASSUME WatcherTypeOK, NEW d \in Dir, ServerStep(d)
    PROVE  /\ created' \subseteq Dir /\ created \subseteq created'
           /\ bans' \in [Dir -> SUBSET Identity]
           /\ disk' \in [Dir -> {"missing", "empty", "torn", "full"}]
           /\ born' \subseteq created' /\ pending' \subseteq watched
           /\ culprits' \subseteq RealIP
<1> USE DEF WatcherTypeOK, Notify
<1>1. ASSUME NEW r \in RealIP, NEW p \in Proxy, BanIP(d, r, p)
      PROVE  map[r][p] \in Identity
  BY <1>1 DEF BanIP, TypeOK
<1>2. ASSUME NEW r \in RealIP, NEW p \in Proxy, BanIP(d, r, p)
      PROVE  /\ bans' \in [Dir -> SUBSET Identity]
             /\ disk' \in [Dir -> {"missing", "empty", "torn", "full"}]
             /\ pending' \subseteq watched /\ culprits' \subseteq RealIP
             /\ created' = created /\ born' = born
  BY <1>1, <1>2 DEF BanIP, RewriteBans
<1>3. ASSUME NEW ip \in Identity, PardonIP(d, ip)
      PROVE  /\ bans' \in [Dir -> SUBSET Identity]
             /\ disk' \in [Dir -> {"missing", "empty", "torn", "full"}]
             /\ pending' \subseteq watched /\ culprits' = culprits
             /\ created' = created /\ born' = born
  BY <1>3 DEF PardonIP, RewriteBans
<1>4. CASE WriteBans(d)
  BY <1>4 DEF WriteBans
<1>5. CASE CreateDir(d)
  BY <1>5 DEF CreateDir
<1> QED
  BY <1>2, <1>3, <1>4, <1>5 DEF ServerStep

\* The watcher's variables keep their types, and its store the store's.
LEMMA WatcherTypeStep ==
    ASSUME WatcherTypeOK, Places, [WatcherNext]_allVars
    PROVE  WatcherTypeOK'
<1> USE DEF serverVars, promoteVars, watchVars, allVars, NextEntry
<1>1. TypeOK'
  BY StorePart, TypeStep DEF WatcherTypeOK
<1>2. ASSUME NEW d \in Dir, ServerStep(d)
      PROVE  WatcherTypeOK'
  <2>1. World
    BY <1>2 DEF World
  <2> QED
    BY <1>1, <1>2, <2>1, ServerTyped, WorldFrame DEF WatcherTypeOK
<1>3. CASE (\E r \in RealIP, p \in Proxy : PlayerConnects(r, p)) \/ TimePasses \/ UNCHANGED allVars
  BY <1>1, <1>3 DEF WatcherTypeOK, PlayerConnects, TimePasses
<1>4. CASE Scanning
  BY <1>1, <1>4 DEF WatcherTypeOK, Places, Scanning, WatcherBoot, ListDirs, WatchDir, WatchNewDir
<1>5. \A d \in Dir : ReadBannedIPs(d) \subseteq Identity
  BY DEF WatcherTypeOK, ReadBannedIPs
<1>6. CASE RefreshSnapshot
  BY <1>1, <1>5, <1>6 DEF WatcherTypeOK, Places, RefreshSnapshot
<1>7. ASSUME NEW d \in Dir, HandleBannedIPs(d)
      PROVE  WatcherTypeOK'
  BY <1>1, <1>5, <1>7 DEF WatcherTypeOK, HandleBannedIPs
<1>8. ASSUME NEW ip \in Identity, LookupReverse(ip)
      PROVE  WatcherTypeOK'
  <2>1. rmap[ip].real \in RealIP
    BY <1>8 DEF LookupReverse, WatcherTypeOK, TypeOK, Reverse
  <2> QED
    BY <1>1, <1>8, <2>1 DEF WatcherTypeOK, LookupReverse
<1>9. ASSUME NEW ip \in Identity, LookupFails(ip)
      PROVE  WatcherTypeOK'
  BY <1>1, <1>9 DEF WatcherTypeOK, LookupFails
<1>10. ASSUME NEW p \in Proxy, ReserveNext(p)
       PROVE  WatcherTypeOK'
  BY <1>1, <1>10 DEF WatcherTypeOK, ReserveNext
<1>11. CASE ReserveFails \/ WatcherCrash
  BY <1>1, <1>11 DEF WatcherTypeOK, ReserveFails, WatcherCrash
<1> QED
  BY <1>2, <1>3, <1>4, <1>6, <1>7, <1>8, <1>9, <1>10, <1>11, StepCases DEF World

\* The goroutine only visits directories that exist, and only the handler has
\* entries to promote.
LEMMA PlacesStep ==
    ASSUME WatcherTypeOK, Places, [WatcherNext]_allVars
    PROVE  Places'
<1> USE DEF serverVars, promoteVars, watchVars, allVars, NextEntry
<1>1. CASE World
  BY <1>1, WorldFrame DEF Places
<1>2. CASE Scanning \/ RefreshSnapshot \/ ReserveFails \/ WatcherCrash
  BY <1>2 DEF Places, Scanning, WatcherBoot, ListDirs, WatchDir, WatchNewDir,
              RefreshSnapshot, ReserveFails, WatcherCrash
<1>3. ASSUME NEW d \in Dir, HandleBannedIPs(d)
      PROVE  Places'
  BY <1>3 DEF Places, HandleBannedIPs
<1>4. ASSUME NEW ip \in Identity, LookupReverse(ip)
      PROVE  Places'
  <2>1. rmap[ip].real \in RealIP
    BY <1>4 DEF LookupReverse, WatcherTypeOK, TypeOK, Reverse
  <2> QED
    BY <1>4, <2>1 DEF Places, LookupReverse
<1>5. ASSUME NEW ip \in Identity, LookupFails(ip)
      PROVE  Places'
  BY <1>5 DEF Places, LookupFails
<1>6. ASSUME NEW p \in Proxy, ReserveNext(p)
      PROVE  Places'
  BY <1>6 DEF Places, ReserveNext
<1> QED
  BY <1>1, <1>2, <1>3, <1>4, <1>5, <1>6, StepCases

(***************************************************************************)
(* Whose the entries are.                                                  *)
(***************************************************************************)
\* A ban adds the identity of its culprit to the entries; no other step adds.
LEMMA EntriesGrow ==
    ASSUME WatcherTypeOK, [WatcherNext]_allVars
    PROVE  \/ Entries' \subseteq Entries
           \/ \E r \in RealIP, p \in Proxy :
                 /\ map[r][p] # None /\ UNCHANGED idVars
                 /\ Entries' \subseteq Entries \cup {map[r][p]}
                 /\ culprits' = culprits \cup {r}
<1> USE DEF serverVars, promoteVars, watchVars, allVars
<1>1. \A d \in Dir : ReadBannedIPs(d) \subseteq bans[d]
  BY DEF ReadBannedIPs
<1>2. ASSUME NEW d \in Dir, NEW list \in SUBSET Identity, RewriteBans(d, list)
      PROVE  Entries' \subseteq Entries \cup list /\ UNCHANGED idVars
  <2>1. \A e \in Dir : bans'[e] \subseteq bans[e] \cup list
    BY <1>2 DEF RewriteBans, WatcherTypeOK
  <2> QED
    BY <1>2, <2>1 DEF RewriteBans, Entries
<1>3. ASSUME NEW d \in Dir, NEW r \in RealIP, NEW p \in Proxy, BanIP(d, r, p)
      PROVE  /\ map[r][p] # None /\ UNCHANGED idVars
             /\ Entries' \subseteq Entries \cup {map[r][p]}
             /\ culprits' = culprits \cup {r}
  <2>1. bans[d] \cup {map[r][p]} \in SUBSET Identity
    BY <1>3 DEF BanIP, WatcherTypeOK, TypeOK
  <2>2. Entries' \subseteq Entries \cup (bans[d] \cup {map[r][p]}) /\ UNCHANGED idVars
    BY <1>2, <1>3, <2>1 DEF BanIP
  <2> QED
    BY <1>3, <2>2 DEF BanIP, Entries
<1>4. ASSUME NEW d \in Dir, NEW ip \in Identity, PardonIP(d, ip)
      PROVE  Entries' \subseteq Entries
  <2>1. bans[d] \ {ip} \in SUBSET Identity
    BY DEF WatcherTypeOK
  <2>2. Entries' \subseteq Entries \cup (bans[d] \ {ip})
    BY <1>2, <1>4, <2>1 DEF PardonIP
  <2> QED
    BY <2>2 DEF Entries
<1>5. ASSUME NEW d \in Dir, CreateDir(d) \/ WriteBans(d)
      PROVE  Entries' \subseteq Entries
  BY <1>5 DEF CreateDir, WriteBans, Entries
<1>6. CASE \/ (\E r \in RealIP, p \in Proxy : PlayerConnects(r, p))
           \/ TimePasses \/ UNCHANGED allVars
  BY <1>6 DEF PlayerConnects, TimePasses, Entries
<1>7. CASE Scanning \/ ReserveFails
  BY <1>7 DEF Scanning, WatcherBoot, ListDirs, WatchDir, WatchNewDir, ReserveFails, Entries
<1>8. CASE RefreshSnapshot
  <2>1. \A e \in Dir : snapshot'[e] \subseteq snapshot[e] \cup bans[e]
    BY <1>1, <1>8 DEF RefreshSnapshot, WatcherTypeOK
  <2> QED
    BY <1>8, <2>1 DEF RefreshSnapshot, Entries
<1>9. ASSUME NEW d \in Dir, HandleBannedIPs(d)
      PROVE  Entries' \subseteq Entries
  <2>1. \A e \in Dir : snapshot'[e] \subseteq snapshot[e] \cup bans[e]
    BY <1>1, <1>9 DEF HandleBannedIPs, WatcherTypeOK
  <2>2. todo' \subseteq todo \cup bans[d]
    BY <1>1, <1>9 DEF HandleBannedIPs
  <2> QED
    BY <1>9, <2>1, <2>2 DEF HandleBannedIPs, Entries
<1>10. ASSUME NEW ip \in Identity, LookupReverse(ip) \/ LookupFails(ip)
       PROVE  Entries' \subseteq Entries
  BY <1>10 DEF LookupReverse, LookupFails, Entries
<1>11. ASSUME NEW p \in Proxy, ReserveNext(p)
       PROVE  Entries' \subseteq Entries
  BY <1>11 DEF ReserveNext, Entries
<1>12. CASE WatcherCrash
  BY <1>12 DEF WatcherCrash, Entries
<1> QED
  BY <1>3, <1>4, <1>5, <1>6, <1>7, <1>8, <1>9, <1>10, <1>11, <1>12, StepCases
     DEF World, ServerStep

\* Nobody is cleared.
LEMMA CulpritsGrow ==
    ASSUME [WatcherNext]_allVars
    PROVE  culprits \subseteq culprits'
<1> USE DEF serverVars
<1>1. ASSUME NEW d \in Dir, HandleBannedIPs(d)
      PROVE  culprits' = culprits
  BY <1>1 DEF HandleBannedIPs
<1>2. ASSUME NEW ip \in Identity, LookupReverse(ip) \/ LookupFails(ip)
      PROVE  culprits' = culprits
  BY <1>2 DEF LookupReverse, LookupFails
<1>3. ASSUME NEW p \in Proxy, ReserveNext(p)
      PROVE  culprits' = culprits
  BY <1>3 DEF ReserveNext
<1>4. CASE Scanning \/ RefreshSnapshot \/ ReserveFails \/ WatcherCrash
  BY <1>4 DEF Scanning, WatcherBoot, ListDirs, WatchDir, WatchNewDir, RefreshSnapshot,
              ReserveFails, WatcherCrash
<1> QED
  BY <1>1, <1>2, <1>3, <1>4, StepCases, WorldFrame

\* Entries are identities.
LEMMA EntriesTyped ==
    ASSUME WatcherTypeOK
    PROVE  Entries \subseteq Identity
  BY DEF WatcherTypeOK, Entries

\* A new entry belongs to the culprit it was banned for; the old ones are not
\* handed out again.
LEMMA EntriesStep ==
    ASSUME WatcherInv, [WatcherNext]_allVars
    PROVE  EntriesOfCulprits'
<1> SUFFICES ASSUME NoWrap', NEW ip \in Entries'
             PROVE  Issued(ip)' /\ (rmap'[ip] # None => rmap'[ip].real \in culprits')
  BY DEF EntriesOfCulprits
<1>1. [Next]_vars /\ TypeOK
  BY StorePart DEF WatcherInv, IInv
<1>2. NoWrap
  BY <1>1, CountersGrow
<1>3. ASSUME ip \in Entries
      PROVE  Issued(ip)' /\ (rmap'[ip] # None => rmap'[ip].real \in culprits')
  <2>1. ip \in Identity /\ Issued(ip) /\ (rmap[ip] # None => rmap[ip].real \in culprits)
    BY <1>2, <1>3, EntriesTyped DEF WatcherInv, EntriesOfCulprits
  <2>2. Issued(ip)'
    BY <1>1, <2>1, IssuedStays
  <2>3. rmap'[ip] \in {rmap[ip], None}
    BY <1>1, <2>1, NeverReissued
  <2> QED
    BY <2>1, <2>2, <2>3, CulpritsGrow
<1>4. ASSUME NEW r \in RealIP, NEW p \in Proxy, map[r][p] # None, ip = map[r][p],
             UNCHANGED idVars, culprits' = culprits \cup {r}
      PROVE  Issued(ip)' /\ (rmap'[ip] # None => rmap'[ip].real \in culprits')
  <2>1. Issued(ip)
    BY <1>2, <1>4 DEF WatcherInv, IInv, Numbered, Issued
  <2>2. Issued(ip)'
    BY <1>1, <2>1, IssuedStays
  <2>3. rmap[ip] # None => rmap[ip].real = r
    BY <1>2, <1>4 DEF WatcherInv, ReverseNamesOwner
  <2> QED
    BY <1>4, <2>2, <2>3 DEF idVars
<1> QED
  BY <1>3, <1>4, EntriesGrow DEF WatcherInv

\* promoteIdentity looks an entry up, and so finds a culprit.
LEMMA RealStep ==
    ASSUME WatcherInv, [WatcherNext]_allVars
    PROVE  RealIsCulprit'
<1> SUFFICES ASSUME NoWrap', wpc' = "reserve"
             PROVE  real' \in culprits'
  BY DEF RealIsCulprit
<1> USE DEF promoteVars, watchVars, NextEntry
<1>1. NoWrap
  BY StorePart, CountersGrow DEF WatcherInv, IInv
<1>2. ASSUME wpc = "reserve", real' = real
      PROVE  real' \in culprits'
  BY <1>1, <1>2, CulpritsGrow DEF WatcherInv, RealIsCulprit
<1>3. CASE World
  BY <1>2, <1>3, WorldFrame
<1>4. CASE Scanning \/ RefreshSnapshot \/ ReserveFails \/ WatcherCrash
  BY <1>4 DEF Scanning, WatcherBoot, ListDirs, WatchDir, WatchNewDir, RefreshSnapshot,
              ReserveFails, WatcherCrash
<1>5. ASSUME NEW d \in Dir, HandleBannedIPs(d)
      PROVE  wpc' # "reserve"
  BY <1>5 DEF HandleBannedIPs
<1>6. ASSUME NEW ip \in Identity, LookupReverse(ip)
      PROVE  real' \in culprits'
  <2>1. ip \in Entries /\ rmap[ip] # None /\ real' = rmap[ip].real
    BY <1>6 DEF LookupReverse, Entries
  <2> QED
    BY <1>1, <2>1, CulpritsGrow DEF WatcherInv, EntriesOfCulprits
<1>7. ASSUME NEW ip \in Identity, LookupFails(ip)
      PROVE  wpc' # "reserve"
  BY <1>7 DEF LookupFails
<1>8. ASSUME NEW p \in Proxy, ReserveNext(p)
      PROVE  wpc = "reserve" /\ real' = real
  BY <1>8 DEF ReserveNext
<1> QED
  BY <1>2, <1>3, <1>4, <1>5, <1>6, <1>7, <1>8, StepCases

\* So only culprits become permanent.
LEMMA CulpritsStep ==
    ASSUME WatcherInv, [WatcherNext]_allVars
    PROVE  OnlyCulpritsReserved'
<1> SUFFICES ASSUME NoWrap'
             PROVE  reserved' \subseteq culprits'
  BY DEF OnlyCulpritsReserved
<1>1. NoWrap
  BY StorePart, CountersGrow DEF WatcherInv, IInv
<1> QED
  BY <1>1, ReservedBy, CulpritsGrow DEF WatcherInv, OnlyCulpritsReserved, RealIsCulprit

(***************************************************************************)
(* How far promotions have got.                                            *)
(***************************************************************************)
\* A script call with reserve gives the player an identity on that proxy, and
\* takes away none that it has elsewhere.
LEMMA ReserveReaches ==
    ASSUME WatcherInv, [WatcherNext]_allVars, NEW p \in Proxy, ReserveNext(p),
           NEW q \in Proxy, q \notin left \ {p}
    PROVE  real \in reserved' /\ map'[real][q] # None
<1>1. [Next]_vars /\ IInv /\ TypeOK /\ real \in RealIP
  BY StorePart DEF WatcherInv, IInv, ReserveNext, Places
<1>2. RunAssign(real, p, Slot[p], TRUE)
  BY DEF ReserveNext, Reserve
<1>3. real \in reserved'
  BY <1>2 DEF RunAssign, AssignExisting, AssignFresh, Pin
<1>4. map'[real][p] # None
  <2>1. CASE AssignExisting(real, p, TRUE)
    BY <2>1 DEF AssignExisting
  <2>2. CASE AssignFresh(real, p, Slot[p], TRUE)
    <3> DEFINE ip == IdentityOf(Slot[p], counter[p] + 1)
    <3>1. map' = [map EXCEPT ![real] = [@ EXCEPT ![p] = ip]]
      BY <2>2 DEF AssignFresh
    <3>2. counter[p] + 1 \in Nat /\ Slot[p] \in ProxyNum
      BY <1>1, SlotAssumption DEF TypeOK
    <3>3. ip \in Identity
      BY <3>2, IdentityType
    <3>4. ip # None
      BY <3>3, NoneAssumption DEF Identity
    <3> HIDE DEF ip
    <3> QED
      BY <1>1, <3>1, <3>4 DEF TypeOK
  <2> QED
    BY <1>2, <2>1, <2>2 DEF RunAssign
<1>5. CASE q # p
  <2>1. real \in reserved /\ map[real][q] # None
    BY <1>5 DEF WatcherInv, ReserveProgress, ReserveNext
  <2> QED
    BY <1>1, <1>3, <2>1, ReservedStays
<1> QED
  BY <1>3, <1>4, <1>5

\* Every proxy that ReserveForAllProxies has been through has a permanent mapping.
LEMMA ProgressStep ==
    ASSUME WatcherInv, [WatcherNext]_allVars
    PROVE  ReserveProgress'
<1> SUFFICES ASSUME wpc' = "reserve", NEW q \in Proxy, q \notin left'
             PROVE  real' \in reserved' /\ map'[real'][q] # None
  BY DEF ReserveProgress
<1> USE DEF promoteVars, watchVars, NextEntry
<1>1. [Next]_vars /\ IInv
  BY StorePart DEF WatcherInv
<1>2. CASE World
  <2>1. wpc = "reserve" /\ q \notin left /\ real' = real
    BY <1>2, WorldFrame
  <2>2. real \in reserved /\ map[real][q] # None
    BY <2>1 DEF WatcherInv, ReserveProgress
  <2> QED
    BY <1>1, <2>1, <2>2, ReservedStays
<1>3. CASE Scanning \/ RefreshSnapshot \/ ReserveFails \/ WatcherCrash
  BY <1>3 DEF Scanning, WatcherBoot, ListDirs, WatchDir, WatchNewDir, RefreshSnapshot,
              ReserveFails, WatcherCrash
<1>4. ASSUME NEW d \in Dir, HandleBannedIPs(d)
      PROVE  FALSE
  BY <1>4 DEF HandleBannedIPs
<1>5. ASSUME NEW ip \in Identity, LookupReverse(ip) \/ LookupFails(ip)
      PROVE  FALSE
  BY <1>5 DEF LookupReverse, LookupFails
<1>6. ASSUME NEW p \in Proxy, ReserveNext(p)
      PROVE  real' \in reserved' /\ map'[real'][q] # None
  <2>1. left' = left \ {p} /\ real' = real
    BY <1>6 DEF ReserveNext
  <2> QED
    BY <1>6, <2>1, ReserveReaches
<1> QED
  BY <1>2, <1>3, <1>4, <1>5, <1>6, StepCases

\* A file that is complete again has an event to come where it is watched.
LEMMA CurrentStep ==
    ASSUME WatcherInv, [WatcherNext]_allVars
    PROVE  SnapshotCurrent'
<1> SUFFICES ASSUME NEW d \in watched', d \notin pending', disk'[d] = "full",
                    ~(wpc' = "snapshot" /\ cur' = d)
             PROVE  snapshot'[d] = bans'[d]
  BY DEF SnapshotCurrent
<1> USE DEF serverVars, promoteVars, watchVars, allVars, NextEntry
<1>1. WatcherTypeOK /\ d \in Dir
  BY WatcherTypeStep DEF WatcherInv, WatcherTypeOK
<1>2. ASSUME d \in watched, d \notin pending, disk[d] = "full",
             ~(wpc = "snapshot" /\ cur = d),
             snapshot' = snapshot, bans'[d] = bans[d]
      PROVE  snapshot'[d] = bans'[d]
  BY <1>2 DEF WatcherInv, SnapshotCurrent
<1>3. CASE World
  <2>1. UNCHANGED <<wpc, cur, watched, snapshot>>
    BY <1>3, WorldFrame
  <2>2. ASSUME NEW e \in Dir, ServerStep(e)
        PROVE  d \notin pending /\ disk[d] = "full" /\ bans'[d] = bans[d]
    <3>1. CASE CreateDir(e)
      BY <3>1 DEF CreateDir
    <3>2. CASE WriteBans(e)
      BY <1>1, <2>1, <3>2 DEF WriteBans, Notify, WatcherTypeOK
    <3>3. ASSUME NEW list, RewriteBans(e, list)
          PROVE  d \notin pending /\ disk[d] = "full" /\ bans'[d] = bans[d]
      BY <1>1, <2>1, <3>3 DEF RewriteBans, Notify, WatcherTypeOK
    <3> QED
      BY <2>2, <3>1, <3>2, <3>3 DEF ServerStep, BanIP, PardonIP
  <2>3. CASE \/ \E r \in RealIP, p \in Proxy : PlayerConnects(r, p)
             \/ TimePasses \/ UNCHANGED allVars
    BY <1>2, <2>3 DEF PlayerConnects, TimePasses
  <2> QED
    BY <1>2, <1>3, <2>1, <2>2, <2>3 DEF World
<1>4. CASE Scanning
  BY <1>2, <1>4 DEF Scanning, WatcherBoot, ListDirs, WatchDir, WatchNewDir
<1>5. CASE RefreshSnapshot
  <2>1. CASE d = cur
    BY <1>1, <1>5, <2>1 DEF RefreshSnapshot, ReadBannedIPs, WatcherTypeOK
  <2>2. CASE d # cur
    BY <1>1, <1>5, <2>2 DEF WatcherInv, SnapshotCurrent, RefreshSnapshot, WatcherTypeOK
  <2> QED
    BY <2>1, <2>2
<1>6. ASSUME NEW e \in Dir, HandleBannedIPs(e)
      PROVE  snapshot'[d] = bans'[d]
  <2>1. CASE d = e
    BY <1>1, <1>6, <2>1 DEF HandleBannedIPs, Readable, ReadBannedIPs, WatcherTypeOK
  <2>2. CASE d # e
    BY <1>1, <1>6, <2>2 DEF WatcherInv, SnapshotCurrent, HandleBannedIPs, WatcherTypeOK
  <2> QED
    BY <2>1, <2>2
<1>7. ASSUME NEW ip \in Identity, LookupReverse(ip) \/ LookupFails(ip)
      PROVE  snapshot'[d] = bans'[d]
  BY <1>2, <1>7 DEF LookupReverse, LookupFails
<1>8. ASSUME NEW p \in Proxy, ReserveNext(p)
      PROVE  snapshot'[d] = bans'[d]
  BY <1>2, <1>8 DEF ReserveNext
<1>9. CASE ReserveFails
  BY <1>2, <1>9 DEF ReserveFails
<1>10. CASE WatcherCrash
  BY <1>10 DEF WatcherCrash
<1> QED
  BY <1>3, <1>4, <1>5, <1>6, <1>7, <1>8, <1>9, <1>10, StepCases

\* What has had its effect keeps it: the reverse key is that of the same player
\* or gone, and a reserved player keeps its identities.
LEMMA SettledStays ==
    ASSUME WatcherInv, [WatcherNext]_allVars, NoWrap', missed \subseteq missed',
           NEW ip \in Entries, Settled(ip)
    PROVE  Settled(ip)'
<1>1. [Next]_vars /\ IInv /\ TypeOK /\ ip \in Identity /\ Issued(ip)
  BY StorePart, CountersGrow, EntriesTyped DEF WatcherInv, IInv, EntriesOfCulprits
<1>2. rmap'[ip] \in {rmap[ip], None}
  BY <1>1, NeverReissued
<1>3. ASSUME rmap'[ip] = rmap[ip], ReservedEverywhere(rmap[ip].real)
      PROVE  ReservedEverywhere(rmap[ip].real)'
  BY <1>1, <1>3, ReservedStays DEF ReservedEverywhere
<1> QED
  BY <1>2, <1>3 DEF Settled

\* Every entry of a snapshot is settled or will be before the goroutine is back
\* in its loop.
LEMMA SnapshotStep ==
    ASSUME WatcherInv, [WatcherNext]_allVars
    PROVE  SnapshotSettled'
<1> SUFFICES ASSUME NoWrap', NEW d \in Dir, NEW ip \in snapshot'[d]
             PROVE  \/ Settled(ip)'
                    \/ ip \in todo'
                    \/ wpc' = "reserve" /\ rmap'[ip].real = real'
  BY DEF SnapshotSettled
<1> USE DEF serverVars, promoteVars, watchVars, allVars, NextEntry
<1>1. WatcherTypeOK /\ Places /\ NoWrap /\ [Next]_vars /\ TypeOK
  BY StorePart, CountersGrow DEF WatcherInv, IInv
<1>2. ASSUME NEW e \in Dir, ip \in snapshot[e]
      PROVE  ip \in Entries /\ ip \in Identity /\ rmap'[ip] \in {rmap[ip], None}
  <2>1. ip \in Entries /\ ip \in Identity
    BY <1>1, <1>2, EntriesTyped DEF Entries
  <2>2. Issued(ip)
    BY <1>1, <2>1 DEF WatcherInv, EntriesOfCulprits
  <2> QED
    BY <1>1, <2>1, <2>2, NeverReissued
<1>3. ASSUME NEW e \in Dir, ip \in snapshot[e]
      PROVE  \/ Settled(ip)
             \/ ip \in todo
             \/ wpc = "reserve" /\ rmap[ip].real = real
  BY <1>1, <1>3 DEF WatcherInv, SnapshotSettled
<1>4. ASSUME NEW e \in Dir, ip \in snapshot[e], Settled(ip), missed \subseteq missed'
      PROVE  Settled(ip)'
  BY <1>2, <1>4, SettledStays
<1>5. ASSUME ip \in snapshot[d], missed' = missed, todo' = todo,
             wpc = "reserve" => wpc' = wpc /\ real' = real
      PROVE  \/ Settled(ip)'
             \/ ip \in todo'
             \/ wpc' = "reserve" /\ rmap'[ip].real = real'
  <2>1. CASE rmap'[ip] = None
    BY <2>1 DEF Settled
  <2>2. CASE rmap'[ip] = rmap[ip]
    BY <1>3, <1>4, <1>5, <2>2
  <2> QED
    BY <1>2, <1>5, <2>1, <2>2
<1>6. CASE World
  BY <1>5, <1>6, WorldFrame
<1>7. CASE Scanning
  BY <1>5, <1>7 DEF Scanning, WatcherBoot, ListDirs, WatchDir, WatchNewDir
<1>8. CASE RefreshSnapshot
  <2>1. ip \in missed' \/ ip \in snapshot[d]
    BY <1>1, <1>8 DEF RefreshSnapshot, WatcherTypeOK
  <2>2. todo = {} /\ wpc # "reserve" /\ missed \subseteq missed'
    BY <1>1, <1>8 DEF RefreshSnapshot, Places
  <2>3. Settled(ip)'
    BY <1>3, <1>4, <2>1, <2>2 DEF Settled
  <2> QED
    BY <2>3
<1>9. ASSUME NEW e \in Dir, HandleBannedIPs(e)
      PROVE  Settled(ip)' \/ ip \in todo'
  <2>1. todo = {} /\ wpc # "reserve" /\ missed' = missed
    BY <1>1, <1>9 DEF HandleBannedIPs, Places
  <2>2. ip \in todo' \/ ip \in snapshot[e] \/ ip \in snapshot[d]
    BY <1>1, <1>9 DEF HandleBannedIPs, WatcherTypeOK
  <2> QED
    BY <1>3, <1>4, <2>1, <2>2
<1>10. ASSUME NEW i \in Identity, LookupReverse(i)
       PROVE  \/ Settled(ip)'
              \/ ip \in todo'
              \/ wpc' = "reserve" /\ rmap'[ip].real = real'
  <2>1. ip \in snapshot[d] /\ wpc # "reserve" /\ missed' = missed
    BY <1>10 DEF LookupReverse
  <2>2. CASE ip = i
    BY <1>10, <2>2 DEF LookupReverse, idVars
  <2>3. CASE ip # i
    BY <1>3, <1>4, <1>10, <2>1, <2>3 DEF LookupReverse
  <2> QED
    BY <2>2, <2>3
<1>11. ASSUME NEW i \in Identity, LookupFails(i)
       PROVE  Settled(ip)' \/ ip \in todo'
  <2>1. ip \in snapshot[d] /\ wpc # "reserve" /\ missed' = missed \cup {i}
    BY <1>11 DEF LookupFails
  <2>2. CASE ip = i
    BY <2>1, <2>2 DEF Settled
  <2>3. CASE ip # i
    BY <1>3, <1>4, <1>11, <2>1, <2>3 DEF LookupFails
  <2> QED
    BY <2>2, <2>3
<1>12. ASSUME NEW p \in Proxy, ReserveNext(p)
       PROVE  \/ Settled(ip)'
              \/ ip \in todo'
              \/ wpc' = "reserve" /\ rmap'[ip].real = real'
  <2>1. ip \in snapshot[d] /\ missed' = missed /\ todo' = todo
    BY <1>12 DEF ReserveNext
  <2>2. CASE left \ {p} # {}
    BY <1>5, <1>12, <2>1, <2>2 DEF ReserveNext
  <2>3. CASE left \ {p} = {}
    <3>1. real \in reserved' /\ \A q \in Proxy : map'[real][q] # None
      BY <1>12, <2>3, ReserveReaches DEF ReserveNext
    <3>2. rmap[ip].real = real /\ rmap'[ip] = rmap[ip] => Settled(ip)'
      BY <3>1 DEF Settled, ReservedEverywhere
    <3>3. rmap'[ip] = None => Settled(ip)'
      BY DEF Settled
    <3> QED
      BY <1>2, <1>3, <1>4, <2>1, <3>2, <3>3
  <2> QED
    BY <2>2, <2>3
<1>13. CASE ReserveFails
  <2>1. /\ ip \in snapshot[d] /\ missed \subseteq missed' /\ todo' = todo
        /\ ip \in Identity /\ rmap[ip] # None /\ rmap[ip].real = real => ip \in missed'
    BY <1>13 DEF ReserveFails
  <2>2. ip \in Identity
    BY <1>2, <2>1
  <2>3. rmap[ip] = None => Settled(ip)
    BY DEF Settled
  <2>4. ip \in missed' => Settled(ip)'
    BY DEF Settled
  <2> QED
    BY <1>3, <1>4, <2>1, <2>2, <2>3, <2>4
<1>14. CASE WatcherCrash
  BY <1>14 DEF WatcherCrash
<1> QED
  BY <1>6, <1>7, <1>8, <1>9, <1>10, <1>11, <1>12, <1>13, <1>14, StepCases

(***************************************************************************)
(* The theorems.                                                           *)
(***************************************************************************)
\* Before the watcher runs no server has banned anybody.
LEMMA WatcherInitHolds == WatcherInit => WatcherInv
<1> SUFFICES ASSUME WatcherInit
             PROVE  WatcherInv
  OBVIOUS
<1>1. IInv /\ TypeOK
  BY StoreInit DEF WatcherInit, IInv
<1>2. WatcherTypeOK /\ Places
  BY <1>1 DEF WatcherInit, WatcherTypeOK, Places
<1>3. ReverseNamesOwner /\ OnlyCulpritsReserved
  BY DEF WatcherInit, Init, ReverseNamesOwner, OnlyCulpritsReserved
<1>4. Entries = {}
  BY DEF WatcherInit, Entries
<1>5. EntriesOfCulprits /\ RealIsCulprit /\ ReserveProgress /\ SnapshotCurrent /\ SnapshotSettled
  BY <1>4 DEF WatcherInit, EntriesOfCulprits, RealIsCulprit, ReserveProgress,
              SnapshotCurrent, SnapshotSettled
<1> QED
  BY <1>1, <1>2, <1>3, <1>5 DEF WatcherInv

\* What the watcher, the servers' files and the store agree on at every step,
\* with torn files, failed calls, expired keys and crashes.
THEOREM WatcherInvariance == WatcherSpec => []WatcherInv
<1>1. WatcherInv /\ [WatcherNext]_allVars => WatcherInv'
  <2> SUFFICES ASSUME WatcherInv, [WatcherNext]_allVars
               PROVE  WatcherInv'
    OBVIOUS
  <2>1. IInv' /\ ReverseNamesOwner'
    BY StorePart, StoreStep, OwnerStep DEF WatcherInv
  <2>2. WatcherTypeOK' /\ Places'
    BY WatcherTypeStep, PlacesStep DEF WatcherInv
  <2> QED
    BY <2>1, <2>2, EntriesStep, RealStep, CulpritsStep, ProgressStep, CurrentStep,
       SnapshotStep DEF WatcherInv
<1> QED
  BY WatcherInitHolds, <1>1, PTL DEF WatcherSpec

\* The variables of the watcher and of what it watches have their types.
THEOREM WatcherTyped == WatcherSpec => []WatcherTypeOK
<1>1. WatcherInv => WatcherTypeOK
  BY DEF WatcherInv
<1> QED
  BY <1>1, WatcherInvariance, PTL

\* promoteIdentity never pins a player that was not banned under an identity it
\* had, however long ago the entry was written and whatever expired since.
THEOREM OnlyCulprits == WatcherSpec => []OnlyCulpritsReserved
<1>1. WatcherInv => OnlyCulpritsReserved
  BY DEF WatcherInv
<1> QED
  BY <1>1, WatcherInvariance, PTL

\* Whenever handleBannedIPs is through with a complete file, each entry whose
\* reverse key is there is reserved on every proxy, unless it was passed over.
THEOREM IdleReserved == WatcherSpec => []IdleMeansReserved
<1>1. ASSUME WatcherInv, NoWrap, NEW d \in Dir, Idle(d),
             NEW ip \in bans[d], ip \notin missed, rmap[ip] # None
      PROVE  ReservedEverywhere(rmap[ip].real)
  <2>1. ip \in snapshot[d]
    BY <1>1 DEF WatcherInv, SnapshotCurrent, Idle
  <2>2. todo = {} /\ wpc # "reserve"
    BY <1>1 DEF WatcherInv, Places, Idle
  <2> QED
    BY <1>1, <2>1, <2>2 DEF WatcherInv, SnapshotSettled, Settled
<1>2. WatcherInv => IdleMeansReserved
  BY <1>1 DEF IdleMeansReserved
<1> QED
  BY <1>2, WatcherInvariance, PTL

=================================================================================
