------------------------------- MODULE BanWatcher -------------------------------
(***************************************************************************)
(* The ban side of mcwatcher (internal/watcher/watcher.go) over the        *)
(* identity store: game servers rewrite banned-ips.json, the file system   *)
(* queues events, and one goroutine diffs each file against its snapshot   *)
(* and makes the identities behind new entries permanent on every proxy.   *)
(***************************************************************************)
EXTENDS Assignment

CONSTANTS
    Dir,            \* server directories under volumes_root
    RedisMayFail    \* may a call of the watcher to Redis fail?

ASSUME RedisAssumption == RedisMayFail \in BOOLEAN

VARIABLES
    created,    \* directories that exist
    bans,       \* bans[d]: the list the server of d writes
    disk,       \* disk[d]: how much of it is in banned-ips.json
    wpc,        \* where the goroutine of Service.Start is
    scan,       \* directories addWatches has not visited
    cur,        \* directory being added
    watched,    \* directories with an inotify watch
    born,       \* Create events of directories, not handled
    pending,    \* directories with unhandled events of banned-ips.json
    snapshot,   \* ipSnapshot
    todo,       \* newEntries still to promote
    real,       \* real_ip of the entry being promoted
    left,       \* proxies ReserveForAllProxies has not reached
    culprits,   \* history: players banned under an identity they had
    missed      \* history: entries the watcher passed over

idVars == <<map, mapTtl, rmap, rmapTtl, reserved, counter>>
serverVars == <<created, bans, disk, culprits>>
promoteVars == <<todo, real, left, missed>>
watchVars == <<wpc, scan, cur, watched, born, pending, snapshot>>
allVars == <<idVars, serverVars, promoteVars, watchVars>>

NoDir == None

WatcherTypeOK ==
    /\ TypeOK
    /\ created \subseteq Dir
    /\ bans \in [Dir -> SUBSET Identity]
    /\ disk \in [Dir -> {"missing", "empty", "torn", "full"}]
    /\ wpc \in {"down", "list", "scan", "snapshot", "loop", "promote", "reserve"}
    /\ scan \subseteq Dir /\ watched \subseteq created
    /\ cur \in Dir \cup {NoDir}
    /\ born \subseteq created /\ pending \subseteq watched
    /\ snapshot \in [Dir -> SUBSET Identity]
    /\ todo \subseteq Identity
    /\ real \in RealIP \cup {None}
    /\ left \subseteq Proxy
    /\ culprits \subseteq RealIP /\ missed \subseteq Identity

WatcherInit ==
    /\ Init
    /\ created \in SUBSET Dir
    /\ bans = [d \in Dir |-> {}]
    /\ disk = [d \in Dir |-> "missing"]
    /\ wpc = "down"
    /\ scan = {} /\ cur = NoDir
    /\ watched = {} /\ born = {} /\ pending = {}
    /\ snapshot = [d \in Dir |-> {}]
    /\ todo = {} /\ real = None /\ left = {}
    /\ culprits = {} /\ missed = {}

(***************************************************************************)
(* The game servers, the players and the proxies.                          *)
(***************************************************************************)
\* fsnotify reports a change of a file in a watched directory.  The handler
\* reads the file when it runs, so one pending event stands for several.
Notify(d) == pending' = IF d \in watched THEN pending \cup {d} ELSE pending

\* A new volume; the watch on volumes_root reports it.
CreateDir(d) ==
    /\ d \notin created
    /\ created' = created \cup {d}
    /\ born' = IF wpc = "down" THEN born ELSE born \cup {d}
    /\ UNCHANGED <<idVars, bans, disk, culprits, promoteVars,
                   wpc, scan, cur, watched, pending, snapshot>>

\* The server changes its list and starts to rewrite the file: truncation.
RewriteBans(d, list) ==
    /\ d \in created
    /\ disk[d] \in {"missing", "full"}
    /\ bans' = [bans EXCEPT ![d] = list]
    /\ disk' = [disk EXCEPT ![d] = "empty"]
    /\ Notify(d)
    /\ UNCHANGED <<idVars, created, promoteVars,
                   wpc, scan, cur, watched, born, snapshot>>

\* It bans the address of a player it sees through some proxy.
BanIP(d, r, p) ==
    /\ map[r][p] # None
    /\ map[r][p] \notin bans[d]
    /\ RewriteBans(d, bans[d] \cup {map[r][p]})
    /\ culprits' = culprits \cup {r}

PardonIP(d, ip) ==
    /\ ip \in bans[d]
    /\ RewriteBans(d, bans[d] \ {ip})
    /\ UNCHANGED culprits

\* The rest of the rewrite, in one write or two.
WriteBans(d) ==
    /\ \/ disk[d] = "empty" /\ disk' = [disk EXCEPT ![d] = "torn"]
       \/ disk[d] \in {"empty", "torn"} /\ disk' = [disk EXCEPT ![d] = "full"]
    /\ Notify(d)
    /\ UNCHANGED <<idVars, created, bans, culprits, promoteVars,
                   wpc, scan, cur, watched, born, snapshot>>

PlayerConnects(r, p) ==
    /\ Assign(r, p)
    /\ UNCHANGED <<serverVars, promoteVars, watchVars>>

TimePasses ==
    /\ Tick
    /\ UNCHANGED <<serverVars, promoteVars, watchVars>>

(***************************************************************************)
(* The watcher.                                                            *)
(***************************************************************************)
Readable(d) == disk[d] \in {"empty", "full"}
ReadBannedIPs(d) == IF disk[d] = "full" THEN bans[d] ELSE {}

\* Service.Start up to the watch on volumes_root.
WatcherBoot ==
    /\ wpc = "down"
    /\ wpc' = "list"
    /\ UNCHANGED <<idVars, serverVars, promoteVars,
                   scan, cur, watched, born, pending, snapshot>>

\* addWatches: ReadDir.  A directory made since the watch is also in born.
ListDirs ==
    /\ wpc = "list"
    /\ wpc' = IF created = {} THEN "loop" ELSE "scan"
    /\ scan' = created
    /\ UNCHANGED <<idVars, serverVars, promoteVars,
                   cur, watched, born, pending, snapshot>>

\* addWatches: fsw.Add of the next directory.
WatchDir(d) ==
    /\ wpc = "scan"
    /\ d \in scan
    /\ scan' = scan \ {d}
    /\ watched' = watched \cup {d}
    /\ cur' = d
    /\ wpc' = "snapshot"
    /\ UNCHANGED <<idVars, serverVars, promoteVars, born, pending, snapshot>>

\* handleEvent on the Create event of a directory: fsw.Add.
WatchNewDir(d) ==
    /\ wpc = "loop"
    /\ d \in born
    /\ born' = born \ {d}
    /\ watched' = watched \cup {d}
    /\ cur' = d
    /\ wpc' = "snapshot"
    /\ UNCHANGED <<idVars, serverVars, promoteVars, scan, pending, snapshot>>

\* refreshSnapshots: whatever the file holds by now counts as seen.  A file
\* that does not exist is an empty list, one that does not parse is skipped.
RefreshSnapshot ==
    /\ wpc = "snapshot"
    /\ snapshot' = IF disk[cur] = "torn" THEN snapshot
                   ELSE [snapshot EXCEPT ![cur] = ReadBannedIPs(cur)]
    /\ missed' = missed \cup ReadBannedIPs(cur)
    /\ cur' = NoDir
    /\ wpc' = IF scan = {} THEN "loop" ELSE "scan"
    /\ UNCHANGED <<idVars, serverVars, todo, real, left,
                   scan, watched, born, pending>>

\* handleBannedIPs: the snapshot moves before anything is promoted.
HandleBannedIPs(d) ==
    /\ wpc = "loop"
    /\ d \in pending
    /\ pending' = pending \ {d}
    /\ IF Readable(d)
       THEN /\ snapshot' = [snapshot EXCEPT ![d] = ReadBannedIPs(d)]
            /\ todo' = ReadBannedIPs(d) \ snapshot[d]
            /\ wpc' = IF todo' = {} THEN "loop" ELSE "promote"
       ELSE UNCHANGED <<snapshot, todo, wpc>>
    /\ UNCHANGED <<idVars, serverVars, scan, cur, watched, born, real, left, missed>>

\* The next entry, or the loop when the handler has none left.
NextEntry(entries) == wpc' = IF entries = {} THEN "loop" ELSE "promote"

\* Mutants of LookupReverse: the answer's proxy is taken for its player; the
\* reverse key of any proxy with that host part.
LookupReverseProxy(ip) ==
    /\ wpc = "promote"
    /\ ip \in todo
    /\ rmap[ip] # None
    /\ todo' = todo \ {ip}
    /\ real' = rmap[ip].proxy
    /\ left' = Proxy
    /\ wpc' = "reserve"
    /\ UNCHANGED <<idVars, serverVars, missed, scan, cur, watched, born, pending, snapshot>>

LookupReverseByHost(ip) ==
    /\ wpc = "promote"
    /\ ip \in todo
    /\ \E num \in ProxyNum : /\ rmap[<<num, ip[2]>>] # None
                            /\ real' = rmap[<<num, ip[2]>>].real
    /\ todo' = todo \ {ip}
    /\ left' = Proxy
    /\ wpc' = "reserve"
    /\ UNCHANGED <<idVars, serverVars, missed, scan, cur, watched, born, pending, snapshot>>

\* promoteIdentity: LookupReverse finds the player, ListProxies the proxies.
LookupReverse(ip) ==
    /\ wpc = "promote"
    /\ ip \in todo
    /\ rmap[ip] # None
    /\ todo' = todo \ {ip}
    /\ real' = rmap[ip].real
    /\ left' = Proxy
    /\ wpc' = "reserve"
    /\ UNCHANGED <<idVars, serverVars, missed, scan, cur, watched, born, pending, snapshot>>

\* Either call fails: the entry is dropped, and the snapshot already has it.
LookupFails(ip) ==
    /\ wpc = "promote"
    /\ ip \in todo
    /\ rmap[ip] = None \/ RedisMayFail
    /\ todo' = todo \ {ip}
    /\ missed' = missed \cup {ip}
    /\ NextEntry(todo')
    /\ UNCHANGED <<idVars, serverVars, real, left,
                   scan, cur, watched, born, pending, snapshot>>

\* Mutant of ReserveNext: one proxy is enough.
ReserveOne(p) ==
    /\ wpc = "reserve"
    /\ p \in left
    /\ Reserve(real, p)
    /\ left' = {} /\ real' = None
    /\ NextEntry(todo)
    /\ UNCHANGED <<serverVars, todo, missed, scan, cur, watched, born, pending, snapshot>>

\* ReserveForAllProxies, one script call (the code sorts the proxies; the
\* order is left open here).
ReserveNext(p) ==
    /\ wpc = "reserve"
    /\ p \in left
    /\ Reserve(real, p)
    /\ left' = left \ {p}
    /\ IF left' = {} THEN real' = None /\ NextEntry(todo) ELSE UNCHANGED <<real, wpc>>
    /\ UNCHANGED <<serverVars, todo, missed, scan, cur, watched, born, pending, snapshot>>

ReserveFails ==
    /\ wpc = "reserve"
    /\ RedisMayFail
    /\ left' = {}
    /\ real' = None
    /\ missed' = missed \cup {ip \in Identity : rmap[ip] # None /\ rmap[ip].real = real}
    /\ NextEntry(todo)
    /\ UNCHANGED <<idVars, serverVars, todo,
                   scan, cur, watched, born, pending, snapshot>>

WatcherCrash ==
    /\ wpc # "down"
    /\ wpc' = "down"
    /\ scan' = {} /\ cur' = NoDir
    /\ watched' = {} /\ born' = {} /\ pending' = {}
    /\ snapshot' = [d \in Dir |-> {}]
    /\ todo' = {} /\ real' = None /\ left' = {}
    /\ UNCHANGED <<idVars, serverVars, missed>>

ScanStep == ListDirs \/ (\E d \in Dir : WatchDir(d)) \/ RefreshSnapshot

PromoteStep ==
    \/ \E ip \in Identity : LookupReverse(ip) \/ LookupFails(ip)
    \/ \E p \in Proxy : ReserveNext(p)
    \/ ReserveFails

ServerStep(d) ==
    \/ CreateDir(d) \/ WriteBans(d)
    \/ \E r \in RealIP, p \in Proxy : BanIP(d, r, p)
    \/ \E ip \in Identity : PardonIP(d, ip)

WatcherNext ==
    \/ \E d \in Dir : ServerStep(d) \/ WatchNewDir(d) \/ HandleBannedIPs(d)
    \/ \E r \in RealIP, p \in Proxy : PlayerConnects(r, p)
    \/ TimePasses \/ WatcherBoot \/ ScanStep \/ PromoteStep \/ WatcherCrash

WatcherSpec == WatcherInit /\ [][WatcherNext]_allVars

(***************************************************************************)
(* The goroutine keeps running while it has something to do, events are    *)
(* delivered in the order they were queued, and a server finishes a write  *)
(* it has begun.                                                           *)
(***************************************************************************)
WatcherFair ==
    /\ WatcherSpec
    /\ WF_allVars(WatcherBoot)
    /\ WF_allVars(ScanStep)
    /\ WF_allVars(PromoteStep)
    /\ \A d \in Dir : /\ SF_allVars(HandleBannedIPs(d))
                      /\ SF_allVars(WatchNewDir(d))
                      /\ WF_allVars(WriteBans(d) /\ disk'[d] = "full")

(***************************************************************************)
(* Properties.                                                             *)
(***************************************************************************)
\* Only players that were banned under an identity they had become permanent:
\* an expired or reissued reverse key never pins somebody else.
OnlyCulpritsReserved == NoWrap => reserved \subseteq culprits

\* Reserved on every proxy: wherever the player comes back, the identity is
\* the one the watcher made permanent.
ReservedEverywhere(r) == r \in reserved /\ \A p \in Proxy : map[r][p] # None

\* Nothing is left to do for this directory.
Idle(d) ==
    /\ wpc = "loop" /\ d \in watched /\ d \notin pending
    /\ disk[d] = "full"

\* Whenever the watcher is idle on a complete file, every entry of it whose
\* reverse key is still there has been reserved on every proxy, whatever torn
\* or empty versions of the file were read before: the only entries without
\* effect are those of missed, found on disk by refreshSnapshots or dropped
\* after a failed call to Redis.
IdleMeansReserved ==
    NoWrap => \A d \in Dir : Idle(d) =>
        \A ip \in bans[d] \ missed :
            rmap[ip] # None => ReservedEverywhere(rmap[ip].real)

\* docs/DEPLOYMENT.md, watcher identity propagation check: banned-ips.json
\* contains the internal IP, "watcher should then reserve mappings across all
\* registered proxies".  Here the watcher stays up from some time on.
BannedIsReserved ==
    \A d \in Dir, ip \in Identity, r \in RealIP :
        <>[](wpc # "down" /\ disk[d] = "full" /\ ip \in bans[d]
             /\ rmap[ip] # None /\ rmap[ip].real = r)
            => <>ReservedEverywhere(r)

=================================================================================
