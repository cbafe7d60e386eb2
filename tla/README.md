# sidero-proxy: a TLA+ model with proofs

sidero-proxy puts Minecraft servers behind regional TCP proxies that keep the
backend's view of a player stable and player-specific: every real IP gets an
internal identity 10.n.x.y, per proxy, which the proxy dials with and which
the kernel translates packets to. A watcher next to the game servers turns bans
of identities into permanent reservations, and a DNS controller moves hostnames
between regions.

This directory holds the model of that code: what is modelled, what TLC checks
on small instances and what TLAPS proves for all of them.

## The system

| Component | Code | State | Operations | Talks to |
|---|---|---|---|---|
| connection handler | `internal/router`, `internal/forwarder` | one goroutine per connection | accept, assign, NAT add, route, dial, relay, NAT delete | identity store (Redis), NAT manager, clients, backends |
| NAT manager | `internal/nat` (`NATManager`) | `refs`: real IP to identity and count; the kernel's `nat_map` | Ensure, Add, Delete | kernel; all handlers share it under a mutex |
| identity store | `internal/assignment` | `map:`, `rmap:`, `reserved:real`, counters, TTLs in Redis | Assign, ReserveForAllProxies, LookupReverse | all proxies, the watcher |
| ban watcher | `internal/watcher/watcher.go` | file system watches, one snapshot per directory | watch, snapshot, diff, promote | files of the game servers, identity store, proxy registry |
| node DNAT | `internal/watcher/docker.go`, `nosnat.go`, `watchDocker`, `NodeDNATManager` | nftables and iptables rules of the node; the event stream, one buffered trigger | resolve containers, replace destinations and exemptions, wait for a trigger or the ticker | Docker, kernel |
| registration and start | `internal/registration`, `cmd/proxy` | registry and slot counter in Redis, routes and tables of the host | register, ensure, listen | Redis, kernel, systemd |
| health endpoint | `internal/health` | the ready flag | check | kernel, Redis; probed by the controller |
| DNS failover | `internal/failover` | health and fallback state per region, in memory | probe, decide, list, delete, create | health endpoints, DNS API |
| prefilter | `internal/filter` | nftables tables | Ensure (Block and Unblock have no caller) | kernel |
| handshake parser | `internal/minecraft` | what it has read of one packet | read, parse, normalize | the client's stream, the router |
| config, dialer, origdst | `config`, `source`, `origdst` | none | validate; one system call each | |

Components share Redis (proxies and watcher), the kernel tables (one process
now, its predecessor before) and DNS. Nothing is transactional across them.

What is hard here, and what each component owes (PROJECT.json `hazards` gives
the lines):

* NAT manager and handlers: interleaved adds and deletes of one player, kernel
  operations that fail, six exits from the handler, a process that ends without
  its deferred calls, a kernel map that survives it. Owed: a live connection's
  identity stays installed; an element goes only with the last connection; no
  path forgets its Delete.
* identity store: keys with different TTLs that expire while connections live,
  several proxies and the watcher writing one hash, counters that wrap. Owed:
  one identity, one player; reverse keys that are current; reservations that
  are permanent.
* watcher: a file rewritten in several writes, events that stand for several
  changes, a snapshot that moves before the work is done, restarts. Owed: only
  the banned are reserved; an idle watcher has dealt with what it saw.
* start: partial setups repeated over one another, concurrent first starts.
  Owed: disjoint subnets; a healthy host is complete; starts are repeatable.
* node DNAT: Docker changes between any two commands of a round, commands fail
  between a flush and its rules, triggers coalesce, the event stream starts late
  and may end. Owed: an idle goroutine with a living stream has installed what
  Docker has; the two tables agree; failed rounds are made good.
* handshake and routing: a stream in any pieces, a deadline between any two
  bytes, names in any spelling. Owed: the backend gets every byte once; a whole
  handshake is understood; a name leads to a server that lists it.
* failover: rounds cut short between API calls, flapping regions, a restart
  without memory. Owed: no mixed answers; no early failback; convergence.

## The modules

| Module | Models | Built on |
|---|---|---|
| `SnatLease` | abstract: a lease of one identity per player with open sessions | |
| `ProxyConn` | handlers, NAT manager, kernel map, process lifecycle | implements `SnatLease` |
| `ProxyConnProofs` | its theorems | `ProxyConn`, `TLAPS` |
| `Assignment` | assign.lua and expiry over the Redis keys | |
| `AssignmentProofs` | its theorems | `Assignment`, `TLAPS` |
| `PlayerSessions` | the handlers of one proxy asking the identity store | `ProxyConn`, INSTANCE `Assignment` |
| `PlayerSessionsProofs` | its theorems | `PlayerSessions`, `ProxyConnProofs`, INSTANCE `AssignmentProofs` |
| `BanWatcher` | game servers, file events, the watcher goroutine | `Assignment` |
| `BanWatcherProofs` | its theorems | `BanWatcher`, `AssignmentProofs` |
| `Failover` | the controller, the regions, the DNS records | |
| `FailoverProofs` | its theorems | `Failover`, `TLAPS` |
| `Bootstrap` | Register and main of several hosts | |
| `BootstrapProofs` | its theorems | `Bootstrap`, `TLAPS` |
| `NodeDNAT` | Docker, its event stream, the goroutine that reconciles, the kernel's two chains | |
| `NodeDNATProofs` | its theorems | `NodeDNAT`, `TLAPS` |
| `Handshake` | the first packet as functions of byte sequences | |
| `Ingress` | one connection from its first byte to the relay; configuration and routes | `Handshake` |
| `IngressProofs` | theorems about both | `Ingress`, `TLAPS` |

`MC*` modules give TLC the constants that a cfg cannot write. Definitions whose
comment starts with "Mutant of" are variants of the definition they precede;
they are not part of any specification and serve to show that a property of a
run depends on the code it is about.

### ProxyConn

`pc[c]` is the position in `handleConn`: idle, assign (waiting for Redis), natAdd
(before `nat.Add`), route (original destination, handshake, server), dial,
write, relay, release (the deferred `nat.Delete`). `NATManager.Add` and `Delete`
hold the mutex across the kernel call, so each outcome is one action: `AddRef`,
`AddElement`, `AddErr`; `DropRef`, `DropElement`, `DropErr`. `natMap`
is the kernel's: `ProcessGone` clears `refs` and the handlers and leaves it, a
reboot clears it. main uses the native netlink runner, whose errors carry Go's
errno texts. "File exists" and "No such file" are not among them in that
spelling, so a clash and a missing element are errors (`AddErr`, `DropErr`); the
kernel accepts an element that is there with the same value. `Exit` follows
`Start`, which waits for the accept loop alone.

### Assignment

One action per way through the script, as `RunAssign` with `AssignExisting` and
`AssignFresh`; Redis runs it atomically. TTLs are counted in ticks and `Tick` is
the passing of time for all keys. `EXPIRE` on the hash covers the fields of all
proxies; `SET` clears the TTL of the reverse key, `HSET` keeps that of the hash.
`Wrap` stands for 65536 and `MaxCount` bounds the counters.

### PlayerSessions

`ProxyConn` with `AssignOk` closed by the store: the script runs and the answer
arrives or is lost, in one step; expiry and the watcher's `Reserve` interleave
with everything.

### BanWatcher

A server truncates its file, writes some of it and writes all of it; each is an
event. Pending events of one file are one entry of `pending`, since the handler
reads the file when it runs. `wpc` is the goroutine's place: list and scan
(`addWatches`), snapshot (`refreshSnapshots`), loop, promote (per entry), reserve
(per proxy). `culprits` and `missed` are history: who was banned under an
identity he had, and which entries the watcher passed over. Directories are
created but never removed.

### Failover

`pc` follows `Reconcile` for the first hostname of `left`; every API call is a step
that succeeds or fails (`DNSError`), and a failing one may have taken effect.
Probe and clock reading of one hostname are one step. Ages beyond `Window` are
all alike. `trouble` is the environment: while it lasts, regions flap, calls
fail and the process dies; it may end (`Calm`) and need not. A call that
is never answered is a behaviour that stays `Calling`. Records are sets,
so one address configured twice for a region is not represented, nor is a
request that takes effect after the process that sent it was replaced.

### Bootstrap

`Register` as HGET, INCR and HSET; then route, and nat, filter and intercept
tables in two halves each (flushed, complete). `Panic` is the failure of any step;
what was done stays. `IdOf` may give two hosts one id; the properties about a
subnet of one's own ask for hosts with an id of their own.

### NodeDNAT

`attached[c]` are the addresses Docker has given container `c`, `{}` when it is
down; what it publishes (`Bindings`) is fixed. `wpc` is the place of the one
goroutine that reconciles: main's in the first round (`boot`), that of
`watchDocker` afterwards. A round is `docker ps` (`ListContainers`), one `Inspect` per
container, since `docker inspect` reads each object when its turn comes, `Flush`
and one `AddRule` per port (`EnsureDestinations`), then `EnsureJump`, `ClearExempt`
and one `AddExempt` per network (`NoSNATManager.Ensure`). `RoundFails` is any command
that fails, and leaves the kernel as it is at that point. Networks keep their
subnets, so a network stands for its subnet.

The stream is none, starting (the command runs and is not subscribed yet),
live or ended. Docker sends connect and disconnect with the type network,
and `Events` drops what is not of type container, so a change of networks never
triggers; nor does one that happens before the stream is live. `unseen`
remembers such changes since the last `docker ps`: they are found by the ticker
alone. When the stream ends `Events` closes both channels: a receive from `triggerCh`
returns at once (`ClosedTrigger`), one from `errCh` ends the goroutine for good
(`WatcherReturns`); `select` takes either.

### Handshake and Ingress

A byte is a digit below `Base` and a continuation bit; `Base` is 128 and `Groups`, the
longest VarInt, 5 in the code, 4 and 2 in the run. Parsers return sets: one
value and the place behind it, or nothing. `ReadLengthByte` is one turn of
`readVarInt`, `ReadBody` one read of `io.ReadFull`, `ReadFails` the deadline or the end
of the stream; a result `Fail` stands for every error. `Candidates` are the
servers that would win a key of `backendByHostname` or `backendByIP`, of which the last
does. `setup` is the part of main that hands the servers' addresses to
`filter.Ensure`. VarInts wider than an int do not occur at 5 bytes and 64 bits, so
the code's checks for negative values never apply and are left out.

What the code does and no property forbids:

* Of a handshake that fails, the bytes read are lost; a connection that is then
  routed by its address forwards the rest.
* Of two servers with one hostname or address the later one wins.
* A configured hostname `.` passes `Validate` and catches clients that give no name.
  So does one with a NUL before its first letter: `Validate` only trims, and
  `NormalizeHostname` cuts at the NUL. `NamelessGoesByAddress` excludes exactly these
  (`NamesNothing`); the second came to light when its proof did not go through.
* A server with hostnames and no address passes `Validate`, whose error text
  (config.go:134) asks for an address or hostnames. Then `filter.Ensure` gets an
  element list that begins with an empty element, so no start succeeds.

## Fairness

* Handlers (`FairSpec`, `FairSessions`): weak fairness for every step but the
  relay's. Redis calls have 5 s timeouts, the mutex hands over, the handshake
  has a 5 s deadline and a connect times out; the write of the handshake, which
  has no deadline, is small and assumed to return. The relay has no idle timeout
  in the code, hence no fairness. Nothing makes a client connect, SIGTERM arrive
  or a stopping process end.
* `WatcherFair`: the goroutine goes on while it has something to do (weak); the
  events of a directory are delivered, being queued in order (strong, since the
  loop is busy in between); a server finishes a write it began.
* NodeDNAT: the ticker fires, commands return and Restart=always. Commands have no
  timeout in the code: one that hangs hangs the reconciliation, which the fairness
  excludes. Nothing is asked of the event stream.
* Ingress: a read of the handshake returns by the 5 s deadline, a connect times
  out, and the small write of the handshake to the backend returns, which nothing
  in the code bounds. Bytes need not arrive.
* Failover: Restart=always, the ticker, the probes, whose client has a timeout of
  3 s, and time. The calls of the DNS API are not fair: `NewCloudflareClient` builds
  a client without a timeout and the context of `Run` has no deadline, so a call that
  is never answered stops `Reconcile`, failover included, until the process is ended
  from outside. `Settles` therefore speaks of the behaviours in which calls return.
* Bootstrap: Restart=always and commands that return.

## The runs

| Run | Bounds | Shows |
|---|---|---|
| `proxy_conn` | 3 connections, 2 players, 2 identities, failing kernel | `RefCountCoversHolders`, `LiveIdentityInstalled`, `ElementPinned`, and that the module implements `SnatLease` |
| `player_sessions` | 2 connections, 2 players, 1 proxy, TTL 1, 3 identities | `BackendSeesOnePlayer`, `ElementsNameOnePlayer`, `QuietPlayerReleased` |
| `assignment` | 2 players, 2 proxies, TTL 2, Wrap 4 | `IdentityUnique`, `ReverseIsCurrent`, `ReservedIsPermanent` |
| `ban_watcher` | 2 players (symmetric), 2 proxies, 1 directory, 2 and 1 identities, TTL 1, failing Redis | `OnlyCulpritsReserved`, `IdleMeansReserved` |
| `failover` | 2 hostnames of a region with 2 addresses, a fallback, window of 2 ticks | `OneRegionAnswers`, `FailbackWaits`, `HostnameDone`, `Settles` |
| `bootstrap` | 2 proxies, 3 slots | `SubnetsDisjoint`, `ServesRegisteredSubnet`, `HealthyIsComplete`, `ComesUp` |
| `node_dnat` | 2 containers, 2 networks with one address each, 2 ports among 5 bindings | `QuietMeansCurrent`, `TranslatedIsExempt`, `Converges` |
| `ingress` | 7 configurations, 2 addresses, 8 hosts, `Base` 4, `Groups` 2, one damaged byte in the packets of 2 hosts | `NothingLost`, `IntactIsUnderstood`, `RoutedAsConfigured`, `NamelessGoesByAddress`, `Decided` |

Why these are enough to be interesting: three connections let one player have
two live handlers while a third comes or a failed delete lingers, with a second
player beside it; TTLs of one and two ticks let a key expire before, during and
after a connection and between two calls; `Wrap` 4 lets a counter wrap, after
which the properties that assume `NoWrap` are silent; two proxies let a
reservation stop half way; a window of two ticks has an inside and a boundary;
two addresses and two hostnames let a round stop inside a name and between
names; three slots let two proxies start, one of them again; one address per
network lets a container come back with the other's address within a round, on
either network or both; hosts of up to four bytes make packets whose length has
one and two bytes, with a length that does not fit in between, and a `Groups` of 2
makes the longest VarInt occur. Deadlock is checked everywhere but in `bootstrap`,
where all hosts may be serving with nothing left to go wrong, in `node_dnat`, where
the goroutine may be gone for good, and in `ingress`, where a connection ends;
`ComesUp`, `Converges` and `Decided` say more there.

Four runs find what a document promises to be violated by the code:

| Run | What the code does |
|---|---|
| `sessions_same_ip` | A live connection does not renew its identity's TTL; once it expires, the player's next connection gets a new identity and `NATManager.Add` refuses it while the first lives. DEPLOYMENT.md: "both connections succeed". |
| `sessions_stale` | `nat_map` keeps elements of a process that ended; a player whose identity changed since is refused. Stage 06: "first live connection for a real IP adds the nftables element". |
| `ban_missed` | Bans in the file when the first snapshot is taken are never promoted. DEPLOYMENT.md: "watcher should then reserve mappings across all registered proxies". |
| `failover_restart` | The fallback state is not persisted: after a restart failback is immediate. DEPLOYMENT.md: "the controller waits for the failback window". |

## What is proved

Every invariant and every action property that a run checks is a theorem too. The
argument is the same everywhere: an inductive invariant that contains the
property or implies it, one lemma per group of actions that can disturb a part
of it, and a last step in temporal logic. Conjuncts are named for what they say.

For every finite set of connections, every set of players and identities, and
with or without kernel failures (`ProxyConnProofs`):

* `TypeCorrect`, and `Invariance`: `IInv` is inductive. `RefCountCoversHolders` is
  not inductive alone: that the last holder is the one that deletes needs the
  count to be exact up to the one leaked reference, which needs every holder's
  address (`ConnTyped`); that `AddRef` under an existing entry leaves the
  right element needs `HoldersAgree` (holders have the entry's identity) and
  `EntriesInKernel` (an entry is what the kernel holds).
* `RefCounting`, `IdentityInstalled` and `Pinned` follow: the first is a conjunct,
  the second joins `HoldersAgree` and `EntriesInKernel`, the third is an action
  property proved step by step from them.
* `ImplementsLease`: the initial state is a lease's, every action is `Acquire`,
  `Release`, `Drop` or a stutter under `users[r]` = the handlers that owe a
  Delete, `element` = `natMap`.

For every set of players and proxies, any TTLs, any number of identities
(`AssignmentProofs`):

* `StoreTyped`, `StoreInvariant`, `Uniqueness`, `ReverseCurrency`, `ReservedForever`.
  Uniqueness needs `Numbered`: every mapping's host part is a value its proxy's
  counter has passed. Currency of reverse keys needs that they run out first
  (`ReverseExpiresFirst`), which needs the hash of an unreserved player to have a
  TTL (`MapTimed`), and is stated for proxies with one ip_ttl_seconds.
* `ReverseOwner` (`ReverseNamesOwner`) asks for no common TTL: with different ones a
  reverse key may outlive its mapping, but never names a player other than the one
  that has the identity.

For the handlers over that store (`PlayerSessionsProofs`):

* `ImplementsProxyConn` and `ImplementsAssignment`: every step is one of each component
  or leaves it as it is, so that all of the above holds for the composition. The
  first needs that assign.lua answers identities of the store's type.
* `OnePlayerPerAddress` (`BackendSeesOnePlayer`) and `ElementsApart` (`ElementsNameOnePlayer`,
  the same of the kernel's `nat_map`, with what ended processes and failed deletes
  left in it). Neither component's invariant says it: an identity may expire in Redis
  under a live connection or a forgotten element, and then nothing in the store keeps
  it from being given away but the counter. `UsedIdentities` does: what a handler or
  the kernel has (`Used`) has been numbered already, is mapped to nobody else, and is
  in use for no other player. A fresh identity has a number above all of these.

For every set of players, proxies, server directories and TTLs, with torn files,
failing calls and crashes (`BanWatcherProofs`, upon the invariant of
`AssignmentProofs`):

* `WatcherTyped`, `OnlyCulprits`, `IdleReserved`. That no innocent player is pinned needs
  what stale entries may still mean: `EntriesOfCulprits` says of each entry that a
  file, a snapshot or the list of the handler holds that its identity was handed out
  and, while its reverse key is there, names a culprit. `ReverseOwner` keeps that true
  when the player connects again. `IdleReserved` needs the snapshot to
  be the file where no event is on its way (`SnapshotCurrent`) and every entry of it to
  be settled, in the list, or being reserved (`SnapshotSettled`, `ReserveProgress`).

For any regions, hostnames, addresses and windows (`FailoverProofs`):

* `NeverMixed` (`OneRegionAnswers`) and `DoneIsExact` (`HostnameDone`): `RecordsOnTheWay` says how
  far the records of the hostname at hand are at each API call, whichever of them
  failed before or after it took effect.
* `FailbackAfterWindow` (`FailbackWaits`): the age of HealthySince never exceeds the time
  since a probe of the region failed (`SinceCovered`); for a window of 0 too.

For every set of hosts and proxies and any number of subnets
(`BootstrapProofs`):

* `StartTyped`, `Disjoint`, `ServesRegistered`, `HealthComplete`. Disjointness is not
  inductive alone: a new number must be one that nobody claims, so every claim
  (registry, process, route) has to be at most the counter (`ClaimsCounted`). That a
  proxy serves what the registry says needs that its entry is still absent
  between its HGET and its HSET (`Numbered`). That healthy hosts are complete needs
  the tables that each place of main has behind it (`TablesInOrder`).

For every set of containers, networks and addresses and any bindings
(`NodeDNATProofs`):

* `NodeTyped`, `Exempted`, `NothingMissed`. `TablesAgree` follows rules and networks
  through the places of a round and does not care whether Docker changes
  meanwhile: `Inspect` adds to both at once. `NothingMissed` is proved for rounds that
  are `Fresh`: no stream that ended, no event, trigger or silent change since
  `docker ps`. `FreshBefore` shows that only `docker ps`, a trigger that is taken and a
  new process make a round fresh again, and at none of them does the invariant
  say anything of the kernel yet; `RoundFollows` then says what of `dest`, `nets`, `chain`
  and `exempt` is that of the containers inspected so far. That one container's
  rules do not overwrite another's needs `PortsExclusive`: Docker gives a port of an
  address to one running container.

For every configuration, every host and version, and VarInts of any base and
length (`IngressProofs`):

* `BodyIsUnderstood`: what `parseHandshake` finds in a packet as clients write it is the
  normalized host. `EncodeVarInt` and `ValueOf` are recursive functions; that they exist
  and what they compute is proved by induction over numbers, stated with sets (`LeastNumber`,
  `Induction`, `StrongInduction`, from the well-foundedness of < on the naturals).
  `EncodingIsFaithful`: an encoding is one VarInt, ends where it should, and has the
  value it was made from. `VarIntFound` and `StringFound` say that the parser finds a
  VarInt or a string wherever one stands in the packet, whatever surrounds it.
* `StreamKept` (`NothingLost`): what was read is the beginning of the stream (`ReadFromStart`).
* `Understood` (`IntactIsUnderstood`): a stream that begins with an intact packet is read as a
  length, which no other encoding begins with (`PrefixFree`), and a body of that
  length (`LengthFirst`); when both are there, `BodyIsUnderstood` applies.
* `Routed` (`RoutedAsConfigured`), for handshakes that were intact and read to their end,
  and `Nameless` (`NamelessGoesByAddress`): from `Stages`, what is known at each place of
  `handleConn`, and `Chosen`, that the backend is one of the candidates and that there
  were none where a connection was closed without one. For a handshake with a name,
  the candidates are the servers it means, by `Understood`.

Assumptions: the named ASSUMEs of the modules, which say that constants are of
their sets and that the absent value is none of the others. `Slot` is assumed to
be injective in `Assignment` and `PlayerSessions`; `SubnetsDisjoint` of `Bootstrap` is
why. `PlayerSessions` repeats the assumptions of `Assignment` for the store it uses,
and says that the identities of `ProxyConn` are those of the store. `Failover` has at
least one hostname, as the configuration requires. `LengthAssumption` of `Ingress` says that
the VarInts of clients fit into `Groups` bytes, which five do in the code; `NoResultAssumption`
keeps None apart from results. `Network` of `NodeDNAT` are numbers in the order of the
names; that any of them have a first is proved (`FirstNetwork`).

Only model-checked: the liveness properties, which are out of the prover's
reach: `QuietPlayerReleased`, `Settles`, `ComesUp`, `Converges` and
`Decided`; and the four properties that runs find violated.

## Not modelled

* The original destination and the transparent dialer: one system call each,
  which succeeds or fails as a step of `ProxyConn`.
* The rest of the configuration: parsing and checks of single values before
  anything starts. Its results are constants here.
* Constructors and logging; the HTTP encoding of the API and health endpoint.
* Reverse keys of other proxies: a call for one proxy renews the hash with the
  fields of all proxies and only its own reverse key (`Extend`), so a mapping may
  outlive its reverse key and a ban of that identity finds nobody. No property
  speaks of it.
* Loss of Redis data, which the deployment guide excludes by asking for
  persistence; two watchers or two controllers at once.
* Docker networks that come and go, and other writers of the node's POSTROUTING
  chain: where the jump stands among its rules.

## Plan

Done: `SnatLease`, `ProxyConn`, `Assignment`, `PlayerSessions`, `BanWatcher`, `Failover`,
`Bootstrap`, `NodeDNAT`, `Handshake`, `Ingress`, and proofs about each.

Next, in this order:

1. An abstract specification of promotion (a set of bans seen, a set reserved)
   that `BanWatcher` implements, and one of a name's answers that `Failover` does.
2. The reading of a handshake as a refinement: the bytes one by one implement the
   choice of a backend in one step.
3. What `Encode` and the parser make of names that differ in spelling: that
   `NormalizeHostname` is idempotent, from the lemmas on its three parts.
