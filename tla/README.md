# cortado: specifications, checks and proofs

cortado routes all traffic of a host through a SOCKS5 proxy: a TUN device takes
the packets, a userspace TCP/IP stack turns them into TCP streams and UDP
datagrams, and both are relayed through the proxy. This directory holds TLA+
models of its parts, the TLC configurations that check them on small instances
and the TLAPS proofs of what matters most. Paths below are those of the
repository (`src/dns.rs` is the file next to `src/lib.rs`).

## The system

| part | state | operations | interacts with |
|------|-------|------------|----------------|
| lifecycle (`src/lib.rs`, `src/main.rs`) | current configuration, spawned tasks | `run`: probe, TUN, routes, stack, tasks, signal loop, teardown; `apply_reload` | everything |
| reload plan (`src/reload.rs`) | `Shared`: snapshots of the proxy and the route table | `ReloadPlan::compute`, `is_noop`, `immutable_changes`, `store_proxy`, `store_routes` | lifecycle, relays |
| routes, Linux (`src/platform/linux/route.rs`) | routes installed, gateways, `applied` | `apply`, `reload`, `teardown` over netlink | kernel, resolv.conf |
| DNS override, Linux (`src/platform/linux/dns.rs`) | resolv.conf, its backup, `original`, `current` | `apply`, `reload`, `restore` | file system |
| DNS pool (`src/dns.rs`) | connections per server, ids in flight, the proxy | `resolve`, reader tasks, `prune`, `set_proxy` | SOCKS client, UDP relay, reload |
| UDP relay (`src/udp.rs`) | sessions by key, reply and done channels | packet, session end, expiry, prune tick | DNS pool, SOCKS client |
| TCP relay (`src/lib.rs`, `src/stats.rs`) | permits, connection counters | accept, connect, copy | SOCKS client, reload |
| SOCKS client (`src/socks.rs`) | one handshake | `tcp_connect`, UDP associate, header codec | proxy |
| configuration, CIDR, tuning (`config.rs`, `net.rs`, `tune.rs`) | none | pure functions | lifecycle |
| routes and DNS servers, macOS and Windows (`src/platform/{macos,windows}/`) | routes installed, gateways, servers to bring back | `apply`, `reload`, `teardown`, by running commands | kernel, lifecycle |
| TUN devices, metrics, logging | | system calls and text | |

What makes it hard: the pool's tasks interleave at every await, under three
kinds of lock taken in different orders; connections break while queries hold
ids on them; a reload replaces the proxy under connections being opened; and
the routes and resolv.conf outlive the process, which may fail, be signalled or
be killed between any two of its changes to them.

## Modules

| module | models | |
|--------|--------|--|
| `DnsPool` | `src/dns.rs` | specification and properties |
| `MCDnsPool` | | instances for TLC |
| `DnsPoolProofs` | | theorems about `DnsPool` |
| `ResolvConf` | `src/platform/linux/dns.rs` | specification and properties |
| `MCResolvConf` | | instances for TLC |
| `ResolvConfProofs` | | theorems about `ResolvConf` |
| `Tunnel` | `src/lib.rs`, `src/platform/linux/route.rs`, `src/reload.rs` | specification and properties |
| `MCTunnel` | | instances for TLC |
| `TunnelProofs` | | theorems about `Tunnel` |
| `UdpRelay` | `src/udp.rs` | specification and properties |
| `MCUdpRelay` | | instances for TLC |
| `UdpRelayProofs` | | theorems about `UdpRelay` |
| `Socks` | `src/socks.rs`, `session_task` of `src/udp.rs` | specification and properties |
| `Association` | | what `udp_associate` promises, which `Socks` implements |
| `MCSocks` | | instance for TLC |
| `SocksProofs` | | theorems about `Socks`, and that it implements `Association` |
| `TcpRelay` | the accept loop and `relay_tcp_connection` of `src/lib.rs`, counters | specification and properties |
| `RouteTable` | `src/net.rs` | operators, and what a prefix means |
| `MCTcpRelay` | | instance for TLC |
| `TcpRelayProofs` | | theorems about `TcpRelay` and `RouteTable` |
| `CommandRoutes` | `src/platform/macos/`, `src/platform/windows/` | specification and properties |
| `Tuning` | `src/tune.rs` | operators |
| `MCCommandRoutes` | | instance for TLC |
| `CommandRoutesProofs`, `CommandScriptProofs` | | theorems about `CommandRoutes` and `Tuning`, and the lemmas about scripts |

### DnsPool

A resolve() call is a process with a program counter (`pc`); so is each
connection's reader task (`reader`), the prune pass (`todo`) and the call of
set_proxy (`reloader`). A step is what a task does between two awaits where
another task can see a difference. The locks on `conns` and `open_lock` are
variables, because they are held across awaits: `open_lock` across the whole
opening of a connection, `conns` while try_reuse and prune wait for the inflight
lock of one connection after another. The inflight lock itself is held for one
step at a time and needs no variable.

* `pool`, `alive`, `inflight`, `nextId`, `via` are the map of connections and the
  fields of `Conn` (`via` records the proxy of a connection, which the code
  forgets). A connection is named by the query and the attempt that opened it.
* `inflight` maps an id to the query whose sender is stored there, to
  `Placeholder` for the sender of allocate_id whose receiver is dropped at once,
  or to `None`.
* `wire` holds the requests sent whose reply may still arrive. Replies come in
  any order, late or never.
* A first attempt goes through `Resolve`, `ReuseLock`/`ReuseHit`/`ReuseFull`/
  `ReuseMiss` (try_reuse, twice), `LockOpen`, `CheckLimit`, `LoadProxy`,
  `Connected` or `ConnectFails`, `AllocateFresh`, `PushConn`, then `InsertSender`,
  `WriteQuery` or `WriteFails`, and `TakeReply`, `ChannelClosed` or
  `QueryTimeout`; a retry starts at `LockOpen` and skips the limit, as
  open_and_register does.

Abstracted: the bytes of a message beyond its id and its question, the clock
(a timeout may elapse whenever its timer runs), and the order of connections in
a bucket. `ConnsBreak` and `PrunerRuns` switch off faults and the pruner in runs
where they only multiply the states.

### ResolvConf

One process at a time runs `Start`, `Apply`, any number of `Reload`s and
`Restore`, as RouteManager does; `Kill` ends it anywhere and a new `Start` finds
the files as they were left. `fs::write` is two steps, a truncation (`Torn`) and
a fill, and either may fail (`WriteFails`). `NextWrite` is ensure_backup's
decision. `startFile`, `disabled` and `faulted` are history variables used by
the properties only. Reading a resolv.conf that exists does not fail.

### Tunnel

The routing table (`table`) outlives the process and maps a destination, an
address with its prefix length, to the kind of route it has: none, via the
gateway, into the TUN device, or one that cortado did not make. Every netlink
request is a step, so the process can be killed, or fail, between any two.

* `Run` to `BuildStack` are run() up to its loop with RouteManager::apply inside
  it; an error there (`StartupFails`, or no gateway in `ReadGateways`) ends the
  process without teardown, as the `?`s of run() do.
* `Reload` is a SIGHUP: apply_reload up to RouteManager::reload, whose steps
  follow (`DelOldProxyRoute` to `ReloadDns`), then the stores (`StoreProxy`,
  `StoreRoutes`) and `SetPoolProxy`. `ReloadFails`, or a proxy without gateway in
  `AddNewProxyRoute`, returns to the loop with what was done so far.
* `Terminate` is a SIGINT or SIGTERM, possibly during a reload; `LeaveLoop` to
  `RestoreDns` are teardown. A request to delete that fails is only warned about.
* `resolver` is what resolv.conf holds, as seen by the process: its override, what
  it found (`None`), or what a failed write left (`"torn"`). A new process takes
  whatever it finds for the original, so `Run` sets `None`.
* `rm`, `shared`, `poolProxy`, `current_cfg` are the program's state. `before`,
  `used`, `pending`, `leaked` are history variables: the table at startup, the
  destinations named so far, the configurations whose reload failed and was not
  yet repeated with success, and whether a request to delete failed.

Of a configuration only the fields that a reload compares are kept. ResolvConf
details what `ApplyDns`, `ReloadDns` and `RestoreDns` do in one step.

### UdpRelay

run_udp's loop, one task for each session and DNS query, and the writer task.
The map `sessions` gives the session task of a client, named by the client and a
generation number, so that the tasks of a client's former sessions are told
apart. A bounded channel is the number of its messages, except `done`, whose
messages name clients. The select of the loop is biased, so a datagram is taken
only when `done` is empty. After `Close` nobody reads `done` any more; `Abort` is
run()'s abort of the task.

### Socks and Association

The handshake of udp_associate, with the bytes of both directions in `toProxy` and
`fromProxy`. `arrived` counts the bytes that a read can take, and `Arrive` adds
one at a time, so that a reply comes in pieces of any size. Each read_exact is an
action (`ReadMethod`, `ReadAuth`, `ReadHead`, `ReadIp`, `ReadDomain`, `ReadPort`)
that waits for all of its bytes, with what the code then checks and writes.
`ReadFails` is the end of the stream and `TimedOut` any of the three timeouts. The
proxy is not in the repository: it parses what it is sent by the RFCs, and it may
refuse, answer with another version, method or kind of address, say more than it
should, stall or close at any time. With a relay, `SendDatagram` and
`ReceiveDatagram` run the codec on real bytes, one buffer for all datagrams.

`Association` is what session_task relies on: the call fails, or yields an
address at which a client reaches what the proxy has bound; and it ends. The
refinement maps the program points of the handshake to "pending"; the proxy's
`BindRelay` is the abstract `Bind`, `ReadPort` is `Establish`. UdpRelay uses the same
promise, as its actions `Associated` and `AssociateFails`.

### TcpRelay and RouteTable

The accept loop takes a connection, waits for a permit, loads the proxy and the
routes from `Shared` and spawns a task; a reload stores the two one after the
other, so it may come between the loads. Configurations are told apart by the
number of the reload that stored them. A task counts in `Start`, then connects
and copies, and gives gauge and permit back in `Finish`; its increments between two
awaits are one step, because nothing but the report of the statistics reads them. `RouteTable` works on
the bits of an address, with the masks of net.rs, for any width: a word is the
set of the positions of its ones, `Shl` is Rust's `<<` on it and an intersection
is `&`.

### CommandRoutes and Tuning

On macOS and on Windows the controllers run commands (`route`, `networksetup`,
`netsh`). `macos_apply`, `macos_reload`, `macos_teardown`, `windows_apply` and
`windows_teardown` are the code of those methods as a sequence of commands,
which run one per step; each may fail, and the process may be killed between any
two. A failure ends the sequence where the code has a `?` and is ignored where it
uses the quiet form. Both platforms are in one module because the rest of the
process is the same. A turn of a loop that runs no command, because there is no
gateway for the destination or it is in both lists, is a command `skip`, so that
the length of a script is that of the code's lists. Windows never reloads: `ReloadSignal::recv` is pending for
ever there, so `WindowsRoutes::reload` and `NetshDns::reload` are not reached. `rc`
and `dns` are the two controllers, `leaked` notes that a command to remove or
to read something failed, and `pending` is as in Tunnel. A process starts with
what `compute` makes of its probes; memory is counted in KiB.

`ProxyPinned` has the premise `DisjointConfigs`, that no proxy is a bypass
destination or one of the split routes: when it is one, a reload that removes the
bypass route removes the proxy's. `DnsFollowsConfig` says of a configuration
without override that all servers are those found at startup.

## Runs

Passing runs:

| run | shows |
|-----|-------|
| `dns_slots` | with one slot per connection, the pruner and breaking connections: a query keeps its slot until it is answered, gives up or the reader clears the slots; slots and first-attempt connections stay within their limits; prune never takes a live connection from a query waiting on it |
| `dns_share` | two queries of clients that chose the same id share connections while the proxy is replaced: each gets its own answer, under the client's id; after set_proxy at most one pooled connection goes through an earlier proxy |
| `dns_returns` | every resolve() returns |
| `dns_set_proxy` | set_proxy gets the lock on `conns` although queries and prune passes keep taking it |
| `resolv_conf` | a graceful exit restores resolv.conf through any reloads; a kill at any point leaves the original in place or in the backup, until a reload disables the override |
| `tunnel` | through reloads, failed requests, retries, kills and a restart: during startup and in the loop, once failed reloads were retried with success, the proxy in use has its host route if traffic is captured (not between the steps of a reload that replaces the proxy, which deletes the old route first, nor in teardown); in the loop routes, snapshots and resolver match the configuration; after teardown no route of cortado is left, not even one that a killed process left for these destinations; a caught SIGINT or SIGTERM ends the process |
| `udp` | a live session is never taken out of the map by the end of an older one; live sessions stay within `max_sessions`; entries of ended sessions go, although the done channel fills up; run_udp returns after its loop if the done messages still to come fit into their channel |
| `socks` | `udp_associate` implements `Association`; the proxy reads the credentials that are configured; a session starts with nothing of the handshake left unread; what is encoded is the wire format of the datagram; of the frames of `Frames`, those in the format are decoded to what they say, whatever their reserved bytes, and those cut in the header, fragments and those of a domain are refused; the session ends with its control connection |
| `tcp` | no permit is lost or used twice; the counters add up whenever no task is between two increments of one step; a destination is direct exactly if it agrees with a bypass CIDR in its leading bits; a connection that waited across a reload is relayed by what is current when it gets its permit, or newer; it gets its turn unless a copy lasts for ever |
| `backends` | on macOS and Windows: during apply() and while the process runs, traffic is captured only if the proxy has its route (not during a reload that replaces the proxy, nor in teardown); the resolver is the configured one, or the one from before; a graceful exit removes the routes and brings the DNS servers back, after any reloads; connections and sessions fit the limit of descriptors |

Runs that TLC ends with a counterexample, each of a statement in the
repository:

| run | statement | what happens |
|-----|-----------|--------------|
| `resolv_restart` | README: a crash is recoverable | a new process backs up the old one's override over the original |
| `tunnel_failed` | README: SIGHUP applies changes without dropping the tunnel | a reload that fails for want of a gateway has already deleted the host route of the proxy that stays in use |

What else the models leave outside their properties, because the code does not
attempt it, is noted with the hazards in `PROJECT.json`: a query whose sender is
inserted after the reader's `clear()` runs into its timeout and is not retried,
unlike one whose sender was dropped; a retry opens a connection without the limit
check; a connection being opened during set_proxy
enters the pool through the old proxy; an override that a reload disables and
another enables again has no backup; a resolv.conf that cortado created stays;
an error before the loop ends the process without teardown; a route that was
replaced is not brought back; a proxy whose address is also a bypass CIDR loses
its host route when a reload removes the CIDR; a changed `dns_over_tcp` is neither
applied by a reload nor reported; idle peers hold permits without a timeout;
`is_handshake_failure` looks for "socks" in an error text that always has it, so
that every failure to connect is counted as a failed handshake; with fewer than
320 descriptors the smallest limits do not fit; on macOS the servers to bring back
are in memory only, servers that cannot be read count as none, and a failed
reload has lost the old proxy's route as on Linux; on Windows no gateway only
makes a warning, and an IPv6 proxy cannot be pinned.

**Bounds.** Two queries are the smallest number that share, contend and
supersede one another; with two attempts each they open up to four connections.
`IdSpace` 2 lets ids run out and wrap (the properties about ids speak of the
time before the wrap; the real space is 2^16). One slot per connection makes a
connection full with one query, two slots make it shared. One or two reloads
put a set_proxy before, during and after an opening. For resolv.conf, two
processes and three reloads cover redirect, disable, enable again, and a restart
after a kill; contents are told apart only as "the original", "the line for
server d" and "torn". For the tunnel, four configurations differ in the proxy, its
family, its credentials, the bypass routes and the DNS server, so that two
reloads move, fail, retry and move back; a host has an IPv4 gateway, with or
without an IPv6 one; a second process shows a restart. For the UDP relay, a second
session of a client overlaps the end of the first, a third client meets the limit
of two, and channels of depth one are full after one message. For the handshake,
credentials have the lengths around their limits (0, 1, 255, 256), relays are
bound to concrete and unspecified addresses of both families, and frames are cut
at every byte or have reserved bytes other than 0. For the TCP relay, the third connection waits for one of two
permits while a reload stores; addresses of 2 and 3 bits have every prefix length
from 0 to their width. For the command backends, three configurations change the
proxy, its family, the bypass list and the override in both directions, hosts have
no, one or two gateways, and the limit of descriptors lies at 320, where the
limits begin to fit. Deadlock is not
checked: all queries may have returned, and the process may stay off.

**Fairness** (`DnsPool!FairSpec`). Tasks that can run do (tokio schedules them);
a connect ends by `connect_timeout`, a wait for a reply by `query_timeout`; a
write ends, which holds while the peer reads (there is no timeout on it, see the
hazards in `PROJECT.json`). Locks are strongly fair, because tokio's Mutex is
FIFO. Nothing is assumed of clients, of the server, or of reloads.

`Tunnel!FairSpec`: netlink requests are answered and set_proxy returns (which
`dns_set_proxy` shows), so the process takes its next step; `select!` picks among
ready branches at random, so a pending signal is seen although SIGHUPs keep
coming. `UdpRelay!FairSpec`: tasks that can run do, an association ends
(`connect_timeout`), a query ends (`dns_returns`), the stack takes what the writer
sends, channels hand out room in FIFO order, and a session whose channel has no
sender left is polled and returns. Nothing is assumed about when a session goes
idle. `Socks!FairSpec`: timers elapse, bytes sent arrive, and `select!` comes round
to the control connection although datagrams keep coming; nothing is assumed of
the proxy. `TcpRelay!FairSpec`: the loop and the tasks run, and a connect ends by
its timeout; a copy need not end. `CommandRoutes` has safety properties only.

## Theorems

For every number of queries, servers, reloads, processes, and every size of the
id space and of the limits:

* `DnsPoolProofs`. `TypeCorrect`, `LimitHeld`
  and `StaleConnUnique` rest on `PoolInv`: a query opening a connection holds
  `open_lock` (`OpenLockHeld`), a query's connection does not exist before it
  opened it (`OpenedOnce`), the limit holds with room for the opener that passed
  the check (`LimitInv`), and of the connections in the pool and the one being
  opened only one is stale (`OneStaleOrPending`). `OwnAnswers`, `SlotsKept`,
  `InflightLimited` and `PruneSpares` rest on `SlotInv`, whose heart is
  `IdsIdentify`: up to the wrap of next_id, two queries never have the same id on
  the same connection, nor does a query share its id with a request still on the
  wire that is not its own. From it, a sender under an id is its query's own
  (`ChannelsCarryOwn`), and nobody else's timeout or reply removes it (`RegInv`).
* `ResolvConfProofs`: `TypeCorrect`, `ExitRestores`, `KillKeepsACopy`. The
  invariant says, for each program point of the process, which of the file, the
  backup and the copy in memory hold the original.
* `TunnelProofs`: `TypeCorrect`, `TeardownClean`. `MayHaveRoute` gives, for each
  program point, the destinations that may have a gateway route, and
  `RoutesAccounted` says there are no others: those of the current configuration,
  of the one being applied, and of reloads that failed. `RouteManagerFollows`
  says that `proxy_ip` and `bypass` are those of the current configuration or of
  a failed reload, which makes teardown complete once no failure is pending.
  `ProxyAlwaysProtected` and `RunningFollowsConfig` need more. A reload that
  fails leaves its deletions behind, so the two properties are not inductive. The
  strengthening `RInv` says whom each missing route is owed to: if the proxy's
  route is not there, a pending configuration has another proxy (`ProxyFollows`),
  and if a bypass route is not there, a pending configuration does without it
  (`BypassFollows`). A reload that succeeds cannot be that configuration and keep
  the route, so with nothing pending nothing is missing. `StateFollows` says that
  Shared and the pool change only after the last step that can fail, and that a
  resolv.conf other than the configuration's is owed to a pending configuration
  with another DNS setting (`ResolvesBy`); `OnlyViaGateways`, that a family without a gateway gets no route.
* `UdpRelayProofs`: `TypeCorrect`, `SessionKept`, `SessionsLimited`. A live task
  is the entry of its client, so live tasks are no more than entries, which the
  test of the limit bounds.
* `SocksProofs`: `TypeCorrect`, `ProxyReadsCredentials`, `HandshakeStaysInStep`,
  `RefinesAssociation`, `DatagramsStayIntact`, for credentials, addresses and
  payloads of any bytes. `HandshakeInStep` is not inductive: that nothing is left
  unread after the last read depends on what each read before it met. `IInv` says
  this, read by read: what the proxy has been sent and has not read (`Sent`), and of
  which reply, from which byte on, the bytes under way are a beginning (`Received`,
  over `Coming`: all of it while the connection is open, any beginning of it after
  a reset). An action that reads n bytes takes the first n of the reply, and what
  remains is again such a beginning (`ReadStream`). `AuthRead` shows that the proxy,
  which finds the credentials by their length bytes, finds what `AuthMessage` put
  there; it needs validate's limit of 255. `RefinesAssociation` maps `ReadPort` to
  `Establish`, `BindRelay` to `Bind`, every way out to a failure and the rest to
  stuttering; it uses `IInv` where the address read is the one bound.
  `DatagramsIntact` is inductive by itself, because each step that encodes or
  decodes sets both sides of its equations: `DecodeWire`, `DecodeShort` and
  `DecodeOther` say what decode_udp makes of a whole frame, of one cut in its
  header, and of fragments and domains.
* `TcpRelayProofs`: `TypeCorrect`, `NoPermitLost`, `CountersAddUp`, `NeverStale`,
  `ClassifiedByPrefix`. The invariant `RelayInv` adds to the properties that the
  loop has one connection in hand or none (`AcceptorInv`), that the gauge is
  exactly the number of relays between their start and their end (`GaugeExact`),
  without which the step that counts an end could take it below 0, that what has
  been loaded lies between what was current at the permit and what is current now
  (`TakenInv`), and that a table in `Shared` was made by `RouteTable::new` from a
  list (`SharedInv`). `ClassifiedByPrefix` comes from lemmas about masks: for every
  width and prefix a mask is the set of the leading positions, and comparing masked
  words compares these.
* `CommandRoutesProofs`, on the lemmas of `CommandScriptProofs`: `TypeCorrect`,
  `RoutesRemoved`, `ProxyStaysPinned`, `DnsAsConfigured`, `DnsBroughtBack`,
  `DescriptorsSuffice`. A script is part of the state, so the inductive invariant
  `IInv` (theorem `Inductive`) speaks of the commands that are left of it, which
  ones they may be in each phase (`CommandsInv`) and, for a reload, in which order
  they come (`OrderInv`): the proxy's route, then the bypass routes, then the list,
  then the DNS server. `FollowsInv` says that the controller has the proxy and the
  list of the configuration, of the reload under way or of one that failed.
  `RoutesInv` accounts for every gateway route: it was there before, the controller
  has it, the reload under way makes it, a failed one did, or a deletion for it is
  left in the teardown; `DeletedInv` says that the routes a reload gives up are gone
  when the controller forgets them, and `ReachableInv` that a route the teardown
  must delete has a gateway, without which it would be passed over. `PinInv`
  follows the proxy's route through apply and reload, and owes a missing one to a
  pending configuration with another proxy, as in Tunnel. `DnsInv` says, for each
  command about DNS that is left, what the servers and the copy of the original
  are.
* `TuningFits`, in the same module, on lemmas about the sessions, the connections
  and the memory: from 320 descriptors on, all connections and sessions together
  leave the reserve, whatever is probed.

The assumptions are those of the modules' ASSUMEs: limits are positive, the limit
of ids in flight is not above the number of ids, the model values are distinct,
configurations name destinations and servers of one of the two families, prefixes
are not longer than the addresses of their family (`parse_cidr` refuses others),
addresses have 4 or 16 octets and a port below 2^16 (`SocketAddr`), credentials
and payloads are sequences of bytes.

Only model-checked are liveness under fairness (`EveryResolveReturns`,
`SetProxyReturns`, `TerminateEnds`, `DeadEntriesGo`, `RelayReturns`,
`ControlClosedEnds`, `AcceptedServed`), which is out of the prover's reach. The
fairness of `ImplementsAssociation` is among it, so that `RefinesAssociation` states
its safety part, `Abstract!Spec`, and the run checks all of it.

## Not modelled

* `bridge_tun_to_stack` (`src/lib.rs`): two loops that copy packets between the
  TUN device and the userspace stack. What could go wrong is in those two, which
  are libraries; run() does not watch the loops.
* The TUN devices: ioctl calls, or calls of the utun and wintun libraries. Tunnel
  and CommandRoutes use that the routes of a closed device go with it.
* `reload` of the Windows backend, which no signal reaches.
* Parsing: TOML (serde), addresses and CIDRs (the standard library), the output of
  system commands, which has no format to hold the code to. Gateways, mtu and
  servers are inputs of the models. Of `validate` only the credentials matter to
  another part.
* The bytes of the DNS framing. `DnsPool` has messages; a reader whose read_exact
  is cut off by its idle timeout loses what it has read of the length, which
  is listed as a hazard.
* Metrics and logging: text made from counters, on which nothing depends.
* Argument handling and installation of the signal handlers (`src/main.rs`,
  `ShutdownSignal::new`) are one step of Tunnel's startup.
