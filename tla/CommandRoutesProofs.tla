------------------------ MODULE CommandRoutesProofs -------------------------
(***************************************************************************)
(* Proofs about CommandRoutes: its safety properties, for every set of     *)
(* configurations, gateways and limits and any number of processes and     *)
(* reloads. The invariant accounts for every route through a gateway and   *)
(* for the DNS servers, in every phase and whatever command fails.         *)
(***************************************************************************)
EXTENDS CommandScriptProofs

(* The limits: those that Tuning::compute derives fit the descriptors it was
   told.                                                                   *)
(* The number of UDP sessions never makes the descriptors of all relays and
   sessions exceed two per TCP connection: max_udp_sessions, whose lower
   bound of 64 is the critical case.                                       *)
LEMMA SessionsFit ==
  ASSUME NEW tcp \in Nat, tcp >= TCP_CONN_MIN
  PROVE  /\ max_udp_sessions(tcp) \in Nat
         /\ tcp + 2 * max_udp_sessions(tcp) <= FDS_PER_CONN * tcp
  BY DEF max_udp_sessions, clamp, TCP_CONN_MIN, UDP_PER_TCP, FDS_PER_CONN

(* With n descriptors beyond the reserve, fd_conns admits at most n / 2
   connections.                                                            *)
LEMMA ConnectionsFit ==
  ASSUME NEW fds \in Nat, fds >= FD_RESERVE + FDS_PER_CONN * TCP_CONN_MIN
  PROVE  /\ fd_conns(fds) \in Nat
         /\ fd_conns(fds) >= TCP_CONN_MIN
         /\ FDS_PER_CONN * fd_conns(fds) + FD_RESERVE <= fds
  BY DEF fd_conns, AtLeastOne, saturating_sub, FD_RESERVE, FDS_PER_CONN,
         TCP_CONN_MIN

(* The number of connections that memory admits is a number: the divisor of
   mem_conns is not 0, since clamp bounds the buffers from below.           *)
LEMMA MemoryFits ==
  ASSUME NEW probe \in Probes
  PROVE  mem_conns(probe) \in Nat
<1>1. mtu(probe) \in Nat
  BY DEF Probes, mtu, unwrap_or, clamp
<1>2. memory(probe) \in Nat
  BY DEF Probes, memory, unwrap_or
<1>3. relay_buf_size(probe) \in Nat
  BY <1>1 DEF relay_buf_size, clamp
<1>4. relay_copy_buf_size(probe) \in Nat /\ relay_copy_buf_size(probe) > 0
  BY <1>1 DEF relay_copy_buf_size, clamp
<1> DEFINE n == memory(probe) * 256
           d == 2 * relay_buf_size(probe) + relay_copy_buf_size(probe)
<1>5. n \in Nat /\ d \in Nat /\ d > 0
  BY <1>2, <1>3, <1>4
<1> HIDE DEF n, d
<1>6. n \div d \in Nat
  BY <1>5
<1> QED
  BY <1>6 DEF mem_conns, AtLeastOne, n, d

(* For every link, memory and limit, Tuning::compute leaves the reserve of
   descriptors free with all its connections and sessions in use.          *)
THEOREM TuningFits ==
  ASSUME NEW probe \in Probes, NEW fds \in Nat,
         fds = unwrap_or(probe.fd_limit, DEFAULT_FD_LIMIT)
  PROVE  FitsDescriptors(fds, compute(probe))
<1> DEFINE tcp == max_tcp_connections(probe)
<1> SUFFICES ASSUME fds >= FD_RESERVE + FDS_PER_CONN * TCP_CONN_MIN
             PROVE  tcp + 2 * max_udp_sessions(tcp) + FD_RESERVE <= fds
  BY DEF FitsDescriptors, compute
<1>1. /\ fd_conns(fds) \in Nat
      /\ fd_conns(fds) >= TCP_CONN_MIN
      /\ FDS_PER_CONN * fd_conns(fds) + FD_RESERVE <= fds
  BY ConnectionsFit
<1>2. mem_conns(probe) \in Nat
  BY MemoryFits
<1>3. tcp \in Nat /\ tcp >= TCP_CONN_MIN /\ tcp <= fd_conns(fds)
  BY <1>1, <1>2 DEF max_tcp_connections, clamp, TCP_CONN_MIN
<1>4. /\ max_udp_sessions(tcp) \in Nat
      /\ tcp + 2 * max_udp_sessions(tcp) <= FDS_PER_CONN * tcp
  BY <1>3, SessionsFit
<1> QED
  BY <1>1, <1>3, <1>4 DEF FD_RESERVE, FDS_PER_CONN

-----------------------------------------------------------------------------
(* A reload *)

(* A reload keeps its order while its commands run. *)
LEMMA OrderNext ==
  ASSUME StateInv, CommandsInv, OrderInv, Next
  PROVE  OrderInv'
<1>1. ASSUME NEW c \in Configs, Reload(c) PROVE OrderInv'
  <2>1. ReloadsOnMacos(script', cfg, c, rc.gateways)
    BY <1>1, MacosReload DEF Reload, StateInv
  <2>2. /\ phase' = "reload" /\ cfg' = cfg /\ new_cfg' = c /\ rc' = rc
        /\ platform' = "macos"
    BY <1>1 DEF Reload, hostVars
  <2> DEFINE t == script'
  <2>3. \A i \in DOMAIN t : t[i].op = "proxy_ip" =>
          /\ i = 3
          /\ \/ t[1].op = "skip" /\ cfg.proxy \notin HasGateway(rc.gateways)
             \/ t[1].op = "del" /\ t[1].dst = cfg.proxy
          /\ \/ t[2].op = "bail"
             \/ t[2].op = "add" /\ t[2].dst = c.proxy
    BY <2>1, Zenon DEF ReloadsOnMacos
  <2>4. \A i, j \in DOMAIN t : i < j =>
          /\ t[i].op # "change"
          /\ t[i].op = "bypass" => t[j].op = "change"
    BY <2>1, Zenon DEF ReloadsOnMacos
  <2>5. ASSUME NEW i \in DOMAIN t, t[i].op = "proxy_ip"
        PROVE  i = 3 /\ IsUnpin(script[1])' /\ IsPin(script[2])'
    <3>1. /\ i = 3
          /\ \/ t[1].op = "skip" /\ cfg.proxy \notin HasGateway(rc.gateways)
             \/ t[1].op = "del" /\ t[1].dst = cfg.proxy
          /\ \/ t[2].op = "bail"
             \/ t[2].op = "add" /\ t[2].dst = c.proxy
      BY <2>3, <2>5, Zenon
    <3> QED
      BY <2>2, <3>1 DEF Reachable, IsPin, IsUnpin
  <2> QED
    BY <2>2, <2>4, <2>5 DEF OrderInv
<1>2. CASE phase' # "reload"
  BY <1>2, Zenon DEF OrderInv
<1>3. CASE (RouteStep \/ DnsStep) /\ phase = "reload"
  <2>1. Going
    BY <1>3 DEF RouteStep, DnsStep
  <2>2. /\ IsScript(script)'
        /\ \A i \in DOMAIN script' : i + 1 \in DOMAIN script /\ script'[i] = script[i + 1]
        /\ DOMAIN script' \subseteq Nat \ {0}
    BY <2>1, Goes, Zenon DEF StateInv
  <2>3. DOMAIN script' = 1 .. Len(script') /\ Len(script') \in Nat
    BY <2>2 DEF IsScript
  <2>4. \A d : Reachable(d)' = Reachable(d)
    BY <1>3, StepFrame
  <2>5. UNCHANGED <<platform, phase, cfg, new_cfg>>
    BY <2>1 DEF Going
  <2>6. ASSUME NEW i \in DOMAIN script', script'[i].op = "proxy_ip"
        PROVE  i <= 2 /\ (i = 2 => IsPin(script[1])')
    <3>1. i + 1 \in DOMAIN script /\ script[i + 1].op = "proxy_ip" /\ i \in Nat
      BY <2>2, <2>6
    <3>2. i + 1 <= 3 /\ (i + 1 = 3 => IsPin(script[2]))
      BY <3>1, <1>3 DEF OrderInv
    <3>3. i = 2 => script'[1] = script[2]
      BY <2>2, <2>3
    <3> QED
      BY <2>5, <3>1, <3>2, <3>3 DEF IsPin
  <2>7. ASSUME NEW i \in DOMAIN script', NEW j \in DOMAIN script', i < j
        PROVE  /\ script'[i].op # "change"
               /\ script'[i].op = "bypass" => script'[j].op = "change"
    <3>1. /\ i + 1 \in DOMAIN script /\ j + 1 \in DOMAIN script /\ i + 1 < j + 1
          /\ script'[i] = script[i + 1] /\ script'[j] = script[j + 1]
      BY <2>2, <2>7
    <3> QED
      BY <3>1, <1>3 DEF OrderInv
  <2>8. \A i \in DOMAIN script' : i \in Nat
    BY <2>2
  <2> QED
    BY <2>5, <2>6, <2>7, <2>8 DEF OrderInv
<1> QED
  BY <1>1, <1>2, <1>3, Kinds DEF Start, LeaveLoop, ApplyDone, ReloadDone, Ends, End,
     GivesUp, RouteStep, DnsStep, Going

(* The controller follows run()'s configuration. *)
LEMMA FollowsNext ==
  ASSUME StateInv, CommandsInv, FollowsInv, Next
  PROVE  FollowsInv'
<1>1. ASSUME NEW c \in Configs, Start(c) PROVE FollowsInv'
  <2>1. rc'.proxy_ip = c.proxy /\ rc'.bypass = c.bypass
    BY <1>1, Starts DEF StateInv
  <2> QED
    BY <1>1, <2>1, Zenon DEF Start, FollowsInv
<1>2. ASSUME NEW c \in Configs, Reload(c) PROVE FollowsInv'
  <2>1. ReloadsOnMacos(script', cfg, c, rc.gateways)
    BY <1>2, MacosReload DEF Reload, StateInv
  <2>2. Has("bypass")' /\ (cfg.proxy # c.proxy => Has("proxy_ip")')
    BY <2>1 DEF ReloadsOnMacos, Has, Left
  <2> QED
    BY <1>2, <2>2 DEF Reload, FollowsInv
<1>3. CASE LeaveLoop
  <2>1. rc'.proxy_ip = rc.proxy_ip /\ rc'.bypass = rc.bypass
    BY <1>3, Zenon DEF LeaveLoop, StateInv, TypeOK, Controllers
  <2> QED
    BY <1>3, <2>1 DEF LeaveLoop, FollowsInv, histVars
<1>4. CASE ApplyDone
  BY <1>4, Zenon DEF ApplyDone, FollowsInv, histVars
<1>5. CASE ReloadDone
  <2>1. /\ cfg.proxy = new_cfg.proxy \/ rc.proxy_ip = new_cfg.proxy
        /\ rc.bypass = new_cfg.bypass
    BY <1>5, EmptyScript, Zenon DEF ReloadDone, FollowsInv, Has, Left
  <2> QED
    BY <1>5, <2>1, Zenon DEF ReloadDone, FollowsInv
<1>6. CASE Ends
  BY <1>6, Zenon DEF Ends, End, FollowsInv
<1>7. CASE GivesUp
  BY <1>7 DEF GivesUp, FollowsInv
<1>8. CASE RouteStep \/ DnsStep
  <2>1. Going
    BY <1>8 DEF RouteStep, DnsStep
  <2>2. Left = {Command} \cup Left'
    BY <2>1, Goes DEF StateInv
  <2>3. UNCHANGED <<platform, phase, cfg, new_cfg, pending>>
    BY <2>1 DEF Going
  <2>4. phase # "off"
    BY <2>1, Commands, Zenon
  <2>5. CASE Command.op = "proxy_ip"
    <3>1. /\ phase = "reload" /\ rc'.proxy_ip = new_cfg.proxy /\ rc'.bypass = rc.bypass
      BY <1>8, <2>1, <2>5, Commands, StepFrame, Zenon DEF ReloadCommand
    <3>2. Has("bypass") => Has("bypass")'
      BY <2>2, <2>5 DEF Has
    <3> QED
      BY <2>3, <2>4, <3>1, <3>2 DEF FollowsInv
  <2>6. CASE Command.op = "bypass"
    <3>1. /\ phase = "reload" /\ rc'.proxy_ip = rc.proxy_ip
          /\ rc'.bypass = new_cfg.bypass
      BY <1>8, <2>1, <2>6, Commands, StepFrame, Zenon DEF ReloadCommand
    <3>2. Has("proxy_ip") => Has("proxy_ip")'
      BY <2>2, <2>6 DEF Has
    <3> QED
      BY <2>3, <2>4, <3>1, <3>2, Zenon DEF FollowsInv
  <2>7. CASE Command.op \notin {"proxy_ip", "bypass"}
    <3>1. rc'.proxy_ip = rc.proxy_ip /\ rc'.bypass = rc.bypass
      BY <1>8, <2>7, StepFrame, Zenon
    <3>2. (Has("proxy_ip") => Has("proxy_ip")') /\ (Has("bypass") => Has("bypass")')
      BY <2>2, <2>7, Zenon DEF Has
    <3> QED
      BY <2>3, <2>4, <3>1, <3>2, Zenon DEF FollowsInv
  <2> QED
    BY <2>5, <2>6, <2>7
<1> QED
  BY <1>1, <1>2, <1>3, <1>4, <1>5, <1>6, <1>7, <1>8, Kinds

-----------------------------------------------------------------------------
(* Routes *)

(* What a command does to the routing table. *)
LEMMA TableSteps ==
  ASSUME StateInv, CommandsInv, RouteStep \/ DnsStep
  PROVE  /\ \A d \in Dsts : table'[d] # table[d] =>
              \/ /\ Command.op = "add" /\ d = Command.dst
                 /\ table[d] = "absent" /\ table'[d] = Command.via
              \/ /\ Command.op = "del" /\ d = Command.dst
                 /\ table[d] = Command.via /\ table'[d] = "absent"
         /\ Command.op = "del" /\ ~leaked' => table'[Command.dst] # Command.via
         /\ Command.op = "add" /\ Command.strict => table'[Command.dst] # "absent"
<1>1. Going
  BY DEF RouteStep, DnsStep
<1>2. phase # "off" /\ table \in [Dsts -> {"absent", "gw", "tun"}]
  BY <1>1, Commands DEF StateInv, TypeOK
<1>3. Command.op \in {"add", "del"} => Command.dst \in Dsts
  BY <1>1, Commands, Zenon DEF ApplyCommand, ReloadCommand, TeardownCommand, IsDel
<1>4. Command.op = "add" => Command.via \in {"gw", "tun"}
  BY <1>1, Commands DEF ApplyCommand, ReloadCommand
<1>5. CASE AddRoute
  <2>1. Command.op = "add"
    BY <1>5, Zenon DEF AddRoute, Running, Command
  <2> QED
    BY <1>2, <1>3, <1>4, <1>5, <2>1 DEF AddRoute
<1>6. CASE DeleteRoute
  <2>1. Command.op = "del"
    BY <1>6 DEF DeleteRoute, Running, Command
  <2>2. \/ table' = IF table[Command.dst] = Command.via
                      THEN [table EXCEPT ![Command.dst] = "absent"] ELSE table
        \/ leaked' /\ table' = table
    BY <1>6, Zenon DEF DeleteRoute
  <2>3. Command.via # "absent"
    BY <1>1, <2>1, Commands, Zenon DEF ReloadCommand, TeardownCommand, IsDel
  <2> QED
    BY <1>2, <1>3, <2>1, <2>2, <2>3
<1>7. CASE ~AddRoute /\ ~DeleteRoute
  <2>1. table' = table
    BY <1>7 DEF RouteStep, DnsStep, AddIgnored, Skip, Assign, hostVars
  <2>2. ~(Command.op = "del") /\ ~(Command.op = "add" /\ Command.strict)
    BY <1>7, Zenon DEF RouteStep, DnsStep, AddIgnored, Skip, Assign, SetDns,
       UnsetDns, RestoreDns, SetStatic, SetDhcp, Running, Command
  <2> QED
    BY <2>1, <2>2
<1> QED
  BY <1>5, <1>6, <1>7

(* Routes are only made through gateways that there are. *)
LEMMA ReachableNext ==
  ASSUME StateInv, CommandsInv, ReachableInv, Next
  PROVE  ReachableInv'
<1>1. ASSUME NEW c \in Configs, Start(c) PROVE ReachableInv'
  BY <1>1, Zenon DEF Start, ReachableInv, hostVars
<1>2. ASSUME NEW c \in Configs, Reload(c) PROVE ReachableInv'
  BY <1>2, Zenon DEF Reload, ReachableInv, hostVars, Reachable
<1>3. CASE phase' \in {"off", "teardown"}
  BY <1>3, Zenon DEF ReachableInv
<1>4. CASE ApplyDone \/ ReloadDone \/ GivesUp
  BY <1>4, Zenon DEF ApplyDone, ReloadDone, GivesUp, ReachableInv, hostVars, histVars, Reachable
<1>5. CASE (RouteStep \/ DnsStep) /\ phase \in {"apply", "reload"}
  <2>1. Going
    BY <1>5, Zenon DEF RouteStep, DnsStep
  <2> SUFFICES ASSUME NEW d \in Dsts, table'[d] = "gw"
               PROVE  before.table[d] = "gw" \/ Reachable(d)
    BY <1>5, <2>1, StepFrame DEF ReachableInv, Going
  <2>2. CASE table[d] = "gw"
    BY <1>5, <2>2 DEF ReachableInv
  <2>3. CASE table[d] # "gw"
    <3>1. Command.op = "add" /\ d = Command.dst /\ Command.via = "gw"
      BY <1>5, <2>3, TableSteps, Zenon
    <3> QED
      BY <2>1, <3>1, Commands, Zenon DEF ApplyCommand, ReloadCommand
  <2> QED
    BY <2>2, <2>3, Zenon
<1> QED
  BY <1>1, <1>2, <1>3, <1>4, <1>5, Kinds, Commands
  DEF LeaveLoop, Ends, End, RouteStep, DnsStep, Going

(* While the list of bypass routes is taken over no deletion is left. *)
LEMMA NoDeletionLeft ==
  ASSUME StateInv, CommandsInv, OrderInv, Going, Command.op = "bypass", NEW d
  PROVE  ~HasDel(d)
<1>1. /\ Command = script[1] /\ 1 \in DOMAIN script /\ phase = "reload"
      /\ IsScript(script)
  BY Goes, Commands DEF StateInv
<1> SUFFICES ASSUME NEW x \in Left, x.op = "del" PROVE FALSE
  BY DEF HasDel
<1>2. PICK i \in DOMAIN script : script[i] = x
  BY DEF Left, Range
<1>3. DOMAIN script \subseteq Nat \ {0}
  BY <1>1 DEF IsScript
<1>4. i # 1 /\ i \in Nat \ {0}
  BY <1>1, <1>2, <1>3
<1>5. 1 < i
  BY <1>4
<1> QED
  BY <1>1, <1>2, <1>5 DEF OrderInv

(* A command keeps the account of the routes: it deletes the route it has
   to, and the controller forgets a proxy or a list only when its routes are
   gone.                                                                   *)
LEMMA RoutesStep ==
  ASSUME StateInv, CommandsInv, OrderInv, FollowsInv, RoutesInv, DeletedInv,
         RouteStep \/ DnsStep
  PROVE  RoutesInv'
<1>1. Going
  BY DEF RouteStep, DnsStep
<1>2. UNCHANGED <<phase, cfg, new_cfg, pending, before>> /\ (leaked => leaked')
  BY <1>1 DEF Going
<1>3. phase \in {"apply", "reload", "teardown"}
  BY <1>1, Commands
<1>4. Left = {Command} \cup Left' /\ Command = script[1] /\ 1 \in DOMAIN script
  BY <1>1, Goes DEF StateInv
<1> SUFFICES ASSUME ~leaked', NEW d \in Dsts, table'[d] = "gw",
                    before.table[d] # "gw", ~Claimed(d)
             PROVE  \/ phase \in {"apply", "reload"} /\ Owned(d)'
                    \/ phase = "reload" /\ Added(d)
                    \/ phase = "teardown" /\ HasDel(d)'
  BY <1>2, Zenon DEF RoutesInv, Claimed, Added
<1>5. ~leaked
  BY <1>2
<1>6. CASE table[d] = "gw" /\ phase = "teardown"
  <2>1. PICK x \in Left : x.op = "del" /\ x.dst = d /\ x.via = "gw"
    BY <1>3, <1>5, <1>6, Zenon DEF RoutesInv, HasDel
  <2>2. x # Command
    BY <2>1, TableSteps
  <2> QED
    BY <1>4, <1>6, <2>1, <2>2, Zenon DEF HasDel
<1>7. CASE table[d] = "gw" /\ phase # "teardown"
  <2>1. Owned(d) \/ (phase = "reload" /\ Added(d))
    BY <1>3, <1>5, <1>7, Zenon DEF RoutesInv
  <2>2. CASE Command.op = "proxy_ip" /\ d = rc.proxy_ip
    <3>1. phase = "reload" /\ rc'.proxy_ip = new_cfg.proxy
      BY <1>1, <2>2, Commands, StepFrame, Zenon DEF ReloadCommand
    <3>2. d # cfg.proxy
      BY <1>4, <1>5, <1>7, <2>2, <3>1 DEF DeletedInv
    <3>3. ~\E c \in pending : c.proxy = d /\ c.proxy # cfg.proxy
      BY DEF Claimed
    <3>4. d = new_cfg.proxy
      BY <2>2, <3>1, <3>2, <3>3, Zenon DEF FollowsInv
    <3> QED
      BY <3>1, <3>4 DEF Owned
  <2>3. CASE Command.op = "bypass" /\ d \in Range(rc.bypass)
    <3>1. phase = "reload" /\ rc'.bypass = new_cfg.bypass
      BY <1>1, <2>3, Commands, StepFrame, Zenon DEF ReloadCommand
    <3>2. d \in Range(cfg.bypass) => Added(d)
      BY <1>1, <1>5, <1>7, <2>3, <3>1, NoDeletionLeft, Zenon DEF DeletedInv
    <3>3. ~\E c \in pending : c.bypass = rc.bypass
      BY <2>3, Zenon DEF Claimed
    <3>4. rc.bypass = cfg.bypass \/ rc.bypass = new_cfg.bypass
      BY <3>1, <3>3, Zenon DEF FollowsInv
    <3> QED
      BY <2>3, <3>1, <3>2, <3>4 DEF Owned
  <2>4. CASE ~(Command.op = "proxy_ip" /\ d = rc.proxy_ip)
             /\ ~(Command.op = "bypass" /\ d \in Range(rc.bypass))
    <3>1. Owned(d) => Owned(d)'
      BY <2>4, StepFrame DEF Owned
    <3> QED
      BY <1>3, <1>7, <2>1, <3>1, Zenon
  <2> QED
    BY <2>2, <2>3, <2>4, Zenon
<1>8. CASE table[d] # "gw"
  <2>1. Command.op = "add" /\ d = Command.dst /\ Command.via = "gw"
    BY <1>8, TableSteps
  <2>2. CASE phase = "apply"
    <3>1. d \in Named(cfg)
      BY <1>1, <2>1, <2>2, Commands, Zenon DEF ApplyCommand
    <3>2. pending = {}
      BY <2>2, Zenon DEF StateInv
    <3>3. rc'.proxy_ip = cfg.proxy /\ rc'.bypass = cfg.bypass
      BY <2>1, <2>2, <3>2, StepFrame DEF FollowsInv
    <3> QED
      BY <2>2, <3>1, <3>3 DEF Owned, Named
  <2>3. CASE phase = "reload"
    BY <1>1, <2>1, <2>3, Commands, Zenon DEF ReloadCommand
  <2> QED
    BY <1>1, <1>3, <2>1, <2>2, <2>3, Commands, Zenon
<1> QED
  BY <1>6, <1>7, <1>8

(* Every step does. *)
LEMMA RoutesNext ==
  ASSUME StateInv, CommandsInv, OrderInv, FollowsInv, ReachableInv, RoutesInv,
         DeletedInv, Next
  PROVE  RoutesInv'
<1>1. ASSUME NEW c \in Configs, Start(c) PROVE RoutesInv'
  BY <1>1, Zenon DEF Start, RoutesInv, hostVars
<1>2. ASSUME NEW c \in Configs, Reload(c) PROVE RoutesInv'
  <2>1. /\ phase = "running" /\ phase' = "reload"
        /\ UNCHANGED <<table, cfg, rc, before, pending, leaked>>
    BY <1>2 DEF Reload, hostVars
  <2>2. \A d : Claimed(d) => Claimed(d)'
    BY <2>1, Zenon DEF Claimed
  <2> QED
    BY <2>1, <2>2, Zenon DEF RoutesInv, Owned
<1>3. CASE LeaveLoop
  <2>1. /\ phase = "running" /\ phase' = "teardown"
        /\ UNCHANGED <<table, platform, cfg, before, pending, leaked>>
    BY <1>3 DEF LeaveLoop, hostVars, histVars
  <2>2. rc \in Controllers /\ platform \in {"macos", "windows"}
    BY <2>1 DEF StateInv, TypeOK
  <2>3. \A d : Claimed(d) => Claimed(d)'
    BY <2>1 DEF Claimed
  <2>4. ASSUME NEW d \in Dsts, Owned(d), Reachable(d) PROVE HasDel(d)'
    <3>1. CASE platform = "macos"
      <4>1. script' = macos_teardown
        BY <1>3, <3>1 DEF LeaveLoop
      <4> QED
        BY <2>2, <2>4, <3>1, <4>1, MacosTeardown DEF Owned, Reachable, HasDel, Left
    <3>2. CASE platform = "windows"
      <4>1. script' = windows_teardown
        BY <1>3, <3>2 DEF LeaveLoop
      <4> QED
        BY <2>2, <2>4, <3>2, <4>1, WindowsTeardown DEF Owned, Reachable, HasDel, Left
    <3> QED
      BY <2>2, <3>1, <3>2, Zenon
  <2>5. \A d \in Dsts : table[d] = "gw" => before.table[d] = "gw" \/ Reachable(d)
    BY <2>1 DEF ReachableInv
  <2> QED
    BY <2>1, <2>3, <2>4, <2>5, Zenon DEF RoutesInv
<1>4. CASE ApplyDone
  <2>1. pending = {}
    BY <1>4, Zenon DEF ApplyDone, StateInv
  <2> QED
    BY <1>4, <2>1, Zenon DEF ApplyDone, RoutesInv, Claimed, Owned, hostVars, histVars
<1>5. CASE ReloadDone
  <2>1. /\ phase = "reload" /\ phase' = "running" /\ cfg' = new_cfg
        /\ pending' = pending \ {new_cfg} /\ UNCHANGED <<table, rc, before, leaked>>
    BY <1>5 DEF ReloadDone, hostVars
  <2>2. /\ cfg.proxy = new_cfg.proxy \/ rc.proxy_ip = new_cfg.proxy
        /\ rc.bypass = new_cfg.bypass
    BY <1>5, EmptyScript DEF ReloadDone, FollowsInv, Has, Left
  <2>3. \A d : Added(d) => Owned(d)'
    BY <2>1, <2>2 DEF Added, Owned
  <2>4. \A d : Owned(d) => Owned(d)'
    BY <2>1 DEF Owned
  <2>5. ASSUME NEW d, Claimed(d) PROVE Claimed(d)' \/ Owned(d)'
    <3>1. PICK c \in pending : d \in Range(c.bypass) \/ (d = c.proxy /\ d # cfg.proxy)
      BY <2>1, <2>5 DEF Claimed
    <3> QED
      BY <2>1, <2>2, <3>1 DEF Claimed, Owned
  <2> QED
    BY <2>1, <2>3, <2>4, <2>5 DEF RoutesInv
<1>6. CASE Ends
  <2>1. /\ phase' = "off" /\ UNCHANGED <<before, pending>> /\ (leaked => leaked')
        /\ \A d \in Dsts : table'[d] = "gw" => table[d] = "gw"
    BY <1>6 DEF Ends, End
  <2>2. CASE exit' = "clean"
    <3>1. phase = "teardown" /\ Left = {}
      BY <1>6, <2>2, EmptyScript DEF Ends, Left
    <3>2. \A d : Claimed(d) => Claimed(d)'
      BY <2>1, <3>1 DEF Claimed
    <3> QED
      BY <2>1, <3>1, <3>2 DEF RoutesInv, HasDel
  <2>3. CASE exit' # "clean"
    BY <2>1, <2>3 DEF RoutesInv
  <2> QED
    BY <2>2, <2>3
<1>7. CASE GivesUp
  <2>1. /\ phase = "reload" /\ phase' = "running" /\ pending' = pending \cup {new_cfg}
        /\ UNCHANGED <<table, cfg, rc, before>> /\ (leaked => leaked')
    BY <1>7, Zenon DEF GivesUp
  <2>2. \A d : Claimed(d) \/ Added(d) => Claimed(d)'
    BY <2>1 DEF Claimed, Added
  <2>3. \A d : Owned(d) => Owned(d)'
    BY <2>1 DEF Owned
  <2> QED
    BY <2>1, <2>2, <2>3, Zenon DEF RoutesInv
<1> QED
  BY <1>1, <1>2, <1>3, <1>4, <1>5, <1>6, <1>7, RoutesStep, Kinds

(* What comes before the assignment of the proxy's address in a reload. *)
LEMMA BeforeProxyIp ==
  ASSUME OrderInv, phase = "reload"
  PROVE  /\ 2 \in DOMAIN script /\ script[2].op = "proxy_ip" => IsPin(script[1])
         /\ 3 \in DOMAIN script /\ script[3].op = "proxy_ip" => IsUnpin(script[1])
BY DEF OrderInv

(* A command of a reload keeps the order of deletions and assignments. *)
LEMMA DeletedStep ==
  ASSUME StateInv, CommandsInv, OrderInv, ReachableInv, DeletedInv,
         RouteStep \/ DnsStep, phase = "reload", ~leaked'
  PROVE  DeletedInv'
<1>1. Going
  BY DEF RouteStep, DnsStep
<1>2. UNCHANGED <<phase, cfg, new_cfg, before>> /\ ~leaked
  BY <1>1, Zenon DEF Going
<1>3. /\ Left = {Command} \cup Left' /\ Command = script[1]
      /\ \A i \in DOMAIN script' : i + 1 \in DOMAIN script /\ script'[i] = script[i + 1]
      /\ DOMAIN script' \subseteq Nat \ {0}
  BY <1>1, Goes DEF StateInv
<1>4. ReloadCommand(Command)
  BY <1>1, Commands, Zenon
<1>5. cfg \in Configs /\ cfg.proxy \in Dsts /\ Range(cfg.bypass) \subseteq Dsts
  BY ConfigTypes DEF StateInv
<1>6. ASSUME NEW i \in DOMAIN script', script'[i].op = "proxy_ip", i <= 2,
             table'[cfg.proxy] = "gw"
      PROVE  before.table[cfg.proxy] = "gw"
  <2>1. /\ i + 1 \in DOMAIN script /\ script[i + 1].op = "proxy_ip" /\ i \in {1, 2}
        /\ script[i + 1] \in Left
    BY <1>3, <1>6 DEF Left, Range
  <2>2. new_cfg.proxy # cfg.proxy
    BY <2>1, Zenon DEF CommandsInv, ReloadCommand
  <2>3. CASE i = 1
    <3>1. IsPin(Command)
      BY <1>3, <2>1, <2>3, BeforeProxyIp
    <3>2. table[cfg.proxy] = "gw"
      BY <1>5, <1>6, <2>2, <3>1, TableSteps DEF IsPin
    <3> QED
      BY <1>2, <2>1, <2>3, <3>2 DEF DeletedInv
  <2>4. CASE i = 2
    <3>1. IsUnpin(Command)
      BY <1>3, <2>1, <2>4, BeforeProxyIp
    <3>2. CASE Command.op = "skip" /\ ~Reachable(cfg.proxy)
      <4>1. table[cfg.proxy] = "gw"
        BY <1>5, <1>6, <3>2, TableSteps, Zenon
      <4> QED
        BY <1>5, <3>2, <4>1, Zenon DEF ReachableInv
    <3>3. CASE Command.op = "del" /\ Command.dst = cfg.proxy
      BY <1>4, <1>6, <3>3, TableSteps DEF ReloadCommand
    <3> QED
      BY <3>1, <3>2, <3>3 DEF IsUnpin
  <2> QED
    BY <2>1, <2>3, <2>4, Zenon
<1>7. ASSUME NEW d \in Range(cfg.bypass), table'[d] = "gw", before.table[d] # "gw",
             ~Added(d)
      PROVE  HasDel(d)'
  <2>1. table[d] = "gw"
    BY <1>4, <1>5, <1>7, TableSteps, Zenon DEF ReloadCommand
  <2>2. PICK x \in Left : x.op = "del" /\ x.dst = d /\ x.via = "gw"
    BY <1>2, <1>7, <2>1, Zenon DEF DeletedInv, HasDel
  <2>3. x # Command
    BY <1>7, <2>2, TableSteps, Zenon
  <2> QED
    BY <1>3, <2>2, <2>3 DEF HasDel
<1> QED
  BY <1>2, <1>6, <1>7, Zenon DEF DeletedInv, Added

(* Every step does. *)
LEMMA DeletedNext ==
  ASSUME StateInv, CommandsInv, OrderInv, ReachableInv, DeletedInv, Next
  PROVE  DeletedInv'
<1>1. ASSUME NEW c \in Configs, Reload(c) PROVE DeletedInv'
  <2>1. ReloadsOnMacos(script', cfg, c, rc.gateways)
    BY <1>1, MacosReload DEF Reload, StateInv
  <2>2. /\ phase' = "reload" /\ new_cfg' = c /\ phase = "running" /\ platform = "macos"
        /\ UNCHANGED <<cfg, table, before>> /\ cfg \in Configs
    BY <1>1, Zenon DEF Reload, hostVars, StateInv
  <2>3. \A i \in DOMAIN script' : script'[i].op = "proxy_ip" => i = 3
    BY <2>1 DEF ReloadsOnMacos
  <2>4. ASSUME NEW d \in Range(cfg.bypass), table[d] = "gw", before.table[d] # "gw"
        PROVE  HasDel(d)' \/ Added(d)'
    <3>1. d \in HasGateway(rc.gateways)
      BY <2>2, <2>4, ConfigTypes, Zenon DEF ReachableInv, Reachable
    <3>2. \/ d \in Range(c.bypass)
          \/ \E x \in Range(script') : x.op = "del" /\ x.dst = d /\ x.via = "gw"
      BY <2>1, <2>4, <3>1 DEF ReloadsOnMacos
    <3> QED
      BY <2>2, <3>2, Zenon DEF HasDel, Left, Added
  <2> QED
    BY <2>2, <2>3, <2>4 DEF DeletedInv
<1>2. CASE phase' # "reload" \/ leaked'
  BY <1>2, Zenon DEF DeletedInv
<1>3. CASE (RouteStep \/ DnsStep) /\ phase = "reload" /\ ~leaked'
  BY <1>3, DeletedStep, Zenon
<1> QED
  BY <1>1, <1>2, <1>3, Kinds DEF Start, LeaveLoop, ApplyDone, ReloadDone, Ends, End,
     GivesUp, RouteStep, DnsStep, Going

-----------------------------------------------------------------------------
(* The proxy's route *)

Split == Range(V4_SPLIT) \cup Range(V6_SPLIT)

(* A route that a strict command makes where there was none into the tunnel. *)
LEMMA PinMade ==
  ASSUME StateInv, CommandsInv, RouteStep \/ DnsStep, NEW d \in Dsts,
         \/ Command.op = "bail"
         \/ Command.op = "add" /\ Command.dst = d /\ Command.via = "gw" /\ Command.strict,
         table[d] # "tun"
  PROVE  table'[d] = "gw"
<1>1. Command.op # "bail"
  BY DEF RouteStep, DnsStep, AddRoute, DeleteRoute, AddIgnored, Skip, Assign, SetDns,
         UnsetDns, RestoreDns, SetStatic, SetDhcp, Running, Command
<1>2. table[d] \in {"absent", "gw", "tun"}
  BY DEF StateInv, TypeOK
<1> QED
  BY <1>1, <1>2, TableSteps

(* A reload deletes no route of a proxy that is kept or taken over, if proxies
   have destinations of their own.                                         *)
LEMMA NoProxyDeleted ==
  ASSUME DisjointConfigs, StateInv, CommandsInv, Going, phase = "reload",
         Command.op = "del", NEW d,
         \/ d = new_cfg.proxy
         \/ d = cfg.proxy /\ cfg.proxy = new_cfg.proxy
  PROVE  d # Command.dst
<1>1. ReloadCommand(Command) /\ cfg \in Configs /\ new_cfg \in Configs
  BY Commands DEF StateInv
<1>2. new_cfg.proxy \notin Range(cfg.bypass)
  BY <1>1 DEF DisjointConfigs
<1> QED
  BY <1>1, <1>2, Zenon DEF ReloadCommand

(* A command keeps the proxy's route. *)
LEMMA PinStep ==
  ASSUME StateInv, CommandsInv, OrderInv, PinInv, RouteStep \/ DnsStep
  PROVE  PinInv'
<1>1. Going
  BY DEF RouteStep, DnsStep
<1>2. UNCHANGED <<platform, phase, cfg, new_cfg, pending>>
  BY <1>1 DEF Going
<1>3. phase \in {"apply", "reload", "teardown"}
  BY <1>1, Commands
<1>4. /\ Left = {Command} \cup Left' /\ Command = script[1]
      /\ \A i \in DOMAIN script' : i + 1 \in DOMAIN script /\ script'[i] = script[i + 1]
  BY <1>1, Goes DEF StateInv
<1>5. ASSUME NEW d \in Dsts, table'[d] = "tun" PROVE d \in Split
  <2>1. CASE table[d] = "tun"
    BY <2>1 DEF PinInv, Split
  <2>2. CASE table[d] # "tun"
    <3>1. Command.op = "add" /\ d = Command.dst /\ Command.via = "tun"
      BY <1>5, <2>2, TableSteps, Zenon
    <3> QED
      BY <1>1, <3>1, Commands, Zenon DEF ApplyCommand, ReloadCommand, Split
  <2> QED
    BY <2>1, <2>2
<1>6. ASSUME phase = "apply" PROVE table'[cfg.proxy] = "gw" \/ Exempt'
  <2>1. cfg.proxy \in Dsts
    BY <1>6, ConfigTypes DEF StateInv
  <2>2. CASE table[cfg.proxy] = "gw"
    BY <1>1, <1>6, <2>1, <2>2, TableSteps, Commands
  <2>3. CASE Exempt
    BY <1>2, <2>3, StepFrame, Zenon DEF Exempt
  <2>4. CASE ~Exempt /\ table[cfg.proxy] # "gw"
    <3>1. /\ \A d \in Dsts : table[d] # "tun"
          /\ \/ Command.op = "bail"
             \/ Command.op = "add" /\ Command.dst = cfg.proxy
                  /\ Command.via = "gw" /\ Command.strict
      BY <1>4, <1>6, <2>4, Zenon DEF PinInv
    <3> QED
      BY <2>1, <3>1, PinMade, Zenon
  <2> QED
    BY <2>2, <2>3, <2>4, Zenon
<1>7. ASSUME DisjointConfigs, phase = "reload"
      PROVE  /\ cfg.proxy = new_cfg.proxy => table'[cfg.proxy] = "gw" \/ ProxyMoved
             /\ cfg.proxy # new_cfg.proxy =>
                  table'[new_cfg.proxy] = "gw" \/ Has("proxy_ip")'
             /\ \A i \in DOMAIN script' : script'[i].op = "proxy_ip" /\ i = 1 =>
                  table'[new_cfg.proxy] = "gw"
  <2>1. cfg.proxy \in Dsts /\ new_cfg.proxy \in Dsts /\ new_cfg \in Configs
    BY <1>7, ConfigTypes DEF StateInv
  <2>2. table[new_cfg.proxy] = "gw" => table'[new_cfg.proxy] = "gw"
    BY <1>1, <1>7, <2>1, NoProxyDeleted, TableSteps
  <2>3. Has("proxy_ip") => table'[new_cfg.proxy] = "gw" \/ Has("proxy_ip")'
    <3>1. CASE Command.op = "proxy_ip"
      <4>1. 1 \in DOMAIN script
        BY <1>1, Goes DEF StateInv
      <4>2. table[new_cfg.proxy] = "gw"
        BY <1>4, <1>7, <3>1, <4>1 DEF PinInv
      <4> QED
        BY <2>2, <4>2
    <3>2. CASE Command.op # "proxy_ip"
      BY <1>4, <3>2 DEF Has
    <3> QED
      BY <3>1, <3>2
  <2>4. ASSUME 1 \in DOMAIN script', script'[1].op = "proxy_ip"
        PROVE  table'[new_cfg.proxy] = "gw"
    <3>1. 2 \in DOMAIN script /\ script[2].op = "proxy_ip"
      BY <1>4, <2>4
    <3>2. IsPin(Command) /\ ReloadCommand(Command)
      BY <1>1, <1>4, <1>7, <3>1, Commands, BeforeProxyIp
    <3>3. table[new_cfg.proxy] # "tun"
      BY <1>7, <2>1 DEF PinInv, DisjointConfigs
    <3> QED
      BY <2>1, <3>2, <3>3, PinMade DEF IsPin, ReloadCommand
  <2>5. /\ cfg.proxy = new_cfg.proxy => table[cfg.proxy] = "gw" \/ ProxyMoved
        /\ cfg.proxy # new_cfg.proxy =>
             table[new_cfg.proxy] = "gw" \/ Has("proxy_ip")
    BY <1>7, Zenon DEF PinInv
  <2> QED
    BY <2>2, <2>3, <2>4, <2>5, Zenon
<1>8. ProxyMoved' = ProxyMoved
  BY <1>2 DEF ProxyMoved
<1> QED
  BY <1>2, <1>3, <1>5, <1>6, <1>7, <1>8, Zenon DEF PinInv, Split

(* Every step does. *)
LEMMA PinNext ==
  ASSUME StateInv, CommandsInv, OrderInv, PinInv, Next
  PROVE  PinInv'
<1>1. ASSUME NEW c \in Configs, Start(c) PROVE PinInv'
  <2>1. PICK g \in SUBSET Families :
           /\ rc' = [proxy_ip |-> c.proxy, bypass |-> c.bypass,
                     gateways |-> g, applied |-> FALSE]
           /\ rc' \in Controllers
           /\ platform = "macos" => AppliesOnMacos(script', c, g)
           /\ platform = "windows" => AppliesOnWindows(script', c, g)
    BY <1>1, Starts DEF StateInv
  <2>2. /\ phase = "off" /\ phase' = "apply" /\ cfg' = c
        /\ platform' = platform /\ table' = table
        /\ platform \in {"macos", "windows"} /\ rc'.gateways = g
    BY <1>1, <2>1, Zenon DEF Start, hostVars, StateInv
  <2>3. \A d \in Dsts : table'[d] # "tun"
    BY <2>2, Zenon DEF PinInv
  <2>4. \/ Exempt'
        \/ /\ script' # <<>>
           /\ \/ script'[1].op = "bail"
              \/ script'[1].op = "add" /\ script'[1].dst = c.proxy
                  /\ script'[1].via = "gw" /\ script'[1].strict
    BY <2>1, <2>2 DEF Exempt, AppliesOnMacos, AppliesOnWindows
  <2> QED
    BY <2>2, <2>3, <2>4 DEF PinInv
<1>2. ASSUME NEW c \in Configs, Reload(c) PROVE PinInv'
  <2>1. ReloadsOnMacos(script', cfg, c, rc.gateways)
    BY <1>2, MacosReload DEF Reload, StateInv
  <2>2. /\ phase = "running" /\ phase' = "reload" /\ new_cfg' = c /\ platform = "macos"
        /\ UNCHANGED <<table, cfg, pending>>
    BY <1>2 DEF Reload, hostVars
  <2>3. cfg.proxy # c.proxy => Has("proxy_ip")'
    BY <2>1 DEF ReloadsOnMacos, Has, Left
  <2>4. \A i \in DOMAIN script' : script'[i].op = "proxy_ip" => i = 3
    BY <2>1 DEF ReloadsOnMacos
  <2>5. ProxyMoved' = ProxyMoved /\ ~Exempt
    BY <2>2 DEF ProxyMoved, Exempt
  <2>6. \A d \in Dsts : table'[d] = "tun" => d \in Split
    BY <2>2 DEF PinInv, Split
  <2>7. DisjointConfigs /\ cfg.proxy = c.proxy => table[cfg.proxy] = "gw" \/ ProxyMoved
    BY <2>2, <2>5 DEF PinInv
  <2>8. DisjointConfigs =>
          /\ cfg.proxy = c.proxy => table[cfg.proxy] = "gw" \/ ProxyMoved'
          /\ cfg.proxy # c.proxy => table[c.proxy] = "gw" \/ Has("proxy_ip")'
          /\ \A i \in DOMAIN script' : script'[i].op = "proxy_ip" /\ i = 1 =>
               table[c.proxy] = "gw"
    BY <2>3, <2>4, <2>5, <2>7
  <2> QED
    BY <2>2, <2>6, <2>8 DEF PinInv, Split
<1>3. CASE LeaveLoop
  BY <1>3 DEF LeaveLoop, PinInv, hostVars
<1>4. CASE ApplyDone
  <2>1. table[cfg.proxy] = "gw" \/ Exempt
    BY <1>4, Zenon DEF ApplyDone, PinInv
  <2>2. Exempt' = Exempt
    BY <1>4 DEF ApplyDone, Exempt, hostVars
  <2> QED
    BY <1>4, <2>1, <2>2, Zenon DEF ApplyDone, PinInv, hostVars
<1>5. CASE ReloadDone
  <2>1. /\ phase = "reload" /\ phase' = "running" /\ cfg' = new_cfg /\ table' = table
        /\ pending' = pending \ {new_cfg}
    BY <1>5 DEF ReloadDone, hostVars
  <2>2. ~Has("proxy_ip")
    BY <1>5, EmptyScript DEF ReloadDone, Has, Left
  <2>3. cfg.proxy = new_cfg.proxy /\ ProxyMoved => ProxyMoved'
    BY <2>1 DEF ProxyMoved
  <2>4. DisjointConfigs => table[new_cfg.proxy] = "gw" \/ ProxyMoved'
    BY <2>1, <2>2, <2>3, Zenon DEF PinInv
  <2> QED
    BY <2>1, <2>4, Zenon DEF PinInv
<1>6. CASE Ends
  BY <1>6, Zenon DEF Ends, End, PinInv
<1>7. CASE GivesUp
  <2>1. /\ phase = "reload" /\ phase' = "running" /\ pending' = pending \cup {new_cfg}
        /\ UNCHANGED <<table, cfg>>
    BY <1>7, Zenon DEF GivesUp
  <2>2. ProxyMoved \/ cfg.proxy # new_cfg.proxy => ProxyMoved'
    BY <2>1 DEF ProxyMoved
  <2> QED
    BY <2>1, <2>2 DEF PinInv
<1> QED
  BY <1>1, <1>2, <1>3, <1>4, <1>5, <1>6, <1>7, PinStep, Kinds, Zenon

-----------------------------------------------------------------------------
(* DNS servers *)

(* The DNS servers are the same if they are for every slot. *)
LEMMA SameResolver ==
  ASSUME NEW r \in [Slots -> Servers], NEW s \in [Slots -> Servers],
         r["service"] = s["service"], \A f \in Families : r[f] = s[f]
  PROVE  r = s
BY DEF Slots

(* The command that changes the DNS server is the last. *)
LEMMA ChangeIsLast ==
  ASSUME StateInv, CommandsInv, OrderInv, Going, Command.op = "change"
  PROVE  script' = <<>> /\ phase = "reload"
<1>1. /\ Command = script[1] /\ 1 \in DOMAIN script /\ phase = "reload"
      /\ IsScript(script)' /\ DOMAIN script' \subseteq Nat \ {0}
      /\ \A i \in DOMAIN script' : i + 1 \in DOMAIN script
  BY Goes, Commands, Zenon DEF StateInv
<1>2. ASSUME NEW i \in DOMAIN script' PROVE FALSE
  <2>1. i + 1 \in DOMAIN script /\ 1 < i + 1
    BY <1>1, <1>2
  <2> QED
    BY <1>1, <2>1, Zenon DEF OrderInv
<1>3. script' \in Seq(Range(script'))
  BY <1>1, Zenon DEF IsScript
<1>4. DOMAIN script' = {}
  BY <1>2
<1> QED
  BY <1>1, <1>3, <1>4

(* A command keeps the account of the DNS servers of a macOS service, ... *)
LEMMA MacosDnsStep ==
  ASSUME StateInv, CommandsInv, OrderInv, MacosDns, platform = "macos",
         RouteStep \/ DnsStep
  PROVE  MacosDns'
<1>1. Going
  BY DEF RouteStep, DnsStep
<1>2. UNCHANGED <<platform, phase, cfg, new_cfg, before>> /\ (leaked => leaked')
  BY <1>1 DEF Going
<1>3. /\ phase \in {"apply", "reload", "teardown"} /\ script # <<>>
      /\ cfg \in Configs /\ DOMAIN dns = {"current", "original", "configured"}
      /\ resolver \in [Slots -> Servers]
  BY <1>1, Commands DEF StateInv, Going
<1>4. Left = {Command} \cup Left'
  BY <1>1, Goes DEF StateInv
<1>5. Command.op \notin {"static", "dhcp"}
  BY <1>1, Commands, Zenon DEF ApplyCommand, TeardownCommand
<1>6. /\ "service" \notin Families /\ resolver["service"] # None
      /\ "service" \in Slots /\ Families \subseteq Slots
  BY <1>3, ServersAre, SlotsAre DEF Families, Slots
<1>7. CASE RouteStep
  <2>1. Command.op \in {"add", "del", "skip", "proxy_ip", "bypass", "applied"}
    BY <1>7 DEF RouteStep, AddRoute, DeleteRoute, AddIgnored, Skip, Assign, Running,
       Command
  <2>2. \A op \in {"set", "change", "restore"} : Has(op) => Has(op)'
    BY <1>4, <2>1 DEF Has
  <2>3. UNCHANGED <<resolver, dns>>
    BY <1>7, Zenon DEF RouteStep
  <2> QED
    BY <1>2, <1>3, <2>2, <2>3, Zenon DEF MacosDns
<1>8. CASE SetDns
  <2>1. /\ Command.op \in {"set", "change"} /\ Command.server # None
        /\ Command.server = IF phase = "apply" THEN cfg.dns ELSE new_cfg.dns
        /\ phase \in {"apply", "reload"}
        /\ phase = "reload" => script' = <<>>
        /\ Command.server \in Servers
    <3>1. CASE Running("set")
      BY <1>1, <1>3, <3>1, Commands, ServersAre, Zenon DEF ApplyCommand, Running, Command
    <3>2. CASE Running("change") /\ Command.server # None
      <4>1. Command.op = "change"
        BY <3>2 DEF Running, Command
      <4>2. phase = "reload" /\ script' = <<>> /\ Command.server = new_cfg.dns
        BY <1>1, <4>1, ChangeIsLast, Commands, Zenon DEF ReloadCommand
      <4>3. new_cfg \in Configs
        BY <4>2 DEF StateInv
      <4> QED
        BY <3>2, <4>1, <4>2, <4>3, ServersAre
    <3> QED
      BY <1>8, <3>1, <3>2 DEF SetDns
  <2>2. /\ resolver'["service"] = Command.server
        /\ \A s \in Families : resolver'[s] = resolver[s]
    <3>1. resolver' = [resolver EXCEPT !["service"] = Command.server]
      BY <1>8 DEF SetDns
    <3> QED
      BY <1>3, <1>6, <3>1
  <2>6. dns'.current = Command.server
    BY <1>3, <1>8, Zenon DEF SetDns
  <2>3. \/ dns'.original = ensure_backup /\ leaked' = leaked
        \/ dns'.original = Empty /\ leaked'
    BY <1>3, <1>8, Zenon DEF SetDns
  <2>4. /\ ensure_backup \in Servers
        /\ ~leaked => ensure_backup = before.resolver["service"]
    BY <1>3, <1>6, ServersAre, SlotsAre DEF MacosDns, ensure_backup
  <2>5. dns'.original \in Servers /\ dns'.original # None
    BY <2>3, <2>4, ServersAre, Zenon
  <2> QED
    BY <1>2, <2>1, <2>2, <2>3, <2>4, <2>5, <2>6 DEF MacosDns
<1>9. CASE UnsetDns
  <2>1. Command.op = "change"
    BY <1>9 DEF UnsetDns, Running, Command
  <2>2. phase = "reload" /\ script' = <<>> /\ Command.server = new_cfg.dns
    BY <1>1, <2>1, ChangeIsLast, Commands, Zenon DEF ReloadCommand
  <2>3. /\ dns'.current = Command.server /\ dns'.original = dns.original
        /\ \A s \in Families : resolver'[s] = resolver[s]
        /\ resolver'["service"] =
             IF Command.server # dns.current /\ dns.original # None
               THEN dns.original ELSE resolver["service"]
        /\ Command.server = None \/ Command.server = dns.current
        /\ leaked' = leaked
    BY <1>3, <1>6, <1>9, SlotsAre DEF UnsetDns, histVars
  <2> QED
    BY <1>2, <2>2, <2>3 DEF MacosDns
<1>10. CASE RestoreDns
  <2>1. Command.op = "restore"
    BY <1>10 DEF RestoreDns, Running, Command
  <2>2. phase = "teardown"
    BY <1>1, <2>1, Commands
  <2>3. CASE dns.current = None /\ UNCHANGED <<resolver, dns, leaked>>
    BY <1>2, <2>2, <2>3 DEF MacosDns
  <2>4. CASE /\ dns.current # None
             /\ dns' = [dns EXCEPT !.current = None, !.original = None]
             /\ \/ /\ resolver' = [resolver EXCEPT !["service"] = dns.original]
                   /\ UNCHANGED leaked
                \/ leaked' = TRUE /\ UNCHANGED resolver
    <3>1. dns'.current = None /\ dns'.original = None
      BY <1>3, <2>4
    <3>2. /\ \A s \in Families : resolver'[s] = resolver[s]
          /\ leaked' \/ resolver'["service"] = dns.original
      BY <1>3, <1>6, <2>4
    <3> QED
      BY <1>2, <2>2, <2>4, <3>1, <3>2 DEF MacosDns
  <2> QED
    BY <1>10, <2>3, <2>4 DEF RestoreDns
<1> QED
  BY <1>5, <1>7, <1>8, <1>9, <1>10 DEF DnsStep, SetStatic, SetDhcp, Running, Command

(* ... or of a Windows interface. *)
LEMMA WindowsDnsStep ==
  ASSUME StateInv, CommandsInv, WindowsDns, platform = "windows",
         RouteStep \/ DnsStep
  PROVE  WindowsDns'
<1>1. Going
  BY DEF RouteStep, DnsStep
<1>2. UNCHANGED <<phase, cfg, before>> /\ phase # "off"
  BY <1>1, Commands, Zenon DEF Going
<1> SUFFICES ASSUME phase = "apply"
             PROVE  IF cfg.dns = None THEN resolver' = AllSystem
                    ELSE resolver'[Family[cfg.dns]] = cfg.dns \/ Has("static")'
  BY <1>1, <1>2, Commands, Zenon DEF WindowsDns
<1>3. ApplyCommand(Command) /\ Left = {Command} \cup Left'
  BY <1>1, Commands, Goes DEF StateInv
<1>4. CASE Command.op = "static"
  <2>1. Command.server = cfg.dns /\ cfg.dns # None /\ cfg \in Configs
    BY <1>3, <1>4, Zenon DEF ApplyCommand, StateInv
  <2>2. Family[cfg.dns] \in Slots /\ resolver \in [Slots -> Servers]
    BY <2>1, ConfigTypes DEF StateInv, Slots
  <2>3. SetStatic
    BY <1>4 DEF RouteStep, DnsStep, AddRoute, AddIgnored, DeleteRoute, Skip, Assign,
       SetDns, UnsetDns, RestoreDns, SetDhcp, Running, Command
  <2> QED
    BY <2>1, <2>2, <2>3 DEF SetStatic
<1>5. CASE Command.op # "static"
  <2>1. resolver' = resolver
    BY <1>3, <1>5 DEF RouteStep, DnsStep, SetDns, UnsetDns, RestoreDns, SetStatic,
       SetDhcp, Running, Command, ApplyCommand
  <2>2. Has("static") => Has("static")'
    BY <1>3, <1>5 DEF Has
  <2> QED
    BY <2>1, <2>2 DEF WindowsDns
<1> QED
  BY <1>4, <1>5

(* Every step does, and a clean exit brings them back. *)
LEMMA DnsNext ==
  ASSUME StateInv, CommandsInv, OrderInv, DnsInv, Next
  PROVE  DnsInv'
<1>1. platform \in {"macos", "windows"} /\ resolver \in [Slots -> Servers]
  BY DEF StateInv
<1>2. ASSUME NEW c \in Configs, Start(c) PROVE DnsInv'
  <2>1. /\ phase = "off" /\ phase' = "apply" /\ cfg' = c /\ exit' = "none"
        /\ platform' = platform /\ resolver' = resolver
        /\ before'.resolver = resolver /\ dns'.current = None /\ dns'.original = None
    BY <1>2, Zenon DEF Start, hostVars
  <2>2. /\ platform = "macos" => AppliesOnMacos(script', c, rc'.gateways)
        /\ platform = "windows" => AppliesOnWindows(script', c, rc'.gateways)
    BY <1>1, <1>2, Starts
  <2>3. /\ platform = "macos" => c.dns = None \/ Has("set")'
        /\ platform = "windows" => c.dns = None \/ Has("static")'
    BY <2>2 DEF AppliesOnMacos, AppliesOnWindows, Has, Left
  <2> QED
    BY <2>1, <2>3, Zenon DEF DnsInv, DnsRestored, MacosDns, WindowsDns
<1>3. ASSUME phase # "off", exit' = exit PROVE DnsRestored'
  BY <1>3 DEF StateInv, DnsRestored
<1>4. ASSUME NEW c \in Configs, Reload(c) PROVE DnsInv'
  <2>1. ReloadsOnMacos(script', cfg, c, rc.gateways)
    BY <1>4, MacosReload DEF Reload, StateInv
  <2>2. cfg.dns = c.dns \/ Has("change")'
    BY <2>1 DEF ReloadsOnMacos, Has, Left
  <2>3. /\ phase = "running" /\ phase' = "reload" /\ platform = "macos" /\ new_cfg' = c
        /\ UNCHANGED <<platform, resolver, cfg, dns, before, leaked, exit>>
    BY <1>4 DEF Reload, hostVars
  <2> QED
    BY <1>3, <2>2, <2>3, Zenon DEF DnsInv, MacosDns
<1>5. CASE LeaveLoop
  <2>1. /\ phase = "running" /\ phase' = "teardown"
        /\ UNCHANGED <<platform, resolver, cfg, dns, before, leaked, exit>>
    BY <1>5 DEF LeaveLoop, hostVars, histVars
  <2>2. platform = "macos" => Has("restore")'
    <3>1. rc \in Controllers
      BY <2>1, Zenon DEF StateInv, TypeOK
    <3> QED
      BY <1>5, <3>1, MacosTeardown DEF LeaveLoop, Has, Left
  <2> QED
    BY <1>3, <2>1, <2>2, Zenon DEF DnsInv, MacosDns, WindowsDns
<1>6. CASE ApplyDone
  <2>1. /\ phase = "apply" /\ phase' = "running"
        /\ UNCHANGED <<platform, resolver, cfg, dns, before, leaked, exit>>
    BY <1>6 DEF ApplyDone, hostVars, histVars
  <2>2. ~Has("set") /\ ~Has("static")
    BY <1>6, EmptyScript DEF ApplyDone, Has, Left
  <2> QED
    BY <1>3, <2>1, <2>2 DEF DnsInv, MacosDns, WindowsDns
<1>7. CASE ReloadDone
  <2>1. /\ phase = "reload" /\ phase' = "running" /\ cfg' = new_cfg
        /\ UNCHANGED <<platform, resolver, dns, before, leaked, exit>>
    BY <1>7 DEF ReloadDone, hostVars
  <2>2. ~Has("change") /\ platform = "macos"
    BY <1>7, EmptyScript DEF ReloadDone, Has, Left, StateInv
  <2> QED
    BY <1>3, <2>1, <2>2, Zenon DEF DnsInv, MacosDns
<1>8. CASE Ends
  <2>1. /\ phase # "off" /\ phase' = "off" /\ UNCHANGED <<platform, before>>
        /\ leaked => leaked'
        /\ resolver' = IF platform = "windows" THEN AllSystem ELSE resolver
    BY <1>8 DEF Ends, End, AllSystem
  <2>2. platform = "windows" /\ WindowsDns => WindowsDns'
    BY <2>1 DEF WindowsDns
  <2>3. DnsRestored'
    <3> SUFFICES ASSUME exit' = "clean", ~leaked' PROVE resolver' = before.resolver
      BY <2>1 DEF DnsRestored
    <3>1. phase = "teardown" /\ ~Has("restore")
      BY <1>8, EmptyScript DEF Ends, Has, Left
    <3>2. CASE platform = "macos"
      <4>1. /\ resolver["service"] = before.resolver["service"]
            /\ \A s \in Families : resolver[s] = before.resolver[s]
        BY <2>1, <3>1, <3>2 DEF DnsInv, MacosDns
      <4>2. before.resolver \in [Slots -> Servers]
        BY DEF StateInv
      <4>3. resolver = before.resolver
        BY <1>1, <4>1, <4>2, SameResolver
      <4> QED
        BY <2>1, <3>2, <4>3
    <3>3. CASE platform = "windows"
      BY <2>1, <3>3 DEF DnsInv, WindowsDns
    <3> QED
      BY <1>1, <3>2, <3>3
  <2> QED
    BY <2>1, <2>2, <2>3 DEF DnsInv
<1>9. CASE GivesUp
  <2>1. /\ phase = "reload" /\ phase' = "running" /\ script # <<>>
        /\ UNCHANGED <<platform, resolver, cfg, before, exit>> /\ (leaked => leaked')
        /\ dns'.current = dns.current
        /\ \/ dns'.original = dns.original
           \/ dns.original = None /\ dns'.original = resolver["service"]
           \/ dns.original = None /\ dns'.original = Empty /\ leaked'
    BY <1>9 DEF GivesUp
  <2>2. platform = "macos" /\ MacosDns
    BY <2>1 DEF StateInv, DnsInv
  <2>3. resolver["service"] \in Servers /\ Empty \in Servers
    BY <1>1, SlotsAre, ServersAre
  <2>4. MacosDns'
    BY <2>1, <2>2, <2>3 DEF MacosDns
  <2> QED
    BY <1>3, <2>1, <2>2, <2>4, Zenon DEF DnsInv
<1>10. CASE RouteStep \/ DnsStep
  <2>1. Going
    BY <1>10 DEF RouteStep, DnsStep
  <2>2. phase # "off" /\ UNCHANGED <<phase, platform, exit>>
    BY <2>1, Commands DEF Going
  <2>3. platform = "macos" => MacosDns'
    BY <1>10, <2>2, MacosDnsStep DEF DnsInv
  <2>4. platform = "windows" => WindowsDns'
    BY <1>10, WindowsDnsStep DEF DnsInv
  <2> QED
    BY <1>3, <2>2, <2>3, <2>4 DEF DnsInv
<1> QED
  BY <1>2, <1>4, <1>5, <1>6, <1>7, <1>8, <1>9, <1>10, Kinds

-----------------------------------------------------------------------------
(* The theorems *)

(* The limits of a process are computed when it starts. *)
LEMMA DescriptorsNext ==
  ASSUME StateInv, CommandsInv, DescriptorsFit, Next
  PROVE  DescriptorsFit'
<1>1. ASSUME NEW c \in Configs, Start(c) PROVE DescriptorsFit'
  <2>1. PICK gateways \in HostGateways, has_v6 \in BOOLEAN, link_mtu \in LinkMtus,
             limit \in FdLimits, raised \in BOOLEAN :
       LET fds == IF platform = "macos"
                    THEN raise_and_read_fd_limit(limit, raised) ELSE None
           t == compute([link_mtu |-> link_mtu, has_ipv6_gateway |-> has_v6,
                         total_memory |-> None, fd_limit |-> fds])
       IN  /\ tuning' = [max_tcp |-> t.max_tcp, max_udp |-> t.max_udp, fds |-> fds,
                         capture_ipv6 |-> t.capture_ipv6]
           /\ rc' = [proxy_ip |-> c.proxy, bypass |-> c.bypass,
                     gateways |-> gateways, applied |-> FALSE]
           /\ script' = IF platform = "macos"
                          THEN macos_apply(c, gateways, t.capture_ipv6)
                          ELSE windows_apply(c, gateways, t.capture_ipv6)
    BY <1>1, Zenon DEF Start
  <2> DEFINE fds == IF platform = "macos"
                      THEN raise_and_read_fd_limit(limit, raised) ELSE None
             probe == [link_mtu |-> link_mtu, has_ipv6_gateway |-> has_v6,
                       total_memory |-> None, fd_limit |-> fds]
             t == compute(probe)
  <2>2. tuning' = [max_tcp |-> t.max_tcp, max_udp |-> t.max_udp, fds |-> fds,
                   capture_ipv6 |-> t.capture_ipv6]
    BY <2>1, Zenon
  <2>3. fds \in Nat \cup {None}
    BY CommandRoutesAssumption DEF raise_and_read_fd_limit
  <2> HIDE DEF fds
  <2>4. probe \in Probes /\ probe.fd_limit = fds
    BY <2>3, CommandRoutesAssumption DEF Probes
  <2> HIDE DEF probe
  <2>5. ASSUME fds # None PROVE FitsDescriptors(fds, t)
    <3>1. fds \in Nat /\ fds = unwrap_or(probe.fd_limit, DEFAULT_FD_LIMIT)
      BY <2>3, <2>4, <2>5 DEF unwrap_or
    <3> QED
      BY <2>4, <3>1, TuningFits
  <2> HIDE DEF t
  <2> QED
    BY <2>2, <2>5, Zenon DEF DescriptorsFit, FitsDescriptors
<1>2. CASE Ends
  BY <1>2 DEF Ends, End, DescriptorsFit
<1>3. CASE tuning' = tuning
  BY <1>3 DEF DescriptorsFit, FitsDescriptors
<1> QED
  BY <1>1, <1>2, <1>3, Kinds DEF Reload, LeaveLoop, ApplyDone, ReloadDone, GivesUp,
     RouteStep, DnsStep, Going

(* The inductive invariant. *)
IInv ==
  /\ StateInv /\ CommandsInv /\ OrderInv /\ FollowsInv
  /\ ReachableInv /\ RoutesInv /\ DeletedInv /\ PinInv /\ DnsInv /\ DescriptorsFit

(* The invariant holds initially, ... *)
LEMMA Initially == Init => IInv
<1> SUFFICES ASSUME Init PROVE IInv
  OBVIOUS
<1>1. StateInv /\ CommandsInv
  BY StateInit, CommandsInit
<1>2. OrderInv /\ FollowsInv /\ ReachableInv /\ RoutesInv /\ DeletedInv
  BY Zenon DEF Init, OrderInv, FollowsInv, ReachableInv, RoutesInv, DeletedInv
<1>3. PinInv
  BY Zenon DEF Init, PinInv
<1>4. DnsInv
  BY DEF Init, DnsInv, DnsRestored, WindowsDns, AllSystem
<1>5. DescriptorsFit
  BY DEF Init, DescriptorsFit
<1> QED
  BY <1>1, <1>2, <1>3, <1>4, <1>5 DEF IInv

(* ... when nothing changes ... *)
LEMMA Stutters == IInv /\ UNCHANGED vars => IInv'
<1> SUFFICES ASSUME IInv, UNCHANGED vars PROVE IInv'
  OBVIOUS
<1>1. /\ UNCHANGED <<platform, table, resolver, phase, script, cfg, new_cfg, rc, dns>>
      /\ UNCHANGED <<tuning, exit, before, pending, leaked>>
  BY Zenon DEF vars, hostVars, procVars, histVars
<1>2. /\ UNCHANGED Left /\ \A op : Has(op)' = Has(op) /\ \A d : HasDel(d)' = HasDel(d)
  BY <1>1 DEF Left, Has, HasDel
<1>3. \A d : Reachable(d)' = Reachable(d) /\ Added(d)' = Added(d)
  BY <1>1 DEF Reachable, Added
<1>4. \A d : Claimed(d)' = Claimed(d) /\ Owned(d)' = Owned(d)
  BY <1>1, Zenon DEF Claimed, Owned
<1>5. StateInv'
  BY <1>1, <1>2 DEF IInv, StateInv, TypeOK, IsScript
<1>6. CommandsInv'
  BY <1>1, <1>2, <1>3, Zenon DEF IInv, CommandsInv, ApplyCommand, ReloadCommand, TeardownCommand
<1>7. OrderInv'
  BY <1>1, <1>3 DEF IInv, OrderInv, IsPin, IsUnpin
<1>8. FollowsInv'
  BY <1>1, <1>2, Zenon DEF IInv, FollowsInv
<1>9. ReachableInv'
  BY <1>1, <1>3, Zenon DEF IInv, ReachableInv
<1>10. RoutesInv' /\ DeletedInv'
  BY <1>1, <1>2, <1>3, <1>4, Zenon DEF IInv, RoutesInv, DeletedInv
<1>11. PinInv'
  BY <1>1, <1>2, Zenon DEF IInv, PinInv, ProxyMoved, Exempt
<1>12. DnsInv'
  BY <1>1, <1>2, Zenon DEF IInv, DnsInv, DnsRestored, MacosDns, WindowsDns
<1>13. DescriptorsFit'
  BY <1>1, Zenon DEF IInv, DescriptorsFit, FitsDescriptors
<1> QED
  BY <1>5, <1>6, <1>7, <1>8, <1>9, <1>10, <1>11, <1>12, <1>13 DEF IInv

(* ... and after every step. *)
LEMMA Steps == IInv /\ Next => IInv'
<1> SUFFICES ASSUME IInv, Next PROVE IInv'
  OBVIOUS
<1>1. /\ StateInv /\ CommandsInv /\ OrderInv /\ FollowsInv
      /\ ReachableInv /\ RoutesInv /\ DeletedInv /\ PinInv /\ DnsInv /\ DescriptorsFit
  BY Zenon DEF IInv
<1>2. StateInv' /\ CommandsInv'
  BY <1>1, StateNext, CommandsNext
<1>3. OrderInv' /\ FollowsInv'
  BY <1>1, OrderNext, FollowsNext
<1>4. ReachableInv' /\ RoutesInv' /\ DeletedInv'
  BY <1>1, ReachableNext, RoutesNext, DeletedNext
<1>5. PinInv' /\ DnsInv' /\ DescriptorsFit'
  BY <1>1, PinNext, DnsNext, DescriptorsNext
<1> QED
  BY <1>2, <1>3, <1>4, <1>5, Zenon DEF IInv

(* The inductive invariant, about every operation of the two back ends. *)
THEOREM Inductive == Spec => []IInv
<1>1. IInv /\ [Next]_vars => IInv'
  BY Steps, Stutters
<1> QED
  BY Initially, <1>1, PTL DEF Spec

(* The controllers keep their types, and applied is set exactly while a
   reload or a teardown can come.                                          *)
THEOREM TypeCorrect == Spec => []TypeOK
<1>1. IInv => TypeOK
  BY Zenon DEF IInv, StateInv
<1> QED
  BY <1>1, Inductive, PTL

(* teardown(), after any sequence of reloads that succeed or fail at any
   command, leaves no route through a gateway that it is not excused for.  *)
THEOREM RoutesRemoved == Spec => []TeardownRemovesRoutes
<1>1. IInv => TeardownRemovesRoutes
  <2> SUFFICES ASSUME IInv, exit = "clean", ~leaked, NEW d \in Dsts, table[d] = "gw",
                      before.table[d] # "gw"
               PROVE  \E c \in pending : d \in Named(c)
    BY Zenon DEF TeardownRemovesRoutes
  <2>1. phase = "off"
    BY Zenon DEF IInv, StateInv
  <2>2. Claimed(d)
    BY <2>1, Zenon DEF IInv, RoutesInv
  <2> QED
    BY <2>2, Zenon DEF Claimed, Named
<1> QED
  BY <1>1, Inductive, PTL

(* During apply() and while the process runs with no failed reload pending,
   the proxy is reached outside of the tunnel if there is a split route:
   apply() pins it first, and a reload that returns has pinned the new one.
   Between the commands of that reload, and in teardown, neither may be.   *)
THEOREM ProxyStaysPinned == Spec => []ProxyPinned
<1>1. IInv => ProxyPinned
  <2> SUFFICES ASSUME IInv, DisjointConfigs, phase \in {"apply", "running"},
                      pending = {}, NEW d \in Dsts, table[d] = "tun", ~Exempt
               PROVE  table[rc.proxy_ip] = "gw"
    BY DEF ProxyPinned, Exempt
  <2>1. rc.proxy_ip = cfg.proxy
    BY Zenon DEF IInv, FollowsInv
  <2>2. ~ProxyMoved
    BY Zenon DEF ProxyMoved
  <2> QED
    BY <2>1, <2>2, Zenon DEF IInv, PinInv
<1> QED
  BY <1>1, Inductive, PTL

(* NetworkSetupDns and NetshDns leave the configured server set, after every
   reload, or the ones from before the process.                            *)
THEOREM DnsAsConfigured == Spec => []DnsFollowsConfig
<1>1. IInv => DnsFollowsConfig
  <2> SUFFICES ASSUME IInv, phase = "running", ~leaked
               PROVE  IF cfg.dns = None THEN resolver = before.resolver
                      ELSE resolver[IF platform = "macos" THEN "service"
                                    ELSE Family[cfg.dns]] = cfg.dns
    BY Zenon DEF DnsFollowsConfig
  <2>1. /\ platform \in {"macos", "windows"} /\ resolver \in [Slots -> Servers]
        /\ before.resolver \in [Slots -> Servers]
    BY Zenon DEF IInv, StateInv
  <2>2. CASE platform = "macos"
    <3>1. MacosDns
      BY <2>2, Zenon DEF IInv, DnsInv
    <3>2. dns.current = cfg.dns /\ \A s \in Families : resolver[s] = before.resolver[s]
      BY <3>1, Zenon DEF MacosDns
    <3>3. CASE cfg.dns = None
      <4>1. resolver["service"] = before.resolver["service"]
        BY <3>1, <3>2, <3>3, Zenon DEF MacosDns
      <4> QED
        BY <2>1, <3>2, <3>3, <4>1, SameResolver, Zenon
    <3>4. CASE cfg.dns # None
      BY <2>2, <3>1, <3>2, <3>4, Zenon DEF MacosDns
    <3> QED
      BY <3>3, <3>4
  <2>3. CASE platform = "windows"
    BY <2>3 DEF IInv, DnsInv, WindowsDns
  <2> QED
    BY <2>1, <2>2, <2>3, Zenon
<1> QED
  BY <1>1, Inductive, PTL

(* restore() brings back the servers from before the process. *)
THEOREM DnsBroughtBack == Spec => []DnsRestored
<1>1. IInv => DnsRestored
  BY DEF IInv, DnsInv
<1> QED
  BY <1>1, Inductive, PTL

(* The limits that a process computes at its start fit its descriptors. *)
THEOREM DescriptorsSuffice == Spec => []DescriptorsFit
<1>1. IInv => DescriptorsFit
  BY DEF IInv
<1> QED
  BY <1>1, Inductive, PTL

=============================================================================
