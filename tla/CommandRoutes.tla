---------------------------- MODULE CommandRoutes ---------------------------
(***************************************************************************)
(* The life of a cortado process on macOS and on Windows, whose route and  *)
(* DNS controllers run system commands: apply, reload and teardown of      *)
(* src/platform/{macos,windows}/{route,dns}.rs, each of them a script of   *)
(* commands that run one after the other and may fail. A failure ends a    *)
(* script unless it is ignored ("quiet"). Windows has no reload signal.    *)
(***************************************************************************)
EXTENDS Sequences, Functions, Tuning

CONSTANTS
  Dsts,               \* destinations of routes, as in Tunnel
  Family,             \* [Dsts and DNS servers -> {"v4", "v6"}]
  V4_SPLIT, V6_SPLIT, \* sequences of destinations
  Configs,            \* valid configurations: proxy, bypass (a sequence), dns
  HostGateways,       \* sets of families a host may have default gateways for
  LinkMtus, FdLimits, \* what probe() may find
  System,             \* DNS servers that are not of cortado's making
  Empty,              \* no DNS servers
  MaxStarts,          \* bound: number of processes started
  MaxReloads          \* bound: number of SIGHUPs acted upon

Families == {"v4", "v6"}

Controllers == [proxy_ip : Dsts, bypass : Seq(Dsts), gateways : SUBSET Families,
                applied : BOOLEAN]

ASSUME CommandRoutesAssumption ==
  /\ \A c \in Configs : /\ c.proxy \in Dsts /\ c.bypass \in Seq(Dsts)
                        /\ c.dns # None => Family[c.dns] \in Families
  /\ V4_SPLIT \in Seq(Dsts) /\ V6_SPLIT \in Seq(Dsts)
  /\ HostGateways \subseteq SUBSET Families
  /\ LinkMtus \subseteq Nat \cup {None}
  /\ FdLimits \subseteq [current : Nat \cup {None}, maximum : Nat \cup {None}]
  /\ None \notin Nat /\ None \notin Controllers
  /\ System # None /\ Empty # None
  /\ MaxStarts \in Nat /\ MaxReloads \in Nat

VARIABLES
  platform,   \* "macos" or "windows"
  table,      \* the routing table: "absent", "gw" or "tun"
  resolver,   \* the DNS servers: macOS has those of a service, Windows those
              \* of each family of the TUN interface
  phase,      \* "off", "apply", "running", "reload" or "teardown"
  script,     \* commands still to be run
  cfg,        \* run()'s configuration ...
  new_cfg,    \* ... and the one being applied
  rc,         \* MacosRoutes or WindowsRoutes
  dns,        \* NetworkSetupDns or NetshDns
  tuning,     \* what compute() returned, and the limit it was told
  exit,       \* how the last process ended
  before,     \* history: table and resolver when the process started
  pending,    \* history: configurations whose reload failed
  leaked,     \* history: a command that removes or reads something failed
  starts, reloads

hostVars == <<platform, table, resolver>>
procVars == <<phase, script, cfg, new_cfg, rc, dns, tuning>>
histVars == <<exit, before, pending, leaked, starts, reloads>>
vars == <<hostVars, procVars, histVars>>

Slots == {"service"} \cup Families

Init ==
  /\ platform \in {"macos", "windows"}
  /\ table = [d \in Dsts |-> "absent"]
  /\ resolver = [s \in Slots |-> System]
  /\ phase = "off" /\ script = <<>>
  /\ cfg = None /\ new_cfg = None /\ rc = None /\ dns = None /\ tuning = None
  /\ exit = "none" /\ before = [table |-> table, resolver |-> resolver]
  /\ pending = {} /\ leaked = FALSE
  /\ starts = 0 /\ reloads = 0

-----------------------------------------------------------------------------
(* Scripts *)

Add(d, via, strict) == [op |-> "add", dst |-> d, via |-> via, strict |-> strict]
Del(d, via) == [op |-> "del", dst |-> d, via |-> via]
SetProxyIp(d) == [op |-> "proxy_ip", dst |-> d]
SetBypass(list) == [op |-> "bypass", list |-> list]
SetServer(op, server) == [op |-> op, server |-> server]
Op(op) == [op |-> op]

When(condition, commands) == IF condition THEN commands ELSE <<>>

(* A loop over a list, which passes over the destinations not in "where". *)
Adds(list, where, via, strict) ==
  [i \in DOMAIN list |->
     IF list[i] \in where THEN Add(list[i], via, strict) ELSE Op("skip")]
Dels(list, where, via) ==
  [i \in DOMAIN list |-> IF list[i] \in where THEN Del(list[i], via) ELSE Op("skip")]

gateway_for(gateways, d) == Family[d] \in gateways
HasGateway(gateways) == {d \in Dsts : gateway_for(gateways, d)}

(* A route for the proxy, which a gateway of its family is required for. *)
Pin(gateways, proxy) ==
  IF gateway_for(gateways, proxy) THEN Add(proxy, "gw", TRUE) ELSE Op("bail")
Unpin(gateways, proxy) ==
  IF gateway_for(gateways, proxy) THEN Del(proxy, "gw") ELSE Op("skip")

(* Mutant: traffic is captured before the proxy has its route. *)
macos_apply_splits_first(c, gateways, capture_ipv6) ==
  Adds(V4_SPLIT, Dsts, "tun", TRUE) \o <<Pin(gateways, c.proxy)>>
  \o Adds(c.bypass, HasGateway(gateways), "gw", TRUE)
  \o When(c.dns # None, <<SetServer("set", c.dns)>>) \o <<Op("applied")>>

macos_apply(c, gateways, capture_ipv6) ==
  <<Pin(gateways, c.proxy)>>
  \o Adds(c.bypass, HasGateway(gateways), "gw", TRUE)
  \o Adds(V4_SPLIT, Dsts, "tun", TRUE)
  \o When(capture_ipv6 /\ "v6" \in gateways \cup {Family[c.proxy]},
          Adds(V6_SPLIT, Dsts, "tun", TRUE))
  \o When(c.dns # None, <<SetServer("set", c.dns)>>)
  \o <<Op("applied")>>

(* Windows has the IPv4 gateway only, uses it for every destination and goes
   on without one; it ignores the failure of all but the proxy's and the IPv4
   split routes.                                                           *)
windows_apply(c, gateways, capture_ipv6) ==
  When("v4" \in gateways, <<Add(c.proxy, "gw", TRUE)>> \o Adds(c.bypass, Dsts, "gw", FALSE))
  \o Adds(V4_SPLIT, Dsts, "tun", TRUE)
  \o When(capture_ipv6, Adds(V6_SPLIT, Dsts, "tun", FALSE))
  \o When(c.dns # None, <<SetServer("static", c.dns)>>)
  \o <<Op("applied")>>

(* What diff_cidrs finds in one list only, where there is a gateway for it. *)
Without(gateways, list) == HasGateway(gateways) \ Range(list)

(* Mutant: the controller keeps the proxy it had. *)
macos_reload_keeps_proxy(old, new, gateways) ==
  When(old.proxy # new.proxy,
       <<Unpin(gateways, old.proxy), Pin(gateways, new.proxy)>>)
  \o <<SetBypass(new.bypass)>>

(* With the plan that ReloadPlan::compute makes. *)
macos_reload(old, new, gateways) ==
  When(old.proxy # new.proxy,
       <<Unpin(gateways, old.proxy), Pin(gateways, new.proxy),
         SetProxyIp(new.proxy)>>)
  \o Dels(old.bypass, Without(gateways, new.bypass), "gw")
  \o Adds(new.bypass, Without(gateways, old.bypass), "gw", TRUE)
  \o <<SetBypass(new.bypass)>>
  \o When(old.dns # new.dns, <<SetServer("change", new.dns)>>)

DelSplits ==
  Dels(V4_SPLIT, Dsts, "tun")
  \o When(tuning.capture_ipv6, Dels(V6_SPLIT, Dsts, "tun"))

macos_teardown ==
  Dels(<<rc.proxy_ip>> \o rc.bypass, HasGateway(rc.gateways), "gw")
  \o DelSplits \o <<Op("restore")>>

windows_teardown ==
  When("v4" \in rc.gateways, Dels(<<rc.proxy_ip>> \o rc.bypass, Dsts, "gw"))
  \o DelSplits
  \o When(dns.configured, <<SetServer("dhcp", "v4"), SetServer("dhcp", "v6")>>)

-----------------------------------------------------------------------------
(* run() *)

(* The TUN device goes with its process: the routes into it, and on Windows
   the DNS servers of its interface.                                       *)
End(how) ==
  /\ table' = [d \in Dsts |-> IF table[d] = "tun" THEN "absent" ELSE table[d]]
  /\ resolver' = IF platform = "windows" THEN [s \in Slots |-> System]
                                         ELSE resolver
  /\ phase' = "off" /\ script' = <<>>
  /\ cfg' = None /\ new_cfg' = None /\ rc' = None /\ dns' = None
  /\ tuning' = None
  /\ exit' = how

(* probe() and apply() read the gateways one after the other: has_ipv6_gateway
   may say otherwise than v6_gateway, which must also be parsed. Neither
   platform has /proc/meminfo.                                             *)
Start(c) ==
  /\ phase = "off" /\ starts < MaxStarts
  /\ starts' = starts + 1
  /\ \E gateways \in HostGateways, has_v6 \in BOOLEAN, link_mtu \in LinkMtus,
        limit \in FdLimits, raised \in BOOLEAN :
       LET fds == IF platform = "macos"
                    THEN raise_and_read_fd_limit(limit, raised) ELSE None
           t == compute([link_mtu |-> link_mtu, has_ipv6_gateway |-> has_v6,
                         total_memory |-> None, fd_limit |-> fds])
       IN  /\ tuning' = [max_tcp |-> t.max_tcp, max_udp |-> t.max_udp, fds |-> fds,
                         capture_ipv6 |-> t.capture_ipv6]
           /\ rc' = [proxy_ip |-> c.proxy, bypass |-> c.bypass,
                     gateways |-> gateways, applied |-> FALSE]
           /\ script' = IF platform = "macos"
                          THEN macos_apply(c, gateways, t.capture_ipv6)
                          ELSE windows_apply(c, gateways, t.capture_ipv6)
  /\ phase' = "apply"
  /\ cfg' = c /\ new_cfg' = None
  /\ dns' = [current |-> None, original |-> None, configured |-> FALSE]
  /\ exit' = "none" /\ before' = [table |-> table, resolver |-> resolver]
  /\ pending' = {} /\ leaked' = FALSE
  /\ UNCHANGED <<hostVars, reloads>>

Reload(c) ==
  /\ platform = "macos"
  /\ phase = "running" /\ reloads < MaxReloads
  /\ reloads' = reloads + 1
  /\ c # cfg
  /\ phase' = "reload"
  /\ new_cfg' = c
  /\ script' = macos_reload(cfg, c, rc.gateways)
  /\ UNCHANGED <<hostVars, cfg, rc, dns, tuning, exit, before, pending, leaked,
                 starts>>

(* Mutant: applied stays set. *)
LeaveLoopApplied ==
  /\ phase = "running"
  /\ phase' = "teardown"
  /\ script' = IF platform = "macos" THEN macos_teardown ELSE windows_teardown
  /\ UNCHANGED <<hostVars, cfg, new_cfg, rc, dns, tuning, histVars>>

LeaveLoop ==
  /\ phase = "running"
  /\ phase' = "teardown"
  /\ rc' = [rc EXCEPT !.applied = FALSE]
  /\ script' = IF platform = "macos" THEN macos_teardown ELSE windows_teardown
  /\ UNCHANGED <<hostVars, cfg, new_cfg, dns, tuning, histVars>>

Kill ==
  /\ phase # "off"
  /\ End("killed")
  /\ UNCHANGED <<platform, before, pending, leaked, starts, reloads>>

(* The end of a script; after a reload, apply_reload takes the new
   configuration over.                                                     *)
ApplyDone ==
  /\ phase = "apply" /\ script = <<>>
  /\ phase' = "running"
  /\ UNCHANGED <<hostVars, script, cfg, new_cfg, rc, dns, tuning, histVars>>

ReloadDone ==
  /\ phase = "reload" /\ script = <<>>
  /\ phase' = "running"
  /\ cfg' = new_cfg
  /\ new_cfg' = None
  /\ pending' = pending \ {new_cfg}
  /\ UNCHANGED <<hostVars, script, rc, dns, tuning, exit, before,
                 leaked, starts, reloads>>

TeardownDone ==
  /\ phase = "teardown" /\ script = <<>>
  /\ End("clean")
  /\ UNCHANGED <<platform, before, pending, leaked, starts, reloads>>

-----------------------------------------------------------------------------
(* Commands *)

Running(op) == script # <<>> /\ Head(script).op = op
Command == Head(script)

Proceed == script' = Tail(script) /\ UNCHANGED phase

(* An error: run() returns it without teardown, apply_reload logs it and
   keeps its configuration. next_dns: the state the DNS controller is left in. *)
Abandon(next_dns) ==
  \/ phase = "apply" /\ End("error") /\ UNCHANGED pending
  \/ /\ phase = "reload"
     /\ phase' = "running" /\ script' = <<>>
     /\ pending' = pending \cup {new_cfg}
     /\ new_cfg' = None
     /\ dns' = next_dns
     /\ UNCHANGED <<table, resolver, cfg, rc, tuning, exit>>

(* A route that exists is kept; the command may report it as an error. *)
AddRoute ==
  /\ Running("add")
  /\ platform = "windows" /\ Command.via = "gw" => Family[Command.dst] = "v4"
  /\ table' = IF table[Command.dst] = "absent"
                THEN [table EXCEPT ![Command.dst] = Command.via] ELSE table
  /\ Proceed
  /\ UNCHANGED <<platform, resolver, cfg, new_cfg, rc, dns, tuning, histVars>>

AddFails ==
  /\ Running("add")
  /\ IF Command.strict
       THEN Abandon(dns)
       ELSE /\ Proceed
            /\ UNCHANGED <<table, resolver, cfg, new_cfg, rc, dns, tuning, exit,
                           pending>>
  /\ UNCHANGED <<platform, before, leaked, starts, reloads>>

(* No gateway for the proxy. *)
Bail ==
  /\ Running("bail")
  /\ Abandon(dns)
  /\ UNCHANGED <<platform, before, leaked, starts, reloads>>

(* A route is deleted by its destination and its gateway or device. *)
DeleteRoute ==
  /\ Running("del")
  /\ \/ /\ table' = IF table[Command.dst] = Command.via
                      THEN [table EXCEPT ![Command.dst] = "absent"] ELSE table
        /\ UNCHANGED leaked
     \/ leaked' = TRUE /\ UNCHANGED table
  /\ Proceed
  /\ UNCHANGED <<platform, resolver, cfg, new_cfg, rc, dns, tuning, exit, before,
                 pending, starts, reloads>>

(* A turn of a loop without a command, or an assignment. *)
Skip ==
  /\ Running("skip")
  /\ Proceed
  /\ UNCHANGED <<hostVars, cfg, new_cfg, rc, dns, tuning, histVars>>

Assign ==
  /\ \/ Running("proxy_ip") /\ rc' = [rc EXCEPT !.proxy_ip = Command.dst]
     \/ Running("bypass") /\ rc' = [rc EXCEPT !.bypass = Command.list]
     \/ Running("applied") /\ rc' = [rc EXCEPT !.applied = TRUE]
  /\ Proceed
  /\ UNCHANGED <<hostVars, cfg, new_cfg, dns, tuning, histVars>>

(* NetworkSetupDns, macOS. Mutant: the servers are read each time. *)
ensure_backup_again == resolver["service"]

(* What original is before servers are set: it is read once. *)
ensure_backup ==
  IF dns.original = None THEN resolver["service"] ELSE dns.original

(* apply, and reload with a server. The servers that cannot be read are taken
   for none.                                                               *)
SetDns ==
  /\ Running("set") \/ (Running("change") /\ Command.server # None
                                          /\ Command.server # dns.current)
  /\ \/ /\ dns' = [dns EXCEPT !.current = Command.server,
                              !.original = ensure_backup]
        /\ UNCHANGED leaked
     \/ /\ dns.original = None
        /\ dns' = [dns EXCEPT !.current = Command.server, !.original = Empty]
        /\ leaked' = TRUE
  /\ resolver' = [resolver EXCEPT !["service"] = Command.server]
  /\ Proceed
  /\ UNCHANGED <<platform, table, cfg, new_cfg, rc, tuning, exit, before, pending,
                 starts, reloads>>

(* Mutant: the override is forgotten, not undone. *)
UnsetDnsForgets ==
  /\ Running("change")
  /\ Command.server = None \/ Command.server = dns.current
  /\ dns' = [dns EXCEPT !.current = Command.server]
  /\ Proceed
  /\ UNCHANGED <<hostVars, cfg, new_cfg, rc, tuning, histVars>>

(* reload without a server, or with the one that is set. *)
UnsetDns ==
  /\ Running("change")
  /\ Command.server = None \/ Command.server = dns.current
  /\ resolver' = IF Command.server # dns.current /\ dns.original # None
                   THEN [resolver EXCEPT !["service"] = dns.original]
                   ELSE resolver
  /\ dns' = [dns EXCEPT !.current = Command.server]
  /\ Proceed
  /\ UNCHANGED <<platform, table, cfg, new_cfg, rc, tuning, histVars>>

(* set_servers fails; the servers have been read before. *)
SetDnsFails ==
  /\ Running("set") \/ (Running("change") /\ Command.server # dns.current)
  /\ \/ /\ Abandon(IF Command.server = None THEN dns
                     ELSE [dns EXCEPT !.original = ensure_backup])
        /\ UNCHANGED leaked
     \/ /\ Command.server # None /\ dns.original = None
        /\ Abandon([dns EXCEPT !.original = Empty])
        /\ leaked' = TRUE
  /\ UNCHANGED <<platform, before, starts, reloads>>

(* original, which is there when current is, is taken whether or not it can
   be set again.                                                           *)
RestoreDns ==
  /\ Running("restore")
  /\ \/ dns.current = None /\ UNCHANGED <<resolver, dns, leaked>>
     \/ /\ dns.current # None
        /\ dns' = [dns EXCEPT !.current = None, !.original = None]
        /\ \/ /\ resolver' = [resolver EXCEPT !["service"] = dns.original]
              /\ UNCHANGED leaked
           \/ leaked' = TRUE /\ UNCHANGED resolver
  /\ Proceed
  /\ UNCHANGED <<platform, table, cfg, new_cfg, rc, tuning, exit, before, pending,
                 starts, reloads>>

(* NetshDns, Windows: the servers of a family, which apply sets ... *)
SetStatic ==
  /\ Running("static")
  /\ dns' = [dns EXCEPT !.current = Command.server, !.configured = TRUE]
  /\ resolver' = [resolver EXCEPT ![Family[Command.server]] = Command.server]
  /\ Proceed
  /\ UNCHANGED <<platform, table, cfg, new_cfg, rc, tuning, histVars>>

SetStaticFails ==
  /\ Running("static")
  /\ End("error")
  /\ UNCHANGED <<platform, before, pending, leaked, starts, reloads>>

(* ... and restore resets for both, ignoring failures. *)
SetDhcp ==
  /\ Running("dhcp")
  /\ \/ resolver' = [resolver EXCEPT ![Command.server] = System] /\ UNCHANGED leaked
     \/ leaked' = TRUE /\ UNCHANGED resolver
  /\ dns' = [dns EXCEPT !.current = None, !.configured = FALSE]
  /\ Proceed
  /\ UNCHANGED <<platform, table, cfg, new_cfg, rc, tuning, exit, before, pending,
                 starts, reloads>>

-----------------------------------------------------------------------------
Next ==
  \/ \E c \in Configs : Start(c) \/ Reload(c)
  \/ LeaveLoop \/ Kill
  \/ ApplyDone \/ ReloadDone \/ TeardownDone
  \/ AddRoute \/ AddFails \/ Bail \/ DeleteRoute \/ Skip \/ Assign
  \/ SetDns \/ UnsetDns \/ SetDnsFails \/ RestoreDns
  \/ SetStatic \/ SetStaticFails \/ SetDhcp

Spec == Init /\ [][Next]_vars

-----------------------------------------------------------------------------
(* Properties *)

(* The types of the host's and the controller's state; applied is set
   exactly while a reload or teardown can come.                            *)
TypeOK ==
  /\ table \in [Dsts -> {"absent", "gw", "tun"}]
  /\ DOMAIN resolver = Slots
  /\ phase \in {"off", "apply", "running", "reload", "teardown"}
  /\ phase # "off" => rc \in Controllers
  /\ phase \in {"running", "reload"} => rc.applied
  /\ phase = "teardown" => ~rc.applied
  /\ phase = "off" <=> rc = None
  /\ script = <<>> \/ phase \in {"apply", "reload", "teardown"}

Named(c) == {c.proxy} \cup Range(c.bypass)

(* After a graceful exit there is no route through the gateway that was not
   there before the process, unless a deletion has failed or a reload that
   failed half way was not tried again.                                    *)
TeardownRemovesRoutes ==
  exit = "clean" /\ ~leaked =>
    \A d \in Dsts : table[d] = "gw" =>
      before.table[d] = "gw" \/ \E c \in pending : d \in Named(c)

(* The proxies have destinations of their own, as host routes do; a bypass
   CIDR may be one.                                                        *)
DisjointConfigs ==
  \A c1, c2 \in Configs :
    c1.proxy \notin Range(c2.bypass) \cup Range(V4_SPLIT) \cup Range(V6_SPLIT)

(* Traffic is captured only while the proxy itself is reached outside of the
   tunnel: from the first split route on, and after every reload that was
   not abandoned. It is not during a reload, which deletes the route of the
   old proxy before it adds that of the new one, nor in teardown. Windows
   goes on without a gateway, and only warns; a proxy that is also a bypass
   destination loses its route with that.                                  *)
ProxyPinned ==
  /\ DisjointConfigs
  /\ phase \in {"apply", "running"} /\ pending = {}
  /\ \E d \in Dsts : table[d] = "tun"
  => \/ table[rc.proxy_ip] = "gw"
     \/ platform = "windows" /\ "v4" \notin rc.gateways

(* While the process runs, names are resolved by the configured server, or
   as they were before it if none is configured.                           *)
DnsFollowsConfig ==
  phase = "running" /\ ~leaked =>
    IF cfg.dns = None THEN resolver = before.resolver
                      ELSE resolver[IF platform = "macos" THEN "service"
                               ELSE Family[cfg.dns]] = cfg.dns

(* A graceful exit brings back the servers there were before, after every
   sequence of reloads, unless a command to read or to set them failed.    *)
DnsRestored == exit = "clean" /\ ~leaked => resolver = before.resolver

(* The limits of connections and sessions fit the limit of descriptors. *)
DescriptorsFit ==
  tuning # None /\ tuning.fds # None => FitsDescriptors(tuning.fds, tuning)

=============================================================================
