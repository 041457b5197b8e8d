------------------------------- MODULE Tunnel --------------------------------
(***************************************************************************)
(* The life of a cortado process on Linux: run() and apply_reload() of     *)
(* src/lib.rs, the RouteManager of src/platform/linux/route.rs that they   *)
(* drive, and the ReloadPlan and Shared of src/reload.rs. The routing      *)
(* table outlives the process, which may fail at every netlink request or  *)
(* later step, be told to reload or stop, and be killed between any two of *)
(* its requests.                                                           *)
(*                                                                         *)
(* A destination stands for an address and prefix length, so the host      *)
(* route of a proxy and a bypass CIDR may be the same destination. The     *)
(* kernel drops the routes into the TUN device when the process ends.      *)
(* resolv.conf is abstract here: ResolvConf has its details.               *)
(***************************************************************************)
EXTENDS Naturals

CONSTANTS
  Dsts,           \* destinations of routes
  Family,         \* [Dsts -> {"v4", "v6"}]
  V4_SPLIT, V6_SPLIT,
  Configs,        \* valid configurations the process may be given
  HostGateways,   \* the sets of families for which a host has a default gateway
  OtherRoutes,    \* destinations that may have a route not made by cortado
  capture_ipv6,
  RequestsFail,   \* whether requests and startup steps may fail
  MaxStarts,      \* bound: number of processes started
  MaxReloads,     \* bound: number of SIGHUPs acted upon
  None

Families == {"v4", "v6"}

(* A configuration as far as a reload compares it and applies it. auth: the
   proxy's port, username and password.                                    *)
ASSUME TunnelAssumption ==
  /\ Family \in [Dsts -> Families]
  /\ V4_SPLIT \subseteq Dsts /\ V6_SPLIT \subseteq Dsts
  /\ V4_SPLIT # {}
  /\ \A cfg \in Configs :
       /\ DOMAIN cfg = {"proxy", "auth", "bypass", "dns"}
       /\ cfg.proxy \in Dsts /\ cfg.bypass \subseteq Dsts
  /\ None \notin Configs
  /\ HostGateways \subseteq SUBSET Families
  /\ OtherRoutes \subseteq Dsts
  /\ capture_ipv6 \in BOOLEAN /\ RequestsFail \in BOOLEAN
  /\ MaxStarts \in Nat /\ MaxReloads \in Nat

VARIABLES
  table,        \* the routing table: "absent", "gw", "tun" or "other"
  hostGateways, \* families with a default gateway
  resolver,     \* resolv.conf: a dns setting, "torn", None: as it was found
  pc,           \* where the process is; "off": there is none
  todo,         \* destinations the loop in progress has still to handle
  stop,         \* a SIGINT or SIGTERM has been received
  current_cfg,  \* run()'s configuration ...
  new_cfg,      \* ... and the one being applied by a reload
  rm,           \* RouteManager: proxy_ip, bypass, gateways, applied
  shared,       \* Shared: proxy and route table, as proxy, auth and bypass
  poolProxy,    \* DnsPool.proxy
  exit,         \* how the last process ended
  before,       \* history: the table when the process started
  used,         \* history: destinations named by its configurations
  pending,      \* history: configurations whose reload failed
  leaked,       \* history: a request to delete a route failed
  starts, reloads

hostVars == <<table, hostGateways, resolver>>
procVars == <<pc, todo, stop, current_cfg, new_cfg, rm, shared, poolProxy>>
histVars == <<exit, before, used, pending, leaked, starts, reloads>>
vars == <<hostVars, procVars, histVars>>

Startup == {"start", "addProxy", "addBypass", "addSplit", "applyDns", "build"}
Reloading == {"delOldProxy", "addNewProxy", "delBypass", "addMore",
              "reloadDns", "storeProxy", "storeRoutes", "setPool"}
Teardown == {"dropProxy", "dropBypass", "dropSplit", "restoreDns"}

ProxyConfig(cfg) == [addr |-> cfg.proxy, auth |-> cfg.auth]

Init ==
  /\ table \in [Dsts -> {"absent", "other"}]
  /\ \A d \in Dsts : table[d] = "other" => d \in OtherRoutes
  /\ hostGateways \in HostGateways
  /\ resolver = None
  /\ pc = "off" /\ todo = {} /\ stop = FALSE
  /\ current_cfg = None /\ new_cfg = None /\ rm = None
  /\ shared = None /\ poolProxy = None
  /\ exit = "none"
  /\ before = table /\ used = {}
  /\ pending = {} /\ leaked = FALSE
  /\ starts = 0 /\ reloads = 0

-----------------------------------------------------------------------------
(* The kernel *)

WithoutTun(t) == [d \in Dsts |-> IF t[d] = "tun" THEN "absent" ELSE t[d]]

(* The process ends: its TUN device is gone, and the routes into it. *)
End(how) ==
  /\ table' = WithoutTun(table)
  /\ pc' = "off" /\ todo' = {} /\ stop' = FALSE
  /\ exit' = how

(* del_route names the gateway or the device: it fails, changing nothing,
   unless the route of the destination is of that kind.                    *)
Deleted(d, kind) == IF table[d] = kind THEN [table EXCEPT ![d] = "absent"]
                                       ELSE table

(* A request to delete is made, and warned about if it fails. *)
Delete(d, kind) ==
  \/ /\ table' = Deleted(d, kind)
     /\ UNCHANGED leaked
  \/ /\ RequestsFail
     /\ leaked' = TRUE
     /\ UNCHANGED table

gateway_for(d) == Family[d] \in rm.gateways

DeleteViaGateway(d) ==
  IF gateway_for(d) THEN Delete(d, "gw") ELSE UNCHANGED <<table, leaked>>

-----------------------------------------------------------------------------
(* run(), up to its loop *)

(* A new process: configuration, RouteManager::new. The host's gateways may
   have changed since the last one. What resolv.conf holds now, be it what a
   killed process left, is what this one will bring back.                  *)
Run(cfg) ==
  /\ pc = "off"
  /\ hostGateways' \in HostGateways
  /\ starts < MaxStarts
  /\ starts' = starts + 1
  /\ pc' = "start"
  /\ current_cfg' = cfg
  /\ rm' = [proxy_ip |-> cfg.proxy, bypass |-> cfg.bypass, gateways |-> {},
            applied |-> FALSE]
  /\ shared' = None /\ poolProxy' = None /\ new_cfg' = None
  /\ exit' = "none"
  /\ before' = table /\ used' = {cfg.proxy} \cup cfg.bypass
  /\ pending' = {} /\ leaked' = FALSE
  /\ resolver' = None
  /\ UNCHANGED <<table, todo, stop, reloads>>

(* An error before the loop is returned by run() at once, without teardown:
   of the probe, the TUN device, a request of apply(), the DNS override, the
   stack or the signal handlers.                                           *)
StartupFails ==
  /\ RequestsFail
  /\ pc \in Startup
  /\ End("error")
  /\ UNCHANGED <<hostGateways, resolver, current_cfg, new_cfg, rm, shared,
                 poolProxy, before, used, pending, leaked, starts, reloads>>

(* apply() reads the gateways; one for the proxy's family is required. *)
ReadGateways ==
  /\ pc = "start"
  /\ rm' = [rm EXCEPT !.gateways = hostGateways]
  /\ IF Family[rm.proxy_ip] \in hostGateways
       THEN pc' = "addProxy" /\ UNCHANGED <<table, todo, stop, exit>>
       ELSE End("error")
  /\ UNCHANGED <<hostGateways, resolver, current_cfg, new_cfg, shared,
                 poolProxy, before, used, pending, leaked, starts, reloads>>

AddProxyRoute ==
  /\ pc = "addProxy"
  /\ table' = [table EXCEPT ![rm.proxy_ip] = "gw"]
  /\ pc' = "addBypass"
  /\ todo' = rm.bypass
  /\ UNCHANGED <<hostGateways, resolver, stop, current_cfg, new_cfg, rm,
                 shared, poolProxy, histVars>>

(* A bypass route, by apply() or reload(); skipped without a gateway. *)
AddBypass(d) ==
  /\ pc \in {"addBypass", "addMore"}
  /\ d \in todo
  /\ todo' = todo \ {d}
  /\ table' = IF gateway_for(d) THEN [table EXCEPT ![d] = "gw"] ELSE table
  /\ UNCHANGED <<hostGateways, resolver, pc, stop, current_cfg, new_cfg, rm,
                 shared, poolProxy, histVars>>

CaptureV6 == capture_ipv6 /\ ("v6" \in rm.gateways \/ Family[rm.proxy_ip] = "v6")

BypassAdded ==
  /\ pc = "addBypass"
  /\ todo = {}
  /\ pc' = "addSplit"
  /\ todo' = V4_SPLIT \cup (IF CaptureV6 THEN V6_SPLIT ELSE {})
  /\ UNCHANGED <<hostVars, stop, current_cfg, new_cfg, rm, shared, poolProxy,
                 histVars>>

AddSplit(d) ==
  /\ pc = "addSplit"
  /\ d \in todo
  /\ todo' = todo \ {d}
  /\ table' = [table EXCEPT ![d] = "tun"]
  /\ UNCHANGED <<hostGateways, resolver, pc, stop, current_cfg, new_cfg, rm,
                 shared, poolProxy, histVars>>

SplitAdded ==
  /\ pc = "addSplit"
  /\ todo = {}
  /\ pc' = "applyDns"
  /\ UNCHANGED <<hostVars, todo, stop, current_cfg, new_cfg, rm, shared,
                 poolProxy, histVars>>

(* Mutant: applied is not set. *)
ApplyDnsUnmarked ==
  /\ pc = "applyDns"
  /\ resolver' = IF current_cfg.dns = None THEN resolver ELSE current_cfg.dns
  /\ pc' = "build"
  /\ UNCHANGED <<table, hostGateways, todo, stop, current_cfg, new_cfg, rm,
                 shared, poolProxy, histVars>>

ApplyDns ==
  /\ pc = "applyDns"
  /\ resolver' = IF current_cfg.dns = None THEN resolver ELSE current_cfg.dns
  /\ rm' = [rm EXCEPT !.applied = TRUE]
  /\ pc' = "build"
  /\ UNCHANGED <<table, hostGateways, todo, stop, current_cfg, new_cfg, shared,
                 poolProxy, histVars>>

(* The stack, the tasks and what they share, and the signal handlers. *)
BuildStack ==
  /\ pc = "build"
  /\ shared' = [proxy |-> ProxyConfig(current_cfg),
                routes |-> current_cfg.bypass]
  /\ poolProxy' = ProxyConfig(current_cfg)
  /\ pc' = "loop"
  /\ UNCHANGED <<hostVars, todo, stop, current_cfg, new_cfg, rm, histVars>>

-----------------------------------------------------------------------------
(* ReloadPlan::compute and apply_reload *)

proxy_changed(old, new) == ProxyConfig(old) # ProxyConfig(new)

(* Mutant: bypass routes to remove are overlooked. *)
is_noop_removals(old, new) ==
  /\ new.bypass \subseteq old.bypass
  /\ old.dns = new.dns
  /\ ~proxy_changed(old, new)

is_noop(old, new) ==
  /\ old.bypass = new.bypass
  /\ old.dns = new.dns
  /\ ~proxy_changed(old, new)

(* SIGHUP, with a valid configuration file: otherwise nothing happens.
   RouteManager::reload does nothing unless apply() succeeded.             *)
Reload(cfg) ==
  /\ pc = "loop"
  /\ reloads < MaxReloads
  /\ reloads' = reloads + 1
  /\ used' = used \cup {cfg.proxy} \cup cfg.bypass
  /\ new_cfg' = cfg
  /\ IF is_noop(current_cfg, cfg)
       THEN current_cfg' = cfg /\ UNCHANGED <<pc, todo>>
       ELSE /\ pc' = CASE ~rm.applied -> "storeProxy"
                      [] rm.applied /\ cfg.proxy # current_cfg.proxy -> "delOldProxy"
                      [] OTHER -> "delBypass"
            /\ todo' = current_cfg.bypass \ cfg.bypass
            /\ UNCHANGED current_cfg
  /\ UNCHANGED <<hostVars, stop, rm, shared, poolProxy, exit, before, pending,
                 leaked, starts>>

DelOldProxyRoute ==
  /\ pc = "delOldProxy"
  /\ DeleteViaGateway(current_cfg.proxy)
  /\ pc' = "addNewProxy"
  /\ UNCHANGED <<hostGateways, resolver, todo, stop, current_cfg, new_cfg, rm,
                 shared, poolProxy, exit, before, used, pending, starts,
                 reloads>>

(* RouteManager::reload returns an error: what it did stays done, and
   current_cfg, Shared and the pool keep the old configuration.            *)
ReloadAbandoned ==
  /\ pc' = "loop" /\ todo' = {}
  /\ pending' = pending \cup {new_cfg}

(* Mutant: proxy_ip is not updated. *)
AddNewProxyRouteUnrecorded ==
  /\ pc = "addNewProxy"
  /\ IF gateway_for(new_cfg.proxy)
       THEN /\ table' = [table EXCEPT ![new_cfg.proxy] = "gw"]
            /\ pc' = "delBypass"
            /\ UNCHANGED <<rm, todo, pending>>
       ELSE ReloadAbandoned /\ UNCHANGED <<table, rm>>
  /\ UNCHANGED <<hostGateways, resolver, stop, current_cfg, new_cfg, shared,
                 poolProxy, exit, before, used, leaked, starts, reloads>>

AddNewProxyRoute ==
  /\ pc = "addNewProxy"
  /\ IF gateway_for(new_cfg.proxy)
       THEN /\ table' = [table EXCEPT ![new_cfg.proxy] = "gw"]
            /\ rm' = [rm EXCEPT !.proxy_ip = new_cfg.proxy]
            /\ pc' = "delBypass"
            /\ UNCHANGED <<todo, pending>>
       ELSE ReloadAbandoned /\ UNCHANGED <<table, rm>>
  /\ UNCHANGED <<hostGateways, resolver, stop, current_cfg, new_cfg, shared,
                 poolProxy, exit, before, used, leaked, starts, reloads>>

DelBypass(d) ==
  /\ pc = "delBypass"
  /\ d \in todo
  /\ todo' = todo \ {d}
  /\ DeleteViaGateway(d)
  /\ UNCHANGED <<hostGateways, resolver, pc, stop, current_cfg, new_cfg, rm,
                 shared, poolProxy, exit, before, used, pending, starts,
                 reloads>>

BypassDeleted ==
  /\ pc = "delBypass"
  /\ todo = {}
  /\ pc' = "addMore"
  /\ todo' = new_cfg.bypass \ current_cfg.bypass
  /\ UNCHANGED <<hostVars, stop, current_cfg, new_cfg, rm, shared, poolProxy,
                 histVars>>

MoreAdded ==
  /\ pc = "addMore"
  /\ todo = {}
  /\ rm' = [rm EXCEPT !.bypass = new_cfg.bypass]
  /\ pc' = "reloadDns"
  /\ UNCHANGED <<hostVars, todo, stop, current_cfg, new_cfg, shared, poolProxy,
                 histVars>>

ReloadDns ==
  /\ pc = "reloadDns"
  /\ resolver' = IF new_cfg.dns # current_cfg.dns THEN new_cfg.dns ELSE resolver
  /\ pc' = "storeProxy"
  /\ UNCHANGED <<table, hostGateways, todo, stop, current_cfg, new_cfg, rm,
                 shared, poolProxy, histVars>>

(* resolv.conf after a write that failed: as it was, or cut short. *)
Unwritten == {resolver, "torn"}

(* A request to add a route, or the write of resolv.conf, fails. *)
ReloadFails ==
  /\ RequestsFail
  /\ \/ /\ \/ pc = "addNewProxy"
           \/ pc = "addMore" /\ \E d \in todo : gateway_for(d)
        /\ UNCHANGED resolver
     \/ /\ pc = "reloadDns" /\ new_cfg.dns # current_cfg.dns
        /\ resolver' \in Unwritten
  /\ ReloadAbandoned
  /\ UNCHANGED <<table, hostGateways, stop, current_cfg, new_cfg, rm, shared,
                 poolProxy, exit, before, used, leaked, starts, reloads>>

(* Two stores, which a relay task may come between. *)
StoreProxy ==
  /\ pc = "storeProxy"
  /\ shared' = [shared EXCEPT !.proxy = ProxyConfig(new_cfg)]
  /\ pc' = "storeRoutes"
  /\ UNCHANGED <<hostVars, todo, stop, current_cfg, new_cfg, rm, poolProxy,
                 histVars>>

StoreRoutes ==
  /\ pc = "storeRoutes"
  /\ shared' = [shared EXCEPT !.routes = new_cfg.bypass]
  /\ pc' = "setPool"
  /\ UNCHANGED <<hostVars, todo, stop, current_cfg, new_cfg, rm, poolProxy,
                 histVars>>

(* Mutant: the pool follows the proxy's address only. *)
SetPoolProxyOnMove ==
  /\ pc = "setPool"
  /\ poolProxy' = IF current_cfg.proxy # new_cfg.proxy
                    THEN ProxyConfig(new_cfg) ELSE poolProxy
  /\ current_cfg' = new_cfg
  /\ pending' = pending \ {new_cfg}
  /\ pc' = "loop"
  /\ UNCHANGED <<hostVars, todo, stop, new_cfg, rm, shared, exit, before, used,
                 leaked, starts, reloads>>

(* DnsPool::set_proxy, and the end of the reload. *)
SetPoolProxy ==
  /\ pc = "setPool"
  /\ poolProxy' = IF proxy_changed(current_cfg, new_cfg)
                    THEN ProxyConfig(new_cfg) ELSE poolProxy
  /\ current_cfg' = new_cfg
  /\ pending' = pending \ {new_cfg}
  /\ pc' = "loop"
  /\ UNCHANGED <<hostVars, todo, stop, new_cfg, rm, shared, exit, before, used,
                 leaked, starts, reloads>>

-----------------------------------------------------------------------------
(* Signals and teardown *)

(* SIGINT or SIGTERM once the handlers are installed; select! sees it in the
   loop, after a reload in progress.                                       *)
Terminate ==
  /\ pc \in {"loop"} \cup Reloading
  /\ stop' = TRUE
  /\ UNCHANGED <<hostVars, pc, todo, current_cfg, new_cfg, rm, shared,
                 poolProxy, histVars>>

(* The loop ends on the signal, or because the UDP task ended; teardown()
   does nothing unless apply() succeeded.                                  *)
LeaveLoop ==
  /\ pc = "loop"
  /\ rm' = [rm EXCEPT !.applied = FALSE]
  /\ IF rm.applied
       THEN pc' = "dropProxy" /\ UNCHANGED <<table, todo, stop, exit>>
       ELSE End("clean")
  /\ UNCHANGED <<hostGateways, resolver, current_cfg, new_cfg, shared,
                 poolProxy, before, used, pending, leaked, starts, reloads>>

DropProxyRoute ==
  /\ pc = "dropProxy"
  /\ DeleteViaGateway(rm.proxy_ip)
  /\ pc' = "dropBypass"
  /\ todo' = rm.bypass
  /\ UNCHANGED <<hostGateways, resolver, stop, current_cfg, new_cfg, rm,
                 shared, poolProxy, exit, before, used, pending, starts,
                 reloads>>

(* Mutant: a route that is not there is tried again. *)
DropBypassRetried(d) ==
  /\ pc = "dropBypass"
  /\ d \in todo
  /\ todo' = IF table[d] = "gw" THEN todo \ {d} ELSE todo
  /\ DeleteViaGateway(d)
  /\ UNCHANGED <<hostGateways, resolver, pc, stop, current_cfg, new_cfg, rm,
                 shared, poolProxy, exit, before, used, pending, starts,
                 reloads>>

DropBypass(d) ==
  /\ pc = "dropBypass"
  /\ d \in todo
  /\ todo' = todo \ {d}
  /\ DeleteViaGateway(d)
  /\ UNCHANGED <<hostGateways, resolver, pc, stop, current_cfg, new_cfg, rm,
                 shared, poolProxy, exit, before, used, pending, starts,
                 reloads>>

BypassDropped ==
  /\ pc = "dropBypass"
  /\ todo = {}
  /\ pc' = "dropSplit"
  /\ todo' = V4_SPLIT \cup (IF capture_ipv6 THEN V6_SPLIT ELSE {})
  /\ UNCHANGED <<hostVars, stop, current_cfg, new_cfg, rm, shared, poolProxy,
                 histVars>>

DropSplit(d) ==
  /\ pc = "dropSplit"
  /\ d \in todo
  /\ todo' = todo \ {d}
  /\ Delete(d, "tun")
  /\ UNCHANGED <<hostGateways, resolver, pc, stop, current_cfg, new_cfg, rm,
                 shared, poolProxy, exit, before, used, pending, starts,
                 reloads>>

SplitDropped ==
  /\ pc = "dropSplit"
  /\ todo = {}
  /\ pc' = "restoreDns"
  /\ UNCHANGED <<hostVars, todo, stop, current_cfg, new_cfg, rm, shared,
                 poolProxy, histVars>>

(* The last step of teardown, and the end of run(). Nothing is written
   without an override; a write that fails is warned about.                *)
RestoreDns ==
  /\ pc = "restoreDns"
  /\ \/ current_cfg.dns = None /\ UNCHANGED resolver
     \/ current_cfg.dns # None /\ resolver' = None
     \/ current_cfg.dns # None /\ RequestsFail /\ resolver' \in Unwritten
  /\ End("clean")
  /\ UNCHANGED <<hostGateways, current_cfg, new_cfg, rm, shared, poolProxy,
                 before, used, pending, leaked, starts, reloads>>

(* SIGKILL at any time, or a signal before its handler is installed. *)
Kill ==
  /\ pc # "off"
  /\ End("killed")
  /\ UNCHANGED <<hostGateways, resolver, current_cfg, new_cfg, rm, shared,
                 poolProxy, before, used, pending, leaked, starts, reloads>>

-----------------------------------------------------------------------------
Starting ==
  \/ ReadGateways \/ AddProxyRoute
  \/ \E d \in Dsts : AddBypass(d) \/ AddSplit(d)
  \/ BypassAdded \/ SplitAdded \/ ApplyDns \/ BuildStack

ReloadSteps ==
  \/ DelOldProxyRoute \/ AddNewProxyRoute
  \/ \E d \in Dsts : DelBypass(d)
  \/ BypassDeleted \/ MoreAdded \/ ReloadDns
  \/ StoreProxy \/ StoreRoutes \/ SetPoolProxy

TeardownSteps ==
  \/ DropProxyRoute \/ BypassDropped \/ SplitDropped \/ RestoreDns
  \/ \E d \in Dsts : DropBypass(d) \/ DropSplit(d)

Next ==
  \/ \E cfg \in Configs : Run(cfg) \/ Reload(cfg)
  \/ Starting \/ StartupFails
  \/ ReloadSteps \/ ReloadFails
  \/ Terminate \/ LeaveLoop
  \/ TeardownSteps
  \/ Kill

(* Netlink requests are answered and set_proxy returns (DnsPool), so a step
   of the process follows another; select! picks among its ready branches
   at random, so a signal that stays pending is seen.                      *)
Fairness ==
  /\ WF_vars(Starting \/ ReloadSteps \/ TeardownSteps)
  /\ SF_vars(stop /\ LeaveLoop)

Spec == Init /\ [][Next]_vars
FairSpec == Spec /\ Fairness

-----------------------------------------------------------------------------
(* Properties *)

(* The proxies and the split routes of every configuration have
   destinations of their own.                                              *)
DisjointConfigs ==
  LET splits == V4_SPLIT \cup V6_SPLIT IN
    \A c1, c2 \in Configs : /\ c1.proxy \notin c2.bypass \cup splits
                            /\ c1.bypass \cap splits = {}

(* The type of the routing table, of RouteManager and of run()'s state;
   applied is set exactly when a reload or teardown can come.              *)
TypeOK ==
  /\ table \in [Dsts -> {"absent", "gw", "tun", "other"}]
  /\ hostGateways \in SUBSET Families
  /\ pc \in {"off", "loop"} \cup Startup \cup Reloading \cup Teardown
  /\ todo \in SUBSET Dsts
  /\ stop \in BOOLEAN /\ leaked \in BOOLEAN
  /\ current_cfg \in Configs \cup {None}
  /\ new_cfg \in Configs \cup {None}
  /\ rm = None \/ rm \in [proxy_ip : Dsts, bypass : SUBSET Dsts,
                          gateways : SUBSET Families, applied : BOOLEAN]
  /\ pc # "off" =>
       (rm.applied <=> pc \in {"build", "loop"} \cup Reloading)
  /\ exit \in {"none", "clean", "error", "killed"}
  /\ before \in [Dsts -> {"absent", "gw", "tun", "other"}]
  /\ used \in SUBSET Dsts
  /\ pending \in SUBSET Configs
  /\ starts \in Nat /\ reloads \in Nat

(* During startup, and in the loop after every reload that succeeded or was
   retried until it did, captured traffic does not include the proxy's own:
   where a split route leads into the tunnel, the proxy that the relays and
   the DNS pool use has its host route. Nothing is said of the steps of a
   reload, which deletes the route of the old proxy before it adds that of
   the new one, nor of teardown, which drops it before the split routes.   *)
ProxyProtected ==
  DisjointConfigs /\ pc \in Startup \cup {"loop"} /\ pending = {} =>
    /\ (\E d \in V4_SPLIT \cup V6_SPLIT : table[d] = "tun") =>
         table[rm.proxy_ip] = "gw"
    /\ pc = "loop" => /\ shared.proxy.addr = rm.proxy_ip
                      /\ poolProxy = shared.proxy

(* The destinations a configuration wants routed outside the tunnel. *)
WantedDirect(cfg) ==
  {cfg.proxy} \cup {d \in cfg.bypass : Family[d] \in rm.gateways}

(* In the loop, what runs is current_cfg: its proxy and bypass destinations
   have gateway routes, and no destination of an earlier configuration still
   has one, also after failed reloads, once each was retried successfully.
   The relays' snapshot and the resolver agree: without an override, it is
   what the process found.                                                 *)
RunningMatchesConfig ==
  DisjointConfigs /\ pc = "loop" /\ pending = {} =>
    /\ \A d \in WantedDirect(current_cfg) : table[d] = "gw"
    /\ ~leaked => \A d \in used \ WantedDirect(current_cfg) :
                    table[d] = "gw" => before[d] = "gw" /\ ~gateway_for(d)
    /\ shared = [proxy |-> ProxyConfig(current_cfg),
                 routes |-> current_cfg.bypass]
    /\ resolver = current_cfg.dns

(* After a graceful exit no destination of any configuration the process
   had still has a route made by cortado, not even by an earlier process
   that was killed (unless its family has lost its gateway), and all other
   destinations have the routes they had at startup.                       *)
TeardownRemovesRoutes ==
  exit = "clean" /\ pending = {} /\ ~leaked =>
    /\ \A d \in used : table[d] = "gw" => Family[d] \notin rm.gateways
    /\ \A d \in Dsts \ (used \cup V4_SPLIT \cup V6_SPLIT) :
         table[d] = before[d]

(* A SIGINT or SIGTERM that was caught ends the process, whatever reload is
   in progress or follows, select! choosing at random what is ready.       *)
TerminateEnds == stop ~> pc = "off"

-----------------------------------------------------------------------------
(* What the README states, and the code does not always do *)

(* README: SIGHUP does not drop the tunnel; here, also when it fails. *)
FailedReloadKeepsProxyRoute ==
  DisjointConfigs /\ pc = "loop" => table[shared.proxy.addr] = "gw"

=============================================================================
