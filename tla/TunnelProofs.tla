---------------------------- MODULE TunnelProofs -----------------------------
(***************************************************************************)
(* Proofs about Tunnel: for any configurations, destinations and gateways, *)
(* and through any reloads that were retried until they succeeded, a       *)
(* graceful exit leaves no route behind (IInv), the proxy keeps its route  *)
(* and what runs is what is configured (RInv).                             *)
(***************************************************************************)
EXTENDS Tunnel, TLAPS

Kinds == {"absent", "gw", "tun", "other"}
RouteManager == [proxy_ip : Dsts, bypass : SUBSET Dsts,
                 gateways : SUBSET Families, applied : BOOLEAN]
Splits == V4_SPLIT \cup V6_SPLIT

(* The destinations a configuration claims, and those of failed reloads. *)
Claims(cfg) == {cfg.proxy} \cup cfg.bypass
FailedClaims == UNION {Claims(p) : p \in pending}

(* The types that depend on where the process is. *)
Loaded ==
  /\ pc # "off" => /\ rm \in RouteManager
                   /\ current_cfg \in Configs
  /\ pc \in Reloading => new_cfg \in Configs
  /\ pc = "start" => rm.gateways = {}
  /\ exit = "clean" => pc = "off" /\ rm \in RouteManager

(* Destinations named by no configuration of the process are untouched, and
   everything the process will yet touch is named.                         *)
OthersUntouched ==
  /\ \A d \in Dsts : before[d] # "tun"
  /\ pc = "off" => todo = {} /\ \A d \in Dsts : table[d] # "tun"
  /\ \A d \in Dsts \ (used \cup Splits) : table[d] = before[d]
  /\ pc # "off" => /\ rm.proxy_ip \in used /\ rm.bypass \subseteq used
                   /\ Claims(current_cfg) \subseteq used
  /\ pc \in Reloading => Claims(new_cfg) \subseteq used
  /\ todo \subseteq used \cup Splits
  /\ pc \in {"addBypass", "delOldProxy", "addNewProxy", "delBypass", "addMore",
             "dropBypass"} =>
       todo \subseteq used
  /\ pc \in {"addSplit", "dropSplit"} => todo \subseteq Splits

(* RouteManager has the claims of the configuration it last applied: the
   current one, or one whose reload failed.                                *)
RouteManagerFollows ==
  /\ pc \in Startup => /\ rm.proxy_ip = current_cfg.proxy
                       /\ rm.bypass = current_cfg.bypass
                       /\ pending = {}
                       /\ used = Claims(current_cfg)
  /\ pc \in {"loop"} \cup Teardown \cup (Reloading \ {"reloadDns",
             "storeProxy", "storeRoutes", "setPool"}) =>
       \/ rm.bypass = current_cfg.bypass
       \/ \E p \in pending : rm.bypass = p.bypass
  /\ pc \in {"loop", "delOldProxy", "addNewProxy"} \cup Teardown =>
       \/ rm.proxy_ip = current_cfg.proxy
       \/ \E p \in pending : rm.proxy_ip = p.proxy
  /\ pc \in {"delBypass", "addMore", "reloadDns", "storeProxy", "storeRoutes",
             "setPool"} =>
       rm.proxy_ip = new_cfg.proxy \/ \E p \in pending : rm.proxy_ip = p.proxy
  /\ pc \in {"reloadDns", "storeProxy", "storeRoutes", "setPool"} =>
       rm.bypass = new_cfg.bypass
  /\ pc \in {"delOldProxy", "addNewProxy"} =>
       todo = current_cfg.bypass \ new_cfg.bypass
  /\ pc = "addMore" => todo \subseteq new_cfg.bypass

(* Where a gateway route may still be, at each point of the process. *)
MayHaveRoute ==
  CASE pc = "delOldProxy" ->
         Claims(current_cfg) \cup Claims(new_cfg) \cup FailedClaims
    [] pc = "addNewProxy" ->
         current_cfg.bypass \cup Claims(new_cfg) \cup FailedClaims
    [] pc = "delBypass" -> todo \cup Claims(new_cfg) \cup FailedClaims
    [] pc \in {"addMore", "reloadDns", "storeProxy", "storeRoutes", "setPool"} ->
         Claims(new_cfg) \cup FailedClaims
    [] pc = "loop" -> Claims(current_cfg) \cup FailedClaims
    [] pc = "dropProxy" -> {rm.proxy_ip} \cup rm.bypass \cup
                           (IF pending = {} THEN {} ELSE Dsts)
    [] pc = "dropBypass" -> todo \cup (IF pending = {} THEN {} ELSE Dsts)
    [] pc \in {"dropSplit", "restoreDns"} -> IF pending = {} THEN {} ELSE Dsts
    [] OTHER -> Dsts

RoutesAccounted ==
  ~leaked =>
    \A d \in used :
      table[d] = "gw" /\ Family[d] \in rm.gateways => d \in MayHaveRoute

IInv == /\ TypeOK
        /\ Loaded
        /\ OthersUntouched
        /\ RouteManagerFollows
        /\ RoutesAccounted
        /\ TeardownRemovesRoutes


(* The facts about configurations the proofs need. *)
LEMMA ConfigTypes ==
  ASSUME NEW cfg \in Configs
  PROVE  cfg.proxy \in Dsts /\ cfg.bypass \in SUBSET Dsts
BY TunnelAssumption

(* What deleting a route does: the route is gone, or the failure is recorded
   in leaked, and no other destination is touched.                         *)
LEMMA DeleteEffect ==
  ASSUME TypeOK, NEW d \in Dsts, NEW kind \in {"gw", "tun"}, Delete(d, kind)
  PROVE  /\ table' \in [Dsts -> Kinds]
         /\ leaked' \in BOOLEAN
         /\ \A e \in Dsts : e # d => table'[e] = table[e]
         /\ table'[d] \in {"absent", table[d]}
         /\ ~leaked' => ~leaked /\ table'[d] # kind
<1>1. CASE table' = Deleted(d, kind) /\ UNCHANGED leaked
      <2>1. leaked' \in BOOLEAN /\ (~leaked' => ~leaked)
            BY <1>1, Zenon DEF TypeOK
      <2>2. QED
            BY <1>1, <2>1 DEF Deleted, TypeOK, Kinds
<1>2. CASE leaked' = TRUE /\ UNCHANGED table
      BY <1>2, Zenon DEF TypeOK, Kinds
<1>3. QED
      BY <1>1, <1>2, Zenon DEF Delete

LEMMA GatewayDeleteEffect ==
  ASSUME TypeOK, NEW d \in Dsts, DeleteViaGateway(d)
  PROVE  /\ table' \in [Dsts -> Kinds]
         /\ leaked' \in BOOLEAN
         /\ \A e \in Dsts : e # d => table'[e] = table[e]
         /\ table'[d] \in {"absent", table[d]}
         /\ ~leaked' => ~leaked
         /\ ~leaked' /\ gateway_for(d) => table'[d] # "gw"
<1>1. CASE gateway_for(d)
      BY <1>1, DeleteEffect DEF DeleteViaGateway
<1>2. CASE ~gateway_for(d)
      <2>1. UNCHANGED <<table, leaked>>
            BY <1>2, Zenon DEF DeleteViaGateway
      <2>2. leaked' \in BOOLEAN /\ (~leaked' => ~leaked)
            BY <2>1 DEF TypeOK
      <2>3. QED
            BY <1>2, <2>1, <2>2 DEF TypeOK, Kinds
<1>3. QED
      BY <1>1, <1>2

-----------------------------------------------------------------------------
LEMMA TypeNext == TypeOK /\ Loaded /\ [Next]_vars => TypeOK'
<1> SUFFICES ASSUME TypeOK, Loaded, [Next]_vars PROVE TypeOK'
    OBVIOUS
<1> USE TunnelAssumption
    DEF TypeOK, Loaded, RouteManager, Families, hostVars, procVars, histVars,
        Startup, Reloading, Teardown, WithoutTun
<1>1. ASSUME NEW cfg \in Configs, Run(cfg) PROVE TypeOK'
      <2>1. rm' \in RouteManager /\ rm'.applied = FALSE
            BY <1>1, Zenon DEF Run
      <2>2. used' \in SUBSET Dsts /\ hostGateways' \in SUBSET Families
            BY <1>1 DEF Run
      <2>3. stop' \in BOOLEAN /\ leaked' \in BOOLEAN
            BY <1>1, Zenon DEF Run
      <2>4. /\ starts' \in Nat /\ reloads' \in Nat
            /\ pending' \in SUBSET Configs
            /\ todo' \in SUBSET Dsts
            BY <1>1 DEF Run
      <2>5. table' \in [Dsts -> Kinds] /\ before' \in [Dsts -> Kinds]
            BY <1>1, Zenon DEF Run, Kinds
      <2>6. QED
            BY <1>1, <2>1, <2>2, <2>3, <2>4, <2>5, Zenon DEF Run, Kinds
<1>2. ASSUME NEW cfg \in Configs, Reload(cfg) PROVE TypeOK'
      BY <1>2 DEF Reload
<1>3. ASSUME StartupFails PROVE TypeOK'
      BY <1>3, Zenon DEF StartupFails, End
<1>4. ASSUME ReadGateways PROVE TypeOK'
      <2>1. rm' \in RouteManager /\ rm'.applied = rm.applied
            BY <1>4, Zenon DEF ReadGateways
      <2>2. CASE Family[rm.proxy_ip] \in hostGateways
            BY <1>4, <2>1, <2>2 DEF ReadGateways
      <2>3. CASE Family[rm.proxy_ip] \notin hostGateways
            <3>1. pc' = "off" /\ table' \in [Dsts -> Kinds]
                  BY <1>4, <2>3 DEF ReadGateways, End, Kinds
            <3>2. stop' \in BOOLEAN /\ leaked' \in BOOLEAN
                  BY <1>4, <2>3, Zenon DEF ReadGateways, End
            <3>3. QED
                  BY <1>4, <2>1, <2>3, <3>1, <3>2
                  DEF ReadGateways, End, Kinds
      <2>4. QED
            BY <2>2, <2>3
<1>5. ASSUME AddProxyRoute PROVE TypeOK'
      BY <1>5, Zenon DEF AddProxyRoute
<1>6. ASSUME NEW d \in Dsts, AddBypass(d) PROVE TypeOK'
      BY <1>6, Zenon DEF AddBypass
<1>7. ASSUME BypassAdded PROVE TypeOK'
      BY <1>7, Zenon DEF BypassAdded
<1>8. ASSUME NEW d \in Dsts, AddSplit(d) PROVE TypeOK'
      BY <1>8, Zenon DEF AddSplit
<1>9. ASSUME SplitAdded PROVE TypeOK'
      BY <1>9, Zenon DEF SplitAdded
<1>10. ASSUME ApplyDns PROVE TypeOK'
      BY <1>10, Zenon DEF ApplyDns
<1>11. ASSUME BuildStack PROVE TypeOK'
      BY <1>11, Zenon DEF BuildStack
<1>12. ASSUME DelOldProxyRoute PROVE TypeOK'
      BY <1>12, GatewayDeleteEffect DEF Kinds, DelOldProxyRoute
<1>13. ASSUME AddNewProxyRoute PROVE TypeOK'
      BY <1>13 DEF AddNewProxyRoute, ReloadAbandoned
<1>14. ASSUME NEW d \in Dsts, DelBypass(d) PROVE TypeOK'
      BY <1>14, GatewayDeleteEffect DEF Kinds, DelBypass
<1>15. ASSUME BypassDeleted PROVE TypeOK'
      BY <1>15, Zenon DEF BypassDeleted
<1>16. ASSUME MoreAdded PROVE TypeOK'
      BY <1>16, Zenon DEF MoreAdded
<1>17. ASSUME ReloadDns PROVE TypeOK'
      BY <1>17, Zenon DEF ReloadDns
<1>18. ASSUME ReloadFails PROVE TypeOK'
      BY <1>18, Zenon DEF ReloadFails, ReloadAbandoned
<1>19. ASSUME StoreProxy PROVE TypeOK'
      BY <1>19, Zenon DEF StoreProxy
<1>20. ASSUME StoreRoutes PROVE TypeOK'
      BY <1>20, Zenon DEF StoreRoutes
<1>21. ASSUME SetPoolProxy PROVE TypeOK'
      BY <1>21, Zenon DEF SetPoolProxy
<1>22. ASSUME Terminate PROVE TypeOK'
      BY <1>22, Zenon DEF Terminate
<1>23. ASSUME LeaveLoop PROVE TypeOK'
      BY <1>23, Zenon DEF LeaveLoop, End
<1>24. ASSUME DropProxyRoute PROVE TypeOK'
      BY <1>24, GatewayDeleteEffect DEF Kinds, DropProxyRoute
<1>25. ASSUME NEW d \in Dsts, DropBypass(d) PROVE TypeOK'
      BY <1>25, GatewayDeleteEffect DEF Kinds, DropBypass
<1>26. ASSUME BypassDropped PROVE TypeOK'
      BY <1>26, Zenon DEF BypassDropped
<1>27. ASSUME NEW d \in Dsts, DropSplit(d) PROVE TypeOK'
      BY <1>27, DeleteEffect DEF Kinds, DropSplit
<1>28. ASSUME SplitDropped PROVE TypeOK'
      BY <1>28, Zenon DEF SplitDropped
<1>29. ASSUME RestoreDns PROVE TypeOK'
      BY <1>29, Zenon DEF RestoreDns, End
<1>30. ASSUME Kill PROVE TypeOK'
      BY <1>30, Zenon DEF Kill, End
<1>31. ASSUME UNCHANGED vars PROVE TypeOK'
      BY <1>31 DEF vars
<1> QED
    BY <1>1, <1>2, <1>3, <1>4, <1>5, <1>6, <1>7, <1>8, <1>9, <1>10, <1>11,
       <1>12, <1>13, <1>14, <1>15, <1>16, <1>17, <1>18, <1>19, <1>20,
       <1>21, <1>22, <1>23, <1>24, <1>25, <1>26, <1>27, <1>28, <1>29,
       <1>30, <1>31, Zenon
    DEF Next, Starting, ReloadSteps, TeardownSteps

LEMMA LoadedNext == TypeOK /\ Loaded /\ [Next]_vars => Loaded'
<1> SUFFICES ASSUME TypeOK, Loaded, [Next]_vars PROVE Loaded'
    OBVIOUS
<1> USE TunnelAssumption
    DEF TypeOK, Loaded, RouteManager, Families, hostVars, procVars, histVars,
        Startup, Reloading, Teardown
<1>1. ASSUME NEW cfg \in Configs, Run(cfg) PROVE Loaded'
      BY <1>1, Zenon DEF Run
<1>2. ASSUME NEW cfg \in Configs, Reload(cfg) PROVE Loaded'
      BY <1>2, Zenon DEF Reload
<1>3. ASSUME StartupFails PROVE Loaded'
      BY <1>3, Zenon DEF StartupFails, End
<1>4. ASSUME ReadGateways PROVE Loaded'
      BY <1>4, Zenon DEF ReadGateways, End
<1>5. ASSUME AddProxyRoute PROVE Loaded'
      BY <1>5, Zenon DEF AddProxyRoute
<1>6. ASSUME NEW d \in Dsts, AddBypass(d) PROVE Loaded'
      BY <1>6, Zenon DEF AddBypass
<1>7. ASSUME BypassAdded PROVE Loaded'
      BY <1>7, Zenon DEF BypassAdded
<1>8. ASSUME NEW d \in Dsts, AddSplit(d) PROVE Loaded'
      BY <1>8, Zenon DEF AddSplit
<1>9. ASSUME SplitAdded PROVE Loaded'
      BY <1>9, Zenon DEF SplitAdded
<1>10. ASSUME ApplyDns PROVE Loaded'
      BY <1>10, Zenon DEF ApplyDns
<1>11. ASSUME BuildStack PROVE Loaded'
      BY <1>11, Zenon DEF BuildStack
<1>12. ASSUME DelOldProxyRoute PROVE Loaded'
      BY <1>12, Zenon DEF DelOldProxyRoute
<1>13. ASSUME AddNewProxyRoute PROVE Loaded'
      BY <1>13 DEF AddNewProxyRoute, ReloadAbandoned
<1>14. ASSUME NEW d \in Dsts, DelBypass(d) PROVE Loaded'
      BY <1>14, Zenon DEF DelBypass
<1>15. ASSUME BypassDeleted PROVE Loaded'
      BY <1>15, Zenon DEF BypassDeleted
<1>16. ASSUME MoreAdded PROVE Loaded'
      BY <1>16, Zenon DEF MoreAdded
<1>17. ASSUME ReloadDns PROVE Loaded'
      BY <1>17, Zenon DEF ReloadDns
<1>18. ASSUME ReloadFails PROVE Loaded'
      BY <1>18, Zenon DEF ReloadFails, ReloadAbandoned
<1>19. ASSUME StoreProxy PROVE Loaded'
      BY <1>19, Zenon DEF StoreProxy
<1>20. ASSUME StoreRoutes PROVE Loaded'
      BY <1>20, Zenon DEF StoreRoutes
<1>21. ASSUME SetPoolProxy PROVE Loaded'
      BY <1>21, Zenon DEF SetPoolProxy
<1>22. ASSUME Terminate PROVE Loaded'
      BY <1>22, Zenon DEF Terminate
<1>23. ASSUME LeaveLoop PROVE Loaded'
      BY <1>23, Zenon DEF LeaveLoop, End
<1>24. ASSUME DropProxyRoute PROVE Loaded'
      BY <1>24, Zenon DEF DropProxyRoute
<1>25. ASSUME NEW d \in Dsts, DropBypass(d) PROVE Loaded'
      BY <1>25, Zenon DEF DropBypass
<1>26. ASSUME BypassDropped PROVE Loaded'
      BY <1>26, Zenon DEF BypassDropped
<1>27. ASSUME NEW d \in Dsts, DropSplit(d) PROVE Loaded'
      BY <1>27, Zenon DEF DropSplit
<1>28. ASSUME SplitDropped PROVE Loaded'
      BY <1>28, Zenon DEF SplitDropped
<1>29. ASSUME RestoreDns PROVE Loaded'
      BY <1>29, Zenon DEF RestoreDns, End
<1>30. ASSUME Kill PROVE Loaded'
      BY <1>30, Zenon DEF Kill, End
<1>31. ASSUME UNCHANGED vars PROVE Loaded'
      BY <1>31, Zenon DEF vars
<1> QED
    BY <1>1, <1>2, <1>3, <1>4, <1>5, <1>6, <1>7, <1>8, <1>9, <1>10, <1>11,
       <1>12, <1>13, <1>14, <1>15, <1>16, <1>17, <1>18, <1>19, <1>20,
       <1>21, <1>22, <1>23, <1>24, <1>25, <1>26, <1>27, <1>28, <1>29,
       <1>30, <1>31, Zenon
    DEF Next, Starting, ReloadSteps, TeardownSteps

LEMMA OthersNext ==
  TypeOK /\ TypeOK' /\ Loaded /\ OthersUntouched /\ [Next]_vars
    => OthersUntouched'
<1> SUFFICES ASSUME TypeOK, TypeOK', Loaded, OthersUntouched, [Next]_vars
             PROVE  OthersUntouched'
    OBVIOUS
<1> USE ConfigTypes
    DEF TypeOK, Loaded, OthersUntouched, Claims, Splits, RouteManager, Kinds,
        hostVars, procVars, histVars, Startup, Reloading, Teardown, WithoutTun
<1>1. ASSUME NEW cfg \in Configs, Run(cfg) PROVE OthersUntouched'
      <2>1. rm'.proxy_ip = cfg.proxy /\ rm'.bypass = cfg.bypass
            BY <1>1, Zenon DEF Run
      <2>2. pc' = "start" /\ current_cfg' = cfg /\ used' = Claims(cfg)
            BY <1>1, Zenon DEF Run
      <2>3. /\ \A d \in Dsts : before'[d] # "tun"
            /\ \A d \in Dsts : table'[d] = before'[d]
            BY <1>1, Zenon DEF Run
      <2>4. todo' \subseteq used' \cup Splits
            <3>1. todo' = {}
                  BY <1>1, Zenon DEF Run
            <3>2. QED
                  BY <3>1
      <2>5. QED
            BY <2>1, <2>2, <2>3, <2>4
<1>2. ASSUME NEW cfg \in Configs, Reload(cfg) PROVE OthersUntouched'
      BY <1>2 DEF Reload
<1>3. ASSUME StartupFails PROVE OthersUntouched'
      BY <1>3, Zenon DEF StartupFails, End
<1>4. ASSUME ReadGateways PROVE OthersUntouched'
      BY <1>4 DEF ReadGateways, End
<1>5. ASSUME AddProxyRoute PROVE OthersUntouched'
      BY <1>5 DEF AddProxyRoute
<1>6. ASSUME NEW d \in Dsts, AddBypass(d) PROVE OthersUntouched'
      BY <1>6 DEF AddBypass
<1>7. ASSUME BypassAdded PROVE OthersUntouched'
      BY <1>7, Zenon DEF BypassAdded
<1>8. ASSUME NEW d \in Dsts, AddSplit(d) PROVE OthersUntouched'
      BY <1>8 DEF AddSplit
<1>9. ASSUME SplitAdded PROVE OthersUntouched'
      BY <1>9, Zenon DEF SplitAdded
<1>10. ASSUME ApplyDns PROVE OthersUntouched'
      BY <1>10, Zenon DEF ApplyDns
<1>11. ASSUME BuildStack PROVE OthersUntouched'
      BY <1>11, Zenon DEF BuildStack
<1>12. ASSUME DelOldProxyRoute PROVE OthersUntouched'
      BY <1>12, GatewayDeleteEffect DEF DelOldProxyRoute
<1>13. ASSUME AddNewProxyRoute PROVE OthersUntouched'
      <2>1. CASE gateway_for(new_cfg.proxy)
            <3>1. rm'.proxy_ip = new_cfg.proxy /\ rm'.bypass = rm.bypass
                  BY <1>13, <2>1 DEF AddNewProxyRoute
            <3>2. new_cfg.proxy \in used
                  BY <1>13, Zenon DEF AddNewProxyRoute
            <3>3. \A d \in Dsts \ (used \cup Splits) : table'[d] = before[d]
                  BY <1>13, <2>1, <3>2 DEF AddNewProxyRoute
            <3>4. pc = "addNewProxy" /\ pc' = "delBypass"
                  BY <1>13, <2>1 DEF AddNewProxyRoute
            <3>5. UNCHANGED <<todo, used, before, current_cfg, new_cfg>>
                  BY <1>13, <2>1 DEF AddNewProxyRoute
            <3>6. QED
                  BY <3>1, <3>2, <3>3, <3>4, <3>5
      <2>2. CASE ~gateway_for(new_cfg.proxy)
            BY <1>13, <2>2 DEF AddNewProxyRoute, ReloadAbandoned
      <2>3. QED
            BY <2>1, <2>2
<1>14. ASSUME NEW d \in Dsts, DelBypass(d) PROVE OthersUntouched'
      BY <1>14, GatewayDeleteEffect DEF DelBypass
<1>15. ASSUME BypassDeleted PROVE OthersUntouched'
      BY <1>15, Zenon DEF BypassDeleted
<1>16. ASSUME MoreAdded PROVE OthersUntouched'
      BY <1>16, Zenon DEF MoreAdded
<1>17. ASSUME ReloadDns PROVE OthersUntouched'
      BY <1>17, Zenon DEF ReloadDns
<1>18. ASSUME ReloadFails PROVE OthersUntouched'
      BY <1>18, Zenon DEF ReloadFails, ReloadAbandoned
<1>19. ASSUME StoreProxy PROVE OthersUntouched'
      BY <1>19, Zenon DEF StoreProxy
<1>20. ASSUME StoreRoutes PROVE OthersUntouched'
      BY <1>20, Zenon DEF StoreRoutes
<1>21. ASSUME SetPoolProxy PROVE OthersUntouched'
      BY <1>21, Zenon DEF SetPoolProxy
<1>22. ASSUME Terminate PROVE OthersUntouched'
      BY <1>22, Zenon DEF Terminate
<1>23. ASSUME LeaveLoop PROVE OthersUntouched'
      BY <1>23, Zenon DEF LeaveLoop, End
<1>24. ASSUME DropProxyRoute PROVE OthersUntouched'
      BY <1>24, GatewayDeleteEffect DEF DropProxyRoute
<1>25. ASSUME NEW d \in Dsts, DropBypass(d) PROVE OthersUntouched'
      BY <1>25, GatewayDeleteEffect DEF DropBypass
<1>26. ASSUME BypassDropped PROVE OthersUntouched'
      BY <1>26, Zenon DEF BypassDropped
<1>27. ASSUME NEW d \in Dsts, DropSplit(d) PROVE OthersUntouched'
      BY <1>27, DeleteEffect DEF DropSplit
<1>28. ASSUME SplitDropped PROVE OthersUntouched'
      BY <1>28, Zenon DEF SplitDropped
<1>29. ASSUME RestoreDns PROVE OthersUntouched'
      BY <1>29, Zenon DEF RestoreDns, End
<1>30. ASSUME Kill PROVE OthersUntouched'
      BY <1>30, Zenon DEF Kill, End
<1>31. ASSUME UNCHANGED vars PROVE OthersUntouched'
      BY <1>31, Zenon DEF vars
<1> QED
    BY <1>1, <1>2, <1>3, <1>4, <1>5, <1>6, <1>7, <1>8, <1>9, <1>10, <1>11,
       <1>12, <1>13, <1>14, <1>15, <1>16, <1>17, <1>18, <1>19, <1>20,
       <1>21, <1>22, <1>23, <1>24, <1>25, <1>26, <1>27, <1>28, <1>29,
       <1>30, <1>31, Zenon
    DEF Next, Starting, ReloadSteps, TeardownSteps

LEMMA FollowsNext ==
  TypeOK /\ Loaded /\ RouteManagerFollows /\ [Next]_vars
    => RouteManagerFollows'
<1> SUFFICES ASSUME TypeOK, Loaded, RouteManagerFollows, [Next]_vars
             PROVE  RouteManagerFollows'
    OBVIOUS
<1> USE DEF TypeOK, Loaded, RouteManagerFollows, Claims, RouteManager,
        hostVars, procVars, histVars, Startup, Reloading, Teardown
<1>1. ASSUME NEW cfg \in Configs, Run(cfg) PROVE RouteManagerFollows'
      BY <1>1, Zenon DEF Run
<1>2. ASSUME NEW cfg \in Configs, Reload(cfg) PROVE RouteManagerFollows'
      <2>1. CASE is_noop(current_cfg, cfg)
            <3>1. /\ cfg.proxy = current_cfg.proxy
                  /\ cfg.bypass = current_cfg.bypass
                  BY <2>1 DEF is_noop, proxy_changed, ProxyConfig
            <3>2. QED
                  BY <1>2, <2>1, <3>1 DEF Reload
      <2>2. CASE ~is_noop(current_cfg, cfg)
            BY <1>2, <2>2 DEF Reload
      <2>3. QED
            BY <2>1, <2>2
<1>3. ASSUME StartupFails PROVE RouteManagerFollows'
      BY <1>3, Zenon DEF StartupFails, End
<1>4. ASSUME ReadGateways PROVE RouteManagerFollows'
      BY <1>4, Zenon DEF ReadGateways, End
<1>5. ASSUME AddProxyRoute PROVE RouteManagerFollows'
      BY <1>5, Zenon DEF AddProxyRoute
<1>6. ASSUME NEW d \in Dsts, AddBypass(d) PROVE RouteManagerFollows'
      BY <1>6, Zenon DEF AddBypass
<1>7. ASSUME BypassAdded PROVE RouteManagerFollows'
      BY <1>7, Zenon DEF BypassAdded
<1>8. ASSUME NEW d \in Dsts, AddSplit(d) PROVE RouteManagerFollows'
      BY <1>8, Zenon DEF AddSplit
<1>9. ASSUME SplitAdded PROVE RouteManagerFollows'
      BY <1>9, Zenon DEF SplitAdded
<1>10. ASSUME ApplyDns PROVE RouteManagerFollows'
      BY <1>10, Zenon DEF ApplyDns
<1>11. ASSUME BuildStack PROVE RouteManagerFollows'
      BY <1>11, Zenon DEF BuildStack
<1>12. ASSUME DelOldProxyRoute PROVE RouteManagerFollows'
      BY <1>12, Zenon DEF DelOldProxyRoute
<1>13. ASSUME AddNewProxyRoute PROVE RouteManagerFollows'
      BY <1>13, Zenon DEF AddNewProxyRoute, ReloadAbandoned
<1>14. ASSUME NEW d \in Dsts, DelBypass(d) PROVE RouteManagerFollows'
      BY <1>14, Zenon DEF DelBypass
<1>15. ASSUME BypassDeleted PROVE RouteManagerFollows'
      BY <1>15, Zenon DEF BypassDeleted
<1>16. ASSUME MoreAdded PROVE RouteManagerFollows'
      BY <1>16, Zenon DEF MoreAdded
<1>17. ASSUME ReloadDns PROVE RouteManagerFollows'
      BY <1>17, Zenon DEF ReloadDns
<1>18. ASSUME ReloadFails PROVE RouteManagerFollows'
      BY <1>18, Zenon DEF ReloadFails, ReloadAbandoned
<1>19. ASSUME StoreProxy PROVE RouteManagerFollows'
      BY <1>19, Zenon DEF StoreProxy
<1>20. ASSUME StoreRoutes PROVE RouteManagerFollows'
      BY <1>20, Zenon DEF StoreRoutes
<1>21. ASSUME SetPoolProxy PROVE RouteManagerFollows'
      BY <1>21, Zenon DEF SetPoolProxy
<1>22. ASSUME Terminate PROVE RouteManagerFollows'
      BY <1>22, Zenon DEF Terminate
<1>23. ASSUME LeaveLoop PROVE RouteManagerFollows'
      BY <1>23, Zenon DEF LeaveLoop, End
<1>24. ASSUME DropProxyRoute PROVE RouteManagerFollows'
      BY <1>24, Zenon DEF DropProxyRoute
<1>25. ASSUME NEW d \in Dsts, DropBypass(d) PROVE RouteManagerFollows'
      BY <1>25, Zenon DEF DropBypass
<1>26. ASSUME BypassDropped PROVE RouteManagerFollows'
      BY <1>26, Zenon DEF BypassDropped
<1>27. ASSUME NEW d \in Dsts, DropSplit(d) PROVE RouteManagerFollows'
      BY <1>27, Zenon DEF DropSplit
<1>28. ASSUME SplitDropped PROVE RouteManagerFollows'
      BY <1>28, Zenon DEF SplitDropped
<1>29. ASSUME RestoreDns PROVE RouteManagerFollows'
      BY <1>29, Zenon DEF RestoreDns, End
<1>30. ASSUME Kill PROVE RouteManagerFollows'
      BY <1>30, Zenon DEF Kill, End
<1>31. ASSUME UNCHANGED vars PROVE RouteManagerFollows'
      BY <1>31, Zenon DEF vars
<1> QED
    BY <1>1, <1>2, <1>3, <1>4, <1>5, <1>6, <1>7, <1>8, <1>9, <1>10, <1>11,
       <1>12, <1>13, <1>14, <1>15, <1>16, <1>17, <1>18, <1>19, <1>20,
       <1>21, <1>22, <1>23, <1>24, <1>25, <1>26, <1>27, <1>28, <1>29,
       <1>30, <1>31, Zenon
    DEF Next, Starting, ReloadSteps, TeardownSteps

LEMMA AccountedNext ==
  IInv /\ TypeOK' /\ [Next]_vars => RoutesAccounted'
<1> SUFFICES ASSUME IInv, TypeOK', [Next]_vars, ~leaked'
             PROVE  \A d \in used' :
                      table'[d] = "gw" /\ Family[d] \in rm'.gateways
                        => d \in MayHaveRoute'
    BY DEF RoutesAccounted
<1> DEFINE Goal == \A d \in used' :
                     table'[d] = "gw" /\ Family[d] \in rm'.gateways
                       => d \in MayHaveRoute'
<1> USE ConfigTypes
    DEF IInv, TypeOK, Loaded, RoutesAccounted, MayHaveRoute, Claims,
        FailedClaims, RouteManager, Kinds, gateway_for, hostVars, procVars,
        histVars, Startup, Reloading, Teardown, WithoutTun
<1>1. ASSUME NEW cfg \in Configs, Run(cfg) PROVE Goal
      BY <1>1, Zenon DEF Run
<1>2. ASSUME NEW cfg \in Configs, Reload(cfg) PROVE Goal
      <2> SUFFICES ASSUME NEW d \in used', table'[d] = "gw",
                          Family[d] \in rm'.gateways
                   PROVE  d \in MayHaveRoute'
          OBVIOUS
      <2>1. /\ pc = "loop" /\ ~leaked
            /\ UNCHANGED <<table, rm, pending>>
            BY <1>2, Zenon DEF Reload
      <2>2. d \in Claims(current_cfg) \cup Claims(cfg) \cup FailedClaims
            BY <1>2, <2>1 DEF Reload
      <2>3. CASE is_noop(current_cfg, cfg)
            <3>1. /\ cfg.proxy = current_cfg.proxy
                  /\ cfg.bypass = current_cfg.bypass
                  BY <2>3 DEF is_noop, proxy_changed, ProxyConfig
            <3>2. pc' = "loop" /\ current_cfg' = cfg
                  BY <1>2, <2>3 DEF Reload
            <3>3. QED
                  BY <2>1, <2>2, <3>1, <3>2
      <2>4. CASE ~is_noop(current_cfg, cfg)
            <3>1. /\ current_cfg' = current_cfg /\ new_cfg' = cfg
                  /\ todo' = current_cfg.bypass \ cfg.bypass
                  BY <1>2, <2>4 DEF Reload
            <3>2. CASE cfg.proxy # current_cfg.proxy
                  <4>1. pc' = "delOldProxy"
                        BY <1>2, <2>4, <3>2 DEF Reload
                  <4>2. QED
                        BY <2>1, <2>2, <3>1, <4>1
            <3>3. CASE cfg.proxy = current_cfg.proxy
                  <4>1. pc' = "delBypass"
                        BY <1>2, <2>4, <3>3 DEF Reload
                  <4>2. QED
                        BY <2>1, <2>2, <3>1, <3>3, <4>1
            <3>4. QED
                  BY <3>2, <3>3
      <2>5. QED
            BY <2>3, <2>4
<1>3. ASSUME StartupFails PROVE Goal
      BY <1>3, Zenon DEF StartupFails, End
<1>4. ASSUME ReadGateways PROVE Goal
      BY <1>4, Zenon DEF ReadGateways, End
<1>5. ASSUME AddProxyRoute PROVE Goal
      BY <1>5, Zenon DEF AddProxyRoute
<1>6. ASSUME NEW d \in Dsts, AddBypass(d) PROVE Goal
      BY <1>6 DEF AddBypass, RouteManagerFollows
<1>7. ASSUME BypassAdded PROVE Goal
      BY <1>7, Zenon DEF BypassAdded
<1>8. ASSUME NEW d \in Dsts, AddSplit(d) PROVE Goal
      BY <1>8, Zenon DEF AddSplit
<1>9. ASSUME SplitAdded PROVE Goal
      BY <1>9, Zenon DEF SplitAdded
<1>10. ASSUME ApplyDns PROVE Goal
      BY <1>10, Zenon DEF ApplyDns
<1>11. ASSUME BuildStack PROVE Goal
      <2>1. used' = Claims(current_cfg') /\ pc' = "loop"
            BY <1>11, Zenon DEF BuildStack, RouteManagerFollows
      <2>2. QED
            BY <2>1
<1>12. ASSUME DelOldProxyRoute PROVE Goal
      BY <1>12, GatewayDeleteEffect DEF DelOldProxyRoute
<1>13. ASSUME AddNewProxyRoute PROVE Goal
      <2>1. CASE gateway_for(new_cfg.proxy)
            <3>1. /\ pc = "addNewProxy" /\ pc' = "delBypass" /\ ~leaked
                  /\ todo = current_cfg.bypass \ new_cfg.bypass
                  /\ UNCHANGED <<todo, used, current_cfg, new_cfg, pending>>
                  BY <1>13, <2>1 DEF AddNewProxyRoute, RouteManagerFollows
            <3>2. /\ rm'.gateways = rm.gateways
                  /\ \A d \in Dsts : d # new_cfg.proxy => table'[d] = table[d]
                  BY <1>13, <2>1 DEF AddNewProxyRoute
            <3>3. QED
                  BY <3>1, <3>2
      <2>2. CASE ~gateway_for(new_cfg.proxy)
            BY <1>13, <2>2 DEF AddNewProxyRoute, ReloadAbandoned
      <2>3. QED
            BY <2>1, <2>2
<1>14. ASSUME NEW d \in Dsts, DelBypass(d) PROVE Goal
      BY <1>14, GatewayDeleteEffect DEF DelBypass
<1>15. ASSUME BypassDeleted PROVE Goal
      BY <1>15, Zenon DEF BypassDeleted
<1>16. ASSUME MoreAdded PROVE Goal
      BY <1>16, Zenon DEF MoreAdded
<1>17. ASSUME ReloadDns PROVE Goal
      BY <1>17, Zenon DEF ReloadDns
<1>18. ASSUME ReloadFails PROVE Goal
      BY <1>18 DEF ReloadFails, ReloadAbandoned
<1>19. ASSUME StoreProxy PROVE Goal
      BY <1>19, Zenon DEF StoreProxy
<1>20. ASSUME StoreRoutes PROVE Goal
      BY <1>20, Zenon DEF StoreRoutes
<1>21. ASSUME SetPoolProxy PROVE Goal
      BY <1>21 DEF SetPoolProxy
<1>22. ASSUME Terminate PROVE Goal
      BY <1>22, Zenon DEF Terminate
<1>23. ASSUME LeaveLoop PROVE Goal
      <2>1. /\ pc = "loop" /\ pc' = "dropProxy" /\ ~leaked
            /\ UNCHANGED <<table, used, pending>>
            BY <1>23, Zenon DEF LeaveLoop
      <2>2. /\ rm'.proxy_ip = rm.proxy_ip /\ rm'.bypass = rm.bypass
            /\ rm'.gateways = rm.gateways
            BY <1>23, Zenon DEF LeaveLoop
      <2>3. CASE pending = {}
            <3>1. /\ rm.proxy_ip = current_cfg.proxy
                  /\ rm.bypass = current_cfg.bypass
                  /\ FailedClaims = {}
                  BY <2>1, <2>3 DEF RouteManagerFollows
            <3>2. QED
                  BY <2>1, <2>2, <2>3, <3>1
      <2>4. CASE pending # {}
            BY <2>1, <2>4
      <2>5. QED
            BY <2>3, <2>4
<1>24. ASSUME DropProxyRoute PROVE Goal
      BY <1>24, GatewayDeleteEffect DEF DropProxyRoute
<1>25. ASSUME NEW d \in Dsts, DropBypass(d) PROVE Goal
      BY <1>25, GatewayDeleteEffect DEF DropBypass
<1>26. ASSUME BypassDropped PROVE Goal
      BY <1>26, Zenon DEF BypassDropped
<1>27. ASSUME NEW d \in Dsts, DropSplit(d) PROVE Goal
      BY <1>27, DeleteEffect DEF DropSplit
<1>28. ASSUME SplitDropped PROVE Goal
      BY <1>28, Zenon DEF SplitDropped
<1>29. ASSUME RestoreDns PROVE Goal
      BY <1>29, Zenon DEF RestoreDns, End
<1>30. ASSUME Kill PROVE Goal
      BY <1>30, Zenon DEF Kill, End
<1>31. ASSUME UNCHANGED vars PROVE Goal
      BY <1>31, Zenon DEF vars
<1> QED
    BY <1>1, <1>2, <1>3, <1>4, <1>5, <1>6, <1>7, <1>8, <1>9, <1>10, <1>11,
       <1>12, <1>13, <1>14, <1>15, <1>16, <1>17, <1>18, <1>19, <1>20,
       <1>21, <1>22, <1>23, <1>24, <1>25, <1>26, <1>27, <1>28, <1>29,
       <1>30, <1>31, Zenon
    DEF Next, Starting, ReloadSteps, TeardownSteps

LEMMA TeardownNext ==
  IInv /\ TypeOK' /\ [Next]_vars => TeardownRemovesRoutes'
<1> SUFFICES ASSUME IInv, TypeOK', [Next]_vars PROVE TeardownRemovesRoutes'
    OBVIOUS
<1> USE DEF IInv, TypeOK, Loaded, TeardownRemovesRoutes, RouteManager,
        hostVars, procVars, histVars, Startup, Reloading, Teardown
<1>1. ASSUME NEW cfg \in Configs, Run(cfg) PROVE TeardownRemovesRoutes'
      BY <1>1, Zenon DEF Run
<1>2. ASSUME NEW cfg \in Configs, Reload(cfg) PROVE TeardownRemovesRoutes'
      BY <1>2, Zenon DEF Reload
<1>3. ASSUME StartupFails PROVE TeardownRemovesRoutes'
      BY <1>3, Zenon DEF StartupFails, End
<1>4. ASSUME ReadGateways PROVE TeardownRemovesRoutes'
      BY <1>4, Zenon DEF ReadGateways, End
<1>5. ASSUME AddProxyRoute PROVE TeardownRemovesRoutes'
      BY <1>5, Zenon DEF AddProxyRoute
<1>6. ASSUME NEW d \in Dsts, AddBypass(d) PROVE TeardownRemovesRoutes'
      BY <1>6, Zenon DEF AddBypass
<1>7. ASSUME BypassAdded PROVE TeardownRemovesRoutes'
      BY <1>7, Zenon DEF BypassAdded
<1>8. ASSUME NEW d \in Dsts, AddSplit(d) PROVE TeardownRemovesRoutes'
      BY <1>8, Zenon DEF AddSplit
<1>9. ASSUME SplitAdded PROVE TeardownRemovesRoutes'
      BY <1>9, Zenon DEF SplitAdded
<1>10. ASSUME ApplyDns PROVE TeardownRemovesRoutes'
      BY <1>10, Zenon DEF ApplyDns
<1>11. ASSUME BuildStack PROVE TeardownRemovesRoutes'
      BY <1>11, Zenon DEF BuildStack
<1>12. ASSUME DelOldProxyRoute PROVE TeardownRemovesRoutes'
      BY <1>12, Zenon DEF DelOldProxyRoute
<1>13. ASSUME AddNewProxyRoute PROVE TeardownRemovesRoutes'
      BY <1>13, Zenon DEF AddNewProxyRoute, ReloadAbandoned
<1>14. ASSUME NEW d \in Dsts, DelBypass(d) PROVE TeardownRemovesRoutes'
      BY <1>14, Zenon DEF DelBypass
<1>15. ASSUME BypassDeleted PROVE TeardownRemovesRoutes'
      BY <1>15, Zenon DEF BypassDeleted
<1>16. ASSUME MoreAdded PROVE TeardownRemovesRoutes'
      BY <1>16, Zenon DEF MoreAdded
<1>17. ASSUME ReloadDns PROVE TeardownRemovesRoutes'
      BY <1>17, Zenon DEF ReloadDns
<1>18. ASSUME ReloadFails PROVE TeardownRemovesRoutes'
      BY <1>18, Zenon DEF ReloadFails, ReloadAbandoned
<1>19. ASSUME StoreProxy PROVE TeardownRemovesRoutes'
      BY <1>19, Zenon DEF StoreProxy
<1>20. ASSUME StoreRoutes PROVE TeardownRemovesRoutes'
      BY <1>20, Zenon DEF StoreRoutes
<1>21. ASSUME SetPoolProxy PROVE TeardownRemovesRoutes'
      BY <1>21, Zenon DEF SetPoolProxy
<1>22. ASSUME Terminate PROVE TeardownRemovesRoutes'
      BY <1>22, Zenon DEF Terminate
<1>23. ASSUME LeaveLoop PROVE TeardownRemovesRoutes'
      BY <1>23, Zenon DEF LeaveLoop, End
<1>24. ASSUME DropProxyRoute PROVE TeardownRemovesRoutes'
      BY <1>24, Zenon DEF DropProxyRoute
<1>25. ASSUME NEW d \in Dsts, DropBypass(d) PROVE TeardownRemovesRoutes'
      BY <1>25, Zenon DEF DropBypass
<1>26. ASSUME BypassDropped PROVE TeardownRemovesRoutes'
      BY <1>26, Zenon DEF BypassDropped
<1>27. ASSUME NEW d \in Dsts, DropSplit(d) PROVE TeardownRemovesRoutes'
      BY <1>27, Zenon DEF DropSplit
<1>28. ASSUME SplitDropped PROVE TeardownRemovesRoutes'
      BY <1>28, Zenon DEF SplitDropped
<1>29. ASSUME RestoreDns PROVE TeardownRemovesRoutes'
      <2> SUFFICES ASSUME pending = {}, ~leaked PROVE TeardownRemovesRoutes'
          BY <1>29, Zenon DEF RestoreDns
      <2>1. /\ pc = "restoreDns" /\ table' = WithoutTun(table)
            /\ UNCHANGED <<used, rm, before>>
            BY <1>29, Zenon DEF RestoreDns, End
      <2>2. MayHaveRoute = {}
            BY <2>1 DEF MayHaveRoute
      <2>3. \A d \in used : table[d] = "gw" => Family[d] \notin rm.gateways
            BY <2>2 DEF RoutesAccounted
      <2>4. \A d \in Dsts \ (used \cup Splits) :
              table[d] = before[d] /\ before[d] # "tun"
            BY DEF OthersUntouched
      <2>5. QED
            BY <2>1, <2>3, <2>4 DEF WithoutTun, Splits
<1>30. ASSUME Kill PROVE TeardownRemovesRoutes'
      BY <1>30, Zenon DEF Kill, End
<1>31. ASSUME UNCHANGED vars PROVE TeardownRemovesRoutes'
      BY <1>31, Zenon DEF vars
<1> QED
    BY <1>1, <1>2, <1>3, <1>4, <1>5, <1>6, <1>7, <1>8, <1>9, <1>10, <1>11,
       <1>12, <1>13, <1>14, <1>15, <1>16, <1>17, <1>18, <1>19, <1>20,
       <1>21, <1>22, <1>23, <1>24, <1>25, <1>26, <1>27, <1>28, <1>29,
       <1>30, <1>31, Zenon
    DEF Next, Starting, ReloadSteps, TeardownSteps

-----------------------------------------------------------------------------
LEMMA Initially == Init => IInv
<1> SUFFICES ASSUME Init PROVE IInv
    OBVIOUS
<1>1. stop \in BOOLEAN /\ leaked \in BOOLEAN
      BY Zenon DEF Init
<1>2. TypeOK
      BY <1>1, TunnelAssumption
      DEF Init, TypeOK, Startup, Reloading, Teardown, Families
<1>3. Loaded /\ RouteManagerFollows
      BY DEF Init, Loaded, RouteManagerFollows, Startup, Reloading, Teardown
<1>4. OthersUntouched
      BY DEF Init, OthersUntouched, Reloading
<1>5. RoutesAccounted /\ TeardownRemovesRoutes
      BY DEF Init, RoutesAccounted, TeardownRemovesRoutes
<1>6. QED
      BY <1>2, <1>3, <1>4, <1>5 DEF IInv

LEMMA Inductive == IInv /\ [Next]_vars => IInv'
BY TypeNext, LoadedNext, OthersNext, FollowsNext, AccountedNext, TeardownNext
   DEF IInv

(* RouteManager and run() keep their types; in particular applied is set
   exactly while reload() and teardown() of route.rs have routes to manage,
   so neither returns early in the loop.                                   *)
THEOREM TypeCorrect == Spec => []TypeOK
BY Initially, Inductive, PTL DEF Spec, IInv

(* teardown() of route.rs, reached by any number of reloads that succeeded,
   or failed and were then retried, removes every gateway route the process
   made and leaves the destinations it never named as they were.           *)
THEOREM TeardownClean == Spec => []TeardownRemovesRoutes
BY Initially, Inductive, PTL DEF Spec, IInv

-----------------------------------------------------------------------------
(* A failed reload leaves its effects behind. What is missing in the running
   process is therefore owed to a pending configuration that differs from
   the current one just there, and which, when it is retried, puts it right.*)
OnProxy(cfg) == rm.proxy_ip = cfg.proxy /\ table[cfg.proxy] = "gw"
ProxyMoved(cfg) == \E c \in pending : c.proxy # cfg.proxy
Kept(d) == \/ gateway_for(d) => table[d] = "gw"
           \/ \E c \in pending : d \notin c.bypass

Moved == {"delBypass", "addMore", "reloadDns", "storeProxy", "storeRoutes",
          "setPool"}
Rerouted == Moved \ {"delBypass", "addMore"}
Stored == {"storeProxy", "storeRoutes", "setPool"}

(* The proxy's route, at each point of the process. *)
ProxyFollows ==
  /\ pc \in {"start", "addProxy"} => \A d \in Dsts : table[d] # "tun"
  /\ pc \in Startup \ {"start", "addProxy"} => table[rm.proxy_ip] = "gw"
  /\ pc \in {"loop", "delOldProxy"} =>
       OnProxy(current_cfg) \/ ProxyMoved(current_cfg)
  /\ pc \in {"delOldProxy", "addNewProxy"} => new_cfg.proxy # current_cfg.proxy
  /\ pc \in Moved =>
       \/ OnProxy(new_cfg)
       \/ new_cfg.proxy = current_cfg.proxy /\ ProxyMoved(current_cfg)

(* The bypass routes, at each point of the process. *)
BypassFollows ==
  /\ pc = "addBypass" =>
       \A d \in rm.bypass \ todo : gateway_for(d) => table[d] = "gw"
  /\ pc \in {"addSplit", "applyDns", "build"} =>
       \A d \in rm.bypass : gateway_for(d) => table[d] = "gw"
  /\ pc \in {"loop", "delOldProxy", "addNewProxy"} =>
       \A d \in current_cfg.bypass : Kept(d)
  /\ pc \in {"delOldProxy", "addNewProxy", "delBypass"} =>
       todo \subseteq current_cfg.bypass \ new_cfg.bypass
  /\ pc \in {"delBypass", "addMore"} =>
       \A d \in current_cfg.bypass \cap new_cfg.bypass : Kept(d)
  /\ pc = "addMore" =>
       /\ todo \subseteq new_cfg.bypass \ current_cfg.bypass
       /\ \A d \in new_cfg.bypass \ (current_cfg.bypass \cup todo) : Kept(d)
  /\ pc \in Rerouted => \A d \in new_cfg.bypass : Kept(d)

(* A resolv.conf that is not the configuration's is one that a failed reload
   left, and that reload would have changed the setting: its retry will.   *)
ResolvesBy(cfg) ==
  resolver = cfg.dns \/ \E c \in pending : c.dns # cfg.dns

(* Shared, the pool's proxy and the resolver: once the first of them is
   changed no step can fail, but for the write of resolv.conf itself.      *)
StateFollows ==
  /\ pc \in {"loop"} \cup Reloading =>
       /\ poolProxy = ProxyConfig(current_cfg)
       /\ shared = [proxy |-> IF pc \in {"storeRoutes", "setPool"}
                                THEN ProxyConfig(new_cfg)
                                ELSE ProxyConfig(current_cfg),
                    routes |-> IF pc = "setPool" THEN new_cfg.bypass
                                                 ELSE current_cfg.bypass]
  /\ pc \in Startup \ {"build"} => resolver = None
  /\ pc \in {"build", "loop"} \cup (Reloading \ Stored) =>
       ResolvesBy(current_cfg)
  /\ pc \in Stored => ResolvesBy(new_cfg)

(* A family without a gateway gets no gateway routes. *)
OnlyViaGateways ==
  pc \in {"loop"} \cup Startup \cup Reloading =>
    /\ pc \in Startup \ {"start"} => gateway_for(rm.proxy_ip)
    /\ \A d \in Dsts : table[d] = "gw" /\ ~gateway_for(d) => before[d] = "gw"

RInv == /\ StateFollows
        /\ OnlyViaGateways
        /\ DisjointConfigs => ProxyFollows /\ BypassFollows

-----------------------------------------------------------------------------
(* The steps that leave startup, the loop and reloads behind. *)
Ends == StartupFails \/ LeaveLoop \/ Kill \/ TeardownSteps

(* They lead to teardown or to the end of the process. *)
LEMMA EndsElsewhere == TypeOK /\ Ends => pc' \in {"off"} \cup Teardown
BY DEF TypeOK, Ends, TeardownSteps, StartupFails, LeaveLoop, DropProxyRoute,
       DropBypass, BypassDropped, DropSplit, SplitDropped, RestoreDns, Kill,
       End, Teardown

(* What DisjointConfigs says of any two configurations. *)
LEMMA Apart ==
  ASSUME DisjointConfigs, NEW c1 \in Configs, NEW c2 \in Configs
  PROVE  /\ c1.proxy \notin c2.bypass
         /\ c1.proxy \notin Splits /\ c1.bypass \cap Splits = {}
BY DEF DisjointConfigs, Splits

(* A reload found to change nothing changes no setting that is applied. *)
LEMMA NoopSame ==
  ASSUME NEW c1 \in Configs, NEW c2 \in Configs, is_noop(c1, c2)
  PROVE  /\ c1.proxy = c2.proxy /\ c1.bypass = c2.bypass /\ c1.dns = c2.dns
         /\ ProxyConfig(c1) = ProxyConfig(c2)
BY DEF is_noop, proxy_changed, ProxyConfig

(* Every step keeps Shared, the pool and the resolver together. *)
LEMMA StateNext ==
  TypeOK /\ Loaded /\ StateFollows /\ [Next]_vars
    => StateFollows'
<1> SUFFICES ASSUME TypeOK, Loaded, StateFollows, [Next]_vars
             PROVE  StateFollows'
    OBVIOUS
<1> USE DEF TypeOK, Loaded, hostVars, procVars, histVars,
        Startup, Reloading, Teardown, StateFollows, Stored, ResolvesBy
<1>1. ASSUME NEW cfg \in Configs, Run(cfg) PROVE StateFollows'
      BY <1>1, Zenon DEF Run
<1>2. ASSUME NEW cfg \in Configs, Reload(cfg) PROVE StateFollows'
      <2>1. CASE is_noop(current_cfg, cfg)
            BY <1>2, <2>1, NoopSame DEF Reload
      <2>2. CASE ~is_noop(current_cfg, cfg)
            BY <1>2, <2>2 DEF Reload
      <2>3. QED
            BY <2>1, <2>2
<1>3. ASSUME ReadGateways PROVE StateFollows'
      BY <1>3, Zenon DEF ReadGateways, End
<1>4. ASSUME AddProxyRoute PROVE StateFollows'
      BY <1>4, Zenon DEF AddProxyRoute
<1>5. ASSUME NEW d \in Dsts, AddBypass(d) PROVE StateFollows'
      BY <1>5, Zenon DEF AddBypass
<1>6. ASSUME BypassAdded PROVE StateFollows'
      BY <1>6, Zenon DEF BypassAdded
<1>7. ASSUME NEW d \in Dsts, AddSplit(d) PROVE StateFollows'
      BY <1>7, Zenon DEF AddSplit
<1>8. ASSUME SplitAdded PROVE StateFollows'
      BY <1>8, Zenon DEF SplitAdded
<1>9. ASSUME ApplyDns PROVE StateFollows'
      BY <1>9, Zenon DEF ApplyDns
<1>10. ASSUME BuildStack PROVE StateFollows'
      BY <1>10, Zenon DEF BuildStack
<1>11. ASSUME DelOldProxyRoute PROVE StateFollows'
      BY <1>11, GatewayDeleteEffect DEF DelOldProxyRoute
<1>12. ASSUME AddNewProxyRoute PROVE StateFollows'
      BY <1>12, Zenon DEF AddNewProxyRoute, ReloadAbandoned
<1>13. ASSUME NEW d \in Dsts, DelBypass(d) PROVE StateFollows'
      BY <1>13, GatewayDeleteEffect DEF DelBypass
<1>14. ASSUME BypassDeleted PROVE StateFollows'
      BY <1>14, Zenon DEF BypassDeleted
<1>15. ASSUME MoreAdded PROVE StateFollows'
      BY <1>15, Zenon DEF MoreAdded
<1>16. ASSUME ReloadDns PROVE StateFollows'
      BY <1>16, Zenon DEF ReloadDns
<1>17. ASSUME ReloadFails PROVE StateFollows'
      BY <1>17, Zenon DEF ReloadFails, ReloadAbandoned
<1>18. ASSUME StoreProxy PROVE StateFollows'
      BY <1>18 DEF StoreProxy
<1>19. ASSUME StoreRoutes PROVE StateFollows'
      BY <1>19 DEF StoreRoutes
<1>20. ASSUME SetPoolProxy PROVE StateFollows'
      BY <1>20, Zenon DEF SetPoolProxy, proxy_changed
<1>21. ASSUME Terminate PROVE StateFollows'
      BY <1>21, Zenon DEF Terminate
<1>22. ASSUME UNCHANGED vars PROVE StateFollows'
      BY <1>22, Zenon DEF vars
<1>23. ASSUME Ends PROVE StateFollows'
      BY <1>23, EndsElsewhere
<1> QED
    BY <1>1, <1>2, <1>3, <1>4, <1>5, <1>6, <1>7, <1>8, <1>9, <1>10,
       <1>11, <1>12, <1>13, <1>14, <1>15, <1>16, <1>17, <1>18, <1>19,
       <1>20, <1>21, <1>22, <1>23, Zenon
    DEF Next, Starting, ReloadSteps, TeardownSteps, Ends

(* Every step adds gateway routes for families with a gateway only. *)
LEMMA ViaGatewaysNext ==
  TypeOK /\ Loaded /\ OnlyViaGateways /\ [Next]_vars
    => OnlyViaGateways'
<1> SUFFICES ASSUME TypeOK, Loaded, OnlyViaGateways, [Next]_vars
             PROVE  OnlyViaGateways'
    OBVIOUS
<1> USE DEF TypeOK, Loaded, hostVars, procVars, histVars,
        Startup, Reloading, Teardown, OnlyViaGateways, gateway_for,
        RouteManager
<1>1. ASSUME NEW cfg \in Configs, Run(cfg) PROVE OnlyViaGateways'
      BY <1>1, Zenon DEF Run
<1>2. ASSUME NEW cfg \in Configs, Reload(cfg) PROVE OnlyViaGateways'
      BY <1>2, Zenon DEF Reload
<1>3. ASSUME ReadGateways PROVE OnlyViaGateways'
      BY <1>3, Zenon DEF ReadGateways, End
<1>4. ASSUME AddProxyRoute PROVE OnlyViaGateways'
      BY <1>4, Zenon DEF AddProxyRoute
<1>5. ASSUME NEW d \in Dsts, AddBypass(d) PROVE OnlyViaGateways'
      BY <1>5, Zenon DEF AddBypass
<1>6. ASSUME BypassAdded PROVE OnlyViaGateways'
      BY <1>6, Zenon DEF BypassAdded
<1>7. ASSUME NEW d \in Dsts, AddSplit(d) PROVE OnlyViaGateways'
      BY <1>7, Zenon DEF AddSplit
<1>8. ASSUME SplitAdded PROVE OnlyViaGateways'
      BY <1>8, Zenon DEF SplitAdded
<1>9. ASSUME ApplyDns PROVE OnlyViaGateways'
      BY <1>9, Zenon DEF ApplyDns
<1>10. ASSUME BuildStack PROVE OnlyViaGateways'
      BY <1>10, Zenon DEF BuildStack
<1>11. ASSUME DelOldProxyRoute PROVE OnlyViaGateways'
      BY <1>11, ConfigTypes, GatewayDeleteEffect DEF DelOldProxyRoute
<1>12. ASSUME AddNewProxyRoute PROVE OnlyViaGateways'
      BY <1>12, Zenon DEF AddNewProxyRoute, ReloadAbandoned
<1>13. ASSUME NEW d \in Dsts, DelBypass(d) PROVE OnlyViaGateways'
      BY <1>13, GatewayDeleteEffect DEF DelBypass
<1>14. ASSUME BypassDeleted PROVE OnlyViaGateways'
      BY <1>14, Zenon DEF BypassDeleted
<1>15. ASSUME MoreAdded PROVE OnlyViaGateways'
      BY <1>15, Zenon DEF MoreAdded
<1>16. ASSUME ReloadDns PROVE OnlyViaGateways'
      BY <1>16, Zenon DEF ReloadDns
<1>17. ASSUME ReloadFails PROVE OnlyViaGateways'
      BY <1>17, Zenon DEF ReloadFails, ReloadAbandoned
<1>18. ASSUME StoreProxy PROVE OnlyViaGateways'
      BY <1>18, Zenon DEF StoreProxy
<1>19. ASSUME StoreRoutes PROVE OnlyViaGateways'
      BY <1>19, Zenon DEF StoreRoutes
<1>20. ASSUME SetPoolProxy PROVE OnlyViaGateways'
      BY <1>20, Zenon DEF SetPoolProxy, proxy_changed
<1>21. ASSUME Terminate PROVE OnlyViaGateways'
      BY <1>21, Zenon DEF Terminate
<1>22. ASSUME UNCHANGED vars PROVE OnlyViaGateways'
      BY <1>22, Zenon DEF vars
<1>23. ASSUME Ends PROVE OnlyViaGateways'
      BY <1>23, EndsElsewhere
<1> QED
    BY <1>1, <1>2, <1>3, <1>4, <1>5, <1>6, <1>7, <1>8, <1>9, <1>10,
       <1>11, <1>12, <1>13, <1>14, <1>15, <1>16, <1>17, <1>18, <1>19,
       <1>20, <1>21, <1>22, <1>23, Zenon
    DEF Next, Starting, ReloadSteps, TeardownSteps, Ends

(* Every step accounts for the proxy's route: only DelOldProxyRoute removes
   it, and a reload that fails after that is pending with another proxy.   *)
LEMMA ProxyNext ==
  IInv /\ DisjointConfigs /\ ProxyFollows /\ BypassFollows /\ [Next]_vars
    => ProxyFollows'
<1> SUFFICES ASSUME IInv, DisjointConfigs, ProxyFollows, BypassFollows,
                    [Next]_vars
             PROVE  ProxyFollows'
    OBVIOUS
<1> USE DEF IInv, TypeOK, Loaded, hostVars, procVars, histVars,
        Startup, Reloading, Teardown, ProxyFollows, OnProxy, ProxyMoved,
        Moved, RouteManager
<1>1. ASSUME NEW cfg \in Configs, Run(cfg) PROVE ProxyFollows'
      BY <1>1, Zenon DEF Run, OthersUntouched
<1>2. ASSUME NEW cfg \in Configs, Reload(cfg) PROVE ProxyFollows'
      <2>1. CASE is_noop(current_cfg, cfg)
            BY <1>2, <2>1, NoopSame DEF Reload
      <2>2. CASE ~is_noop(current_cfg, cfg)
            BY <1>2, <2>2 DEF Reload
      <2>3. QED
            BY <2>1, <2>2
<1>3. ASSUME ReadGateways PROVE ProxyFollows'
      BY <1>3, Zenon DEF ReadGateways, End
<1>4. ASSUME AddProxyRoute PROVE ProxyFollows'
      BY <1>4, Zenon DEF AddProxyRoute
<1>5. ASSUME NEW d \in Dsts, AddBypass(d) PROVE ProxyFollows'
      BY <1>5, Zenon DEF AddBypass
<1>6. ASSUME BypassAdded PROVE ProxyFollows'
      BY <1>6, Zenon DEF BypassAdded
<1>7. ASSUME NEW d \in Dsts, AddSplit(d) PROVE ProxyFollows'
      <2>1. d # rm.proxy_ip
            BY <1>7, Apart DEF AddSplit, OthersUntouched, RouteManagerFollows
      <2>2. QED
            BY <1>7, <2>1 DEF AddSplit
<1>8. ASSUME SplitAdded PROVE ProxyFollows'
      BY <1>8, Zenon DEF SplitAdded
<1>9. ASSUME ApplyDns PROVE ProxyFollows'
      BY <1>9, Zenon DEF ApplyDns
<1>10. ASSUME BuildStack PROVE ProxyFollows'
      BY <1>10, Zenon DEF BuildStack, RouteManagerFollows
<1>11. ASSUME DelOldProxyRoute PROVE ProxyFollows'
      BY <1>11, GatewayDeleteEffect DEF DelOldProxyRoute
<1>12. ASSUME AddNewProxyRoute PROVE ProxyFollows'
      <2>1. CASE gateway_for(new_cfg.proxy)
            BY <1>12, <2>1, ConfigTypes DEF AddNewProxyRoute
      <2>2. CASE ~gateway_for(new_cfg.proxy)
            BY <1>12, <2>2 DEF AddNewProxyRoute, ReloadAbandoned
      <2>3. QED
            BY <2>1, <2>2
<1>13. ASSUME NEW d \in Dsts, DelBypass(d) PROVE ProxyFollows'
      <2>1. d # new_cfg.proxy
            BY <1>13, Apart DEF DelBypass, BypassFollows
      <2>2. QED
            BY <1>13, <2>1, ConfigTypes, GatewayDeleteEffect DEF DelBypass
<1>14. ASSUME BypassDeleted PROVE ProxyFollows'
      BY <1>14, Zenon DEF BypassDeleted
<1>15. ASSUME MoreAdded PROVE ProxyFollows'
      BY <1>15, Zenon DEF MoreAdded
<1>16. ASSUME ReloadDns PROVE ProxyFollows'
      BY <1>16, Zenon DEF ReloadDns
<1>17. ASSUME ReloadFails PROVE ProxyFollows'
      BY <1>17, Zenon DEF ReloadFails, ReloadAbandoned
<1>18. ASSUME StoreProxy PROVE ProxyFollows'
      BY <1>18, Zenon DEF StoreProxy
<1>19. ASSUME StoreRoutes PROVE ProxyFollows'
      BY <1>19, Zenon DEF StoreRoutes
<1>20. ASSUME SetPoolProxy PROVE ProxyFollows'
      BY <1>20, Zenon DEF SetPoolProxy
<1>21. ASSUME Terminate PROVE ProxyFollows'
      BY <1>21, Zenon DEF Terminate
<1>22. ASSUME UNCHANGED vars PROVE ProxyFollows'
      BY <1>22, Zenon DEF vars
<1>23. ASSUME Ends PROVE ProxyFollows'
      BY <1>23, EndsElsewhere
<1> QED
    BY <1>1, <1>2, <1>3, <1>4, <1>5, <1>6, <1>7, <1>8, <1>9, <1>10,
       <1>11, <1>12, <1>13, <1>14, <1>15, <1>16, <1>17, <1>18, <1>19,
       <1>20, <1>21, <1>22, <1>23, Zenon
    DEF Next, Starting, ReloadSteps, TeardownSteps, Ends

(* Every step accounts for the bypass routes: only DelBypass removes one, and
   a reload that fails after that is pending without it.                   *)
LEMMA BypassNext ==
  IInv /\ DisjointConfigs /\ BypassFollows /\ [Next]_vars
    => BypassFollows'
<1> SUFFICES ASSUME IInv, DisjointConfigs, BypassFollows, [Next]_vars
             PROVE  BypassFollows'
    OBVIOUS
<1> USE DEF IInv, TypeOK, Loaded, hostVars, procVars, histVars,
        Startup, Reloading, Teardown, BypassFollows, Kept, Rerouted, Moved,
        gateway_for, RouteManager
<1>1. ASSUME NEW cfg \in Configs, Run(cfg) PROVE BypassFollows'
      BY <1>1, Zenon DEF Run
<1>2. ASSUME NEW cfg \in Configs, Reload(cfg) PROVE BypassFollows'
      <2>1. CASE is_noop(current_cfg, cfg)
            BY <1>2, <2>1, NoopSame DEF Reload
      <2>2. CASE ~is_noop(current_cfg, cfg)
            BY <1>2, <2>2 DEF Reload
      <2>3. QED
            BY <2>1, <2>2
<1>3. ASSUME ReadGateways PROVE BypassFollows'
      BY <1>3, Zenon DEF ReadGateways, End
<1>4. ASSUME AddProxyRoute PROVE BypassFollows'
      BY <1>4, Zenon DEF AddProxyRoute
<1>5. ASSUME NEW d \in Dsts, AddBypass(d) PROVE BypassFollows'
      BY <1>5 DEF AddBypass
<1>6. ASSUME BypassAdded PROVE BypassFollows'
      BY <1>6, Zenon DEF BypassAdded
<1>7. ASSUME NEW d \in Dsts, AddSplit(d) PROVE BypassFollows'
      <2>1. d \notin rm.bypass
            BY <1>7, Apart DEF AddSplit, OthersUntouched, RouteManagerFollows
      <2>2. QED
            BY <1>7, <2>1 DEF AddSplit
<1>8. ASSUME SplitAdded PROVE BypassFollows'
      BY <1>8, Zenon DEF SplitAdded
<1>9. ASSUME ApplyDns PROVE BypassFollows'
      BY <1>9, Zenon DEF ApplyDns
<1>10. ASSUME BuildStack PROVE BypassFollows'
      BY <1>10, Zenon DEF BuildStack, RouteManagerFollows
<1>11. ASSUME DelOldProxyRoute PROVE BypassFollows'
      <2>1. current_cfg.proxy \in Dsts \ current_cfg.bypass
            BY <1>11, ConfigTypes, Apart DEF DelOldProxyRoute
      <2>2. QED
            BY <1>11, <2>1, ConfigTypes, GatewayDeleteEffect
            DEF DelOldProxyRoute
<1>12. ASSUME AddNewProxyRoute PROVE BypassFollows'
      <2>1. CASE gateway_for(new_cfg.proxy)
            <3>1. new_cfg.proxy \notin current_cfg.bypass
                  BY <1>12, Apart DEF AddNewProxyRoute
            <3>2. QED
                  BY <1>12, <2>1, <3>1, ConfigTypes DEF AddNewProxyRoute
      <2>2. CASE ~gateway_for(new_cfg.proxy)
            BY <1>12, <2>2 DEF AddNewProxyRoute, ReloadAbandoned
      <2>3. QED
            BY <2>1, <2>2
<1>13. ASSUME NEW d \in Dsts, DelBypass(d) PROVE BypassFollows'
      BY <1>13, ConfigTypes, GatewayDeleteEffect DEF DelBypass
<1>14. ASSUME BypassDeleted PROVE BypassFollows'
      BY <1>14, Zenon DEF BypassDeleted
<1>15. ASSUME MoreAdded PROVE BypassFollows'
      BY <1>15, Zenon DEF MoreAdded
<1>16. ASSUME ReloadDns PROVE BypassFollows'
      BY <1>16, Zenon DEF ReloadDns
<1>17. ASSUME ReloadFails PROVE BypassFollows'
      BY <1>17, Zenon DEF ReloadFails, ReloadAbandoned
<1>18. ASSUME StoreProxy PROVE BypassFollows'
      BY <1>18, Zenon DEF StoreProxy
<1>19. ASSUME StoreRoutes PROVE BypassFollows'
      BY <1>19, Zenon DEF StoreRoutes
<1>20. ASSUME SetPoolProxy PROVE BypassFollows'
      BY <1>20, Zenon DEF SetPoolProxy
<1>21. ASSUME Terminate PROVE BypassFollows'
      BY <1>21, Zenon DEF Terminate
<1>22. ASSUME UNCHANGED vars PROVE BypassFollows'
      BY <1>22, Zenon DEF vars
<1>23. ASSUME Ends PROVE BypassFollows'
      BY <1>23, EndsElsewhere
<1> QED
    BY <1>1, <1>2, <1>3, <1>4, <1>5, <1>6, <1>7, <1>8, <1>9, <1>10,
       <1>11, <1>12, <1>13, <1>14, <1>15, <1>16, <1>17, <1>18, <1>19,
       <1>20, <1>21, <1>22, <1>23, Zenon
    DEF Next, Starting, ReloadSteps, TeardownSteps, Ends

-----------------------------------------------------------------------------
(* RInv holds at first, and every step keeps it, given IInv. *)
LEMMA ReloadInitially == Init => RInv
BY DEF Init, RInv, StateFollows, OnlyViaGateways, ProxyFollows, BypassFollows,
       Startup, Reloading, Moved, Rerouted, Stored

LEMMA ReloadInductive == IInv /\ RInv /\ [Next]_vars => RInv'
<1> SUFFICES ASSUME IInv, RInv, [Next]_vars PROVE RInv'
    OBVIOUS
<1>1. StateFollows' /\ OnlyViaGateways'
      BY StateNext, ViaGatewaysNext DEF RInv, IInv
<1>2. ASSUME DisjointConfigs PROVE ProxyFollows' /\ BypassFollows'
      BY <1>2, ProxyNext, BypassNext DEF RInv
<1>3. QED
      BY <1>1, <1>2 DEF RInv, DisjointConfigs

(* With nothing pending, nothing is missing. *)
LEMMA Protected == IInv /\ RInv => ProxyProtected
<1> SUFFICES ASSUME IInv, RInv, DisjointConfigs, pending = {},
                    pc \in Startup \cup {"loop"}
             PROVE  /\ (\E d \in V4_SPLIT \cup V6_SPLIT : table[d] = "tun") =>
                          table[rm.proxy_ip] = "gw"
                    /\ pc = "loop" => /\ shared.proxy.addr = rm.proxy_ip
                                      /\ poolProxy = shared.proxy
    BY DEF ProxyProtected
<1>1. ProxyFollows /\ StateFollows
      BY DEF RInv
<1>2. CASE pc \in Startup
      BY <1>1, <1>2, TunnelAssumption DEF ProxyFollows, Startup
<1>3. CASE pc = "loop"
      BY <1>1, <1>3 DEF ProxyFollows, OnProxy, ProxyMoved, StateFollows,
                        ProxyConfig
<1>4. QED
      BY <1>2, <1>3

LEMMA Matches == IInv /\ RInv => RunningMatchesConfig
<1> SUFFICES ASSUME IInv, RInv, DisjointConfigs, pending = {}, pc = "loop"
             PROVE  RunningMatchesConfig
    BY DEF RunningMatchesConfig
<1>1. \A d \in WantedDirect(current_cfg) : table[d] = "gw"
      BY DEF RInv, ProxyFollows, BypassFollows, OnProxy, ProxyMoved, Kept,
             WantedDirect, gateway_for
<1>2. ASSUME ~leaked, NEW d \in used \ WantedDirect(current_cfg),
             table[d] = "gw"
      PROVE  before[d] = "gw" /\ ~gateway_for(d)
      <2>1. d \in Dsts /\ (gateway_for(d) => d \in Claims(current_cfg))
            BY <1>2 DEF IInv, TypeOK, RoutesAccounted, MayHaveRoute,
                        FailedClaims, gateway_for
      <2>2. ~gateway_for(d)
            BY <1>2, <2>1 DEF WantedDirect, Claims, gateway_for
      <2>3. QED
            BY <1>2, <2>1, <2>2 DEF RInv, OnlyViaGateways
<1>3. shared = [proxy |-> ProxyConfig(current_cfg),
                routes |-> current_cfg.bypass]
      BY DEF RInv, StateFollows
<1>4. resolver = current_cfg.dns
      BY DEF RInv, StateFollows, ResolvesBy
<1>5. QED
      BY <1>1, <1>2, <1>3, <1>4 DEF RunningMatchesConfig

(* During startup, and in run()'s loop after any reloads of apply_reload()
   that succeeded, or failed and were retried until they did, in any order:
   wherever traffic is captured, the proxy that relays and the DNS pool use
   has a route outside the tunnel. Between the steps of a reload that
   replaces the proxy, and in teardown, it has none for a while.           *)
THEOREM ProxyAlwaysProtected == Spec => []ProxyProtected
BY Initially, Inductive, ReloadInitially, ReloadInductive, Protected, PTL
   DEF Spec

(* The routes of RouteManager, Shared and the resolver are those of
   current_cfg in run()'s loop, for any sequence of such reloads: none of a
   configuration that was left remains.                                    *)
THEOREM RunningFollowsConfig == Spec => []RunningMatchesConfig
BY Initially, Inductive, ReloadInitially, ReloadInductive, Matches, PTL
   DEF Spec

=============================================================================
