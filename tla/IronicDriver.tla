----------------------------- MODULE IronicDriver -----------------------------
(***************************************************************************)
(* Several nova-compute services running the ironic driver share one      *)
(* pool of bare-metal nodes.  Each keeps a node cache refreshed by         *)
(* _refresh_cache (hash ring, node listing, instance listing, publish)    *)
(* and drives the instances scheduled to it through prepare_for_spawn,    *)
(* spawn, _wait_for_active, destroy and _unprovision against ironic,      *)
(* whose conductor moves the nodes through their provision states.        *)
(***************************************************************************)
EXTENDS Naturals, FiniteSets

CONSTANTS
  Hosts, Nodes, Instances, NoValue,
  ConfHost, Lower, HashRank,
  Shard, ConductorGroup, PeerList, NodeShard, NodeGroup, Can146, Can182,
  SkipReserveInUse,  \* CONF.workarounds.skip_reserve_in_use_ironic_nodes
  MaxRetries,        \* CONF.ironic.api_max_retries
  MaxAttempts,       \* CONF.scheduler.max_attempts - 1 reschedules
  MaxCrashes,        \* bound on compute-service crashes in a behaviour
  Maintenance        \* whether operators toggle node maintenance

Ring == INSTANCE HashRing
\* _check_peer_list: a service with an invalid peer list does not start.
ASSUME \A h \in Hosts : Ring!CheckPeerList(h)
Inv == INSTANCE Inventory

VARIABLES
  up,           \* up[h]: the service on h runs and heartbeats
  crashes,      \* crashes so far
  ring,         \* ring[h]: members of the hash ring of h
  phase,        \* phase[h]: 0 idle, 1 between the two listings
  listedNodes,  \* listedNodes[h]: node id -> node view, from the node listing
  listedInsts,  \* listedInsts[h]: InstanceList.get_uuids_by_host(CONF.host)
  cache,        \* cache[h]: node_cache, node id -> node view
  node,         \* node[n]: the ironic node record
  inst          \* inst[i]: the nova instance record

vars == <<up, crashes, ring, phase, listedNodes, listedInsts, cache, node, inst>>

ProvStates == {"available", "deploying", "active", "deploy failed", "deleting", "cleaning"}
\* The power state is left out: the nodes modelled are never in power state
\* ERROR or NOSTATE, the only ones _node_resources_unavailable looks at.
NodeView == [maint : BOOLEAN, prov : ProvStates, inst : Instances \cup {NoValue}]
\* A node view as the availability tests read it.
InvView(v) == [maint |-> v.maint, power |-> Inv!PowerOff, prov |-> v.prov, inst |-> v.inst]
InstStates == {"none", "building", "binding", "spawning", "deploying", "active",
               "error", "unprovisioning", "deleted"}
Building == {"building", "binding", "spawning", "deploying"}

\* Faulty variant: polling also stops while the node is still DELETING.
UnprovisionDoneWithDeleting == {"available", "cleaning", "deleting"}
\* _UNPROVISION_STATES, restricted to the provision states modelled
UnprovisionStates == {"active", "deploy failed", "deploying"}
\* provision states at which _wait_for_provision_state stops polling
UnprovisionDone == {"available", "cleaning"}

Live(i) == inst[i].state \notin {"none", "deleted"}
UpNames == {h \in Hosts : up[h]}

Unscheduled == [state |-> "none", host |-> NoValue, node |-> NoValue,
                deleting |-> FALSE, tries |-> 0, attempts |-> 0]

\* The listings outside a refresh: nothing.
NoListings == <<[h \in Hosts |-> [n \in {} |-> NoValue]], [h \in Hosts |-> {}]>>

Init ==
  /\ up = [h \in Hosts |-> TRUE]
  /\ crashes = 0
  /\ ring = [h \in Hosts |-> Ring!RingMembers(h, up)]
  /\ phase = [h \in Hosts |-> 0]
  /\ listedNodes = NoListings[1]
  /\ listedInsts = NoListings[2]
  /\ cache = [h \in Hosts |-> [n \in {} |-> NoValue]]
  /\ node = [n \in Nodes |-> [maint |-> FALSE, prov |-> "available", inst |-> NoValue]]
  /\ inst = [i \in Instances |-> Unscheduled]

-----------------------------------------------------------------------------
(* _refresh_cache *)

\* Faulty variant: the instance list read before the node list.
FetchOrderSwapped == <<"instances", "nodes">>

\* Order of the two listings of _refresh_cache: the node list first, so
\* that every instance a listed node names was created before the
\* instance list is read.
FetchOrder == <<"nodes", "instances">>

\* _get_node_list(fields=_NODE_FIELDS, **kwargs)
NodeList(h) == [n \in {m \in Nodes : Ring!Listed(h, m)} |-> node[n]]

\* InstanceList.get_uuids_by_host(ctx, CONF.host)
UuidsByHost(h) == {i \in Instances : inst[i].host = h /\ Live(i)}

Fetch(h, what) ==
  IF what = "nodes"
  THEN /\ listedNodes' = [listedNodes EXCEPT ![h] = NodeList(h)]
       /\ UNCHANGED listedInsts
  ELSE /\ listedInsts' = [listedInsts EXCEPT ![h] = UuidsByHost(h)]
       /\ UNCHANGED listedNodes

\* The nodes of a listing kept by h: bound to one of its instances, or
\* unbound and mapped to CONF.host by its ring.
NewCache(h, nl, insts) ==
  LET keep == {n \in DOMAIN nl :
                 \/ nl[n].inst \in insts
                 \/ nl[n].inst = NoValue /\ Ring!OwnsNode(h, ring[h], n)}
  IN  [n \in keep |-> nl[n]]

\* _refresh_hash_ring, then the first listing.
RefreshBegin(h) ==
  /\ up[h] /\ phase[h] = 0
  /\ ring' = [ring EXCEPT ![h] = Ring!RingMembers(h, up)]
  /\ Fetch(h, FetchOrder[1])
  /\ phase' = [phase EXCEPT ![h] = 1]
  /\ UNCHANGED <<up, crashes, cache, node, inst>>

\* The listings _refresh_cache filters when it publishes: the one taken
\* by RefreshBegin and the one taken now.
EndNodeList(h) == IF FetchOrder[1] = "nodes" THEN listedNodes[h] ELSE NodeList(h)
EndInsts(h) == IF FetchOrder[1] = "instances" THEN listedInsts[h] ELSE UuidsByHost(h)

\* The second listing, then the filter and the wholesale publish of
\* node_cache; the listings were locals of _refresh_cache.
RefreshEnd(h) ==
  /\ up[h] /\ phase[h] = 1
  /\ cache' = [cache EXCEPT ![h] = NewCache(h, EndNodeList(h), EndInsts(h))]
  /\ phase' = [phase EXCEPT ![h] = 0]
  /\ listedNodes' = [listedNodes EXCEPT ![h] = NoListings[1][h]]
  /\ listedInsts' = [listedInsts EXCEPT ![h] = {}]
  /\ UNCHANGED <<up, crashes, ring, node, inst>>

\* A listing raises (VirtDriverNotReady); the old cache stays.
RefreshAbort(h) ==
  /\ up[h] /\ phase[h] = 1
  /\ phase' = [phase EXCEPT ![h] = 0]
  /\ listedNodes' = [listedNodes EXCEPT ![h] = NoListings[1][h]]
  /\ listedInsts' = [listedInsts EXCEPT ![h] = {}]
  /\ UNCHANGED <<up, crashes, ring, cache, node, inst>>

-----------------------------------------------------------------------------
(* Compute services *)

HostCrash(h) ==
  /\ up[h] /\ crashes < MaxCrashes
  /\ up' = [up EXCEPT ![h] = FALSE]
  /\ crashes' = crashes + 1
  /\ UNCHANGED <<ring, phase, listedNodes, listedInsts, cache, node, inst>>

\* Faulty variant: a restart takes an interrupted delete as finished.
HostRestartLosesDelete(h) ==
  /\ ~up[h]
  /\ up' = [up EXCEPT ![h] = TRUE]
  /\ ring' = [ring EXCEPT ![h] = Ring!RingMembers(h, up')]
  /\ phase' = [phase EXCEPT ![h] = 0]
  /\ listedNodes' = [listedNodes EXCEPT ![h] = NoListings[1][h]]
  /\ listedInsts' = [listedInsts EXCEPT ![h] = {}]
  /\ cache' = [cache EXCEPT ![h] = [n \in {} |-> NoValue]]
  /\ inst' = [i \in Instances |->
                CASE inst[i].host # h -> inst[i]
                  [] inst[i].state \in Building -> [inst[i] EXCEPT !.state = "error"]
                  [] inst[i].state = "unprovisioning" -> [inst[i] EXCEPT !.state = "deleted"]
                  [] OTHER -> inst[i]]
  /\ UNCHANGED <<crashes, node>>

\* A restarted service starts with an empty node_cache, builds its ring in
\* init_host, and _init_instance sets interrupted builds to ERROR; an
\* interrupted delete keeps its DELETING task and is run again.
HostRestart(h) ==
  /\ ~up[h]
  /\ up' = [up EXCEPT ![h] = TRUE]
  /\ ring' = [ring EXCEPT ![h] = Ring!RingMembers(h, up')]
  /\ phase' = [phase EXCEPT ![h] = 0]
  /\ listedNodes' = [listedNodes EXCEPT ![h] = NoListings[1][h]]
  /\ listedInsts' = [listedInsts EXCEPT ![h] = {}]
  /\ cache' = [cache EXCEPT ![h] = [n \in {} |-> NoValue]]
  /\ inst' = [i \in Instances |->
                IF inst[i].host = h /\ inst[i].state \in Building \cup {"unprovisioning"}
                THEN [inst[i] EXCEPT !.state = "error"]
                ELSE inst[i]]
  /\ UNCHANGED <<crashes, node>>

-----------------------------------------------------------------------------
(* The scheduler and the compute manager around the driver *)

HostUp(i) == inst[i].host \in Hosts /\ up[inst[i].host]

Allocated(n) == \E j \in Instances : Live(j) /\ inst[j].node = n

\* The scheduler picks a node h reports: the inventory update_provider_tree
\* derives from the cached view leaves it unreserved and placement holds no
\* allocation against it; the resource claim sets instance.host and node.
Schedule(i, h, n) ==
  /\ inst[i].state = "none"
  /\ up[h] /\ n \in DOMAIN cache[h]
  /\ ~Inv!Reserved(InvView(cache[h][n]))
  /\ ~Allocated(n)
  /\ inst' = [inst EXCEPT ![i] = [@ EXCEPT !.state = "building", !.host = h, !.node = n]]
  /\ UNCHANGED <<up, crashes, ring, phase, listedNodes, listedInsts, cache, node>>

\* failed_spawn_cleanup / _cleanup_deploy: remove the instance info from the
\* node bound to i.
CleanupDeploy(i) ==
  node' = [n \in Nodes |-> IF node[n].inst = i
                           THEN [node[n] EXCEPT !.inst = NoValue] ELSE node[n]]

\* A failed build: an instance being deleted stays for its delete; another
\* is rescheduled while attempts remain and set to ERROR when none do.
BuildFailed(i) ==
  inst' = [inst EXCEPT ![i] =
             CASE @.deleting -> [@ EXCEPT !.state = "error"]
               [] @.attempts < MaxAttempts ->
                    [Unscheduled EXCEPT !.attempts = inst[i].attempts + 1]
               [] OTHER -> [@ EXCEPT !.state = "error", !.node = NoValue]]

Unchanged3 == UNCHANGED <<up, crashes, ring, phase, listedNodes, listedInsts, cache>>

\* prepare_for_spawn, the check: get_node, and ComputeResourcesUnavailable
\* for a node that is used or unavailable.
PrepareForSpawn(i) ==
  /\ inst[i].state = "building" /\ HostUp(i)
  /\ LET v == InvView(node[inst[i].node]) IN
       IF Inv!NodeResourcesUsed(v) \/ Inv!NodeResourcesUnavailable(v)
       THEN BuildFailed(i) /\ CleanupDeploy(i)
       ELSE inst' = [inst EXCEPT ![i].state = "binding"] /\ UNCHANGED node
  /\ Unchanged3

\* prepare_for_spawn, the update: _set_instance_id with
\* retry_on_conflict=False; ironic answers Conflict for a node already
\* associated, raised as InstanceDeployFailure.
SetInstanceId(i) ==
  /\ inst[i].state = "binding" /\ HostUp(i)
  /\ LET n == inst[i].node IN
       IF node[n].inst # NoValue
       THEN BuildFailed(i) /\ CleanupDeploy(i)
       ELSE /\ node' = [node EXCEPT ![n].inst = i]
            /\ inst' = [inst EXCEPT ![i].state = "spawning"]
  /\ Unchanged3

\* spawn, success: validate_node and the config drive pass and
\* set_node_provision_state "active" is accepted, which ironic does only
\* for an AVAILABLE node out of maintenance; _wait_for_active starts.
SpawnDeploy(i, n) ==
  /\ node[n].prov = "available" /\ ~node[n].maint
  /\ node' = [node EXCEPT ![n].prov = "deploying"]
  /\ inst' = [inst EXCEPT ![i].state = "deploying"]

\* Faulty variant: a failed spawn leaves the instance info on the node.
SpawnFailedNoCleanup(i) == BuildFailed(i) /\ UNCHANGED node

\* spawn, failure: validation, the config drive or the deploy request
\* raises; _cleanup_deploy runs and the build fails.
SpawnFailed(i) == CleanupDeploy(i) /\ BuildFailed(i)

Spawn(i) ==
  /\ inst[i].state = "spawning" /\ HostUp(i)
  /\ SpawnDeploy(i, inst[i].node) \/ SpawnFailed(i)
  /\ Unchanged3

\* A tick of _wait_for_active: instance.refresh() and InstanceDeployFailure
\* when it is being deleted; then _validate_instance_and_node
\* (InstanceNotFound when no node is bound to it), LoopingCallDone at ACTIVE
\* and InstanceDeployFailure at DEPLOYFAIL.  Other ticks change nothing.
WaitForActive(i) ==
  /\ inst[i].state = "deploying" /\ HostUp(i)
  /\ LET n == inst[i].node
         failed == inst[i].deleting \/ node[n].inst # i \/ node[n].prov = "deploy failed"
     IN  \/ failed /\ CleanupDeploy(i) /\ BuildFailed(i)
         \/ /\ ~failed /\ node[n].prov = "active"
            /\ inst' = [inst EXCEPT ![i].state = "active"]
            /\ UNCHANGED node
  /\ Unchanged3

\* The user deletes the instance: task_state DELETING.
RequestDelete(i) ==
  /\ inst[i].state \in Building \cup {"active", "error"} /\ HostUp(i)
  /\ ~inst[i].deleting
  /\ inst' = [inst EXCEPT ![i].deleting = TRUE]
  /\ UNCHANGED <<up, crashes, ring, phase, listedNodes, listedInsts, cache, node>>

Deleted(i) == inst' = [inst EXCEPT ![i].state = "deleted"]
DeleteFailed(i) == inst' = [inst EXCEPT ![i].state = "error", ![i].deleting = FALSE]

\* destroy: _validate_instance_and_node, returning on InstanceNotFound;
\* _unprovision (set_node_provision_state "deleted", which may raise) for a
\* node in _UNPROVISION_STATES, _cleanup_deploy otherwise.
Destroy(i) ==
  /\ inst[i].state \in {"active", "error"} /\ inst[i].deleting /\ HostUp(i)
  /\ LET bound == {n \in Nodes : node[n].inst = i}
         n == CHOOSE m \in bound : TRUE
     IN  CASE bound = {} -> Deleted(i) /\ UNCHANGED node
           [] node[n].prov \in UnprovisionStates ->
                \/ /\ node' = [node EXCEPT ![n].prov = "deleting"]
                   /\ inst' = [inst EXCEPT ![i].state = "unprovisioning", ![i].tries = 0]
                \/ DeleteFailed(i) /\ UNCHANGED node
           [] OTHER -> CleanupDeploy(i) /\ Deleted(i)
  /\ Unchanged3

\* Faulty variant: no api_max_retries limit on the polling.
UnprovisionPollNoLimit(i) ==
  /\ inst[i].state = "unprovisioning" /\ HostUp(i)
  /\ LET n == inst[i].node
         h == inst[i].host
     IN  IF node[n].inst # i \/ node[n].prov \in UnprovisionDone
         THEN /\ Deleted(i)
              /\ cache' = [cache EXCEPT ![h] = [m \in DOMAIN cache[h] \ {n} |-> cache[h][m]]]
         ELSE inst' = [inst EXCEPT ![i].tries = @ + 1] /\ UNCHANGED cache
  /\ UNCHANGED <<up, crashes, ring, phase, listedNodes, listedInsts, node>>

\* A tick of _wait_for_provision_state in _unprovision: LoopingCallDone on
\* InstanceNotFound or a cleaning or available node, then
\* node_cache.pop(node.id); NovaException once tries >= api_max_retries + 1.
UnprovisionPoll(i) ==
  /\ inst[i].state = "unprovisioning" /\ HostUp(i)
  /\ LET n == inst[i].node
         h == inst[i].host
     IN  CASE node[n].inst # i \/ node[n].prov \in UnprovisionDone ->
                /\ Deleted(i)
                /\ cache' = [cache EXCEPT ![h] = [m \in DOMAIN cache[h] \ {n} |-> cache[h][m]]]
           [] inst[i].tries >= MaxRetries + 1 -> DeleteFailed(i) /\ UNCHANGED cache
           [] OTHER -> inst' = [inst EXCEPT ![i].tries = @ + 1] /\ UNCHANGED cache
  /\ UNCHANGED <<up, crashes, ring, phase, listedNodes, listedInsts, node>>

-----------------------------------------------------------------------------
(* The ironic conductor and operator *)

SetNode(n, prov, i) ==
  /\ node' = [node EXCEPT ![n] = [@ EXCEPT !.prov = prov, !.inst = i]]
  /\ UNCHANGED <<up, crashes, ring, phase, listedNodes, listedInsts, cache, inst>>

DeployDone(n) ==
  node[n].prov = "deploying" /\ SetNode(n, "active", node[n].inst)
DeployFail(n) ==
  node[n].prov = "deploying" /\ SetNode(n, "deploy failed", node[n].inst)
\* Tear-down clears instance_uuid and starts cleaning.
TearDown(n) ==
  node[n].prov = "deleting" /\ SetNode(n, "cleaning", NoValue)
CleanDone(n) ==
  node[n].prov = "cleaning" /\ SetNode(n, "available", NoValue)
\* An operator toggles maintenance (enabled by the Maintenance switch).
SetMaintenance(n) ==
  /\ Maintenance
  /\ node' = [node EXCEPT ![n].maint = ~@]
  /\ UNCHANGED <<up, crashes, ring, phase, listedNodes, listedInsts, cache, inst>>

-----------------------------------------------------------------------------
Next ==
  \/ \E h \in Hosts :
       RefreshBegin(h) \/ RefreshEnd(h) \/ RefreshAbort(h) \/ HostCrash(h) \/ HostRestart(h)
  \/ \E i \in Instances, h \in Hosts, n \in Nodes : Schedule(i, h, n)
  \/ \E i \in Instances :
       \/ PrepareForSpawn(i) \/ SetInstanceId(i) \/ Spawn(i) \/ WaitForActive(i)
       \/ RequestDelete(i) \/ Destroy(i) \/ UnprovisionPoll(i)
  \/ \E n \in Nodes :
       DeployDone(n) \/ DeployFail(n) \/ TearDown(n) \/ CleanDone(n) \/ SetMaintenance(n)

Spec == Init /\ [][Next]_vars

\* The periodic task runs _refresh_cache on every live service; a listing
\* that fails infinitely often also succeeds infinitely often.  Every
\* started build or delete continues on a live service, and the conductor
\* completes deploys, tear-downs and cleaning.
Fairness ==
  /\ \A h \in Hosts : WF_vars(RefreshBegin(h)) /\ SF_vars(RefreshEnd(h))
  /\ \A i \in Instances :
       /\ WF_vars(PrepareForSpawn(i)) /\ WF_vars(SetInstanceId(i)) /\ WF_vars(Spawn(i))
       /\ WF_vars(WaitForActive(i)) /\ WF_vars(Destroy(i)) /\ WF_vars(UnprovisionPoll(i))
  /\ \A n \in Nodes :
       WF_vars(DeployDone(n) \/ DeployFail(n)) /\ WF_vars(TearDown(n)) /\ WF_vars(CleanDone(n))

FairSpec == Spec /\ Fairness

-----------------------------------------------------------------------------
(* Properties *)

TypeOK ==
  /\ up \in [Hosts -> BOOLEAN]
  /\ crashes \in 0..MaxCrashes
  /\ phase \in [Hosts -> {0, 1}]
  /\ \A h \in Hosts :
       /\ DOMAIN cache[h] \subseteq Nodes /\ \A n \in DOMAIN cache[h] : cache[h][n] \in NodeView
       /\ DOMAIN listedNodes[h] \subseteq Nodes
       /\ listedInsts[h] \subseteq Instances
  /\ node \in [Nodes -> NodeView]
  /\ inst \in [Instances -> [state : InstStates, host : Hosts \cup {NoValue},
                             node : Nodes \cup {NoValue}, deleting : BOOLEAN,
                             tries : 0..MaxRetries + 1, attempts : 0..MaxAttempts]]

(* _refresh_cache never drops a node the node listing shows bound to a   *)
(* live instance of this host: the instance list read after the node     *)
(* listing names every such instance, so the published node_cache keeps *)
(* the node whatever the hash ring says.                                  *)
OwnListedNodesKept ==
  [][\A h \in Hosts : RefreshEnd(h) =>
       \A n \in DOMAIN EndNodeList(h) :
         LET i == EndNodeList(h)[n].inst
         IN  i # NoValue /\ inst[i].host = h /\ Live(i) => n \in DOMAIN cache'[h]]_vars

(* No ironic node stays associated with an instance that nova has deleted *)
(* or rescheduled: every path of spawn, the build failure cleanup,        *)
(* destroy and _unprovision removes the association or leaves the         *)
(* instance alive.                                                         *)
NoBindingToDeadInstance ==
  \A n \in Nodes : node[n].inst # NoValue => Live(node[n].inst)

(* Once crashes, reschedules and deletes have settled, every unbound node *)
(* is in the node_cache of exactly one live service, and a bound node in *)
(* the cache of its instance's service only (if that service is live).  *)
Converged ==
  \A n \in Nodes :
    LET managers == {h \in UpNames : n \in DOMAIN cache[h]}
    IN  IF node[n].inst = NoValue
        THEN UpNames # {} => Cardinality(managers) = 1
        ELSE managers = {inst[node[n].inst].host} \cap UpNames

EventuallyConverged == <>[]Converged

=============================================================================
