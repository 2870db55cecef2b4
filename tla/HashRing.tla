------------------------------ MODULE HashRing ------------------------------
(***************************************************************************)
(* Partitioning of bare-metal nodes among the compute services that run  *)
(* the ironic driver: the membership of the hash ring built by            *)
(* IronicDriver._refresh_hash_ring, the filters _refresh_cache passes to   *)
(* the node listing, and the ownership test _refresh_cache applies to an  *)
(* unassociated node.                                                      *)
(*                                                                         *)
(* Host names are strings so that case folding is visible: ConfHost[h] is  *)
(* CONF.host of the service on h, which is also svc.host in the service  *)
(* table, and Lower[s] is s.lower().  The tooz hash ring (32           *)
(* partitions, one replica) is abstracted by a fixed rank of every member *)
(* name for every node: the owner of a node is the member of highest     *)
(* rank, a deterministic function of (member set, node).                  *)
(***************************************************************************)
EXTENDS Naturals, FiniteSets

CONSTANTS
  Hosts,           \* compute services of hypervisor type "ironic"
  Nodes,           \* bare-metal node ids
  NoValue,         \* None
  ConfHost,        \* ConfHost[h]: CONF.host of the driver on h
  Lower,           \* Lower[s]: s.lower()
  HashRank,        \* HashRank[n][s]: position of member name s for node n
  Shard,           \* Shard[h]: CONF.ironic.shard on h, or NoValue
  ConductorGroup,  \* ConductorGroup[h]: CONF.ironic.conductor_group, or NoValue
  PeerList,        \* PeerList[h]: CONF.ironic.peer_list on h (set of names)
  NodeShard,       \* NodeShard[n]: shard of node n in ironic
  NodeGroup,       \* NodeGroup[n]: conductor group of node n in ironic
  Can146,          \* ironic API negotiates microversion 1.46 (conductor group)
  Can182           \* ironic API negotiates microversion 1.82 (shard)

(* _check_peer_list: with a conductor group the peer list must be non-   *)
(* empty and name this host; otherwise InvalidPeerList is raised.        *)
CheckPeerList(h) ==
  ConductorGroup[h] # NoValue => PeerList[h] # {} /\ ConfHost[h] \in PeerList[h]

(* The peer list _refresh_hash_ring limits the ring to: {CONF.host} when  *)
(* a shard is set; CONF.ironic.peer_list when a conductor group is set   *)
(* and the API can filter by group; no limit otherwise.                  *)
PeersLimited(h) ==
  Shard[h] # NoValue \/ (ConductorGroup[h] # NoValue /\ Can146)

Peers(h) == IF Shard[h] # NoValue THEN {ConfHost[h]} ELSE PeerList[h]

(* Faulty variant: ring members taken without case folding.            *)
RingMembersNoFold(h, isUp) ==
  LET candidates == {g \in Hosts : PeersLimited(h) => ConfHost[g] \in Peers(h)}
  IN  {ConfHost[g] : g \in {c \in candidates : isUp[c]}} \cup {ConfHost[h]}

(* Members of the ring host h builds, given the liveness isUp[g] the     *)
(* service group reports: every live service (of the peer list, compared *)
(* without case folding), case-folded, plus this host itself.            *)
RingMembers(h, isUp) ==
  LET candidates == {g \in Hosts : PeersLimited(h) => ConfHost[g] \in Peers(h)}
  IN  {Lower[ConfHost[g]] : g \in {c \in candidates : isUp[c]}}
        \cup {Lower[ConfHost[h]]}

(* hash_ring.get_nodes(node.id): the single member the node maps to.     *)
RingOwner(members, n) ==
  CHOOSE s \in members : \A t \in members : HashRank[n][t] <= HashRank[n][s]

(* CONF.host.lower() in hash_ring.get_nodes(node.id)                      *)
OwnsNode(h, members, n) == Lower[ConfHost[h]] = RingOwner(members, n)

(* Filters of _get_node_list in _refresh_cache: conductor_group only if  *)
(* 1.46 can be sent; shard only if 1.82 can be sent and the group check  *)
(* before it did not raise IronicAPIVersionNotAvailable.                 *)
FilterByGroup(h) == ConductorGroup[h] # NoValue /\ Can146
FilterByShard(h) ==
  /\ Shard[h] # NoValue
  /\ Can182
  /\ ConductorGroup[h] # NoValue => Can146

Listed(h, n) ==
  /\ FilterByGroup(h) => NodeGroup[n] = ConductorGroup[h]
  /\ FilterByShard(h) => NodeShard[n] = Shard[h]

=============================================================================
