--------------------------- MODULE MC_IronicDriver ---------------------------
(***************************************************************************)
(* Two compute services, two nodes, two instances.  Host1 has an upper-  *)
(* case CONF.host so that the case folding of the ring matters; the ranks *)
(* map n1 to host1 and n2 to host2 when both are in the ring.             *)
(***************************************************************************)
EXTENDS IronicDriver, TLC

CONSTANTS h1, h2, n1, n2

MCConfHost == h1 :> "Host1" @@ h2 :> "host2"
MCLower == "Host1" :> "host1" @@ "host1" :> "host1" @@ "host2" :> "host2"
MCHashRank ==
  n1 :> ("host1" :> 3 @@ "Host1" :> 2 @@ "host2" :> 1)
  @@ n2 :> ("host2" :> 3 @@ "host1" :> 2 @@ "Host1" :> 1)

\* No shard and no conductor group: the whole live service set is the ring.
MCShard == [h \in Hosts |-> NoValue]
MCConductorGroup == [h \in Hosts |-> NoValue]
MCPeerList == [h \in Hosts |-> {}]
\* Both services configured with the shard of the nodes.
MCShardSame == [h \in Hosts |-> "shard1"]
MCNodeShard == [n \in Nodes |-> "shard1"]
MCNodeGroup == [n \in Nodes |-> "group1"]

\* Instances are interchangeable (safety runs only).
InstanceSymmetry == Permutations(Instances)

=============================================================================
