----------------------------- MODULE ProviderTree -----------------------------
(***************************************************************************)
(* update_provider_tree for one node: the inventory written into the      *)
(* provider tree from the cached node (_node_from_cache, _node_resource)  *)
(* while the node's state in ironic changes between runs.                 *)
(***************************************************************************)
EXTENDS Naturals

CONSTANTS NoValue, SkipReserveInUse, ResourceClasses, Instances

Inv == INSTANCE Inventory

VARIABLES
  view,       \* the cached node: [maint, power, prov, inst]
  rc,         \* node.resource_class, or NoValue
  inventory,  \* inventory of the node's provider, a set of records
  raised      \* the last update_provider_tree raised NoResourceClass

vars == <<view, rc, inventory, raised>>

Views == [maint : BOOLEAN, power : {Inv!PowerOn, Inv!PowerOff, Inv!PowerError},
          prov : {"available", "active", "cleaning"}, inst : Instances \cup {NoValue}]

Init ==
  /\ view \in Views
  /\ rc \in ResourceClasses \cup {NoValue}
  /\ inventory = {}
  /\ raised = FALSE

\* update_provider_tree: NoResourceClass for a node without a resource
\* class; otherwise the custom class record replaces the inventory.
UpdateProviderTree ==
  /\ IF rc = NoValue
     THEN raised' = TRUE /\ UNCHANGED inventory
     ELSE inventory' = Inv!InventoryRecords(view, rc) /\ raised' = FALSE
  /\ UNCHANGED <<view, rc>>

\* The node changes in ironic and the next cache refresh brings it in.
NodeChanged ==
  /\ view' \in Views
  /\ UNCHANGED <<rc, inventory, raised>>

Next == UpdateProviderTree \/ NodeChanged

Spec == Init /\ [][Next]_vars

(* The specification's inventory rule: a node without a custom resource  *)
(* class still reports the legacy VCPU, MEMORY_MB and DISK_GB inventory *)
(* after update_provider_tree (the docstring of                          *)
(* test_update_provider_tree_no_rc says the same).                       *)
LegacyInventoryWithoutRC ==
  [][UpdateProviderTree /\ rc = NoValue =>
       \E r \in inventory' : r.rclass = "VCPU"]_vars

=============================================================================
