------------------------------ MODULE Inventory ------------------------------
(***************************************************************************)
(* The availability tests of the ironic driver and the placement          *)
(* inventory update_provider_tree reports for a node, written over node   *)
(* views [maint, power, prov, inst] with ironic's state names as strings. *)
(***************************************************************************)
EXTENDS Naturals

CONSTANTS
  NoValue,           \* None
  SkipReserveInUse   \* CONF.workarounds.skip_reserve_in_use_ironic_nodes

\* ironic_states used by the driver
PowerOn == "power on"
PowerOff == "power off"
PowerError == "error"
NoState == "nostate"

(* _node_resources_unavailable: in maintenance, in a power state of      *)
(* ERROR or NOSTATE, or in a provision state other than AVAILABLE and    *)
(* NOSTATE (MANAGEABLE, CLEANING, CLEANWAIT, DELETING, DELETED, ...).    *)
NodeResourcesUnavailable(v) ==
  \/ v.maint
  \/ v.power \in {PowerError, NoState}
  \/ v.prov \notin {"available", NoState}

(* _node_resources_used: an instance is associated with the node.        *)
NodeResourcesUsed(v) == v.inst # NoValue

(* update_provider_tree: the custom resource class of the node is fully  *)
(* reserved when the node is unavailable, or used and the workaround is  *)
(* off.                                                                   *)
Reserved(v) ==
  NodeResourcesUnavailable(v) \/ (NodeResourcesUsed(v) /\ ~SkipReserveInUse)

(* The inventory records update_provider_tree writes for a node with the *)
(* resource class rc: only the custom class, total 1, reserved 0 or 1;  *)
(* a node without a resource class raises NoResourceClass (no records).  *)
InventoryRecords(v, rc) ==
  IF rc = NoValue THEN {}
  ELSE {[rclass |-> rc, total |-> 1, reserved |-> IF Reserved(v) THEN 1 ELSE 0,
         min_unit |-> 1, max_unit |-> 1, step_size |-> 1]}

=============================================================================
