------------------------------- MODULE NodeActions -------------------------------
(***************************************************************************)
(* The instance actions of IronicDriver on its node: the power operations *)
(* (power_on, power_off with and without a timeout, reboot HARD and SOFT) *)
(* with their wait loop _wait_for_power_state, rescue, unrescue and       *)
(* rebuild with theirs, and the VIF loops _plug_vifs and unplug_vifs,     *)
(* against an ironic conductor that carries out one action on the node at *)
(* a time.                                                                 *)
(*                                                                         *)
(* A soft request (SOFT_POWER_OFF, SOFT_REBOOT) that ironic refuses with  *)
(* BadRequest, because the node's power interface has no soft actions,   *)
(* falls back to the hard one.  power_off with a timeout also falls back *)
(* when the soft power off ended with the node still on.  The wait loop   *)
(* polls until target_power_state is NOSTATE, with no bound of its own.   *)
(* rescue and unrescue request the provision action and poll until the   *)
(* node reaches RESCUE (ACTIVE), and fail on RESCUEFAIL (UNRESCUEFAIL);  *)
(* rebuild requests REBUILD and waits in _wait_for_active for ACTIVE,     *)
(* failing on DEPLOYFAIL; all of them fail                                *)
(* on a refused request or when the instance is no longer on the node.    *)
(* The compute manager runs one operation of an instance at a time; the  *)
(* guest may shut itself down at any moment.                              *)
(***************************************************************************)
EXTENDS Sequences, SequencesExt

CONSTANTS NoValue   \* None, and target_power_state NOSTATE

VARIABLES
  power,      \* power_state of the node: "on", "off" or "error"
  prov,       \* provision_state: "active", "rescue", "rescuefail", "unrescuefail"
  pending,    \* the action the conductor is carrying out, or NoValue
  softOK,     \* the node's power interface supports soft actions
  op,         \* the driver operation in progress or last finished
  pc,         \* "idle", "soft", "hard", "wait_soft", "wait", "provision",
              \* "wait_prov" or "done"
  calls,      \* the set_node_power_state actions op requested, in order
  observed,   \* power_state read after the soft power off, or NoValue
  result,     \* how rescue or unrescue returned, or the operation raised
              \* InstanceNotFound: "ok", "failed" or NoValue
  bound,      \* the node still carries the instance (instance_id)
  attached,   \* the ports of network_info attached to the node as VIFs
  idx         \* the port of network_info _plug_vifs or unplug_vifs is at

vifVars == <<attached, idx>>
vars == <<power, prov, pending, softOK, op, pc, calls, observed, result, bound,
          attached, idx>>

SoftOps == {"soft_power_off", "soft_reboot"}
OffOps == {"power_off", "soft_power_off"}
PowerOps == {"power_on", "power_off", "reboot"} \cup SoftOps
ProvOps == {"rescue", "unrescue", "rebuild"}
VifOps == {"plug", "unplug"}
Ops == PowerOps \cup ProvOps \cup VifOps

\* The network_info of the operation: two ports.
Vifs == <<"vif1", "vif2">>

\* The provision state rescue, unrescue and rebuild wait for (in
\* _wait_for_active for rebuild), and the one they fail on.
Goal(o) == IF o = "rescue" THEN "rescue" ELSE "active"
Failed(o) == CASE o = "rescue" -> "rescuefail"
               [] o = "unrescue" -> "unrescuefail"
               [] OTHER -> "deployfail"

\* The PowerAction each operation requests.
Hard(o) ==
  CASE o \in OffOps -> "POWER_OFF"
    [] o = "power_on" -> "POWER_ON"
    [] OTHER -> "REBOOT"
Soft(o) == IF o = "soft_power_off" THEN "SOFT_POWER_OFF" ELSE "SOFT_REBOOT"
Actions == {Hard(o) : o \in PowerOps} \cup {Soft(o) : o \in SoftOps} \cup ProvOps

\* The power state an action leaves the node in when it succeeds.
Reached(a) == IF a \in {"POWER_OFF", "SOFT_POWER_OFF"} THEN "off" ELSE "on"

Init ==
  /\ power \in {"on", "off"}
  /\ prov = "active"
  /\ pending = NoValue
  /\ attached = {} /\ idx = 1
  /\ softOK \in BOOLEAN
  /\ op = NoValue /\ pc = "idle" /\ calls = <<>> /\ observed = NoValue
  /\ result = NoValue
  /\ bound = TRUE

\* power_on, power_off(timeout), reboot(reboot_type), rescue or unrescue is
\* called.  A power operation first finds the node with
\* _validate_instance_and_node, which raises InstanceNotFound once the
\* node no longer carries the instance.
Begin ==
  /\ pc \in {"idle", "done"}
  /\ \E o \in Ops :
       /\ op' = o
       /\ IF o \in PowerOps /\ ~bound
          THEN pc' = "done" /\ result' = "failed"
          ELSE /\ pc' = CASE o \in SoftOps -> "soft"
                         [] o \in ProvOps -> "provision"
                         [] o \in VifOps -> o
                         [] OTHER -> "hard"
               /\ result' = NoValue
  /\ calls' = <<>> /\ observed' = NoValue /\ idx' = 1
  /\ UNCHANGED <<power, prov, pending, softOK, bound, attached>>

\* Faulty variant: a refused soft request is sent again.
CallSoftRetry ==
  /\ pc = "soft" /\ pending = NoValue
  /\ calls' = Append(calls, Soft(op))
  /\ IF softOK
     THEN /\ pending' = Soft(op)
          /\ pc' = IF op = "soft_power_off" THEN "wait_soft" ELSE "wait"
     ELSE UNCHANGED <<pending, pc>>
  /\ UNCHANGED <<power, prov, softOK, op, observed, result, bound>>
  /\ UNCHANGED vifVars

\* set_node_power_state(node.id, SOFT_...): a BadRequestException falls
\* back to the hard action; otherwise wait for the soft one.
CallSoft ==
  /\ pc = "soft" /\ pending = NoValue
  /\ calls' = Append(calls, Soft(op))
  /\ IF softOK
     THEN /\ pending' = Soft(op)
          /\ pc' = IF op = "soft_power_off" THEN "wait_soft" ELSE "wait"
     ELSE /\ pc' = "hard"
          /\ UNCHANGED pending
  /\ UNCHANGED <<power, prov, softOK, op, observed, result, bound>>
  /\ UNCHANGED vifVars

\* set_node_power_state(node.id, POWER_ON | POWER_OFF | REBOOT), then wait.
CallHard ==
  /\ pc = "hard" /\ pending = NoValue
  /\ calls' = Append(calls, Hard(op))
  /\ pending' = Hard(op)
  /\ pc' = "wait"
  /\ UNCHANGED <<power, prov, softOK, op, observed, result, bound>>
  /\ UNCHANGED vifVars

\* Faulty variant: the soft power off is followed by a hard one even when
\* it powered the node off (the return is missing).
WaitDoneNoReturn ==
  /\ pc \in {"wait", "wait_soft"} /\ pending = NoValue
  /\ IF pc = "wait"
     THEN pc' = "done" /\ UNCHANGED observed
     ELSE /\ observed' = power
          /\ pc' = "hard"
  /\ UNCHANGED <<power, prov, pending, softOK, op, calls, result, bound>>
  /\ UNCHANGED vifVars

\* _wait_for_power_state raises LoopingCallDone once target_power_state is
\* NOSTATE.  After a soft power off, power_off reads the node again and
\* returns if it is off, else it powers the node off hard.
WaitDone ==
  /\ pc \in {"wait", "wait_soft"} /\ pending = NoValue
  /\ IF pc = "wait"
     THEN pc' = "done" /\ UNCHANGED observed
     ELSE /\ observed' = power
          /\ pc' = IF power = "off" THEN "done" ELSE "hard"
  /\ UNCHANGED <<power, prov, pending, softOK, op, calls, result, bound>>
  /\ UNCHANGED vifVars

\* The conductor ends the action and clears target_power_state: the node
\* reached the state, or the action failed and it is as it was (a guest
\* that ignores the soft request) or in power state ERROR (a BMC error).
Finish ==
  /\ pending \notin ProvOps \cup {NoValue}
  /\ power' \in {Reached(pending), power, "error"}
  /\ pending' = NoValue
  /\ UNCHANGED <<prov, softOK, op, pc, calls, observed, result, bound>>
  /\ UNCHANGED vifVars

\* set_node_provision_state(node.id, 'rescue', rescue_password=...),
\* (node.id, 'unrescue') or (node.id, REBUILD, config_drive=...): a
\* BadRequestException raises InstanceRescueFailure
\* (InstanceUnRescueFailure), and for rebuild an SDKException, or a
\* config drive that could not be built before the call, raises
\* InstanceDeployFailure; otherwise the loop polls the node.
CallProvision ==
  /\ pc = "provision" /\ pending = NoValue
  /\ calls' = Append(calls, op)
  /\ \/ /\ pending' = op
        /\ pc' = "wait_prov"
        /\ UNCHANGED result
     \/ /\ result' = "failed"
        /\ pc' = "done"
        /\ UNCHANGED pending
  /\ UNCHANGED <<power, prov, softOK, op, observed, bound>>
  /\ UNCHANGED vifVars

\* Faulty variant: the loop waits for the goal state only.
WaitProvGoalOnly ==
  /\ pc = "wait_prov"
  /\ \/ ~bound /\ result' = "failed"
     \/ pending = NoValue /\ prov = Goal(op) /\ result' = "ok"
  /\ pc' = "done"
  /\ UNCHANGED <<power, prov, pending, softOK, op, calls, observed, bound>>
  /\ UNCHANGED vifVars

\* One poll of the rescue (unrescue) loop: _validate_instance_and_node
\* raising InstanceNotFound fails it at any poll; RESCUE (ACTIVE) ends it,
\* RESCUEFAIL (UNRESCUEFAIL) fails it; a node still in transition is
\* polled again (a stuttering step).
WaitProv ==
  /\ pc = "wait_prov"
  /\ \/ ~bound /\ result' = "failed"
     \/ pending = NoValue /\ prov = Goal(op) /\ result' = "ok"
     \/ pending = NoValue /\ prov = Failed(op) /\ result' = "failed"
  /\ pc' = "done"
  /\ UNCHANGED <<power, prov, pending, softOK, op, calls, observed, bound>>
  /\ UNCHANGED vifVars

\* The conductor ends a rescue (unrescue): the node is in RESCUE (ACTIVE)
\* or in RESCUEFAIL (UNRESCUEFAIL).
FinishProv ==
  /\ pending \in ProvOps
  /\ prov' \in {Goal(pending), Failed(pending)}
  /\ pending' = NoValue
  /\ UNCHANGED <<power, softOK, op, pc, calls, observed, result, bound>>
  /\ UNCHANGED vifVars

\* One port of _plug_vifs (reached through
\* prepare_networks_before_block_device_mapping once get_node found the
\* node): attach_vif_to_node(node.id, vif_id, retry_on_conflict=False).
\* The conductor attaches it when no other action holds the node; a
\* ConflictException (already attached, or the node locked) is passed
\* over; a BadRequestException raises VirtualInterfacePlugException
\* with the ports before it left attached.  After the last port it returns.
PlugVif ==
  /\ pc = "plug"
  /\ IF idx > Len(Vifs)
     THEN pc' = "done" /\ result' = "ok" /\ UNCHANGED <<attached, idx>>
     ELSE \/ /\ pending = NoValue /\ Vifs[idx] \notin attached
             /\ attached' = attached \cup {Vifs[idx]}
             /\ idx' = idx + 1
             /\ UNCHANGED <<pc, result>>
          \/ /\ Vifs[idx] \in attached \/ pending # NoValue
             /\ idx' = idx + 1
             /\ UNCHANGED <<pc, result, attached>>
          \/ /\ pc' = "done" /\ result' = "failed"
             /\ UNCHANGED <<attached, idx>>
  /\ UNCHANGED <<power, prov, pending, softOK, op, calls, observed, bound>>

\* One port of unplug_vifs (and of clean_networks_preparation, which
\* calls it and swallows its errors): detach_vif_from_node for every port
\* of network_info, a port that is not attached or a refused detach
\* passed over; after the last port it returns.
UnplugVif ==
  /\ pc = "unplug"
  /\ IF idx > Len(Vifs)
     THEN pc' = "done" /\ result' = "ok" /\ UNCHANGED <<attached, idx>>
     ELSE /\ \/ pending = NoValue /\ attached' = attached \ {Vifs[idx]}
             \/ UNCHANGED attached
          /\ idx' = idx + 1
          /\ UNCHANGED <<pc, result>>
  /\ UNCHANGED <<power, prov, pending, softOK, op, calls, observed, bound>>

\* The guest operating system shuts the machine down.
GuestShutdown ==
  /\ power = "on"
  /\ power' = "off"
  /\ UNCHANGED <<prov, pending, softOK, op, pc, calls, observed, result, bound>>
  /\ UNCHANGED vifVars

\* The node is torn down under the instance (a concurrent delete): its
\* instance_id is cleared.
Unbind ==
  /\ bound
  /\ bound' = FALSE
  /\ UNCHANGED <<power, prov, pending, softOK, op, pc, calls, observed, result>>
  /\ UNCHANGED vifVars

Driver == CallSoft \/ CallHard \/ WaitDone \/ CallProvision \/ WaitProv
          \/ PlugVif \/ UnplugVif

Conductor == Finish \/ FinishProv

Next == Begin \/ Driver \/ Conductor \/ GuestShutdown \/ Unbind

\* The operation's green thread is scheduled again after every poll
\* interval; the conductor finishes every action it accepted (its power
\* state change timeout and its rescue callback timeout bound them).
\* Callers and the guest owe nothing.
Spec == Init /\ [][Next]_vars /\ WF_vars(Driver) /\ WF_vars(Conductor)

-----------------------------------------------------------------------------
(* Properties *)

TypeOK ==
  /\ power \in {"on", "off", "error"}
  /\ prov \in {"active", "rescue", "rescuefail", "unrescuefail", "deployfail"}
  /\ pending \in Actions \cup {NoValue}
  /\ pc \in {"idle", "soft", "hard", "wait_soft", "wait", "provision",
             "wait_prov", "plug", "unplug", "done"}
  /\ calls \in Seq(Actions) /\ Len(calls) <= 2
  /\ observed \in {"on", "off", "error", NoValue}
  /\ result \in {"ok", "failed", NoValue}
  /\ bound \in BOOLEAN
  /\ attached \subseteq Range(Vifs) /\ idx \in 1..Len(Vifs) + 1

(* A power operation that found its node and finished: a soft one sent *)
(* its soft request first, and the hard one after it exactly when ironic *)
(* refused the soft one or, for a power off, the node was still on once  *)
(* the soft power off was over (section 8: a refused soft power off makes *)
(* exactly two calls, soft then hard).  A finished power off left the    *)
(* node off, unless the last thing it asked for was a hard power off that *)
(* the conductor could not carry out.                                     *)
SoftFallback ==
  pc = "done" /\ op \in PowerOps /\ result = NoValue =>
    /\ op \in SoftOps =>
         /\ calls[1] = Soft(op)
         /\ (Len(calls) = 2) = (~softOK \/ (op = "soft_power_off" /\ observed # "off"))
         /\ Len(calls) = 2 => calls[2] = Hard(op)
    /\ op \in OffOps => power = "off" \/ Last(calls) = "POWER_OFF"

(* Every operation returns: the power and rescue wait loops, which have  *)
(* no timeout of their own, end once the conductor is done with the       *)
(* action, whether the action succeeded or failed.                         *)
OperationsReturn == (pc \notin {"idle", "done"}) ~> (pc = "done")

=============================================================================
