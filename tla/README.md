# TLA+ models of the nova ironic driver and API helpers

This directory holds TLA+ models of the bare-metal (ironic) compute driver of
nova, checked with TLC. The driver module itself is not part of this
repository. Its behaviour is pinned down line by line by
`src/nova/tests/unit/virt/ironic/test_driver.py`, and every definition here is
translated from what those tests assert. A definition is taken from
`spec.md` only for code that lives outside this tree: the ironic conductor,
the tooz hash ring, and the nova compute manager and scheduler around the
driver. Such definitions are marked `spec_modelled` in `PROJECT.json`.

The implementation files of the tree are modelled from their own lines:
- `nova/api/validation/parameter_types.py`, the regex-range builder and the name regexes, in `RegexRange.tla`;
- `nova/api/openstack/compute/keypairs.py` and `fixed_ips.py`, in `ComputeApi.tla`;
- `doc/ext/versioned_notifications.py`, in `Notifications.tla`.

## 1. The system

Several `nova-compute` services run the ironic driver against one ironic
deployment. They share one pool of bare-metal nodes and have no lock service.
The parts and how they interact:

| Part | Code (as pinned by the tests) | State | Interacts with |
|---|---|---|---|
| Hash ring | `_refresh_hash_ring`, `_check_peer_list`, `_can_send_version` | `hash_ring` per service | service table (`service_is_up`), config (`shard`, `conductor_group`, `peer_list`) |
| Node cache | `_refresh_cache`, `_get_node_list`, `get_available_nodes`, `node_is_available` | `node_cache`, `node_cache_time` | ironic node list, `InstanceList.get_uuids_by_host`, hash ring |
| Provisioning | `prepare_for_spawn`, `_set_instance_id`, `spawn`, `_wait_for_active`, `destroy`, `_unprovision`, `failed_spawn_cleanup`, `_cleanup_deploy` | ironic node `instance_id` and `provision_state`; nova instance state | ironic conductor, compute manager, node cache (`node_cache.pop`) |
| Inventory | `_node_resources_unavailable`, `_node_resources_used`, `update_provider_tree`, `_node_resource` | provider-tree inventory | node cache (`_node_from_cache`), scheduler |
| Power | `reboot`, `power_on`, `power_off` (soft then hard), `_wait_for_power_state` | node power state | ironic |
| Rescue | `rescue`, `unrescue` with polling | provision state | ironic |
| Console | `_get_node_console_with_reset`, `get_serial_console` | console enabled flag | ironic; `BackOffLoopingCall` timeout |
| Validation regexes | `_build_regex_range`, `_is_printable`, `memorize`, `_reset_cache`, the `ValidationRegex` patterns and the name schemas | `_REGEX_RANGE_CACHE` | the API's JSON-schema validator, which applies the patterns to request fields |
| Keypairs API | `KeypairController.create/delete/show/index` | key pairs per user (in `KeypairAPI`) | policy engine, microversion of the request, `KeypairAPI` |
| Fixed IPs API | `FixedIPController` (every call answers 410) | none | |
| Notifications doc extension | `VersionedNotificationDirective` | the table being built | `NovaObjectRegistry`, sample files in `doc/notification_samples` |

**Hard behaviours:**
- **Stale listings:** a refresh reads two listings at two instants, and both can be stale by the time they are published.
- **Check-then-act binding:** prepare_for_spawn checks the node with `get_node`, then binds it with `update_node`. Ironic answers Conflict when the node is already bound.
- **Partial failures:** spawn and destroy can fail after the node is already bound.
- **Bounded polling:** `_unprovision` polls with a retry bound (`api_max_retries`), and ironic's tear-down races it.
- **Crash and restart:** a service restarts with an empty cache, in the middle of builds and deletes.
- **Ring disagreement:** while services come and go, the services' rings disagree.
- **Case folding:** CONF.host is compared with ring members after lower-casing.

## 2. Modules

### HashRing.tla: the ring and the listing filters

It has no state. Its operators:

- **`RingMembers(h, isUp)`** is `_refresh_hash_ring`. The peer list is `{CONF.host}` with a shard. It is `CONF.ironic.peer_list` with a conductor group when microversion 1.46 can be sent (`PeersLimited`/`Peers`). The members are the live services in the peer list, case-folded, plus CONF.host itself.
- **`RingOwner` and `OwnsNode`** are `CONF.host.lower() in hash_ring.get_nodes(node.id)`. The tooz ring (32 partitions, one replica) becomes a fixed rank per (node, member). The owner is the member of highest rank, a deterministic function of the member set, which is all the driver relies on.
- **`FilterByGroup`, `FilterByShard` and `Listed`** are the `conductor_group`/`shard` keyword arguments of `_get_node_list`, including the fall-back when `_can_send_version` raises.
- **`CheckPeerList`** is `_check_peer_list`. IronicDriver assumes it holds (`ASSUME`), because an invalid peer list stops the service.

### Inventory.tla: availability and reservation

- `NodeResourcesUnavailable`, `NodeResourcesUsed`, and the reserved rule of `update_provider_tree` (`Reserved`, including `skip_reserve_in_use_ironic_nodes`).
- `InventoryRecords`: exactly one custom-class record, with total 1 and reserved 0 or 1. A node without a resource class gets none, because the call raises `NoResourceClass`.

### IronicDriver.tla: the core

Services, nodes and instances are CONSTANT sets.

**Variables:**

| Variable | What it stands for |
|---|---|
| `up` | A service runs and heartbeats. |
| `ring` | The hash ring of each service. |
| `phase`, `listedNodes`, `listedInsts` | The local state of an ongoing `_refresh_cache`. |
| `cache` | `node_cache`. |
| `node` | The ironic node: `maint`, `prov`, `inst`. |
| `inst` | The nova instance: state, host, node, DELETING task, unprovision tries, reschedule attempts. |
| `crashes` | Crashes so far, capped by `MaxCrashes`. |

**Actions**, one per step of the code:

- **`RefreshBegin` / `RefreshEnd` / `RefreshAbort`**
  - `RefreshBegin` is `_refresh_hash_ring` followed by the first listing.
  - `RefreshEnd` is the second listing, the filter (`NewCache`) and the wholesale publish.
  - `RefreshAbort` is a listing raising `VirtDriverNotReady`, with the old cache kept.
  - The order of the two listings is the definition `FetchOrder`: node list first, as `_test__refresh_cache` asserts.
- **`HostCrash` / `HostRestart`**
  - A restart empties the cache and rebuilds the ring (`init_host`).
  - It marks interrupted builds and deletes ERROR. A delete keeps its DELETING task and runs again.
- **`Schedule`** is the scheduler placing an instance on a node that a service reports (`get_available_nodes` = cache keys).
  - The cached view must not be `Reserved`.
  - The node must have no live allocation.
  - The claim sets host and node.
- **`PrepareForSpawn`** is the `get_node` check, failing with `ComputeResourcesUnavailable`. **`SetInstanceId`** is `update_node(instance_id=..., retry_on_conflict=False)`, where Conflict becomes `InstanceDeployFailure`.
- **`Spawn`** is either `SpawnDeploy` (deploy accepted) or `SpawnFailed` (`_cleanup_deploy`, then the build fails).
- **`WaitForActive`** is one effective tick of `_wait_for_active`:
  - it aborts on DELETING;
  - `InstanceNotFound` when the node is unbound;
  - done at ACTIVE;
  - fails at DEPLOYFAIL.
- **`BuildFailed`** is the compute manager after a failed build: ERROR if the instance is being deleted, a reschedule while attempts remain, ERROR otherwise. On the failure paths, `failed_spawn_cleanup` runs as `CleanupDeploy`.
- **`RequestDelete`, `Destroy` and `UnprovisionPoll`**
  - `RequestDelete` is the user's delete.
  - `Destroy` validates, then `_unprovision` for `_UNPROVISION_STATES` (where `set_node_provision_state` may raise), else `_cleanup_deploy`.
  - `UnprovisionPoll` is one tick of `_wait_for_provision_state`. It is done at InstanceNotFound, CLEANING or AVAILABLE, followed by `node_cache.pop`. It fails with NovaException once `tries >= api_max_retries + 1`.
- **The conductor and the operator**: `DeployDone`, `DeployFail`, `TearDown` (clears `instance_uuid`, starts cleaning), `CleanDone`, and `SetMaintenance`.

**Abstractions:**
- Power state is left out of the node: the nodes modelled are never in ERROR or NOSTATE power, the only values the availability test reads.
- `DEPLOYING` and `DEPLOYWAIT` are one state.
- Ticks of a polling loop that change nothing are stuttering steps.

### ProviderTree.tla: update_provider_tree over a changing node

This module is used for one divergence check (section 4).

### RegexRange.tla: the validation regexes of parameter_types

**State:**
- `cat` is the unicode category of every code point, chosen in `Init` and fixed for a behaviour.
- `pending` holds the eleven `_build_regex_range` calls the module import makes, in order (`CallSites`, lines 167-205).
- `cache` is `_REGEX_RANGE_CACHE`.
- `call`, `c`, `regex`, `in_range`, `last` and `last_added` are the locals of the call being computed.
- `built` holds the values the calls returned.
- `probe` is a name submitted once the import is done.
- `stmt`, `objs` and `names` are the rest of the import: the statement of `Stmts` (the eleven module-level statements that build or change a JSON-schema dict, lines 223-534) the import is at, the dict objects it made (a heap, addressed by statement and key path) and the module globals bound to them.

**Actions:**
- `Call` is the memorizer: on a cache hit it returns the cached value, otherwise it starts the scan.
- `ScanChar` is one iteration of the loop.
- `ScanEnd` is the for-else, followed by the cache store.
- `ResetCache` is `_reset_cache`.
- `Validate` submits a name.
- `SchemaStmt` runs the next statement: an assignment allocates a new object for every nested dict literal and reads a global by reference (`Alloc`), `copy.deepcopy` copies the object tree (`DeepCopy`), and an item assignment changes the object its key path reaches (`Lookup`).

**Abstractions:**
- `re.escape(x)` is the token `Lit(x)`: a literal the class reads as itself.
- `CharClass` reads a token list the way `re` reads a character class.
- Code points are `0..CodeCount-1`. The scan covers `0..CodeSpace-1`, standing for `range(0xFFFF)`.
- Schema dicts keep only the keys the later statements read or change; strings and regex patterns are plain values.
- The four patterns are predicates that follow the regex structure: lookahead and lookbehind on the first and last character, and concatenation as a choice of cut points.

### Notifications.tla: the versioned_notifications directive

**State:**
- The registry `ovos` is a sequence of classes in registration order. Each class has a name, whether it is a `NotificationBase` subclass, its payload's object name and its samples.
- `notifications` is the dictionary keyed by sample file.
- `todo` and `rows` belong to the markup step.
- `error` is `KeyError`, `ValueError` or `IOError`. `Malformed` are the sample files that are present but are not JSON, or name by `$ref` a file that is not.

**Actions:**
- `SkipClass`, `EnterClass` (the payload lookup), `CollectSample` (the duplicate check) and `LeaveClass` form the loop of `_collect_notifications`.
- `EndCollect` is `sorted(notifications.values())`.
- `WriteRow` writes one row of `_build_markup`: the event type `sample[0:-5].replace('-', '.')`, and the HTML id `sample[0:-5]`, over file names as character codes. A missing sample file raises IOError, and a sample that `jsonutils.loads` or `json_ref.resolve_refs` cannot parse raises ValueError.
- `EndMarkup` returns the table.

The run stops when the directive returns, so deadlock is not checked.

### ComputeApi.tla: the keypairs and fixed IPs controllers

**State:**
- `keypairs[u]` maps the key-pair names of user `u` to their type.
- `resp` is the last response.

**Actions:** `Create`, `Delete`, `Show` and `Index` are the four handlers with their `_`-prefixed bodies. `FixedIP` is the three `FixedIPController` calls.

**Inputs:**
- Every input is a small set: the caller, the microversion, the name, the body's `type`, `user_id` and `public_key`, and the query's `user_id` and `marker`.
- Create bodies are limited to what the schema of their microversion range admits.
- The query's `user_id` may be the empty string, which `user_id or context.user_id` turns into the caller.

**`KeypairAPI`:**
- It is not in the tree.
- Its exceptions (limit, invalid key, exists, not found, marker not found) may be raised whenever their condition holds. Which one comes first is left open.

**Policy:** the policy rule is the constant `Policy`. The MC module gives it the default rule: admin, or the caller is the user acted on.

### SerialConsole.tla and ConsoleReset.tla: the console session controller

`SerialConsole` is the abstract contract (section 4.4 of `spec.md`): each request goes from idle to busy to an answer, `"session"` only while the backend reports the console enabled (`on`), and every busy request is answered (weak fairness on the answer). The backend may flip the console at any step.

`ConsoleReset` is `_get_node_console_with_reset` as the tests at lines 3339-3527 pin it down, for a set `Requests` of concurrent callers of one node.

**State:** `enabled` and `target` are the conductor's `console_enabled` and the mode change it is applying (which holds the node lock). Per request: `pc`, the stage `mode` (FALSE: disable), the failed `polls` of the current `_wait_state` loop, and the answer `ans`.

**Actions:**
- `Request` is `get_serial_console`.
- `Read` is `_get_console`: an SDK error or a disabled console answers "unavailable"; an enabled one starts the disable stage.
- `SetMode` is `_enable_console(mode)`: accepted when the lock is free, or failing (a 409 whose retries ran out, or any SDK error).
- `Poll` is one `_wait_state` poll: an SDK error fails the stage, the console in the mode ends it, else it backs off. `Timeout` is `LoopingCallTimeOut` after at least one failed poll.
- A failed or finished disable stage goes on to the enable stage (`StageFailed`, `StageDone`); a failed enable stage answers "unavailable".
- `Apply` is the conductor finishing the change, or failing it and leaving the console as it was.

`Abs == INSTANCE SerialConsole WITH on <- enabled, status <- [r |-> Status(r)]` is the refinement mapping, and `ConsoleContract == Abs!ASpec` is checked as a property.

**Bounds and fairness:** two callers give the lock contention between two resets; `MaxPolls = 2` lets a stage time out after one or two failed polls, before or after the conductor applies the change. Each request's green thread is weakly fair (the hub runs it again after every back-off sleep); the conductor gets no fairness, so the contract must hold even when it never finishes.

### NodeActions.tla: power operations, rescue, unrescue, rebuild and VIFs

`power_on`, `power_off` with and without a timeout, and `reboot` HARD and SOFT, as the tests at lines 1848-2027 pin them down, `rescue` and `unrescue` (lines 2614-2737), `rebuild` with `_wait_for_active` (lines 204-281, 2186-2330), and the VIF loops `_plug_vifs` and `unplug_vifs` (lines 2029-2183, 2477-2515), against a conductor that carries out one action on the node at a time. The compute manager runs one of these operations of an instance at a time.

**State:** the node's `power` and `prov` (ACTIVE, RESCUE, RESCUEFAIL, UNRESCUEFAIL), whether it is still `bound` to the instance, and the action `pending` at the conductor; `softOK`, whether the node's power interface has soft actions; the operation `op`, its `pc`, the `calls` of `set_node_power_state` it made, and the power state `observed` after a soft power off, and the `result` of a provision or VIF operation, or of one that raised `InstanceNotFound`; the ports of the two-port `network_info` that are `attached` to the node, and the port `idx` the VIF loop is at.

**Actions:** `Begin` (an operation is called), `CallSoft` (a `BadRequestException` falls back to the hard action), `CallHard`, `WaitDone` (`_wait_for_power_state` ends when `target_power_state` is NOSTATE; after a soft power off the node is read again and powered off hard if still on), `Finish` (the conductor reaches the state, leaves it unchanged, or sets ERROR), and `GuestShutdown`. For rescue and unrescue: `CallProvision` (`set_node_provision_state`, failing on `BadRequestException`), `WaitProv` (one poll: RESCUE or ACTIVE ends it, RESCUEFAIL or UNRESCUEFAIL fails it, `InstanceNotFound` fails it once the node was torn down), and `FinishProv`. Rebuild uses the same three actions with REBUILD, ACTIVE and DEPLOYFAIL; a config drive that fails before the request is the refused branch. `PlugVif` is one port of `_plug_vifs`: attached, a `ConflictException` passed over (already attached, or the node held by a pending action), or a `BadRequestException` ending the loop with `VirtualInterfacePlugException`. `UnplugVif` is one port of `unplug_vifs`, whose failures are passed over. `Unbind` is a teardown that clears the node's `instance_id`; after it, a power operation fails in `_validate_instance_and_node`.

**Fairness:** weak fairness on the driver's steps and on the conductor's (`Finish`, `FinishProv`): the conductor ends every action it accepted, bounded by its own timeouts. Without that, the wait loops, which have no timeout, would wait for ever. Teardowns, guest shutdowns and callers get no fairness.

### MC_IronicDriver.tla and the .cfg files

Two services, `h1` with `CONF.host = "Host1"` and `h2` with `"host2"`. The upper case makes case folding matter. The ranks map `n1` to `host1` whenever it is in the ring.

## 3. Runs

| Run | Configuration | What it shows |
|---|---|---|
| `driver_faults` | 1 node, 1 instance, one crash, maintenance toggled, `skip_reserve_in_use_ironic_nodes` set | `TypeOK` (with the unprovision retry bound) and `NoBindingToDeadInstance` hold across a crash and restart at any step, and deploys refused for maintenance are cleaned up (about 3M states, 2 minutes). |
| `driver_convergence` | 1 node, 1 instance, one crash, `FairSpec` | `EventuallyConverged`: each unbound node ends cached by exactly one live service, each bound node by its instance's service only; `OwnListedNodesKept` holds at every publish (182,969 states). |
| `shard_same_shard` (violation) | both services in `shard1` | Both services keep the node for ever (section 4). |
| `provider_tree_no_rc` (violation) | node without resource class | `update_provider_tree` reports nothing (section 4). |
| `regex_range` | 4 code points, all 256 assignments of 4 categories (letter, space separator, line separator, control), `:` is one of them, names up to 3 characters | `RangeCorrect`, `NamesMatchReasonsBeforeNewline` and `SchemasIsolated` hold in 96,000 states (5 code points, the fifth `\n`, about 2.5 minutes). |
| `regex_beyond_scan` (violation) | 4 code points, only 3 scanned, no `\n` | `NamesMatchReasons` fails for a letter outside `range(0xFFFF)` (section 4). |
| `regex_final_newline` (violation) | 4 code points, one of them `\n` | `NamesMatchReasons` fails: the description pattern accepts `"\n"` (section 4). |
| `notifications_table` | registries of 2 classes, every flag, payload (one unregistered), and up to 2 of 4 samples (one without a file, one not JSON) | `SamplesTabled` holds in 175,724 states. |
| `keypairs_api` | an admin and a user, 2 names, quota 1, microversions 2.1, 2.2, 2.10, 2.35, 2.91 and 2.92 | `OwnerScoped` and `VersionGatesUserId` hold in 4,106 states. |
| `keypairs_generate_291` (violation) | as above | A create without `public_key` at 2.91 generates a key (section 4). |
| `console_contract` | 2 callers of one node's console, the back-off loop timing out after at most 2 polls | The controller refines `SerialConsole`: `ConsoleContract` holds in 2,248 states. |
| `node_actions` | one node, every operation, two ports in `network_info`, soft actions supported or not, guest shutdowns, one teardown | `SoftFallback` and `OperationsReturn` hold in 17,740 states. |

**Properties:**
- **`OwnListedNodesKept`** (action property, checked at each publish): a node the node listing shows bound to a live instance of this service is in the new cache. It rests on the order of the listings. With the instance list read first, TLC finds the following trace:
  1. The instance list is read.
  2. The instance is scheduled and bound.
  3. The node list is read.
  4. The node is dropped while it runs the instance.
- **`NoBindingToDeadInstance`**: no ironic node stays bound to an instance nova has deleted or rescheduled. It covers every failure path of the build, destroy, `_unprovision`, and a restart.
- **`EventuallyConverged`** is the partitioning goal of the ring and the cache.

- **`RangeCorrect`**: every value the memoized builder returned to the import, computed or cached, is a class of exactly the scanned code points `valid_char` accepts for that call's arguments. It covers the scan, its for-else and the memo key together.
- **`NamesMatchReasons`** (checked only by the two violation runs): each of the five regexes, with its schema's length bounds, accepts exactly the names its `ValidationRegex` reason describes. The leading/trailing-space patterns must accept exactly the printable names with at least one non-space character, and the name patterns exactly those that neither start nor end with whitespace. The patterns are applied with `re.search`, and `$` also matches before a final newline (`Dollar`); the lookahead of `valid_name_regex_base` still reads the string's first character.
- **`NamesMatchReasonsBeforeNewline`**: the same for every name that does not end in `\n`. It checks the classes and the structure of the patterns (the lookarounds, the two alternatives of the leading/trailing-space regexes) apart from the `$` finding.
- **`ConsoleContract`** (refinement, with liveness): under the mapping `on <- enabled`, `status <- Status(r)`, every step of `ConsoleReset` is a step of `SerialConsole` or stutters, and every request is answered, even when the conductor never finishes a mode change or finishes it after the loop timed out.
- **`SoftFallback`**: a finished soft operation made its soft call first, and a second, hard call exactly when ironic refused the soft one or, for a power off, the node was still on after the soft one; a finished power off left the node off unless the conductor failed the hard power off.
- **`OperationsReturn`**: every power, rescue, unrescue, rebuild and VIF operation returns, though the wait loops have no timeout of their own.
- **`SchemasIsolated`**: once the import is done, `metadata` admits only string values while `metadata_with_null` admits null, the two share no object, `volume_size` and its two flavor copies keep their own minimum (0 only for `flavor_param_non_negative`) and maximum, and the pagination `limit` items are the `non_negative_integer` object itself.
- **`SamplesTabled`**: a finished directive either raised, with ValueError only on a sample declared twice or a sample that is not JSON, or wrote one row per declared sample, with its class and payload class, in sorted order.
- **`OwnerScoped`** (action property): a request changes user `u`'s key pairs only if the policy allows its caller on `u`.
- **`VersionGatesUserId`** (action property): below 2.10 a request changes only its caller's own key pairs, whatever `user_id` its query names.

Every property is broken by a mutant listed in `PROJECT.json`. The mutants of the ironic models are:
- swapped listing order;
- polling that stops at DELETING;
- no retry bound;
- a restart that takes an interrupted delete as done;
- a spawn failure without `_cleanup_deploy`;
- ring members not case-folded.

The mutants of this sitting's modules are:
- a memo key without the keyword arguments;
- lookarounds built with `ws=True`;
- the loop variable taken one past the last code point;
- a duplicated sample overwriting the earlier one;
- `sorted(notifications)` instead of `.values()`;
- the policy checked against the caller;
- `user_id` honoured at every microversion;
- `params['type']` without a default;
- a console poll loop without its timeout;
- `LoopingCallTimeOut` taken as success;
- a refused soft request sent again;
- a power off that goes on to the hard action after a successful soft one;
- a rescue wait that only ends on the goal state, not on RESCUEFAIL;
- `copy.copy` instead of `copy.deepcopy` for the derived schemas.

**Bounds:**
- **One node.** That node is the object of every race: double binding, conflict, stale listing, and tear-down against polling. Two nodes multiply the state space by about ten and add no interaction, because the driver handles each node independently.
- **One instance** in the fault and convergence runs. `Schedule`, like placement, only offers a node no live instance holds, so a second instance would not race for the node; the Conflict branch of `_set_instance_id` stays unreachable either way.
- **Two services** give ring disagreement and foreign bindings.
- **`MaxRetries = 1`** lets the unprovision poll give up before or after the tear-down.
- **`MaxAttempts = 1`** allows one reschedule (nova's `max_attempts` bounds these).
- **`MaxCrashes = 1`** gives one crash at any point.

- **Regex bounds:** four code points, with every category assignment, reach every shape the scan can meet: a range at the start, in the middle and at the end, single characters, and the excluded `:` inside or at the edge of a range. Names of three characters reach a space at the start, middle and end.
- **Keypair bounds:** a quota of 1 and two names give every keypair error. Each microversion in the set sits on one side of a switch in the controller.

**Fairness (convergence run):**
- Weak fairness on `RefreshBegin`: the periodic task runs `_refresh_cache` on every live service.
- Strong fairness on `RefreshEnd`: a listing that keeps failing also succeeds infinitely often. With weak fairness, a permanently failing API would trivially violate convergence.
- Weak fairness on each step of a started build or delete, and on the conductor's deploy, tear-down and cleaning.
- No fairness on scheduling, deletes, crashes, restarts or maintenance: those are users and operators.

## 4. Findings

1. **Same-shard services** (`shard_same_shard`).
   - The specification says services reporting the same shard are the ring candidates.
   - The code uses `{CONF.host}` as the peer list when a shard is set (`test__refresh_hash_ring_peer_list_shard`) and lists all nodes of the shard.
   - So two services configured with one shard both keep every unbound node of it, for ever.
2. **No resource class** (`provider_tree_no_rc`).
   - The specification, and the docstring of `test_update_provider_tree_no_rc`, say a node without a resource class reports the legacy VCPU, MEMORY_MB and DISK_GB inventory.
   - The code raises `NoResourceClass` (the test asserts the raise) and writes nothing.
3. **Listing order** (recorded in `PROJECT.json` as mutant evidence, with no separate run). The specification describes `NodeCache.refresh` as reading the workload set first, then the node list. That order breaks the specification's own guarantee that a node bound to this host's workload is kept, as the `FetchOrderSwapped` mutant shows. The code reads the node list first (`_test__refresh_cache` asserts it).

4. **Code points beyond the scan** (`regex_beyond_scan`).
   - `_get_all_chars` yields `range(0xFFFF)` only.
   - A printable character from U+FFFF up, such as an emoji, is in no class, so a name containing one is refused.
   - The reason says "printable characters", and the docstring says the builder iterates the entire space.
   - The run leaves `\n` out of its alphabet, so that its trace is this finding (a letter above the scan) and not the next one.
5. **A final newline** (`regex_final_newline`).
   - Every pattern ends in `$`. In Python's `re`, `$` also matches just before a newline that ends the string, and the patterns are applied with `re.search`.
   - So `valid_description_regex` accepts `"\n"` (the trace), and the name regexes, including both leading/trailing-space ones, accept a valid name followed by `"\n"`.
   - The reasons allow printable characters only, and no whitespace at the end. `\Z` in place of `$` would match them.
6. **Key generation at 2.91** (`keypairs_generate_291`).
   - The create docstring says generation is no longer permitted from 2.91.
   - The schema decorators, and the comment at line 97, make `public_key` required from 2.92 only. So a create without a key at 2.91 still generates one and returns the private key.

## 5. Not modelled, and the plan

**Done:**
- The ring, the cache refresh, provisioning and deletion, and the inventory rule.
- The serial console controller, refining its contract; the power operations, rescue, unrescue, rebuild, and VIF plugging and unplugging.
- The regex builder and validation regexes, the notifications directive, and the keypairs and fixed IPs controllers.

**Planned, in order:**
1. **Power, rescue and console against the node of IronicDriver**, with the node lock shared between power actions, console changes and provisioning.
2. **`NodeAssignment.tla`**: an abstract specification ("each node is bound to at most one live instance, and each live bound node is managed by its instance's service"), and IronicDriver shown to implement it with `INSTANCE ... WITH`.
3. **Keypair pagination walk**: a client paging `index` with `limit` and `marker` while keys are created and deleted. Its semantics live in `KeypairAPI`, outside the tree.

**Left out:**
- `power_update_event` and `trigger_crash_dump` of the power component, and the parsing of the console URL.
- `get_info`, `list_instances` and the other read-only queries: they change no state, so they would be actions with every variable unchanged; what they read is already a variable of `IronicDriver`.
- `_node_resource` and `_parse_node_properties`, which convert node properties into numbers.
- `rebuild`'s `instance.save` and `_add_instance_info_to_node`, which only write records, and the contents of the config drive.
- Lock conflicts on VIF attach from ironic's own periodic tasks: the model's only lock holder is the driver's pending action.
- The scheduler configuration test: it checks option defaults and has no behaviour.
- The JSON-schema dictionaries of `parameter_types.py` that no later statement copies, changes or refers to: static data with no behaviour of their own.
- In the documentation extension: the docutils node tree, JSON reference resolution and HTML text, which are layout.

**Observed while modelling, without a run of their own:**
- The for-else of `_build_regex_range` (line 162) closes a one-character range as "B-B", which the comment on `last_added` says the builder avoids. With the real unicode tables the lookaround classes of `valid_name_regex` end in `\ufffe-\ufffe`. The class matches the same characters, so nothing depends on it.
- A console reset whose disable stage fails still goes on to enable and can hand out a session, so a session another user held may not have been cut. Section 4.4 says the controller disables "unconditionally", then enables, which this matches; `ConsoleContract` still holds.

**Not covered by a property yet:**
- A delete accepted by the API while the service is down (local delete) would leave the node bound. The compute manager code for it is outside this tree.
- Two builds racing for one node (the Conflict of `_set_instance_id`): `Schedule` only offers a node no live instance holds, as placement does, so the branch is unreachable in the model.
- A VIF attach refused with 409 because another action holds the node lock: `_plug_vifs` (`retry_on_conflict=False`) passes it over as "already attached" and returns with the port missing. The only lock holder in `NodeActions` is the driver's own pending action, which is over before the next operation begins, so the case does not arise there; ironic's own exclusive tasks are not modelled.
