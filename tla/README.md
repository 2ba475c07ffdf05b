# TLA+ models of the Intel device plugins for Kubernetes

This directory holds TLA+ models of the programs under `src/`, the TLC runs that
check them on small instances, and theorems about them that TLAPS checks for
every value of the constants. `PROJECT.json` lists the components, runs,
mutants, theorems, hazards and findings, and maps every modelled definition to
the source lines it stands for.

## The system

A *device plugin* is a process on a Kubernetes node. It scans the node for one
kind of device, groups what it finds by *device type* (a Kubernetes resource)
and serves one gRPC endpoint per device type on which the kubelet lists,
watches and allocates devices. An *operator* in the cluster deploys the plugins
as DaemonSets; *webhooks* and *hooks* rewrite pods and containers that use FPGA
or SGX devices; *labelers* describe GPUs as node labels.

| Part | Source | State it keeps | Operations that change it |
|---|---|---|---|
| Plugin framework: notifier and manager | `pkg/deviceplugin/manager.go` | last device tree, map of servers | `Notify`, `Run`, `handleUpdate` |
| Plugin framework: server | `pkg/deviceplugin/server.go` | state, gRPC server, device table, update channel, socket | `Serve`, `Stop`, `Update`, `ListAndWatch`, `Allocate` |
| Scanners | `cmd/*_plugin`, `pkg/idxd`, `pkg/vfio` | previous counts, driver bindings | `Scan` loops |
| GPU health and labels | `cmd/gpu_plugin/{levelzeroservice,xpumdservice}`, `cmd/internal/labeler`, `cmd/xpumanager_sidecar` | cached health, label file, node labels | `Run`, `GetDeviceHealth`, label loops |
| Allocation policies | `cmd/gpu_plugin/allocationpolicy.go`, `cmd/qat_plugin/dpdkdrv` | none (pure) | `GetPreferredAllocation` |
| Operator | `pkg/controllers`, `cmd/operator` | DaemonSet and status of each custom resource | `Reconcile`, `UpdateDaemonSet`, `UpdateStatus`, `Upgrade` |
| Admission of custom resources | `pkg/apis/deviceplugin/v1` | none | defaults and validation |
| FPGA admission webhook | `pkg/fpgacontroller` | AF and region maps of each namespace | two reconcilers, `mutate` |
| FPGA runtime hook and tool | `cmd/fpga_crihook`, `cmd/fpga_tool`, `pkg/fpga` | bitstream programmed into a port | `process`, `installBitstream`, `PortPR` |
| SGX webhook and EPC hook | `pkg/webhooks/sgx`, `cmd/sgx_epchook` | pod spec, node capacity | `Default`, capacity patch |
| Topology hints, CDI files | `pkg/topology`, `pkg/deviceplugin/server.go` | files in `/var/run/cdi` | `NewTopologyHints`, `writeCdiSpecToFilesystem` |

How they interact: a scanner calls `Notify` with a whole device tree; the
notifier diffs it against the previous one and hands the difference to the
manager over an unbuffered channel; the manager creates, updates and stops
servers; each server has a goroutine that listens, registers with the kubelet
and waits for the socket to be removed, and one handler goroutine for every
`ListAndWatch` call the kubelet ever made on it.

What makes it hard: the manager, the serving goroutines and the handlers share
`m.servers`, `srv.grpcServer`, `srv.devices` and `srv.updatesCh` with little
locking; the kubelet restarts at any time, removes the sockets when it does and
then dials whatever listens; a plugin that meets an error exits and starts
again from nothing; updates pass through a channel of capacity one.

## Modules

| Module | Models |
|---|---|
| `PluginServer` | one resource of one plugin process, from the hardware to the kubelet |
| `PluginServerProofs` | its invariant and theorems |
| `DeviceFeed` | what the framework promises between a scanner and the servers (abstract) |
| `PluginManager`, `MCPluginManager` | notifier and manager over several device types; its symmetry for TLC |
| `PluginManagerProofs` | its invariant, the theorems, and that it implements `DeviceFeed` |
| `FpgaPatcher`, `MCFpgaAdmission` | the FPGA webhook's controllers and the patcher's maps; their symmetry for TLC |
| `FpgaAdmission` | the rewriting of a container, as a function of those maps |
| `FpgaPatcherProofs` | the patcher's invariant, and theorems about the maps and the rewriting |
| `DaemonSets` | custom resources, pod templates and the helpers the controllers share |
| `DlbController` … `SgxController` | `validatePlugin`, `getPodArgs`, `NewDaemonSet` and `UpdateDaemonSet` of the eight kinds |
| `Controllers` | the interface the eight implement |
| `Operator`, `OperatorProofs` | `Reconcile` with informers, API server, users and garbage collector; what the eight promise of the templates they make, its invariant and theorems |
| `GpuPlugin`, `MCGpuPlugin`, `GpuPluginProofs` | the GPU plugin's scan loops, the Level-Zero sidecar and the xpumd listener; options and cards of the run; theorems |
| `FpgaNode`, `MCFpgaNode`, `FpgaNodeProofs` | the FPGAs of a node with the plugin, the CRI hook and `fpga_tool`; the board of the run; theorems |
| `QatPlugin`, `MCQatPlugin`, `QatPluginProofs` | the QAT plugin in dpdk mode with its allocation policies; setups of the run; theorems |
| `NodeLabels`, `MCNodeLabels`, `NodeLabelsProofs` | the two writers of GPU label files; cards and metrics of the run; theorems |

`MC` modules only give values to constants and define symmetries. The modules
meet at three places. `PluginServer` and `PluginManager` take an arbitrary device
tree from a scanner; `GpuPlugin`, `FpgaNode` and `QatPlugin` end a scan with
`Notify`, which is where the framework begins. `PluginManager` sees of a server
what `PluginServer` has in full. `FpgaAdmission` ends with the functions a
container asks for, with which `FpgaNode` begins.

### PluginServer

A device table is abstracted to the *revision* of the hardware it was scanned
from; revision 0 is the empty table and the absent resource. What the
properties need of a table is only which one it is and which of two is newer.

| Code | Model |
|---|---|
| the tree `Scan` built and `Notify` holds while it blocks on the channel | `scan` |
| `notifier.deviceTree[devType]`, `m.servers[devType]` | `ntree`, `servers` |
| manager at the top of `Run`'s loop / inside `srv.Update` | `mgr` = "idle" / "update" |
| `server.state`, `.grpcServer`, `.devices`, `.updatesCh` (content, closed) | `state`, `grpc`, `devices`, `ch`, `chst` |
| goroutine of `handleUpdate` and the server it found in the map | `gpc`, `gsrv` |
| a `ListAndWatch` handler, its server, the table it took | `spc`, `ssrv`, `got` |
| path of the plugin socket, and who listens on it | `sockFile`, `sockSrv` |
| the kubelet, its pending registration, its stream and last list | `kubelet`, `reg`, `conn`, `view` |

`NotifyAdded`, `NotifyUpdated` and `NotifyRemoved` are the meeting of `Notify`
with the manager on the unbuffered channel, followed by what `handleUpdate`
does up to its first blocking operation; `Update` is the send on `updatesCh`.
`ServeStart` … `SocketRemoved` are the steps of `setupAndServe`, cut where
another goroutine can interfere. `SendDevices`, `Receive` and `Assign` are one
turn of `ListAndWatch`; the store to `srv.devices` is a step of its own because
nothing synchronises it. `Exit` is `os.Exit(1)` or a panic (nil map entry, send
on or close of a closed channel). gRPC is modelled from how the code uses it:
`Stop` closes the listener, which unlinks the socket's path whoever bound it
last, drops connections and does not wait for handlers; `Send` fails once the
connection is gone. The kubelet is modelled from how the plugin depends on it:
it serves registrations while it is up, removes plugin sockets when it starts,
dials a registered endpoint once, and loses its streams when it stops.

#### Runs

| Run | Bounds (rev, server, stream, restart, fault) | Result |
|---|---|---|
| `server` | 2, 1, 3, 2, 1 | `TypeOK`, `NoSilentLoss`, `PipelineOrder`, `NoRegressOnStream`, `SettlesOrStuck` hold (39 k states) |
| `server_missed_removal` | 2, 1, 3, 1, 0 | `RestartsWithKubelet` violated |

`NoSilentLoss` says that when the kubelet's stream is idle on the manager's
server and nothing is under way, the kubelet has the newest reported table,
unless that server was or is about to be stopped by a handler that could not
send. `PipelineOrder` says that what waits in `updatesCh` is newer than all its
server holds. `NoRegressOnStream` says the kubelet's stream goes back to an older
list only while a handler of an earlier stream on the same server holds a table it
cannot send, and so is about to stop that server. `SettlesOrStuck` says the kubelet's
list ends up equal to the hardware, or the process ended in one of exactly four
states it need not leave by itself: a `Zombie` server the manager has forgotten,
a server `StoppedBehindManager` by a handler of an earlier stream, a
`MissedRemoval`, or `Twins`, two goroutines that run the same server and remove
each other's socket. `server_missed_removal` shows one of them against a comment
of `server.go`: a kubelet that restarts between the registration and
`watcher.Add` removes a socket nobody watches, and the plugin never registers
again.

Bounds. One server object, three handlers (the kubelet's and two stale ones) and
two restarts of the kubelet let a handler of the first stream meet the third; two
revisions let an update be under way while the next is scanned. `SettlesOrStuck`
is meant for instances whose bounds on objects do not themselves stop the system:
a server for every time the resource can appear and a handler for every stream
there can be (`MaxServer` at least half of `MaxRev`, `MaxStream` above
`MaxRestart`). On smaller ones TLC reports the missing object as a violation, so
that too small a bound cannot hide one. `Twins` needs a second server object and does
not occur in the run; it was met on an instance with three revisions and two
servers (more than 1.5 M states, too large to keep), on which the streams it opens
are not bounded, and the property names it for that reason. The
safety properties are proved for all bounds. Deadlock is not checked: a settled system
does nothing, and `MissedRemoval` with a blocked manager is a real deadlock that
`SettlesOrStuck` accounts for.

Fairness. Weak fairness for every goroutine (the Go scheduler), for the
kubelet's start, its serving and its dialling (systemd restarts the kubelet, the
kubelet restarts exited containers). None for hardware changes, kubelet stops
and environment errors.

#### Theorems

Proved in `PluginServerProofs` for all bounds, from `BoundsAssumption` only
(the constants are naturals, servers and streams positive):
`Spec => []TypeOK`, `Spec => []PipelineOrder`, `Spec => []NoSilentLoss`,
`Spec => NoRegressOnStream`.

None of the last three is inductive. The invariant `IInv` adds: objects not yet
created are fresh (`FreshServers`); the manager has a server exactly when the
notifier has a table, and goroutines, handlers and the socket refer to created
servers only (`References`); scans and revisions are ordered (`ScanOrder`);
everything the manager's server holds precedes the table in the manager's hands
(`TableOrder`), which is what makes the next `Update` newer than all of it; and
the last table sent is in the channel, with the kubelet's handler or in
`devices`, unless a stale handler has it (`NewestHeld`). The proof has one lemma
per action; frame lemmas say which variables each part depends on, and
`ExitIInv` covers every step that ends the process. For `NoRegressOnStream` the
invariant `StreamOrder` says that, while no other handler of the server of the
kubelet's stream is stale, what the kubelet has is no newer than the server's
`devices`, nor than what the stream's handler is about to store. A stale handler
can break this by storing an older table last, but it stays stale until its `Send`
fails and stops the server, and with it the stream.

Liveness stays with TLC: TLAPS does not support reasoning with `ENABLED` and
fairness here.

### PluginManager and DeviceFeed

`PluginManager` refines one half of `PluginServer` and abstracts the other: it
has several device types and every map operation of `handleUpdate`, and sees a
server only as an entry of `m.servers`, its channel and the table its handlers
took last. `Notify` computes the three sets of the diff; `AddBegin`/`AddStore`,
`UpdateBegin`/`Update` and `RemoveBegin`/`RemoveDelete` are the three loops.
A store to or delete from `m.servers` has a beginning and an end, because the
goroutines started for new servers read the map without a lock: `GoStart` may
see it before or after the write, and `MapRace` is the runtime noticing the race
and ending the process. `Exit` is every way the process ends.

| Run | Bounds | Result |
|---|---|---|
| `manager_safety` | 2 types, 2 tables, 2 waiting goroutines a type, 1 fault | `TypeOK`, `InSync`, `FeedImplemented` hold |
| `manager_liveness` | 2 types, 2 tables, 1 waiting goroutine a type | `SettlesOrBlocked`, `SettlesIfRead` hold |

`InSync` says that `m.servers` has exactly the notifier's types with their
newest tables, but for types still being handled, and that the loops find the
entries they expect. `FeedImplemented` is the refinement of `DeviceFeed`: every
difference of two trees is told to its server exactly once, and before the next
tree is reported. `SettlesOrBlocked` assumes nothing of the servers: nothing in
the code makes a server read its channel (the kubelet has to call
`ListAndWatch`), and one unread server then blocks the manager for all types.
`SettlesIfRead` assumes that they do read. Two types are the least for one to
block another, two tables the least for an update; the hardware changes without
a bound, since the state is finite without one.

Theorems, for any types, tables and bounds: `TypeOK`, `InSync` and
`FeedImplemented`. The invariant adds, for the type in the manager's hands
(`Cursor`), what the map, the channel and the two trees are at each point of the
iteration, and, for each other type (`Row`), which of the three sets it can be
in; without `Row` nothing says that `Update` finds an entry.

### FpgaPatcher and FpgaAdmission

State: the objects in the informers' caches, the two work queues, what each
`Reconcile` has read (`afWork`, `regWork`: it reads the object before it takes
the patcher's lock) and the patcher's four maps. `AddAf`, `AddRegion`,
`RemoveAf`, `RemoveRegion` are the methods of the same names; `AddAf` stores the
object before it can fail, as in the code. Ids are abstract, but whether their
concatenation can be decoded (`OddLength`) is kept. `Restart` empties the maps.
`FpgaAdmission` has no actions of its own: `getPatchOps` depends on the order in
which Go iterates over a map, and `Outcomes` collects the results of all orders.

| Run | Bounds | Result |
|---|---|---|
| `fpga_admission` | two AFs (symmetric), one region, one interface, one AFU, counters to 2, containers of up to 2 resources | `TypeOK`, `IdentityCovers`, `MapsAgree`, `Idempotent`, `UnitsKept` hold |

`IdentityCovers` says `identitySet` counts each mapping at least as often as
names map to it, so that removing an alias does not take the identity from the
others; `MapsAgree` that an object whose events are handled is mapped as it
says; `Idempotent` that a patched container passes unchanged the second time, in
every reachable state and for every order; `UnitsKept` that a patch keeps the
number of devices and tells the runtime hook about each. Counters only grow when
an object is updated, so `MaxCount` bounds how many updates are seen. Ids that
cannot be decoded (`OddLength`) are in the model and in the theorems; the run has
none.

Theorems, for any finite sets of names, any ids and any containers: `TypeOK`,
`IdentityCovers`, `MapsAgree`, `Idempotent` and `UnitsKept`. Assumed of the
constants: no object has the name of a resource that objects map to.
For `IdentityCovers` the step is an argument on cardinalities (the users
of a mapping after a step are those before it plus or minus one name). For
`MapsAgree` the invariant adds `ReadCurrent`: what `Reconcile` has read is the
object as it is now, or its name is queued again. `Idempotent` follows from
`IdentityCovers`, from `Together` (a name has a mapping exactly when it has a mode)
and from a lemma on the orders of a finite set (`Orders`): a patched container
asks only for identities, so whichever comes first ends the loop and is accepted.
`UnitsKept` rests on lemmas about sums over finite sets. The library adds up a set
by taking out elements in the order of a `CHOOSE`; that its recursion has a
solution, that any element may be taken out first, that disjoint sums add up and
that adding up by mapping adds up everything are each proved from a smallest
counterexample among the subsets of a set (`SmallestSubset`).

### Operator

One custom resource of one of the eight kinds, its DaemonSet and its pods.

| Code | Model |
|---|---|
| the objects in the API server | `cr`, `ds`, `pods` |
| the manager's informer caches; watch events not delivered yet | `crCache`, `dsCache`, `podCache`; `unseen` |
| the controller's work queue, where `Reconcile` is, what it has read | `queued`, `pc`, `dp`, `child` |
| `fetchObjects`, `Get`, `upgradeDevicePluginImages` | `ListChildren`, `GetCr`, `Upgrade` |
| `createDaemonSet`; `UpdateDaemonSet` and `Update`; `UpdateStatus` | `CreateDs`; `UpdateDs`; `UpdateStatus` |

Each call to the API server is a step; it may fail, and a write based on a copy
that is not the current object is a conflict. Resource versions are represented
by comparing the copy with the object. Informers skip to the latest version of
an object. Users create, edit and delete the resource within what the webhook's
`validatePlugin` accepts, delete the DaemonSet, and pods come and go; the garbage
collector removes a DaemonSet whose owner is gone. A template keeps the images,
arguments, node selector, tolerations, init containers, volumes and mounts, i.e.
all that `UpdateDaemonSet` reads or writes; which templates the API server
rejects (a volume twice or missing) is modelled from Kubernetes.

| Run | Bounds | Result |
|---|---|---|
| `operator` | all kinds, 1 node, 2 images (one too old), one config, 2 events | `TypeOK`, `NoLostEdit`, `StatusCurrent`, `AlwaysValid`, `EditsKept`, `Converges` hold (0.45 M states) |
| `operator_config` | DSA, the same | `ConfigPassed` violated |

`NoLostEdit`: whenever all events are delivered and handled, the DaemonSet is
there and carries what the resource says. `StatusCurrent`: then the status names
it and counts its ready pods. `AlwaysValid`: whatever edits a DaemonSet has been
through, the template about to be written is accepted. `EditsKept`: no write of
`Reconcile` undoes a user's edit. `Converges`: once users stop, the DaemonSet is
gone with its resource or follows it for ever. `ConfigPassed` is what the DSA
plugin's README says of provisioning configs; the finding says where the
controllers of DSA and IAA differ, and `NoLostEdit` therefore claims for those two
only that a config that is mounted is the right one.

Bounds. Two events are enough for an edit and a failed call, an edit during a
`Reconcile`, a deletion and re-creation, or a restart in between. With three
events the four invariants hold too (4.1 M states), and so they do with two
events, two nodes, init images that are too old and a plugin image set in the
environment (4.0 M states); with the temporal properties these instances take
too long to be kept as runs. The path of an image in the environment
(`EnvImage`), several node selectors and several tolerations are therefore in
the model but not in the runs.
Deadlock is not checked: an operator with nothing to do stops.

Fairness: `Reconcile` (the queue's worker), the delivery of events and the
garbage collector. None for users, pods, failures and the pods' informer.

Known deviations the properties leave room for: pod events queue nothing, so the
node names of a status can be out of date; the NFD volume of the GPU plugin is
not removed with its init container (it is removed under another name), which is
harmless; a change of QAT's drivers does not rebuild its init container; the
request of a deleted resource is retried for ever.

Theorems, for any nodes, images, configs and number of events: `TypeOK`,
`StatusCurrent`, `EditsKept`, `NoLostEdit` and `AlwaysValid`. `StatusCurrent` is only inductive together with
`Followed`: a copy in a cache or in the hands of `Reconcile` is the object itself,
or an event or a request for the object is on its way. Each write either fails,
meets an object that differs from its copy, or queues an event, which keeps this
true. `EditsKept` follows from the conflict check alone, with `Typed`.
`NoLostEdit` and `AlwaysValid` rest on two theorems about `Controllers`,
`NewDaemonSetValid` and `UpdateDaemonSetCarries`, for each of the eight: `NewDaemonSet` makes a well-formed
template, and `UpdateDaemonSet` makes of any well-formed template one that is
well-formed and carries the resource's spec. Well-formed (`WellFormed`) says which
volumes a kind's template has, with which sources, and that an init container
mounts only volumes that are there; it is what all the edits a DaemonSet has been
through keep true, and it implies that the API server accepts the template. The
invariant adds that every template in the API server, the cache or the hands of
`Reconcile` is well-formed (`Templates`) and that a `Reconcile` that has come to
the status has a DaemonSet that carries the spec (`Synced`). Assumed of the
constants: images and configs are not the empty string, an image in the
environment and the minimum image are not too old, and no config is named like
another source of a volume.

### GpuPlugin

State: the cards in sysfs and their condition, the sidecar process with the list
of cards it enumerated once, the plugin's connection to it, the xpumd daemon, the
listener goroutine with its stream, attempts, errors and cached health, and the
scan loop with the tree and the monitor map it is building. A card directory is a
record of what the filter looks at (vendor, DRM nodes, PCI id, driver, VFs).
`ScanBegin`, `ScanCard`, `Notify` and `Signal` are one pass of `sysFsGpuScan`, cut
between cards because cards and health change in the meantime; `WslScan` is a pass
of `wslGpuScan`; `LzConnect`, `WaitForStream`, `RecvUpdate` and `RecvError` are
the two health goroutines. `checkArgs` decides which options start the plugin.

| Run | Bounds | Result |
|---|---|---|
| `gpu` | 2 cards of 4 profiles, 8 sets of options (3 of them refused), 2 connection attempts, 1 arbitrary error, 2 changes, 1 fault | `MonitoringCovers`, `DeafForAReason`, `AccurateOrStuck` hold (0.76 M states) |

`AccurateOrStuck`: once cards and services are stable the node advertises the
usable cards, unhealthy exactly when their health source says so, or one of four
dead ends is reached: the loop is `Blocked` on `scanResources`, a channel of
capacity one that nobody reads; the listener is `Deaf`, it has given up; in WSL
the sidecar's driver failed and it reports `NoIndices`; a bad card came after the
enumeration and is `Unlisted`, so it counts as healthy. `MonitoringCovers`: the
monitoring devices of a tree give access to exactly the cards the tree has.
`DeafForAReason`: the listener gives up only when its stream broke or all attempts
are used. Two cards let one change while the other is scanned; two changes are a
card going and another coming, or failing. Deadlock is not checked because of
`Blocked`.

Fairness: the goroutines, the restart of the sidecar and of xpumd, and xpumd
sending the health of each card while it is connected. None for changes and
faults.

Theorems, for any number of cards and any options: `DeafForAReason` (inductive as
it stands) and `MonitoringCovers`, whose invariant relates, in the middle of a
scan, the tree to the monitor map (`TreeOK`, `MonitorOK`).

### FpgaNode

The plugin, the runtime hook and the tool share the FPGAs of a node and nothing
coordinates them.

| Code | Model |
|---|---|
| port, FME, interface, programmed AFU; released ports; crashed firmware | `board`, `hw`, `assigned`, `crashed` |
| files under the bitstream storage; what the tool is copying | `file`, `installing` |
| device tables of the plugin; what the kubelet knows; CDI files | `table`, `kube`, `cdi` |
| a container: where its hook is, devices, hooks to run, `paramslist`, open bitstream | `cst`, `held`, `runs`, `params`, `bstream` |
| `scanFPGAs`, `getAfuTree`, `getRegionTree`, `getRegionDevelTree` | `Scan`, `ScanFails` |
| `Allocate` with the CDI file | `Allocate` |
| `process`: parameters, loop, programming, verification | `Hook` (one step each) |
| `installBitstream`, `doPR`, `portReleaseOrAssign` | actions of the same names |

The kubelet creates a failed container again (`Retry`). One CDI hook runs per
allocated region, so a container may run its hook several times.

| Run | Bounds | Result |
|---|---|---|
| `fpga_node` | 4 ports of 3 FMEs, 2 interfaces, 3 bitstreams, 3 containers, 3 modes; 2 starts, 1 event, 1 fault | `TypeOK`, `Compatible`, `ExclusiveUnlessStale`, `FunctionHeld`, `StartsUnlessHopeless` hold (0.16 M states) |
| `fpga_hook` | the same without faults | `AllFunctionsHeld` violated |

`Compatible`: a port never holds an image for another interface.
`ExclusiveUnlessStale`: two containers share a port only in af mode, when the tool
programmed the port after a scan gave it away. `FunctionHeld`: a running container
has at least one function it asked for and keeps it until the tool programs its
ports, whatever other hooks do. `StartsUnlessHopeless`: a container with devices
comes to run unless its bitstream is missing or cut short or its device does not
answer. `fpga_hook` shows why `FunctionHeld` says "at least one": `process` returns
at the first function it finds programmed. The board has an FME with two ports, a
second one of the same interface and one of another; the containers ask for two
functions, for an AOCX by hash, and for the AFU all AOCX files share. Two starts
are two containers at once or one after the other on the same ports.

Fairness: the scan, the kubelet's learning of tables, hooks, the copying tool, and
the retries of the kubelet. None for the tool's commands, crashes and faults.

Theorems, for any boards, bitstreams, containers and modes: `TypeOK`, `Compatible`,
`ExclusiveUnlessStale`, `FunctionHeld`. Assumed: factory images fit their boards,
no identifier is "ffff" or "none" (what a crashed or empty port reads as), an empty
port's image is no bitstream, and a container asks for at least one function. The invariant adds what a scanned device
says of its ports (`TableOK`), that no device is given out twice under one name
(`Apart`), and per container (`CtrOK`) that its hook works only on its own ports,
with a bitstream for the function it is at, and that an emptied `paramslist` means
a function is held. `TypeOK` also says where a container can be: it has hooks left
to run exactly until it runs, never more than it has devices that call for one, and
an open bitstream only between programming and verification. Its proof needs that
tables and allocations are finite and that only regions call for hooks (`Devices`).

### QatPlugin

State: the VFs that exist and their drivers, heartbeats and configured services of
the PFs, the scan (`todo`, `n`, `pfHealthLookup`, the tree), the tree notified
last, and the containers with their VFs and environment. `ScanBegin` lists the VFs;
`Vf`, `Bind` and `Inspect` unbind, bind and add one VF, each write to a driver file
being a step that may fail; `Notify` ends the scan and
`Tick` waits for the next. A failure ends the plugin, and `Restart` starts it.
`Start` is `GetPreferredAllocation` by the policy of the set-up, `Allocate` and
`PostAllocate`, which renames the variables of the environment.

| Run | Bounds | Result |
|---|---|---|
| `qat` | 2 PFs of 2 VFs, 3 set-ups (one per policy, one in a virtual machine), 2 containers of 2 and 1 VFs, 1 event, 1 fault | `TypeOK`, `UniformHealth`, `EnvNamesDevices`, `ExclusiveUnlessRetyped`, `PolicyKept`, `Settles` hold (0.12 M states) |

`UniformHealth`: VFs of one PF are advertised with one health although the
heartbeat changes during a scan. `EnvNamesDevices`: the environment of a container
names exactly its VFs. `ExclusiveUnlessRetyped`: two containers share a VF only if
its services changed or were misread, so that it moved to another resource while in
use; the same services in another order do not move it. `PolicyKept`: packed
allocation breaks into at most one PF, balanced takes evenly. `Settles`: whatever
failed, the plugin comes to advertise the first `maxDevices` VFs as they are, bound
to the DPDK driver. Two PFs of two VFs are the least on which packed and balanced
differ; `maxDevices` is below, at and above what there is.

Fairness: the plugin's loop and its restart by the kubelet. None for hardware,
faults and containers.

Theorems, for any numbers of PFs and VFs, containers and set-ups: `TypeOK`,
`UniformHealth`, `EnvNamesDevices`, `ExclusiveUnlessRetyped`, `PolicyKept`. The invariant adds that the devices of
a tree under construction have distinct numbers (`TreeNumbered`), without which two
devices would write the same variable, that their health is the one looked up for
their PF (`TreeHealth`), that a VF of a container belongs to the resource it was
given from unless it is noted as retyped (`Capable`), and that VFs of one resource
are given out once (`Apart`). For `TypeOK` it relates the number of devices seen to
the size of the tree (`TreeOK`), which is how `maxDevices` bounds what is
advertised. `PolicyKept` is about the choice made in one step; it rests on a lemma
that sorting a set by address lists each element once and in order: the number of
elements below one is a rank that no two share, and there are as many ranks as
elements.

### NodeLabels

Two programs keep a file of labels for node feature discovery. The model has both,
one at a time (`writer`), since they share the splitting of values and the shape of
the loop and nothing else. `Run` creates labels from the cards or metrics of the
moment, then writes them if they changed, to a temporary file that is moved into
place; the sidecar ignores errors of the writing and may move a part of the file,
the labeler appends to the file itself when it gets no temporary directory.
`Stop` is the signal, which removes the file; `Kill` is a
crash between any two steps. No program under `src/` calls the labeler's `Run`;
`gpu_nfdhook` prints the labels once, with the same `createLabels`.

| Run | Bounds | Result |
|---|---|---|
| `labels` | 3 cards (one with a number of two digits), 2 lists of metrics, values cut at 4 characters instead of 63, word of 64 instead of 2^64, 2 events, 2 faults | `ChunksJoin`, `MemoryCounted`, `LinksOnce`, `OfOneMoment`, `FileSettles` hold (0.14 M states) |

`ChunksJoin`: every chunk of a split value is a valid label value and the chunks
give the value back. `MemoryCounted`: `memory.max` counts the cards that have more
than is reserved although the subtraction is unsigned. `LinksOnce`: every link with
enough lanes is named once, whichever ends report it. `OfOneMoment`: the file holds
the labels of one moment unless it was appended to or cut short. `FileSettles`: the
file comes to hold the labels of the node as it is. Four characters are below the
length of most values of three cards, so splitting happens at every kind of
character.

Fairness: the loop and the restart of the writer.

Theorems: `OfOneMoment`, `MemoryCounted`, `LinksOnce` and `ChunksJoin`, for any
cards, NUMA nodes, PCI groups, amounts of memory, lists of metrics and numbers of
faults. Assumed of the constants: numbers are written in letters and digits
(`TextAssumption`), a label value has room for three characters (63 in the code),
and no amount of memory, nor what is reserved, reaches half of what a word counts
(`MemoryAssumption`; the code uses that bound to tell amounts that wrapped around).

- The inductive invariant is `Known` with `OfOneMoment`: `right` is made of the
  cards and metrics there are, and labels about to be written were made of one set
  of cards or one list of metrics. The other three theorems follow from `Known`,
  by lemmas about what a round computes.
- `MemoryCounted`: an amount that wrapped around lies in the upper half of the word,
  one that did not in the lower half (`NoWrap`, `AmountLeft`); no other label of
  `createLabels` is called `memory.max` (`MemoryLines`).
- `LinksOnce`: of the metrics that read alike exactly one is the first, so the
  metrics that are named correspond one to one to pairs of ends.
- `ChunksJoin` rests on the shape of all values (`Spaced`): they begin and end with
  a letter or digit and no two separators are next to each other, which joining
  with a separator keeps (`SpacedConcat`, `JoinSpaced`). Any two characters in a row
  then have one to cut after, and later chunks have room for two or more, so each
  cut is beyond the last until the end is reached (`CutsAdvance`), and each chunk is
  valid (`ChunkGood`). That the chunks make the value (`ChunksMakeList`) is an
  induction over them. The splitting and the joining are recursive functions on an
  interval; that such a function exists and satisfies its equation is itself a lemma
  (`ChainExists`), and inductions are made by looking at the least counterexample
  (`Least`).

## What is only model-checked, and what is not modelled

Checked by TLC on the bounds above only:

- liveness, under the fairness given with each module: TLAPS cannot reason about
  `ENABLED` and fairness here.

Every other property of a passing run is also proved. In the proofs, leaves name
the prover (`Zenon`) where they need no arithmetic, functions or records.

Not modelled:

- the GPU plugin's allocation policies: sorts of a list, without state;
- the Level-Zero server's C calls and the generator of fake GPU devices;
- the DSA, IAA, DLB, NPU, SGX and VFIO plugins: scanners without state between
  scans, whose results `PluginManager` takes as arbitrary trees;
- the QAT plugin's kernel mode, which starts a driver chosen by a flag;
- the SGX webhook and the EPC hook: a rewriting of a pod without state and a
  one-shot patch of the node;
- topology hints: reads of sysfs;
- leader election, metrics and TLS of the operator's main program; the map of
  patchers by namespace in the FPGA webhook;
- generated code and tests.
