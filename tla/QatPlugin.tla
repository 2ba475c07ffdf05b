------------------------------ MODULE QatPlugin ------------------------------
(***************************************************************************)
(* The QAT plugin in dpdk mode: the scan that binds virtual functions to   *)
(* the DPDK driver one after the other, the allocation policies, and the   *)
(* containers that get the functions, while physical functions fail, are   *)
(* configured anew or lose their virtual functions.                        *)
(* Source: cmd/qat_plugin/dpdkdrv/dpdkdrv.go.                              *)
(* A virtual function (VF) is <<pf, fn>>: bus and device.function of its   *)
(* address, ordered as the fixed-width strings are.                        *)
(***************************************************************************)
EXTENDS Integers, FiniteSets, Sequences, Functions

CONSTANTS
    NumPf, NumFn,
    Enabled,      \* physical functions (PFs) of a driver in kernelVfDrivers
    WithServices, \* PFs of a kind with configurable services
    Services,     \* what cfg_services may read, ";" replaced by "-"
    Setups,       \* records vm, dpdkDriver, policy, maxDevices, services to start with
    Containers,
    Size,         \* VFs each container asks for
    MaxEvent,     \* changes of the hardware
    MaxFault      \* failing writes and reads

Policies == {"none", "packed", "balanced"}

ASSUME SetupAssumption ==
    \A s \in Setups :
      s.policy \in Policies /\ s.maxDevices \in Nat /\ s.services \in Services

ASSUME SizeAssumption == {NumPf, NumFn, MaxEvent, MaxFault} \subseteq Nat

Pfs == 1..NumPf
Vfs == Pfs \X (1..NumFn)

None == [cap |-> "", vfs |-> {}]

VARIABLES
    setup,
    vfs,       \* VFs that exist
    driver,    \* driver of each VF: "kernel", "dpdk" or "" for none
    beats,     \* PFs with a good heartbeat
    services,  \* configured services of each PF
    pc,        \* "down", "list", "vf", "bind", "inspect", "wait"
    todo,      \* VFs the scan has left
    n,         \* VFs it has seen
    lookup,    \* pfHealthLookup
    tree,      \* the device tree it builds
    table,     \* the tree notified last
    held,      \* cap and VFs of each container
    env,       \* VFs its environment names
    retyped,   \* its VFs whose services were misread or have changed
    events, faults

hwVars   == <<vfs, driver, beats, services>>
scanVars == <<todo, n, lookup, tree>>
podVars  == <<held, env, retyped>>
vars == <<setup, vfs, driver, beats, services, pc, todo, n, lookup, tree, table, held, env,
          retyped, events, faults>>

-----------------------------------------------------------------------------
(* The order of addresses, and of addresses written function first.        *)
BDF(v, w) == v[1] < w[1] \/ (v[1] = w[1] /\ v[2] < w[2])
FDB(v, w) == v[2] < w[2] \/ (v[2] = w[2] /\ v[1] < w[1])

Sorted(S, Before(_, _)) ==
    [i \in 1..Cardinality(S) |->
       CHOOSE v \in S : Cardinality({w \in S : Before(w, v)}) = i - 1]

Take(s, k) == SubSeq(s, 1, IF k < Len(s) THEN k ELSE Len(s))

(* A VF of an enabled driver, by its PF's driver or its own device id.     *)
isValidVf(v) == v[1] \in Enabled

(* All of them, whatever maxDevices says.                                  *)
getVfDevicesAll == Sorted({v \in vfs : isValidVf(v)}, BDF)

(* In a virtual machine there are no PFs, only VFs told by their device id.*)
(* Either way the first maxDevices are taken, in the order of addresses.   *)
getVfDevices == Take(Sorted({v \in vfs : isValidVf(v)}, BDF), setup.maxDevices)

readDeviceConfiguration(p) == services[p]

(* Services in another order have another name.                            *)
trimmedCapabilities(v) ==
    IF v[1] \notin WithServices \/ setup.vm THEN "generic" ELSE readDeviceConfiguration(v[1])

(* The resource of a VF.  In a virtual machine it has no physfn.           *)
getDeviceCapabilities(v) ==
    IF v[1] \notin WithServices \/ setup.vm THEN "generic"
    ELSE LET s == readDeviceConfiguration(v[1]) IN
         IF s \in {"sym-asym", "asym-sym"} THEN "cy" ELSE s

(* Each VF reads the heartbeat for itself.                                 *)
getDeviceHealthinessEach(v) == setup.vm \/ v[1] \in beats

(* The VFs of a PF share what the first of them has read.                  *)
getDeviceHealthiness(v) ==
    IF setup.vm THEN TRUE
    ELSE IF v[1] \in DOMAIN lookup THEN lookup[v[1]] ELSE v[1] \in beats

TypeOK ==
    /\ setup \in Setups
    /\ vfs \subseteq Vfs /\ driver \in [Vfs -> {"kernel", "dpdk", ""}]
    /\ beats \subseteq Pfs /\ services \in [Pfs -> Services]
    /\ pc \in {"down", "list", "vf", "bind", "inspect", "wait"}
    /\ todo \in Seq(Vfs) /\ (pc \in {"bind", "inspect"} => todo # <<>>)
    /\ n + Len(todo) <= setup.maxDevices /\ n = Cardinality(tree)
    /\ DOMAIN lookup \subseteq Pfs
    /\ \A d \in tree \cup table : d.vf \in Vfs /\ d.healthy \in BOOLEAN
    /\ Cardinality(table) <= setup.maxDevices
    /\ \A c \in Containers : held[c].vfs \subseteq Vfs /\ retyped[c] \subseteq held[c].vfs
    /\ events \in 0..MaxEvent /\ faults \in 0..MaxFault

Init ==
    /\ setup \in Setups
    /\ vfs = Vfs
    /\ driver = [v \in Vfs |-> "kernel"]
    /\ beats = Pfs
    /\ services = [p \in Pfs |-> setup.services]
    /\ pc = "list" /\ todo = <<>> /\ n = 0 /\ lookup = <<>> /\ tree = {} /\ table = {}
    /\ held = [c \in Containers |-> None]
    /\ env = [c \in Containers |-> {}]
    /\ retyped = [c \in Containers |-> {}]
    /\ events = 0 /\ faults = 0

Event == events < MaxEvent /\ events' = events + 1
Fault == faults < MaxFault /\ faults' = faults + 1

-----------------------------------------------------------------------------
(* Hardware and administrator.                                             *)

Heartbeat(p) ==
    /\ Event
    /\ beats' = IF p \in beats THEN beats \ {p} ELSE beats \cup {p}
    /\ UNCHANGED <<setup, vfs, driver, services, pc, scanVars, table, podVars, faults>>

SameServices(s, t) == s = t \/ {s, t} = {"sym-asym", "asym-sym"}

Configure(p, s) ==
    /\ Event /\ s # services[p]
    /\ services' = [services EXCEPT ![p] = s]
    /\ retyped' = [c \in Containers |->
         IF SameServices(s, services[p]) THEN retyped[c]
         ELSE retyped[c] \cup {v \in held[c].vfs : v[1] = p}]
    /\ UNCHANGED <<setup, vfs, driver, beats, pc, scanVars, table, held, env, faults>>

(* sriov_numvfs is written: all VFs of a PF go, or come, with the kernel's *)
(* driver or with none.                                                    *)
SetNumVfs(p) ==
    LET V == {v \in Vfs : v[1] = p} IN
    /\ IF V \subseteq vfs
       THEN Event /\ vfs' = vfs \ V /\ driver' = [v \in Vfs |-> IF v \in V THEN "" ELSE driver[v]]
       ELSE /\ UNCHANGED events /\ vfs' = vfs \cup V
            /\ \E d \in {"kernel", ""} :
                 driver' = [v \in Vfs |-> IF v \in V THEN d ELSE driver[v]]
    /\ UNCHANGED <<setup, beats, services, pc, scanVars, table, podVars, faults>>

-----------------------------------------------------------------------------
(* Scan.  Any error ends it, and with it the process.                      *)

Exits ==
    /\ pc' = "down"
    /\ todo' = <<>> /\ n' = 0 /\ lookup' = <<>> /\ tree' = {} /\ table' = {}

Restart ==
    /\ pc = "down"
    /\ pc' = "list"
    /\ UNCHANGED <<setup, hwVars, scanVars, table, podVars, events, faults>>

ScanBegin ==
    /\ pc = "list"
    /\ pc' = "vf"
    /\ todo' = getVfDevices
    /\ n' = 0 /\ lookup' = <<>> /\ tree' = {}
    /\ UNCHANGED <<setup, hwVars, table, podVars, events, faults>>

(* Writes to the driver's unbind and bind files, which fail for a VF that  *)
(* is gone.                                                                *)
writeToDriver(v, d, next) ==
    \/ /\ v \in vfs
       /\ driver' = [driver EXCEPT ![v] = d]
       /\ pc' = next
       /\ UNCHANGED <<scanVars, table, faults>>
    \/ /\ IF v \in vfs THEN Fault ELSE UNCHANGED faults
       /\ Exits /\ UNCHANGED driver

(* A VF without a driver is taken for one that is bound.                   *)
VfIfBound ==
    /\ pc = "vf" /\ todo # <<>>
    /\ LET v == Head(todo) IN
       IF driver[v] = "kernel" THEN writeToDriver(v, "", "bind")
       ELSE pc' = "inspect" /\ UNCHANGED <<driver, scanVars, table, faults>>
    /\ UNCHANGED <<setup, vfs, beats, services, podVars, events>>

(* The next VF: it is unbound if another driver has it.                    *)
Vf ==
    /\ pc = "vf" /\ todo # <<>>
    /\ LET v == Head(todo) IN
       IF driver[v] = "kernel" THEN writeToDriver(v, "", "bind")
       ELSE /\ pc' = IF driver[v] = "" THEN "bind" ELSE "inspect"
            /\ UNCHANGED <<driver, scanVars, table, faults>>
    /\ UNCHANGED <<setup, vfs, beats, services, podVars, events>>

Bind ==
    /\ pc = "bind"
    /\ writeToDriver(Head(todo), "dpdk", "inspect")
    /\ UNCHANGED <<setup, vfs, beats, services, podVars, events>>

(* Whether the VF has a device to hand out: a uio entry of its driver, or  *)
(* an iommu group, which it has with any driver.                           *)
getDpdkDevice(v) ==
    v \in vfs /\ (setup.dpdkDriver = "igb_uio" => driver[v] = "dpdk")

Device(v, cap, healthy, number) == [vf |-> v, cap |-> cap, healthy |-> healthy, env |-> number]

(* Devices that are numbered by their function.                            *)
AddDeviceByFunction(v, cap) == Device(v, cap, getDeviceHealthiness(v), v[2])

AddDevice(v, cap) == Device(v, cap, getDeviceHealthiness(v), n + 1)

(* A read of the configuration that fails makes the VF a generic one; a    *)
(* device id that cannot be read ends the scan.                            *)
Inspect ==
    /\ pc = "inspect"
    /\ LET v == Head(todo) IN
       \/ /\ getDpdkDevice(v)
          /\ \E cap \in {getDeviceCapabilities(v), "generic"} :
               /\ IF cap = getDeviceCapabilities(v) THEN UNCHANGED <<faults, retyped>>
                  ELSE /\ Fault
                       /\ retyped' = [c \in Containers |-> retyped[c] \cup ({v} \cap held[c].vfs)]
               /\ tree' = tree \cup {AddDevice(v, cap)}
               /\ lookup' = IF setup.vm THEN lookup
                            ELSE [p \in DOMAIN lookup \cup {v[1]} |->
                                    IF p = v[1] THEN getDeviceHealthiness(v) ELSE lookup[p]]
          /\ n' = n + 1 /\ todo' = Tail(todo) /\ pc' = "vf"
          /\ UNCHANGED table
       \/ /\ IF getDpdkDevice(v) THEN Fault ELSE UNCHANGED faults
          /\ Exits /\ UNCHANGED retyped
    /\ UNCHANGED <<setup, hwVars, held, env, events>>

Notify ==
    /\ pc = "vf" /\ todo = <<>>
    /\ table' = tree
    /\ pc' = "wait"
    /\ n' = 0 /\ lookup' = <<>> /\ tree' = {} /\ UNCHANGED todo
    /\ UNCHANGED <<setup, hwVars, podVars, events, faults>>

Tick ==
    /\ pc = "wait"
    /\ pc' = "list"
    /\ UNCHANGED <<setup, hwVars, scanVars, table, podVars, events, faults>>

-----------------------------------------------------------------------------
(* Allocation.  The kubelet knows a VF by its resource and its address.    *)

Available(cap) ==
    {d.vf : d \in {x \in table : /\ x.cap = cap /\ x.healthy
                                 /\ \A c \in Containers : held[c].cap = cap => x.vf \notin held[c].vfs}}

(* The policies: the VFs they may choose, k of the available ones.  The    *)
(* kubelet lists them in any order.                                        *)
nonePolicy(A, k) == {S \in SUBSET A : Cardinality(S) = k}

(* The first k after sorting.                                              *)
FirstOf(A, k, Before(_, _)) ==
    {S \in nonePolicy(A, k) : \A v \in S, w \in A \ S : Before(v, w)}

packedPolicy(A, k) == FirstOf(A, k, BDF)

(* Addresses sorted as they are.                                           *)
balancedPolicyBDF(A, k) == FirstOf(A, k, BDF)

balancedPolicy(A, k) == FirstOf(A, k, FDB)

GetPreferredAllocation(A, k) ==
    IF k > Cardinality(A) THEN {}
    ELSE CASE setup.policy = "none"     -> nonePolicy(A, k)
           [] setup.policy = "packed"   -> packedPolicy(A, k)
           [] setup.policy = "balanced" -> balancedPolicy(A, k)

(* The environment of one container names, for each number its devices     *)
(* have, one of the VFs with that number; it is numbered anew.             *)
PostAllocate(D) ==
    {{f[m].vf : m \in DOMAIN f} :
       f \in {g \in [{d.env : d \in D} -> D] : \A m \in DOMAIN g : g[m].env = m}}

Start(c, cap) ==
    /\ held[c] = None
    /\ \E S \in GetPreferredAllocation(Available(cap), Size[c]) :
         /\ held' = [held EXCEPT ![c] = [cap |-> cap, vfs |-> S]]
         /\ \E e \in PostAllocate({d \in table : d.vf \in S}) : env' = [env EXCEPT ![c] = e]
         /\ retyped' = [retyped EXCEPT ![c] = {v \in S : cap # getDeviceCapabilities(v)}]
    /\ UNCHANGED <<setup, hwVars, pc, scanVars, table, events, faults>>

End(c) ==
    /\ held[c] # None
    /\ held' = [held EXCEPT ![c] = None]
    /\ env' = [env EXCEPT ![c] = {}]
    /\ retyped' = [retyped EXCEPT ![c] = {}]
    /\ UNCHANGED <<setup, hwVars, pc, scanVars, table, events, faults>>

-----------------------------------------------------------------------------
Plugin == ScanBegin \/ Vf \/ Bind \/ Inspect \/ Notify \/ Tick

Next ==
    \/ Plugin \/ Restart
    \/ \E p \in Pfs : ~setup.vm /\ (Heartbeat(p) \/ SetNumVfs(p) \/ \E s \in Services : Configure(p, s))
    \/ \E c \in Containers : End(c) \/ \E cap \in {d.cap : d \in table} : Start(c, cap)

Spec == Init /\ [][Next]_vars

(* The plugin runs and is restarted; what can fail does so finitely often. *)
FairSpec == Spec /\ WF_vars(Plugin) /\ WF_vars(Restart)

-----------------------------------------------------------------------------
(* VFs of one PF are advertised with the same health, whenever the         *)
(* heartbeat changes during a scan (getDeviceHealthiness).                 *)
UniformHealth ==
    \A d, e \in table : d.vf[1] = e.vf[1] => d.healthy = e.healthy

(* The environment of a container names exactly its VFs (scan numbers the  *)
(* devices, Allocate merges their variables, PostAllocate renames them).   *)
EnvNamesDevices == \A c \in Containers : env[c] = held[c].vfs

(* Two containers have a VF in common only when its services were changed, *)
(* or could not be read, since the scan that gave it to one of them: the   *)
(* same services in another order do not move it (getDeviceCapabilities).  *)
ExclusiveUnlessRetyped ==
    \A c, d \in Containers : c # d =>
      held[c].vfs \cap held[d].vfs \subseteq retyped[c] \cup retyped[d]

Fns(A, p)     == {v[2] : v \in {w \in A : w[1] = p}}
PfsOf(A)      == {v[1] : v \in A}

(* S out of A, under each policy.                                          *)
ByPolicy(A, S) ==
    /\ setup.policy = "packed" =>
         \A p, q \in PfsOf(A) : p # q =>
           \/ Fns(S, p) \in {{}, Fns(A, p)}
           \/ Fns(S, q) \in {{}, Fns(A, q)}
    /\ setup.policy = "balanced" =>
         \A p, q \in PfsOf(A) : Fns(A, p) = Fns(A, q) =>
           Cardinality(Fns(S, p)) <= Cardinality(Fns(S, q)) + 1

(* Packed allocation leaves at most one PF with some of its available VFs  *)
(* taken.  Balanced allocation takes equally many from PFs with the same   *)
(* functions available, give or take one (packedPolicy, balancedPolicy).   *)
PolicyKept ==
    [][\A c \in Containers : held[c] = None /\ held'[c] # None =>
         ByPolicy(Available(held'[c].cap), held'[c].vfs)]_vars

Expected ==
    {Device(getVfDevices[i], getDeviceCapabilities(getVfDevices[i]),
            setup.vm \/ getVfDevices[i][1] \in beats, i) : i \in DOMAIN getVfDevices}

(* Whatever failed or changed, and wherever the scan was cut off, the      *)
(* plugin comes to advertise the first VFs as they are, all of them bound  *)
(* to the DPDK driver (scan).                                              *)
Settles ==
    <>[](/\ table = Expected
         /\ \A d \in table : driver[d.vf] = "dpdk")
=============================================================================
