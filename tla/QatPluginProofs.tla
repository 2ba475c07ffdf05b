--------------------------- MODULE QatPluginProofs ---------------------------
(***************************************************************************)
(* Proofs about QatPlugin, for any number of functions, containers,        *)
(* events and faults: health is uniform per physical function,             *)
(* environments name the devices, a virtual function is shared only after  *)
(* its services were changed or misread, allocations follow the policy,    *)
(* and the types.                                                          *)
(***************************************************************************)
EXTENDS QatPlugin, FiniteSetTheorems, SequenceTheorems, TLAPS

(* The three properties come from three facts.  What a scan has built so   *)
(* far is numbered, and has the health its lookup says; so is what was     *)
(* notified.                                                               *)
TreeNumbered ==
    /\ n \in Nat
    /\ \A d \in tree : d.vf \in Vfs /\ d.env \in 1..n
    /\ \A d, e \in tree : d.env = e.env => d = e

TreeHealth ==
    \A d \in tree : IF setup.vm THEN d.healthy = TRUE
                    ELSE d.vf[1] \in DOMAIN lookup /\ d.healthy = lookup[d.vf[1]]

TableNumbered ==
    /\ \A d \in table : d.vf \in Vfs
    /\ \A d, e \in table : d.env = e.env => d = e

(* A container's functions still belong to the resource it got them from,  *)
(* but for the retyped ones, and containers of one resource share none.    *)
Capable ==
    \A c \in Containers : \A v \in held[c].vfs \ retyped[c] :
      held[c].cap = getDeviceCapabilities(v)

Apart ==
    \A c, d \in Containers :
      c # d /\ held[c].cap = held[d].cap => held[c].vfs \cap held[d].vfs = {}

Shape ==
    /\ setup \in Setups /\ vfs \subseteq Vfs
    /\ services = [p \in Pfs |-> services[p]]
    /\ held = [c \in Containers |-> held[c]]
    /\ env = [c \in Containers |-> env[c]]
    /\ retyped = [c \in Containers |-> retyped[c]]
    /\ \A c \in Containers : held[c].vfs \subseteq Vfs

ScanInv == TreeNumbered /\ TreeHealth /\ TableNumbered /\ UniformHealth
PodInv  == Capable /\ Apart /\ EnvNamesDevices

IInv == Shape /\ ScanInv /\ PodInv

-----------------------------------------------------------------------------
(* Which variables the two halves depend on.                               *)
LEMMA ScanFrame ==
    ASSUME ScanInv, UNCHANGED <<setup, n, tree, lookup, table>>
    PROVE  ScanInv'
BY Zenon DEF ScanInv, TreeNumbered, TreeHealth, TableNumbered, UniformHealth

LEMMA PodFrame ==
    ASSUME Shape, PodInv, UNCHANGED <<setup, services, held, env, retyped>>
    PROVE  PodInv'
BY Zenon DEF Shape, PodInv, Capable, Apart, EnvNamesDevices, getDeviceCapabilities,
       readDeviceConfiguration

(* A process that ended has no devices.                                    *)
LEMMA ExitsScan ==
    ASSUME Exits
    PROVE  ScanInv'
BY Zenon DEF Exits, ScanInv, TreeNumbered, TreeHealth, TableNumbered, UniformHealth

LEMMA InitIInv == Init => IInv
<1> SUFFICES ASSUME Init PROVE IInv
    BY Zenon
<1>1. Shape
    BY Zenon DEF Init, Shape, None
<1>2. ScanInv
    BY Zenon DEF Init, ScanInv, TreeNumbered, TreeHealth, TableNumbered, UniformHealth
<1>3. PodInv
    BY Zenon DEF Init, PodInv, Capable, Apart, EnvNamesDevices, None
<1>4. QED
    BY Zenon, <1>1, <1>2, <1>3 DEF IInv

-----------------------------------------------------------------------------
(* The steps of the scan.                                                  *)

LEMMA WriteIInv ==
    ASSUME NEW v, NEW d, NEW next, IInv, writeToDriver(v, d, next),
           UNCHANGED <<setup, vfs, beats, services, podVars, events>>
    PROVE  IInv'
<1>1. Shape'
    BY Zenon DEF IInv, Shape, podVars
<1>2. PodInv'
    BY Zenon, PodFrame DEF IInv, podVars
<1>3. ScanInv'
  <2>1. CASE UNCHANGED <<scanVars, table>>
      BY Zenon, <2>1, ScanFrame DEF IInv, scanVars
  <2>2. CASE Exits
      BY Zenon, <2>2, ExitsScan
  <2>3. QED
      BY Zenon, <2>1, <2>2 DEF writeToDriver
<1>4. QED
    BY Zenon, <1>1, <1>2, <1>3 DEF IInv

(* A device is added: it has a number of its own, and the health the       *)
(* lookup has, or now gets, for its physical function.                     *)
LEMMA AddScan ==
    ASSUME IInv, NEW v \in vfs, NEW cap,
           tree' = tree \cup {AddDevice(v, cap)},
           lookup' = IF setup.vm THEN lookup
                     ELSE [p \in DOMAIN lookup \cup {v[1]} |->
                             IF p = v[1] THEN getDeviceHealthiness(v) ELSE lookup[p]],
           n' = n + 1, UNCHANGED <<setup, table>>
    PROVE  ScanInv'
<1> DEFINE new == AddDevice(v, cap)
<1>1. new.vf = v /\ new.env = n + 1 /\ new.healthy = getDeviceHealthiness(v)
    BY Zenon DEF AddDevice, Device
<1>2. v \in Vfs
    BY Zenon DEF IInv, Shape
<1>3. TreeNumbered'
    BY <1>1, <1>2 DEF IInv, ScanInv, TreeNumbered
<1>4. TreeHealth'
  <2> SUFFICES ASSUME NEW d \in tree'
               PROVE  IF setup.vm THEN d.healthy = TRUE
                      ELSE d.vf[1] \in DOMAIN lookup' /\ d.healthy = lookup'[d.vf[1]]
      BY Zenon DEF TreeHealth
  <2>1. CASE d = new
      BY Zenon, <1>1, <2>1 DEF getDeviceHealthiness
  <2>2. CASE d \in tree
      BY Zenon, <2>2 DEF IInv, ScanInv, TreeHealth, getDeviceHealthiness
  <2>3. QED
      BY Zenon, <2>1, <2>2
<1>5. (TableNumbered /\ UniformHealth)'
    BY Zenon DEF IInv, ScanInv, TableNumbered, UniformHealth
<1>6. QED
    BY Zenon, <1>3, <1>4, <1>5 DEF ScanInv

LEMMA InspectIInv ==
    ASSUME IInv, Inspect
    PROVE  IInv'
<1>1. UNCHANGED <<setup, hwVars, held, env>>
    BY Zenon DEF Inspect
<1>2. \/ retyped' = retyped
      \/ \E v : retyped' = [c \in Containers |-> retyped[c] \cup ({v} \cap held[c].vfs)]
    BY Zenon DEF Inspect
<1>3. Shape'
    BY Zenon, <1>1, <1>2 DEF IInv, Shape, hwVars
<1>4. PodInv'
  <2>1. \A c \in Containers : retyped[c] \subseteq retyped'[c]
      BY Zenon, <1>2
  <2>2. Capable'
      BY Zenon, <1>1, <2>1 DEF IInv, PodInv, Capable, getDeviceCapabilities,
                        readDeviceConfiguration, hwVars
  <2>3. (Apart /\ EnvNamesDevices)'
      BY Zenon, <1>1 DEF IInv, PodInv, Apart, EnvNamesDevices
  <2>4. QED
      BY Zenon, <2>2, <2>3 DEF PodInv
<1>5. ScanInv'
  <2>1. CASE Exits
      BY Zenon, <2>1, ExitsScan
  <2>2. CASE ~Exits
    <3> DEFINE v == Head(todo)
    <3>1. PICK cap : tree' = tree \cup {AddDevice(v, cap)}
        BY Zenon, <2>2 DEF Inspect
    <3>2. /\ v \in vfs
          /\ lookup' = IF setup.vm THEN lookup
                       ELSE [p \in DOMAIN lookup \cup {v[1]} |->
                               IF p = v[1] THEN getDeviceHealthiness(v) ELSE lookup[p]]
          /\ n' = n + 1 /\ UNCHANGED table
        BY Zenon, <2>2 DEF Inspect, getDpdkDevice
    <3>3. QED
        BY Zenon, <1>1, <3>1, <3>2, AddScan
  <2>3. QED
      BY Zenon, <2>1, <2>2
<1>6. QED
    BY Zenon, <1>3, <1>4, <1>5 DEF IInv

LEMMA PluginIInv ==
    ASSUME IInv, Plugin
    PROVE  IInv'
<1>1. CASE ScanBegin
  <2>1. ScanInv'
      BY Zenon, <1>1 DEF ScanBegin, IInv, ScanInv, TreeNumbered, TreeHealth, TableNumbered,
                  UniformHealth
  <2>2. Shape' /\ PodInv'
      BY Zenon, <1>1, PodFrame DEF ScanBegin, IInv, Shape, hwVars, podVars
  <2>3. QED
      BY Zenon, <2>1, <2>2 DEF IInv
<1>2. CASE Vf
  <2>1. CASE driver[Head(todo)] = "kernel"
      BY Zenon, <1>2, <2>1, WriteIInv DEF Vf
  <2>2. CASE driver[Head(todo)] # "kernel"
    <3>1. UNCHANGED <<scanVars, table, setup, vfs, services, podVars>>
        BY Zenon, <1>2, <2>2 DEF Vf
    <3>2. Shape'
        BY Zenon, <3>1 DEF IInv, Shape, podVars
    <3>3. QED
        BY Zenon, <3>1, <3>2, ScanFrame, PodFrame DEF IInv, scanVars, podVars
  <2>3. QED
      BY Zenon, <2>1, <2>2
<1>3. CASE Bind
    BY Zenon, <1>3, WriteIInv DEF Bind
<1>4. CASE Inspect
    BY Zenon, <1>4, InspectIInv
<1>5. CASE Notify
  <2>1. UNCHANGED <<setup, hwVars, podVars>>
      BY Zenon, <1>5 DEF Notify
  <2>2. Shape' /\ PodInv'
      BY Zenon, <2>1, PodFrame DEF IInv, Shape, hwVars, podVars
  <2>3. table' = tree /\ tree' = {} /\ n' = 0
      BY Zenon, <1>5 DEF Notify
  <2>4. (TreeNumbered /\ TreeHealth)'
      BY Zenon, <2>3 DEF TreeNumbered, TreeHealth
  <2>5. TableNumbered'
      BY Zenon, <2>3 DEF IInv, ScanInv, TreeNumbered, TableNumbered
  <2>6. UniformHealth'
    <3> SUFFICES ASSUME NEW d \in tree, NEW e \in tree, d.vf[1] = e.vf[1]
                 PROVE  d.healthy = e.healthy
        BY Zenon, <2>3 DEF UniformHealth
    <3>1. CASE setup.vm
        BY Zenon, <3>1 DEF IInv, ScanInv, TreeHealth
    <3>2. CASE ~setup.vm
        BY Zenon, <3>2 DEF IInv, ScanInv, TreeHealth
    <3>3. QED
        BY Zenon, <3>1, <3>2
  <2>7. QED
      BY Zenon, <2>2, <2>4, <2>5, <2>6 DEF IInv, ScanInv
<1>6. CASE Tick
  <2>1. UNCHANGED <<setup, hwVars, scanVars, table, podVars>>
      BY Zenon, <1>6 DEF Tick
  <2>2. Shape'
      BY Zenon, <2>1 DEF IInv, Shape, hwVars, podVars
  <2>3. QED
      BY Zenon, <2>1, <2>2, ScanFrame, PodFrame DEF IInv, hwVars, scanVars, podVars
<1>7. QED
    BY Zenon, <1>1, <1>2, <1>3, <1>4, <1>5, <1>6 DEF Plugin

-----------------------------------------------------------------------------
(* Hardware and administrator.                                             *)

(* A service list in another order is the same resource; any other makes   *)
(* the functions of p retyped.                                             *)
LEMMA ConfigureIInv ==
    ASSUME IInv, NEW p \in Pfs, NEW s \in Services, Configure(p, s)
    PROVE  IInv'
<1>1. /\ services' = [services EXCEPT ![p] = s]
      /\ retyped' = [c \in Containers |->
           IF SameServices(s, services[p]) THEN retyped[c]
           ELSE retyped[c] \cup {v \in held[c].vfs : v[1] = p}]
      /\ UNCHANGED <<setup, vfs, scanVars, table, held, env>>
    BY Zenon DEF Configure
<1>2. Shape'
    BY Zenon, <1>1 DEF IInv, Shape
<1>3. ScanInv'
    BY Zenon, <1>1, ScanFrame DEF IInv, scanVars
<1>4. Capable'
  <2> SUFFICES ASSUME NEW c \in Containers, NEW v \in held[c].vfs \ retyped'[c]
               PROVE  held[c].cap = getDeviceCapabilities(v)'
      BY Zenon, <1>1 DEF Capable
  <2>1. v \in Vfs /\ v[1] \in Pfs
      BY Zenon DEF IInv, Shape, Vfs
  <2>2. held[c].cap = getDeviceCapabilities(v)
      BY Zenon, <1>1 DEF IInv, PodInv, Capable
  <2>3. CASE v[1] # p
    <3>1. services'[v[1]] = services[v[1]]
        BY Zenon, <1>1, <2>1, <2>3 DEF IInv, Shape
    <3>2. QED
        BY Zenon, <1>1, <2>2, <3>1 DEF getDeviceCapabilities, readDeviceConfiguration
  <2>4. CASE v[1] = p
    <3>1. SameServices(s, services[p])
        BY Zenon, <1>1, <2>4
    <3>2. services'[v[1]] = s
        BY Zenon, <1>1, <2>1, <2>4 DEF IInv, Shape
    <3>3. s = services[p] \/ (s \in {"sym-asym", "asym-sym"} /\ services[p] \in {"sym-asym", "asym-sym"})
        BY Zenon, <3>1 DEF SameServices
    <3>4. QED
        BY Zenon, <1>1, <2>2, <2>4, <3>2, <3>3 DEF getDeviceCapabilities, readDeviceConfiguration
  <2>5. QED
      BY Zenon, <2>3, <2>4
<1>5. (Apart /\ EnvNamesDevices)'
    BY Zenon, <1>1 DEF IInv, PodInv, Apart, EnvNamesDevices
<1>6. QED
    BY Zenon, <1>2, <1>3, <1>4, <1>5 DEF IInv, PodInv

LEMMA HardwareIInv ==
    ASSUME IInv, NEW p \in Pfs, Heartbeat(p) \/ SetNumVfs(p)
    PROVE  IInv'
<1>1. UNCHANGED <<setup, services, scanVars, table, podVars>>
    BY Zenon DEF Heartbeat, SetNumVfs
<1>2. vfs' \subseteq Vfs
    BY Zenon DEF Heartbeat, SetNumVfs, IInv, Shape
<1>3. Shape'
    BY Zenon, <1>1, <1>2 DEF IInv, Shape, podVars
<1>4. QED
    BY Zenon, <1>1, <1>3, ScanFrame, PodFrame DEF IInv, scanVars, podVars

-----------------------------------------------------------------------------
(* Allocation.                                                             *)

(* Whatever the policy, the chosen functions are available ones.           *)
LEMMA PolicyChooses ==
    ASSUME setup \in Setups, NEW A, NEW k, NEW S \in GetPreferredAllocation(A, k)
    PROVE  S \subseteq A
<1>1. setup.policy \in Policies
    BY Zenon, SetupAssumption
<1>2. \A T \in nonePolicy(A, k) : T \subseteq A
    BY Zenon DEF nonePolicy
<1>3. packedPolicy(A, k) \subseteq nonePolicy(A, k) /\ balancedPolicy(A, k) \subseteq nonePolicy(A, k)
    BY Zenon DEF packedPolicy, balancedPolicy, FirstOf
<1>4. QED
    BY Zenon, <1>1, <1>2, <1>3 DEF GetPreferredAllocation, Policies

(* Devices with different numbers: nothing is lost when their variables    *)
(* are merged.                                                             *)
LEMMA NumbersKeepAll ==
    ASSUME NEW D, \A d, e \in D : d.env = e.env => d = e, NEW E \in PostAllocate(D)
    PROVE  E = {d.vf : d \in D}
<1>1. PICK f \in [{d.env : d \in D} -> D] :
         (\A m \in DOMAIN f : f[m].env = m) /\ E = {f[m].vf : m \in DOMAIN f}
    BY Zenon DEF PostAllocate
<1>2. \A d \in D : d.env \in DOMAIN f /\ f[d.env] = d
    BY Zenon, <1>1
<1>3. QED
    BY <1>1, <1>2

LEMMA StartIInv ==
    ASSUME IInv, NEW c \in Containers, NEW cap, Start(c, cap)
    PROVE  IInv'
<1>1. PICK S \in GetPreferredAllocation(Available(cap), Size[c]) :
         /\ held' = [held EXCEPT ![c] = [cap |-> cap, vfs |-> S]]
         /\ \E e \in PostAllocate({d \in table : d.vf \in S}) : env' = [env EXCEPT ![c] = e]
         /\ retyped' = [retyped EXCEPT ![c] = {v \in S : cap # getDeviceCapabilities(v)}]
    BY Zenon DEF Start
<1>2. UNCHANGED <<setup, hwVars, scanVars, table>>
    BY Zenon DEF Start
<1>3. S \subseteq Available(cap)
    BY Zenon, PolicyChooses DEF IInv, Shape
<1>4. /\ S \subseteq {d.vf : d \in table}
      /\ \A d \in Containers : held[d].cap = cap => held[d].vfs \cap S = {}
    BY <1>3 DEF Available
<1>5. Shape'
  <2>1. S \subseteq Vfs
      BY <1>4 DEF IInv, ScanInv, TableNumbered
  <2>2. PICK e : env' = [env EXCEPT ![c] = e]
      BY Zenon, <1>1
  <2>3. QED
      BY Zenon, <1>1, <1>2, <2>1, <2>2 DEF IInv, Shape, hwVars
<1>6. ScanInv'
    BY Zenon, <1>2, ScanFrame DEF IInv, scanVars
<1>7. held'[c] = [cap |-> cap, vfs |-> S] /\ \A d \in Containers \ {c} : held'[d] = held[d]
    BY Zenon, <1>1 DEF IInv, Shape
<1>8. Capable'
  <2>1. /\ retyped'[c] = {v \in S : cap # getDeviceCapabilities(v)}
        /\ \A d \in Containers \ {c} : retyped'[d] = retyped[d]
      BY Zenon, <1>1 DEF IInv, Shape
  <2>2. \A v : getDeviceCapabilities(v)' = getDeviceCapabilities(v)
      BY Zenon, <1>2 DEF getDeviceCapabilities, readDeviceConfiguration, hwVars
  <2> SUFFICES ASSUME NEW d \in Containers, NEW v \in held'[d].vfs \ retyped'[d]
               PROVE  held'[d].cap = getDeviceCapabilities(v)
      BY Zenon, <2>2 DEF Capable
  <2>3. CASE d = c
      BY <1>7, <2>1, <2>3
  <2>4. CASE d # c
      BY Zenon, <1>7, <2>1, <2>4 DEF IInv, PodInv, Capable
  <2>5. QED
      BY Zenon, <2>3, <2>4
<1>9. Apart'
    BY <1>4, <1>7 DEF IInv, PodInv, Apart
<1>10. EnvNamesDevices'
  <2> DEFINE D == {d \in table : d.vf \in S}
  <2>1. PICK e \in PostAllocate(D) : env' = [env EXCEPT ![c] = e]
      BY Zenon, <1>1
  <2>2. \A x, y \in D : x.env = y.env => x = y
      BY Zenon DEF IInv, ScanInv, TableNumbered
  <2>3. e = {d.vf : d \in D}
      BY Zenon, <2>2, NumbersKeepAll
  <2>4. e = S
      BY Zenon, <1>4, <2>3
  <2>5. env'[c] = S /\ \A d \in Containers \ {c} : env'[d] = env[d]
      BY Zenon, <2>1, <2>4 DEF IInv, Shape
  <2>6. QED
      BY <1>7, <2>5 DEF IInv, PodInv, EnvNamesDevices
<1>11. QED
    BY Zenon, <1>5, <1>6, <1>8, <1>9, <1>10 DEF IInv, PodInv

LEMMA EndIInv ==
    ASSUME IInv, NEW c \in Containers, End(c)
    PROVE  IInv'
<1>1. /\ held' = [held EXCEPT ![c] = None] /\ env' = [env EXCEPT ![c] = {}]
      /\ retyped' = [retyped EXCEPT ![c] = {}]
      /\ UNCHANGED <<setup, hwVars, scanVars, table>>
    BY Zenon DEF End
<1>2. /\ held'[c].vfs = {} /\ env'[c] = {}
      /\ \A d \in Containers \ {c} : held'[d] = held[d] /\ env'[d] = env[d] /\ retyped'[d] = retyped[d]
    BY Zenon, <1>1 DEF IInv, Shape, None
<1>3. Shape'
    BY Zenon, <1>1, <1>2 DEF IInv, Shape, hwVars
<1>4. ScanInv'
    BY Zenon, <1>1, ScanFrame DEF IInv, scanVars
<1>5. PodInv'
  <2>1. Capable'
      BY <1>1, <1>2 DEF IInv, PodInv, Capable, getDeviceCapabilities,
                        readDeviceConfiguration, hwVars
  <2>2. EnvNamesDevices'
      BY Zenon, <1>2 DEF IInv, PodInv, EnvNamesDevices
  <2>3. Apart'
    <3> SUFFICES ASSUME NEW x \in Containers, NEW y \in Containers, x # y,
                        held'[x].cap = held'[y].cap
                 PROVE  held'[x].vfs \cap held'[y].vfs = {}
        BY Zenon DEF Apart
    <3>1. CASE x = c \/ y = c
        BY Zenon, <1>2, <3>1
    <3>2. CASE x # c /\ y # c
        BY Zenon, <1>2, <3>2 DEF IInv, PodInv, Apart
    <3>3. QED
        BY Zenon, <3>1, <3>2
  <2>4. QED
      BY Zenon, <2>1, <2>2, <2>3 DEF PodInv
<1>6. QED
    BY Zenon, <1>3, <1>4, <1>5 DEF IInv

-----------------------------------------------------------------------------
(* Sorting and cutting off.                                                *)

LEMMA VfsFinite == IsFiniteSet(Vfs)
<1>1. NumPf \in Nat /\ NumFn \in Nat
    BY Zenon, SizeAssumption
<1>2. IsFiniteSet(1..NumPf) /\ IsFiniteSet(1..NumFn)
    BY <1>1, FS_Interval
<1>3. QED
    BY Zenon, <1>2, FS_Product DEF Vfs, Pfs

LEMMA VfParts ==
    ASSUME NEW v \in Vfs
    PROVE  v[1] \in Nat /\ v[2] \in Nat /\ v[1] \in Pfs /\ v = <<v[1], v[2]>>
BY SizeAssumption DEF Vfs, Pfs

(* Addresses are totally ordered.                                          *)
LEMMA BDFOrder ==
    /\ \A v \in Vfs : ~BDF(v, v)
    /\ \A v, w \in Vfs : v = w \/ BDF(v, w) \/ BDF(w, v)
    /\ \A u, v, w \in Vfs : BDF(u, v) /\ BDF(v, w) => BDF(u, w)
BY VfParts DEF BDF

(* Sorted lists every element of a set of functions, in the order of the   *)
(* addresses.  The number of elements below one is a rank that no two      *)
(* share, and there are as many ranks as elements.                         *)
LEMMA SortedSorts ==
    ASSUME NEW S \in SUBSET Vfs
    PROVE  /\ IsFiniteSet(S) /\ Cardinality(S) \in Nat
           /\ Sorted(S, BDF) \in [1..Cardinality(S) -> S]
           /\ \A v \in S : \E i \in 1..Cardinality(S) : Sorted(S, BDF)[i] = v
           /\ \A i, j \in 1..Cardinality(S) :
                i < j => BDF(Sorted(S, BDF)[i], Sorted(S, BDF)[j])
<1> DEFINE Below(v) == {w \in S : BDF(w, v)}
           N == Cardinality(S)
           rank == [v \in S |-> Cardinality(Below(v))]
           s == Sorted(S, BDF)
<1>1. IsFiniteSet(S) /\ N \in Nat
    BY Zenon, VfsFinite, FS_Subset, FS_CardinalityType
<1>2. \A v \in S : rank[v] \in 0..(N - 1)
  <2> SUFFICES ASSUME NEW v \in S PROVE Cardinality(Below(v)) \in 0..(N - 1)
      BY Zenon
  <2>1. Below(v) \in SUBSET S /\ v \notin Below(v)
      BY Zenon, BDFOrder
  <2>2. IsFiniteSet(Below(v)) /\ Cardinality(Below(v)) <= N /\ Cardinality(Below(v)) # N
      BY Zenon, <1>1, <2>1, FS_Subset
  <2>3. Cardinality(Below(v)) \in Nat
      BY Zenon, <2>2, FS_CardinalityType
  <2>4. QED
      BY <1>1, <2>2, <2>3
<1>3. \A v, w \in S : BDF(v, w) => rank[v] < rank[w]
  <2> SUFFICES ASSUME NEW v \in S, NEW w \in S, BDF(v, w)
               PROVE  Cardinality(Below(v)) < Cardinality(Below(w))
      BY Zenon
  <2>1. Below(v) \in SUBSET Below(w) /\ v \in Below(w) /\ v \notin Below(v)
      BY Zenon, BDFOrder
  <2>2. IsFiniteSet(Below(w))
      BY Zenon, <1>1, FS_Subset
  <2>3. /\ Cardinality(Below(v)) <= Cardinality(Below(w))
        /\ Cardinality(Below(v)) # Cardinality(Below(w))
      BY Zenon, <2>1, <2>2, FS_Subset
  <2>4. Cardinality(Below(v)) \in Int /\ Cardinality(Below(w)) \in Int
      BY <1>2
  <2>5. QED
      BY <2>3, <2>4
<1>4. rank \in Injection(S, 0..(N - 1))
  <2>1. rank \in [S -> 0..(N - 1)]
      BY Zenon, <1>2
  <2>2. \A v, w \in S : rank[v] = rank[w] => v = w
    <3> HIDE DEF rank
    <3>1. QED
        BY <1>2, <1>3, BDFOrder
  <2>3. QED
    <3> HIDE DEF rank
    <3>1. QED
        BY Zenon, <2>1, <2>2 DEF Injection, IsInjective
<1>5. rank \in Surjection(S, 0..(N - 1))
  <2>1. IsFiniteSet(0..(N - 1)) /\ Cardinality(0..(N - 1)) = N
    <3> HIDE DEF N
    <3>1. 0 \in Int /\ N - 1 \in Int
        BY <1>1
    <3>2. /\ IsFiniteSet(0..(N - 1))
          /\ Cardinality(0..(N - 1)) = IF 0 > N - 1 THEN 0 ELSE (N - 1) - 0 + 1
        BY Zenon, <3>1, FS_Interval
    <3>3. QED
        BY <1>1, <3>2
  <2>2. QED
      BY Zenon, <1>4, <2>1, FS_Injection
<1>6. \A i \in 1..N : s[i] \in S /\ rank[s[i]] = i - 1
  <2> SUFFICES ASSUME NEW i \in 1..N PROVE s[i] \in S /\ rank[s[i]] = i - 1
      BY Zenon
  <2>1. i - 1 \in 0..(N - 1)
      BY <1>1
  <2>2. PICK v \in S : rank[v] = i - 1
    <3> HIDE DEF rank
    <3>1. QED
        BY Zenon, <1>5, <2>1 DEF Surjection
  <2>3. s[i] = CHOOSE x \in S : Cardinality(Below(x)) = i - 1
      BY Zenon DEF Sorted
  <2>4. QED
      BY Zenon, <2>2, <2>3
<1>7. s \in [1..N -> S]
  <2> DEFINE Ranked(i) == CHOOSE x \in S : Cardinality(Below(x)) = i - 1
  <2>1. s = [i \in 1..N |-> Ranked(i)]
      BY Zenon DEF Sorted
  <2> HIDE DEF Ranked, s, rank, N
  <2>2. \A i \in 1..N : Ranked(i) \in S
      BY Zenon, <1>6, <2>1
  <2>3. QED
      BY Zenon, <2>1, <2>2
<1>8. \A v \in S : \E i \in 1..N : s[i] = v
  <2> SUFFICES ASSUME NEW v \in S PROVE \E i \in 1..N : s[i] = v
      BY Zenon
  <2> HIDE DEF rank, s
  <2>1. rank[v] + 1 \in 1..N
      BY <1>1, <1>2
  <2>2. s[rank[v] + 1] \in S /\ rank[s[rank[v] + 1]] = rank[v]
      BY <1>2, <1>6, <2>1
  <2>3. s[rank[v] + 1] = v
      BY Zenon, <1>4, <2>2 DEF Injection, IsInjective
  <2>4. QED
      BY Zenon, <2>1, <2>3
<1>9. \A i, j \in 1..N : i < j => BDF(s[i], s[j])
  <2> SUFFICES ASSUME NEW i \in 1..N, NEW j \in 1..N, i < j PROVE BDF(s[i], s[j])
      BY Zenon
  <2> HIDE DEF rank, s
  <2>1. s[i] \in S /\ s[j] \in S /\ rank[s[i]] = i - 1 /\ rank[s[j]] = j - 1
      BY Zenon, <1>6
  <2>2. s[i] # s[j] /\ ~BDF(s[j], s[i])
      BY <1>1, <1>3, <2>1
  <2>3. QED
      BY Zenon, <2>1, <2>2, BDFOrder
<1>10. QED
    BY Zenon, <1>1, <1>7, <1>8, <1>9

(* A scan starts with functions, at most maxDevices of them, and with no   *)
(* one twice: they are in the order of the addresses.                      *)
LEMMA TakenInOrder ==
    ASSUME setup \in Setups, vfs \subseteq Vfs
    PROVE  /\ getVfDevices \in Seq(Vfs) /\ Len(getVfDevices) <= setup.maxDevices
           /\ \A i, j \in 1..Len(getVfDevices) :
                i < j => BDF(getVfDevices[i], getVfDevices[j])
<1> DEFINE S == {v \in vfs : isValidVf(v)}
           s == Sorted(S, BDF)
           k == IF setup.maxDevices < Len(s) THEN setup.maxDevices ELSE Len(s)
<1>1. S \in SUBSET Vfs
    BY Zenon
<1>2. /\ Cardinality(S) \in Nat /\ s \in [1..Cardinality(S) -> S]
      /\ \A i, j \in 1..Cardinality(S) : i < j => BDF(s[i], s[j])
    BY Zenon, <1>1, SortedSorts
<1>3. getVfDevices = SubSeq(s, 1, k)
    BY Zenon DEF getVfDevices, Take
<1>4. setup.maxDevices \in Nat
    BY Zenon, SetupAssumption
<1> HIDE DEF s, S
<1>5. s \in Seq(S) /\ Len(s) = Cardinality(S)
    BY <1>2
<1>6. k \in Nat /\ k <= setup.maxDevices /\ k <= Cardinality(S)
    BY <1>2, <1>4, <1>5
<1> HIDE DEF k
<1>7. \A i \in 1..k : s[i] \in Vfs
    BY <1>1, <1>2, <1>6
<1>8. /\ SubSeq(s, 1, k) \in Seq(Vfs)
      /\ Len(SubSeq(s, 1, k)) = IF 1 <= k THEN k - 1 + 1 ELSE 0
      /\ \A i \in 1..(k - 1 + 1) : SubSeq(s, 1, k)[i] = s[1 + i - 1]
    BY <1>6, <1>7, SubSeqProperties
<1>9. Len(getVfDevices) = k /\ \A i \in 1..k : getVfDevices[i] = s[i]
    BY <1>3, <1>6, <1>8
<1>10. QED
    BY <1>2, <1>3, <1>4, <1>6, <1>8, <1>9

-----------------------------------------------------------------------------
(* Types, in three parts.  What a scan has read of a heartbeat is a truth  *)
(* value, and the numbers of its devices say how many there are.           *)
HwOK ==
    /\ setup \in Setups /\ vfs \subseteq Vfs
    /\ driver \in [Vfs -> {"kernel", "dpdk", ""}]
    /\ beats \subseteq Pfs /\ services \in [Pfs -> Services]
    /\ events \in 0..MaxEvent /\ faults \in 0..MaxFault

TodoOK ==
    /\ pc \in {"down", "list", "vf", "bind", "inspect", "wait"}
    /\ todo \in Seq(Vfs) /\ (pc \in {"bind", "inspect"} => todo # <<>>)
    /\ n \in Nat /\ n + Len(todo) <= setup.maxDevices

TreeOK ==
    /\ IsFiniteSet(tree) /\ n = Cardinality(tree)
    /\ DOMAIN lookup \subseteq Pfs /\ \A p \in DOMAIN lookup : lookup[p] \in BOOLEAN
    /\ \A d \in tree : d.vf \in Vfs /\ d.healthy \in BOOLEAN

TableOK ==
    /\ Cardinality(table) <= setup.maxDevices
    /\ \A d \in table : d.vf \in Vfs /\ d.healthy \in BOOLEAN

PodsOK ==
    \A c \in Containers : held[c].vfs \subseteq Vfs /\ retyped[c] \subseteq held[c].vfs

TypeInv == HwOK /\ TodoOK /\ TreeOK /\ TableOK /\ PodsOK

LEMMA InitTypes == Init => TypeInv
<1> SUFFICES ASSUME Init PROVE TypeInv
    BY Zenon
<1>1. MaxEvent \in Nat /\ MaxFault \in Nat /\ setup.maxDevices \in Nat /\ setup.services \in Services
    BY Zenon, SizeAssumption, SetupAssumption DEF Init
<1>2. HwOK
    BY <1>1 DEF Init, HwOK
<1>3. TodoOK
    BY <1>1 DEF Init, TodoOK
<1>4. TreeOK /\ TableOK
    BY <1>1, FS_EmptySet DEF Init, TreeOK, TableOK
<1>5. PodsOK
    BY Zenon DEF Init, PodsOK, None
<1>6. QED
    BY Zenon, <1>2, <1>3, <1>4, <1>5 DEF TypeInv

LEMMA ExitsTypes ==
    ASSUME HwOK, Exits, UNCHANGED setup
    PROVE  (TodoOK /\ TreeOK /\ TableOK)'
<1>1. setup.maxDevices \in Nat
    BY Zenon, SetupAssumption DEF HwOK
<1>2. QED
    BY <1>1, FS_EmptySet DEF Exits, TodoOK, TreeOK, TableOK

LEMMA FaultTypes ==
    ASSUME HwOK, Fault \/ UNCHANGED faults, UNCHANGED <<setup, vfs, driver, beats, services, events>>
    PROVE  HwOK'
<1>1. MaxFault \in Nat
    BY Zenon, SizeAssumption
<1>2. faults \in 0..MaxFault
    BY Zenon DEF HwOK
<1>3. faults' \in 0..MaxFault
    BY <1>1, <1>2 DEF Fault
<1>4. QED
    BY Zenon, <1>3 DEF HwOK

LEMMA EventTypes ==
    ASSUME HwOK, Event \/ UNCHANGED events
    PROVE  events' \in 0..MaxEvent
<1>1. MaxEvent \in Nat
    BY Zenon, SizeAssumption
<1>2. events \in 0..MaxEvent
    BY Zenon DEF HwOK
<1>3. QED
    BY <1>1, <1>2 DEF Event

LEMMA BoundsAreNumbers ==
    ASSUME TypeInv
    PROVE  setup.maxDevices \in Nat /\ Len(todo) \in Nat
<1>1. setup \in Setups /\ todo \in Seq(Vfs)
    BY Zenon DEF TypeInv, HwOK, TodoOK
<1>2. QED
    BY <1>1, SetupAssumption

LEMMA WriteTypes ==
    ASSUME TypeInv, todo # <<>>, NEW d \in {"dpdk", ""}, NEW next \in {"bind", "inspect"},
           writeToDriver(Head(todo), d, next),
           UNCHANGED <<setup, vfs, beats, services, podVars, events>>
    PROVE  TypeInv'
<1>1. PodsOK'
    BY Zenon DEF TypeInv, PodsOK, podVars
<1>2. CASE /\ driver' = [driver EXCEPT ![Head(todo)] = d]
           /\ pc' = next /\ UNCHANGED <<scanVars, table, faults>>
  <2>1. HwOK'
      BY Zenon, <1>2 DEF TypeInv, HwOK
  <2>2. TodoOK'
      BY Zenon, <1>2 DEF TypeInv, TodoOK, scanVars
  <2>3. TreeOK' /\ TableOK'
      BY Zenon, <1>2 DEF TypeInv, TreeOK, TableOK, scanVars
  <2>4. QED
      BY Zenon, <1>1, <2>1, <2>2, <2>3 DEF TypeInv
<1>3. CASE (Fault \/ UNCHANGED faults) /\ Exits /\ UNCHANGED driver
    BY Zenon, <1>1, <1>3, ExitsTypes, FaultTypes DEF TypeInv
<1>4. QED
    BY Zenon, <1>2, <1>3 DEF writeToDriver

(* A device that is added is a new one, for its number.                    *)
LEMMA AddTypes ==
    ASSUME IInv, TypeInv, todo # <<>>, NEW cap, getDpdkDevice(Head(todo)),
           tree' = tree \cup {AddDevice(Head(todo), cap)},
           lookup' = IF setup.vm THEN lookup
                     ELSE [p \in DOMAIN lookup \cup {Head(todo)[1]} |->
                             IF p = Head(todo)[1] THEN getDeviceHealthiness(Head(todo)) ELSE lookup[p]],
           n' = n + 1, todo' = Tail(todo), pc' = "vf", UNCHANGED <<table, setup>>
    PROVE  (TodoOK /\ TreeOK /\ TableOK)'
<1> DEFINE v == Head(todo)
           new == AddDevice(v, cap)
<1>1. v \in Vfs /\ v[1] \in Pfs
    BY VfParts DEF TypeInv, TodoOK
<1>2. getDeviceHealthiness(v) \in BOOLEAN
  <2>1. v[1] \in DOMAIN lookup => lookup[v[1]] \in BOOLEAN
      BY Zenon DEF TypeInv, TreeOK
  <2>2. CASE setup.vm
      BY Zenon, <2>2 DEF getDeviceHealthiness
  <2>3. CASE ~setup.vm /\ v[1] \in DOMAIN lookup
      BY <2>1, <2>3, Zenon DEF getDeviceHealthiness
  <2>4. CASE ~setup.vm /\ v[1] \notin DOMAIN lookup
    <3>1. getDeviceHealthiness(v) = (v[1] \in beats)
        BY <2>4, Zenon DEF getDeviceHealthiness
    <3>2. (v[1] \in beats) \in BOOLEAN
        OBVIOUS
    <3>3. QED
        BY <3>1, <3>2, Zenon
  <2>5. QED
      BY Zenon, <2>2, <2>3, <2>4
<1>3. new.vf = v /\ new.healthy = getDeviceHealthiness(v) /\ new.env = n + 1
    BY Zenon DEF AddDevice, Device
<1>4. new \notin tree
  <2>1. n \in Nat /\ \A d \in tree : d.env \in 1..n
      BY Zenon DEF IInv, ScanInv, TreeNumbered
  <2> HIDE DEF new
  <2>2. QED
      BY <1>3, <2>1
<1>5. IsFiniteSet(tree') /\ n' = Cardinality(tree')
    BY Zenon, <1>4, FS_AddElement DEF TypeInv, TreeOK
<1>6. DOMAIN lookup' \subseteq Pfs /\ \A p \in DOMAIN lookup' : lookup'[p] \in BOOLEAN
  <2>1. CASE setup.vm
      BY Zenon, <2>1 DEF TypeInv, TreeOK
  <2>2. CASE ~setup.vm
      BY Zenon, <1>1, <1>2, <2>2 DEF TypeInv, TreeOK
  <2>3. QED
      BY Zenon, <2>1, <2>2
<1>7. TreeOK'
    BY Zenon, <1>1, <1>2, <1>3, <1>5, <1>6 DEF TypeInv, TreeOK
<1>8. TodoOK'
  <2>1. Tail(todo) \in Seq(Vfs) /\ Len(Tail(todo)) = Len(todo) - 1
      BY Zenon, HeadTailProperties DEF TypeInv, TodoOK
  <2>2. setup.maxDevices \in Nat /\ Len(todo) \in Nat
      BY Zenon, BoundsAreNumbers
  <2>3. QED
      BY <2>1, <2>2 DEF TypeInv, TodoOK
<1>9. QED
    BY Zenon, <1>7, <1>8 DEF TypeInv, TableOK

LEMMA InspectTypes ==
    ASSUME IInv, TypeInv, Inspect
    PROVE  TypeInv'
<1>1. UNCHANGED <<setup, hwVars, held, env, events>> /\ todo # <<>>
    BY Zenon DEF Inspect, TypeInv, TodoOK
<1>2. HwOK'
  <2>1. Fault \/ UNCHANGED faults
      BY Zenon DEF Inspect
  <2>2. QED
      BY Zenon, <1>1, <2>1, FaultTypes DEF TypeInv, hwVars
<1>3. PodsOK'
  <2>1. \/ retyped' = retyped
        \/ \E v : retyped' = [c \in Containers |-> retyped[c] \cup ({v} \cap held[c].vfs)]
      BY Zenon DEF Inspect
  <2>2. QED
      BY Zenon, <1>1, <2>1 DEF TypeInv, PodsOK
<1>4. (TodoOK /\ TreeOK /\ TableOK)'
  <2>1. CASE Exits
      BY Zenon, <1>1, <2>1, ExitsTypes DEF TypeInv
  <2>2. CASE ~Exits
    <3> DEFINE v == Head(todo)
    <3>1. PICK cap : tree' = tree \cup {AddDevice(v, cap)}
        BY Zenon, <2>2 DEF Inspect
    <3>2. /\ getDpdkDevice(v)
          /\ lookup' = IF setup.vm THEN lookup
                       ELSE [p \in DOMAIN lookup \cup {v[1]} |->
                               IF p = v[1] THEN getDeviceHealthiness(v) ELSE lookup[p]]
          /\ n' = n + 1 /\ todo' = Tail(todo) /\ pc' = "vf" /\ UNCHANGED table
        BY Zenon, <2>2 DEF Inspect
    <3>3. QED
        BY Zenon, <1>1, <3>1, <3>2, AddTypes
  <2>3. QED
      BY Zenon, <2>1, <2>2
<1>5. QED
    BY Zenon, <1>2, <1>3, <1>4 DEF TypeInv

LEMMA PluginTypes ==
    ASSUME IInv, TypeInv, Plugin \/ Restart \/ UNCHANGED vars
    PROVE  TypeInv'
<1>1. setup.maxDevices \in Nat /\ Len(todo) \in Nat
    BY Zenon, BoundsAreNumbers
<1>2. CASE ScanBegin
  <2>1. (HwOK /\ PodsOK /\ TableOK)'
      BY Zenon, <1>2 DEF ScanBegin, TypeInv, HwOK, PodsOK, TableOK, hwVars, podVars
  <2>2. TodoOK'
    <3>1. getVfDevices \in Seq(Vfs) /\ Len(getVfDevices) <= setup.maxDevices
        BY Zenon, TakenInOrder DEF TypeInv, HwOK
    <3>2. pc' = "vf" /\ todo' = getVfDevices /\ n' = 0 /\ setup' = setup
        BY Zenon, <1>2 DEF ScanBegin
    <3>3. QED
        BY <1>1, <3>1, <3>2 DEF TodoOK
  <2>3. TreeOK'
      BY <1>2, FS_EmptySet DEF ScanBegin, TreeOK
  <2>4. QED
      BY Zenon, <2>1, <2>2, <2>3 DEF TypeInv
<1>3. CASE Vf
  <2>1. CASE driver[Head(todo)] = "kernel"
      BY Zenon, <1>3, <2>1, WriteTypes DEF Vf
  <2>2. CASE driver[Head(todo)] # "kernel"
    <3>1. /\ UNCHANGED <<driver, scanVars, table, faults, setup, vfs, beats, services, podVars, events>>
          /\ todo # <<>> /\ pc' \in {"bind", "inspect"}
        BY Zenon, <1>3, <2>2 DEF Vf
    <3>2. (HwOK /\ PodsOK /\ TableOK /\ TreeOK)'
        BY Zenon, <3>1 DEF TypeInv, HwOK, PodsOK, TableOK, TreeOK, scanVars, podVars
    <3>3. TodoOK'
        BY Zenon, <3>1 DEF TypeInv, TodoOK, scanVars
    <3>4. QED
        BY Zenon, <3>2, <3>3 DEF TypeInv
  <2>3. QED
      BY Zenon, <2>1, <2>2
<1>4. CASE Bind
    BY Zenon, <1>4, WriteTypes DEF Bind, TypeInv, TodoOK
<1>5. CASE Inspect
    BY Zenon, <1>5, InspectTypes
<1>6. CASE Notify
  <2>1. (HwOK /\ PodsOK)'
      BY Zenon, <1>6 DEF Notify, TypeInv, HwOK, PodsOK, hwVars, podVars
  <2>2. (TodoOK /\ TreeOK)'
      BY <1>1, <1>6, FS_EmptySet DEF Notify, TypeInv, TodoOK, TreeOK
  <2>3. TableOK'
      BY <1>1, <1>6 DEF Notify, TypeInv, TodoOK, TreeOK, TableOK
  <2>4. QED
      BY Zenon, <2>1, <2>2, <2>3 DEF TypeInv
<1>7. CASE Tick \/ Restart \/ UNCHANGED vars
  <2>1. /\ UNCHANGED <<setup, hwVars, scanVars, table, podVars, events, faults>>
        /\ pc' \in {"list", pc}
      BY Zenon, <1>7 DEF Tick, Restart, vars, hwVars, scanVars, podVars
  <2>2. (HwOK /\ PodsOK /\ TableOK /\ TreeOK)'
      BY Zenon, <2>1 DEF TypeInv, HwOK, PodsOK, TableOK, TreeOK, hwVars, scanVars, podVars
  <2>3. TodoOK'
      BY Zenon, <2>1 DEF TypeInv, TodoOK, scanVars
  <2>4. QED
      BY Zenon, <2>2, <2>3 DEF TypeInv
<1>8. QED
    BY Zenon, <1>2, <1>3, <1>4, <1>5, <1>6, <1>7 DEF Plugin

LEMMA HardwareTypes ==
    ASSUME TypeInv, NEW p \in Pfs,
           Heartbeat(p) \/ SetNumVfs(p) \/ \E s \in Services : Configure(p, s)
    PROVE  TypeInv'
<1>1. events' \in 0..MaxEvent
    BY Zenon, EventTypes DEF TypeInv, Heartbeat, SetNumVfs, Configure
<1>2. UNCHANGED <<setup, pc, scanVars, table, held, faults>>
    BY Zenon DEF Heartbeat, SetNumVfs, Configure, podVars
<1>3. HwOK'
  <2>1. CASE Heartbeat(p)
      BY Zenon, <1>1, <2>1 DEF TypeInv, HwOK, Heartbeat
  <2>2. CASE SetNumVfs(p)
    <3>1. UNCHANGED <<setup, beats, services, faults>>
        BY Zenon, <2>2 DEF SetNumVfs
    <3>2. vfs' \subseteq Vfs
        BY Zenon, <2>2 DEF SetNumVfs, TypeInv, HwOK
    <3>3. driver' \in [Vfs -> {"kernel", "dpdk", ""}]
        BY Zenon, <2>2 DEF SetNumVfs, TypeInv, HwOK
    <3>4. QED
        BY Zenon, <1>1, <3>1, <3>2, <3>3 DEF TypeInv, HwOK
  <2>3. CASE \E s \in Services : Configure(p, s)
    <3>1. services' \in [Pfs -> Services]
        BY Zenon, <2>3 DEF Configure, TypeInv, HwOK
    <3>2. UNCHANGED <<setup, vfs, driver, beats, faults>>
        BY Zenon, <2>3 DEF Configure
    <3>3. QED
        BY Zenon, <1>1, <3>1, <3>2 DEF TypeInv, HwOK
  <2>4. QED
      BY Zenon, <2>1, <2>2, <2>3
<1>4. PodsOK'
  <2>1. \A c \in Containers : retyped'[c] \subseteq retyped[c] \cup held[c].vfs
      BY Zenon DEF Heartbeat, SetNumVfs, Configure, podVars
  <2>2. QED
      BY Zenon, <1>2, <2>1 DEF TypeInv, PodsOK
<1>5. (TodoOK /\ TreeOK /\ TableOK)'
    BY Zenon, <1>2 DEF TypeInv, TodoOK, TreeOK, TableOK, scanVars
<1>6. QED
    BY Zenon, <1>3, <1>4, <1>5 DEF TypeInv

LEMMA PodTypes ==
    ASSUME IInv, TypeInv, NEW c \in Containers, End(c) \/ \E cap : Start(c, cap)
    PROVE  TypeInv'
<1>1. UNCHANGED <<setup, hwVars, pc, scanVars, table, events, faults>>
    BY Zenon DEF End, Start
<1>2. (HwOK /\ TodoOK /\ TreeOK /\ TableOK)'
    BY Zenon, <1>1 DEF TypeInv, HwOK, TodoOK, TreeOK, TableOK, hwVars, scanVars
<1>3. PodsOK'
  <2>1. \A d \in Containers : retyped'[d] \subseteq held'[d].vfs
    <3>1. /\ held = [d \in Containers |-> held[d]] /\ retyped = [d \in Containers |-> retyped[d]]
          /\ \A d \in Containers : retyped[d] \subseteq held[d].vfs
        BY Zenon DEF IInv, Shape, TypeInv, PodsOK
    <3>2. CASE End(c)
        BY Zenon, <3>1, <3>2 DEF End
    <3>3. CASE \E cap : Start(c, cap)
      <4>1. PICK cap, S : /\ held' = [held EXCEPT ![c] = [cap |-> cap, vfs |-> S]]
                          /\ retyped' = [retyped EXCEPT ![c] =
                                           {v \in S : cap # getDeviceCapabilities(v)}]
          BY <3>3 DEF Start
      <4>2. QED
          BY Zenon, <3>1, <4>1
    <3>4. QED
        BY Zenon, <3>2, <3>3
  <2>2. \A d \in Containers : held'[d].vfs \subseteq Vfs
      BY Zenon, StartIInv, EndIInv DEF IInv, Shape
  <2>3. QED
      BY Zenon, <2>1, <2>2 DEF PodsOK
<1>4. QED
    BY Zenon, <1>2, <1>3 DEF TypeInv

-----------------------------------------------------------------------------
LEMMA NextIInv ==
    ASSUME IInv, [Next]_vars
    PROVE  IInv'
<1>1. CASE Plugin
    BY Zenon, <1>1, PluginIInv
<1>2. CASE Restart \/ UNCHANGED vars
  <2>1. UNCHANGED <<setup, hwVars, scanVars, table, podVars>>
      BY Zenon, <1>2 DEF Restart, vars, hwVars, scanVars, podVars
  <2>2. Shape'
      BY Zenon, <2>1 DEF IInv, Shape, hwVars, podVars
  <2>3. QED
      BY Zenon, <2>1, <2>2, ScanFrame, PodFrame DEF IInv, hwVars, scanVars, podVars
<1>3. CASE \E p \in Pfs : ~setup.vm /\ (Heartbeat(p) \/ SetNumVfs(p) \/ \E s \in Services : Configure(p, s))
    BY Zenon, <1>3, HardwareIInv, ConfigureIInv
<1>4. CASE \E c \in Containers : End(c) \/ \E cap \in {d.cap : d \in table} : Start(c, cap)
    BY Zenon, <1>4, EndIInv, StartIInv
<1>5. QED
    BY Zenon, <1>1, <1>2, <1>3, <1>4 DEF Next

(* Functions of one physical function are advertised with one health, for  *)
(* any number of functions and whenever heartbeats change in a scan        *)
(* (getDeviceHealthiness and its lookup).                                  *)
THEOREM HealthIsUniform == Spec => []UniformHealth
<1>1. IInv => UniformHealth
    BY Zenon DEF IInv, ScanInv
<1>2. QED
    BY InitIInv, NextIInv, <1>1, PTL DEF Spec

(* The environment of a container names all its devices and no others: the *)
(* numbers scan gives keep Allocate's merge of the variables from losing   *)
(* one (scan, Allocate, PostAllocate).                                     *)
THEOREM EnvironmentsComplete == Spec => []EnvNamesDevices
<1>1. IInv => EnvNamesDevices
    BY Zenon DEF IInv, PodInv
<1>2. QED
    BY InitIInv, NextIInv, <1>1, PTL DEF Spec

(* Two containers share a virtual function only if its services were       *)
(* changed, or misread, while one of them had it, for any history of       *)
(* scans, failures and restarts (getDeviceCapabilities).                   *)
THEOREM SharedOnlyIfRetyped == Spec => []ExclusiveUnlessRetyped
<1>1. IInv => ExclusiveUnlessRetyped
    BY DEF IInv, PodInv, Capable, Apart, ExclusiveUnlessRetyped
<1>2. QED
    BY InitIInv, NextIInv, <1>1, PTL DEF Spec

LEMMA NextTypes ==
    ASSUME IInv, TypeInv, [Next]_vars
    PROVE  TypeInv'
BY Zenon, PluginTypes, HardwareTypes, PodTypes DEF Next

LEMMA TypeInvariance == Spec => [](IInv /\ TypeInv)
BY InitIInv, InitTypes, NextIInv, NextTypes, PTL DEF Spec

(* Types, for any number of functions, containers, events and faults.  A   *)
(* scan sees no more than maxDevices functions, counts exactly the devices *)
(* of its tree, and the plugin advertises no more than maxDevices          *)
(* (getVfDevices, scan).                                                   *)
THEOREM TypesKept == Spec => []TypeOK
<1>1. TypeInv => TypeOK
    BY Zenon DEF TypeInv, HwOK, TodoOK, TreeOK, TableOK, PodsOK, TypeOK
<1>2. QED
    BY TypeInvariance, <1>1, PTL

-----------------------------------------------------------------------------
(* The policies, for any set A of available functions.                     *)

LEMMA FnsOf ==
    ASSUME NEW A \in SUBSET Vfs, NEW p, NEW f
    PROVE  f \in Fns(A, p) <=> <<p, f>> \in A
BY Zenon, VfParts DEF Fns

LEMMA FnsFinite ==
    ASSUME NEW A \in SUBSET Vfs, NEW p
    PROVE  /\ IsFiniteSet(Fns(A, p)) /\ Cardinality(Fns(A, p)) \in Nat
           /\ Fns(A, p) \subseteq Nat
<1>1. NumFn \in Nat
    BY Zenon, SizeAssumption
<1>2. Fns(A, p) \in SUBSET (1..NumFn)
    BY Zenon DEF Fns, Vfs
<1>3. IsFiniteSet(1..NumFn)
    BY <1>1, FS_Interval
<1>4. QED
    BY <1>1, <1>2, <1>3, FS_Subset, FS_CardinalityType

(* If of two PFs each has functions that are taken and functions that are  *)
(* not, then each of them is before the other.                             *)
LEMMA PackedLeavesOne ==
    ASSUME NEW A \in SUBSET Vfs, NEW S \in SUBSET A, \A v \in S, w \in A \ S : BDF(v, w),
           NEW p, NEW q, p # q
    PROVE  Fns(S, p) \in {{}, Fns(A, p)} \/ Fns(S, q) \in {{}, Fns(A, q)}
<1> SUFFICES ASSUME Fns(S, p) \notin {{}, Fns(A, p)}, Fns(S, q) \notin {{}, Fns(A, q)}
             PROVE  FALSE
    BY Zenon
<1>1. \A r \in {p, q} : (\E f : <<r, f>> \in S) /\ (\E g : <<r, g>> \in A \ S)
  <2> SUFFICES ASSUME NEW r \in {p, q}
               PROVE  (\E f : <<r, f>> \in S) /\ (\E g : <<r, g>> \in A \ S)
      BY Zenon
  <2>1. Fns(S, r) # {} /\ Fns(S, r) # Fns(A, r)
      BY Zenon
  <2>2. \A f : /\ f \in Fns(S, r) <=> <<r, f>> \in S
               /\ f \in Fns(A, r) <=> <<r, f>> \in A
      BY Zenon, FnsOf
  <2>3. QED
      BY Zenon, <2>1, <2>2
<1>2. PICK f1, g1, f2, g2 : /\ <<p, f1>> \in S /\ <<p, g1>> \in A \ S
                            /\ <<q, f2>> \in S /\ <<q, g2>> \in A \ S
    BY Zenon, <1>1
<1>3. p \in Nat /\ q \in Nat
    BY <1>2, SizeAssumption DEF Vfs, Pfs
<1>4. BDF(<<p, f1>>, <<q, g2>>) /\ BDF(<<q, f2>>, <<p, g1>>)
    BY Zenon, <1>2
<1>5. p < q /\ q < p
    BY Zenon, <1>4 DEF BDF
<1>6. QED
    BY <1>3, <1>5

(* Of the functions taken from p and not from q, one before another would  *)
(* have been taken from q first.                                           *)
LEMMA BalancedTakesEqually ==
    ASSUME NEW A \in SUBSET Vfs, NEW S \in SUBSET A, \A v \in S, w \in A \ S : FDB(v, w),
           NEW p, NEW q, Fns(A, p) = Fns(A, q)
    PROVE  Cardinality(Fns(S, p)) <= Cardinality(Fns(S, q)) + 1
<1> DEFINE P == Fns(S, p)
           Q == Fns(S, q)
<1>1. /\ IsFiniteSet(P) /\ Cardinality(P) \in Nat /\ P \subseteq Nat
      /\ IsFiniteSet(Q) /\ Cardinality(Q) \in Nat
    BY Zenon, FnsFinite
<1>2. \A f, g \in P \ Q : ~(f < g)
  <2> SUFFICES ASSUME NEW f \in P \ Q, NEW g \in P \ Q, f < g PROVE FALSE
      BY Zenon
  <2>1. <<p, f>> \in S /\ <<p, g>> \in S /\ <<q, f>> \notin S
      BY Zenon, FnsOf
  <2>2. <<q, f>> \in A
      BY Zenon, <2>1, FnsOf
  <2>3. FDB(<<p, g>>, <<q, f>>)
      BY Zenon, <2>1, <2>2
  <2>4. g < f \/ g = f
      BY Zenon, <2>3 DEF FDB
  <2>5. QED
      BY <1>1, <2>4
<1>3. PICK x : P \subseteq Q \cup {x}
  <2> HIDE DEF P, Q
  <2>1. \A f, g \in P \ Q : f = g
      BY <1>1, <1>2
  <2>2. QED
      BY <2>1
<1>4. /\ IsFiniteSet(Q \cup {x}) /\ Cardinality(Q \cup {x}) <= Cardinality(Q) + 1
      /\ Cardinality(Q \cup {x}) \in Nat
  <2> HIDE DEF P, Q
  <2>1. /\ IsFiniteSet(Q \cup {x})
        /\ Cardinality(Q \cup {x}) = IF x \in Q THEN Cardinality(Q) ELSE Cardinality(Q) + 1
      BY Zenon, <1>1, FS_AddElement
  <2>2. QED
      BY <1>1, <2>1
<1>5. Cardinality(P) <= Cardinality(Q \cup {x})
    BY Zenon, <1>3, <1>4, FS_Subset
<1>6. QED
    BY <1>1, <1>4, <1>5

LEMMA ChosenByPolicy ==
    ASSUME setup \in Setups, NEW A \in SUBSET Vfs, NEW k, NEW S \in GetPreferredAllocation(A, k)
    PROVE  ByPolicy(A, S)
<1>1. S \in SUBSET A
    BY Zenon, PolicyChooses
<1>2. ASSUME setup.policy = "packed"
      PROVE  \A v \in S, w \in A \ S : BDF(v, w)
    BY Zenon, <1>2 DEF GetPreferredAllocation, packedPolicy, FirstOf
<1>3. ASSUME setup.policy = "balanced"
      PROVE  \A v \in S, w \in A \ S : FDB(v, w)
    BY Zenon, <1>3 DEF GetPreferredAllocation, balancedPolicy, FirstOf
<1>4. QED
    BY Zenon, <1>1, <1>2, <1>3, PackedLeavesOne, BalancedTakesEqually DEF ByPolicy

(* Whatever is available, packed allocation leaves at most one physical    *)
(* function partly used, and balanced allocation uses physical functions   *)
(* alike, give or take one, for any number of functions and any request    *)
(* (packedPolicy, balancedPolicy).                                         *)
THEOREM PoliciesKept == Spec => PolicyKept
<1> DEFINE Chosen == \A c \in Containers : held[c] = None /\ held'[c] # None =>
                       ByPolicy(Available(held'[c].cap), held'[c].vfs)
<1>1. ASSUME IInv, [Next]_vars PROVE [Chosen]_vars
  <2> SUFFICES ASSUME NEW c \in Containers, held[c] = None, held'[c] # None
               PROVE  ByPolicy(Available(held'[c].cap), held'[c].vfs)
      BY Zenon, <1>1
  <2>1. PICK cap : Start(c, cap)
    <3>1. held = [x \in Containers |-> held[x]]
        BY Zenon, <1>1 DEF IInv, Shape
    <3>2. CASE UNCHANGED held
        BY Zenon, <3>2
    <3>3. CASE \E d \in Containers : End(d)
        BY Zenon, <3>1, <3>3 DEF End
    <3>4. CASE \E d \in Containers : \E cap : Start(d, cap)
      <4>1. PICK d \in Containers : \E cap : Start(d, cap)
          BY Zenon, <3>4
      <4>2. PICK h : held' = [held EXCEPT ![d] = h]
          BY Zenon, <4>1 DEF Start
      <4>3. d = c
          BY Zenon, <3>1, <4>2
      <4>4. QED
          BY Zenon, <4>1, <4>3
    <3>5. UNCHANGED held \/ (\E d \in Containers : End(d))
                         \/ (\E d \in Containers : \E cap : Start(d, cap))
      <4>1. Plugin \/ Restart \/ UNCHANGED vars => UNCHANGED held
          BY Zenon DEF Plugin, Restart, vars, ScanBegin, Vf, Bind, Inspect, Notify, Tick, podVars
      <4>2. (\E p \in Pfs : Heartbeat(p) \/ SetNumVfs(p) \/ \E s \in Services : Configure(p, s))
              => UNCHANGED held
          BY Zenon DEF Heartbeat, SetNumVfs, Configure, podVars
      <4>3. QED
          BY Zenon, <1>1, <4>1, <4>2 DEF Next
    <3>6. QED
        BY Zenon, <3>2, <3>3, <3>4, <3>5
  <2>2. PICK S \in GetPreferredAllocation(Available(cap), Size[c]) :
           held' = [held EXCEPT ![c] = [cap |-> cap, vfs |-> S]]
      BY Zenon, <2>1 DEF Start
  <2>3. held'[c].cap = cap /\ held'[c].vfs = S
      BY Zenon, <1>1, <2>2 DEF IInv, Shape
  <2>4. Available(cap) \in SUBSET Vfs /\ setup \in Setups
      BY <1>1 DEF IInv, ScanInv, TableNumbered, Shape, Available
  <2>5. QED
      BY Zenon, <2>2, <2>3, <2>4, ChosenByPolicy
<1>2. QED
    BY InitIInv, NextIInv, <1>1, PTL DEF Spec, PolicyKept
=============================================================================
