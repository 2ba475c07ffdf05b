----------------------------- MODULE FpgaPatcher -----------------------------
(***************************************************************************)
(* The FPGA admission webhook of one Kubernetes namespace: the two         *)
(* controllers that keep the Patcher's maps in step with the cluster's     *)
(* AcceleratorFunction and FpgaRegion objects, and the rewriting of a      *)
(* container's resource requests.  Source: pkg/fpgacontroller.             *)
(*                                                                         *)
(* Names of resources are abstract: a mapped AF is <<"af", iface, afu>>, a *)
(* mapped region <<"region", iface>>; the JSON escaping of names is an     *)
(* injection and is left out.                                              *)
(***************************************************************************)
EXTENDS Integers, FiniteSets

CONSTANTS
    AfNames,      \* names of AcceleratorFunction objects
    RegionNames,  \* names of FpgaRegion objects
    Ifaces, Afus, \* interface and AFU ids
    OddLength,    \* ids with an odd number of hexadecimal digits
    None,         \* no object, no map entry
    MaxCount      \* bound on a counter of identitySet

ASSUME PatcherAssumption ==
    /\ OddLength \subseteq Ifaces \cup Afus
    /\ IsFiniteSet(AfNames) /\ IsFiniteSet(RegionNames)
    /\ MaxCount \in Nat \ {0}

Names == AfNames \cup RegionNames

(* The CRD's pattern "^af|region$" also accepts other modes.               *)
AfModes  == {"af", "region", "other"}
AfSpecs  == [iface : Ifaces, afu : Afus, mode : AfModes]
Resource == ({"af"} \X Ifaces \X Afus) \cup ({"region"} \X Ifaces)

(* What a Reconcile works on: the name and the object it found.            *)
AfItem  == [name : AfNames, obj : AfSpecs \cup {None}]
RegItem == [name : RegionNames, obj : Ifaces \cup {None}]

ASSUME NoneAssumption ==
    /\ None \notin AfSpecs \cup Resource \cup Ifaces \cup AfModes
    /\ None \notin AfItem \cup RegItem \cup {"regiondevel"}

VARIABLES
    afs, regions,        \* the objects of the informers' caches
    afQueue, regQueue,   \* names to reconcile
    afWork, regWork,     \* what each controller's Reconcile has read, or None
    afMap, resourceMap, resourceModeMap, identitySet  \* the Patcher

cluster == <<afs, regions>>
patcher == <<afMap, resourceMap, resourceModeMap, identitySet>>
vars == <<afs, regions, afQueue, regQueue, afWork, regWork,
          afMap, resourceMap, resourceModeMap, identitySet>>

TypeOK ==
    /\ afs \in [AfNames -> AfSpecs \cup {None}]
    /\ regions \in [RegionNames -> Ifaces \cup {None}]
    /\ afQueue \in SUBSET AfNames /\ regQueue \in SUBSET RegionNames
    /\ afWork \in AfItem \cup {None} /\ regWork \in RegItem \cup {None}
    /\ afMap \in [Names -> AfSpecs \cup {None}]
    /\ resourceMap \in [Names -> Resource \cup {None}]
    /\ resourceModeMap \in [Names -> AfModes \cup {"regiondevel", None}]
    /\ identitySet \in [Resource -> 0..MaxCount]

EmptyMap   == [n \in Names |-> None]
NoIdentity == [r \in Resource |-> 0]

Init ==
    /\ afs = [n \in AfNames |-> None] /\ regions = [n \in RegionNames |-> None]
    /\ afQueue = {} /\ regQueue = {} /\ afWork = None /\ regWork = None
    /\ afMap = EmptyMap /\ resourceMap = EmptyMap /\ resourceModeMap = EmptyMap
    /\ identitySet = NoIdentity

-----------------------------------------------------------------------------
(* The cluster.                                                            *)

(* An AcceleratorFunction is created, changed or deleted; the event queues *)
(* its name.  An update that changes nothing is a resync.                  *)
AfEvent(n) ==
    /\ \E obj \in AfSpecs \cup {None} :
         /\ obj # None \/ afs[n] # None
         /\ afs' = [afs EXCEPT ![n] = obj]
    /\ afQueue' = afQueue \cup {n}
    /\ UNCHANGED <<regions, regQueue, afWork, regWork, patcher>>

RegionEvent(n) ==
    /\ \E obj \in Ifaces \cup {None} :
         /\ obj # None \/ regions[n] # None
         /\ regions' = [regions EXCEPT ![n] = obj]
    /\ regQueue' = regQueue \cup {n}
    /\ UNCHANGED <<afs, afQueue, afWork, regWork, patcher>>

(* The webhook's process restarts with empty maps and lists all objects.   *)
Restart ==
    /\ afQueue' = {n \in AfNames : afs[n] # None}
    /\ regQueue' = {n \in RegionNames : regions[n] # None}
    /\ afWork' = None /\ regWork' = None
    /\ afMap' = EmptyMap /\ resourceMap' = EmptyMap /\ resourceModeMap' = EmptyMap
    /\ identitySet' = NoIdentity
    /\ UNCHANGED cluster

-----------------------------------------------------------------------------
(* The Patcher's operations, each under its lock.                          *)

(* GetAfuDevType decodes the concatenation of both ids.                    *)
Decodable(spec) == spec.iface \in OddLength <=> spec.afu \in OddLength

(* The resource an AF stands for: in any mode but "af" its region.         *)
AfMapping(spec) == IF spec.mode = "af" THEN <<"af", spec.iface, spec.afu>>
                                       ELSE <<"region", spec.iface>>

CanInc(r) == identitySet[r] < MaxCount

incIdentity(r) == identitySet' = [identitySet EXCEPT ![r] = @ + 1]

(* A patcher that forgets an identity as soon as one of its names goes.    *)
decIdentityDeletes(r) ==
    identitySet' = [s \in Resource |-> IF s = r THEN 0 ELSE identitySet[s]]

(* Decrements, or deletes the last one; an absent mapping is not counted.  *)
decIdentity(r) ==
    identitySet' = [s \in Resource |->
        IF s = r /\ identitySet[s] > 0 THEN identitySet[s] - 1 ELSE identitySet[s]]

(* An AddAf that leaves the mapping of a known name alone.                 *)
AddAfOnce(n, spec) ==
    /\ afMap' = [afMap EXCEPT ![n] = spec]
    /\ CanInc(AfMapping(spec))
    /\ resourceMap' = [resourceMap EXCEPT ![n] = IF @ = None THEN AfMapping(spec) ELSE @]
    /\ incIdentity(AfMapping(spec))
    /\ resourceModeMap' = [resourceModeMap EXCEPT ![n] = spec.mode]

(* AddAf stores the object first: an id that cannot be decoded leaves the  *)
(* other maps as they were.                                                *)
AddAf(n, spec) ==
    /\ afMap' = [afMap EXCEPT ![n] = spec]
    /\ IF spec.mode = "af" /\ ~Decodable(spec)
       THEN UNCHANGED <<resourceMap, resourceModeMap, identitySet>>
       ELSE /\ CanInc(AfMapping(spec))
            /\ resourceMap' = [resourceMap EXCEPT ![n] = AfMapping(spec)]
            /\ incIdentity(AfMapping(spec))
            /\ resourceModeMap' = [resourceModeMap EXCEPT ![n] = spec.mode]

(* An AddRegion that maps to the bare interface id.                        *)
AddRegionBare(n, iface) ==
    /\ CanInc(<<"region", iface>>)
    /\ resourceModeMap' = [resourceModeMap EXCEPT ![n] = "regiondevel"]
    /\ resourceMap' = [resourceMap EXCEPT ![n] = iface]
    /\ incIdentity(<<"region", iface>>)
    /\ UNCHANGED afMap

(* The region's own name stands for it; the mode is regiondevel.           *)
AddRegion(n, iface) ==
    /\ CanInc(<<"region", iface>>)
    /\ resourceModeMap' = [resourceModeMap EXCEPT ![n] = "regiondevel"]
    /\ resourceMap' = [resourceMap EXCEPT ![n] = <<"region", iface>>]
    /\ incIdentity(<<"region", iface>>)
    /\ UNCHANGED afMap

(* Both read resourceMap[n] for the identity to give up before they delete *)
(* the entry.                                                              *)
RemoveRegion(n) ==
    /\ decIdentity(resourceMap[n])
    /\ resourceMap' = [resourceMap EXCEPT ![n] = None]
    /\ resourceModeMap' = [resourceModeMap EXCEPT ![n] = None]
    /\ UNCHANGED afMap

RemoveAf(n) ==
    /\ decIdentity(resourceMap[n])
    /\ afMap' = [afMap EXCEPT ![n] = None]
    /\ resourceMap' = [resourceMap EXCEPT ![n] = None]
    /\ resourceModeMap' = [resourceModeMap EXCEPT ![n] = None]

-----------------------------------------------------------------------------
(* The controllers: one worker each.  Reconcile reads the object and only  *)
(* then takes the patcher's lock.                                          *)

AfGet(n) ==
    /\ afWork = None /\ n \in afQueue
    /\ afWork' = [name |-> n, obj |-> afs[n]]
    /\ afQueue' = afQueue \ {n}
    /\ UNCHANGED <<cluster, regQueue, regWork, patcher>>

(* An error of AddAf is returned from Reconcile, which queues the name     *)
(* again.                                                                  *)
AfReconcile ==
    /\ afWork # None
    /\ LET n == afWork.name spec == afWork.obj IN
         /\ IF spec = None THEN RemoveAf(n) ELSE AddAf(n, spec)
         /\ afQueue' = IF spec # None /\ spec.mode = "af" /\ ~Decodable(spec)
                       THEN afQueue \cup {n} ELSE afQueue
    /\ afWork' = None
    /\ UNCHANGED <<cluster, regQueue, regWork>>

RegionGet(n) ==
    /\ regWork = None /\ n \in regQueue
    /\ regWork' = [name |-> n, obj |-> regions[n]]
    /\ regQueue' = regQueue \ {n}
    /\ UNCHANGED <<cluster, afQueue, afWork, patcher>>

RegionReconcile ==
    /\ regWork # None
    /\ IF regWork.obj = None THEN RemoveRegion(regWork.name)
                             ELSE AddRegion(regWork.name, regWork.obj)
    /\ regWork' = None
    /\ UNCHANGED <<cluster, afQueue, regQueue, afWork>>

Next ==
    \/ Restart \/ AfReconcile \/ RegionReconcile
    \/ \E n \in AfNames : AfEvent(n) \/ AfGet(n)
    \/ \E n \in RegionNames : RegionEvent(n) \/ RegionGet(n)

Spec == Init /\ [][Next]_vars

-----------------------------------------------------------------------------
(* Every mapping is an identity at least as often as names map to it, so   *)
(* removing one of several aliases never takes the identity of the rest    *)
(* away (incIdentity, decIdentity).                                        *)
IdentityCovers ==
    \A r \in Resource :
        identitySet[r] >= Cardinality({n \in Names : resourceMap[n] = r})

AfSettled(n)     == n \notin afQueue /\ (afWork = None \/ afWork.name # n)
RegionSettled(n) == n \notin regQueue /\ (regWork = None \/ regWork.name # n)

AfKnown(n) ==
    IF afs[n] = None THEN resourceMap[n] = None /\ resourceModeMap[n] = None
    ELSE /\ resourceMap[n] = AfMapping(afs[n]) /\ resourceModeMap[n] = afs[n].mode
         /\ afMap[n] = afs[n]

RegionKnown(n) ==
    IF regions[n] = None THEN resourceMap[n] = None /\ resourceModeMap[n] = None
    ELSE resourceMap[n] = <<"region", regions[n]>> /\ resourceModeMap[n] = "regiondevel"

(* Once Reconcile has handled the last event of an object the maps say     *)
(* what the object says, provided no object of the other kind has its name.*)
MapsAgree ==
    /\ \A n \in AfNames \ RegionNames : AfSettled(n) => AfKnown(n)
    /\ \A n \in RegionNames \ AfNames : RegionSettled(n) => RegionKnown(n)
=============================================================================
