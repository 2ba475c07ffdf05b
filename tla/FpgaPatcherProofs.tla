-------------------------- MODULE FpgaPatcherProofs --------------------------
(***************************************************************************)
(* Proofs about FpgaPatcher and FpgaAdmission, for any finite sets of      *)
(* names, any ids and any containers: the identity counters cover all      *)
(* mappings, the maps agree with every object whose events are handled,    *)
(* and a patch is accepted when it comes back and keeps the number of      *)
(* devices.                                                                *)
(***************************************************************************)
EXTENDS FpgaAdmission, FiniteSetTheorems, WellFoundedInduction, TLAPS

(* A Reconcile that runs without a newer event in the queue has read the   *)
(* object as it is.                                                        *)
ReadCurrent ==
    /\ afWork # None /\ afWork.name \notin afQueue => afWork.obj = afs[afWork.name]
    /\ regWork # None /\ regWork.name \notin regQueue =>
         regWork.obj = regions[regWork.name]

IInv == TypeOK /\ IdentityCovers /\ ReadCurrent /\ MapsAgree

(* Names mapped to r.                                                      *)
Users(r) == {n \in Names : resourceMap[n] = r}

-----------------------------------------------------------------------------
(* There are finitely many names.                                          *)
LEMMA NamesFinite == IsFiniteSet(Names)
BY Zenon, PatcherAssumption, FS_Union DEF Names

(* So finitely many map to a resource, before and after a step.            *)
LEMMA UsersFinite ==
    ASSUME NEW r \in Resource
    PROVE  /\ IsFiniteSet(Users(r)) /\ Cardinality(Users(r)) \in Nat
           /\ IsFiniteSet(Users(r)') /\ Cardinality(Users(r)') \in Nat
<1>1. Users(r) \subseteq Names /\ Users(r)' \subseteq Names
    BY Zenon DEF Users
<1>2. QED
    BY Zenon, <1>1, NamesFinite, FS_Subset, FS_CardinalityType

(* An Add counts its mapping once more than before.                        *)
LEMMA AddCovers ==
    ASSUME TypeOK, IdentityCovers, NEW n \in Names, NEW r \in Resource,
           resourceMap' = [resourceMap EXCEPT ![n] = r], incIdentity(r)
    PROVE  IdentityCovers'
<1>1. SUFFICES ASSUME NEW s \in Resource
               PROVE  identitySet'[s] >= Cardinality(Users(s)')
    BY Zenon DEF IdentityCovers, Users
<1>2. identitySet[s] >= Cardinality(Users(s)) /\ identitySet[s] \in Int
    BY DEF IdentityCovers, Users, TypeOK
<1>3. CASE s = r
  <2>1. identitySet'[s] = identitySet[s] + 1
      BY Zenon, <1>3 DEF incIdentity, TypeOK
  <2>2. Users(s)' \subseteq Users(s) \cup {n}
      BY Zenon DEF Users, TypeOK
  <2>3. /\ IsFiniteSet(Users(s) \cup {n})
        /\ Cardinality(Users(s) \cup {n}) <= Cardinality(Users(s)) + 1
    <3>1. /\ IsFiniteSet(Users(s) \cup {n})
          /\ Cardinality(Users(s) \cup {n}) =
                IF n \in Users(s) THEN Cardinality(Users(s)) ELSE Cardinality(Users(s)) + 1
        BY Zenon, UsersFinite, FS_AddElement
    <3>2. QED
        BY <3>1, UsersFinite
  <2>4. /\ Cardinality(Users(s)') <= Cardinality(Users(s) \cup {n})
        /\ Cardinality(Users(s) \cup {n}) \in Nat
      BY Zenon, <2>2, <2>3, FS_Subset, FS_CardinalityType
  <2>5. QED
      BY <1>2, <2>1, <2>3, <2>4, UsersFinite
<1>4. CASE s # r
  <2>1. identitySet'[s] = identitySet[s]
      BY Zenon, <1>4 DEF incIdentity, TypeOK
  <2>2. Users(s)' \subseteq Users(s)
      BY Zenon, <1>4 DEF Users, TypeOK
  <2>3. Cardinality(Users(s)') <= Cardinality(Users(s))
      BY Zenon, <2>2, UsersFinite, FS_Subset
  <2>4. QED
      BY <1>2, <2>1, <2>3, UsersFinite
<1>5. QED
    BY Zenon, <1>3, <1>4

(* A Remove gives up one count, and one name.                              *)
LEMMA RemoveCovers ==
    ASSUME TypeOK, IdentityCovers, NEW n \in Names,
           resourceMap' = [resourceMap EXCEPT ![n] = None],
           decIdentity(resourceMap[n])
    PROVE  IdentityCovers'
<1>1. SUFFICES ASSUME NEW s \in Resource
               PROVE  identitySet'[s] >= Cardinality(Users(s)')
    BY Zenon DEF IdentityCovers, Users
<1>2. identitySet[s] >= Cardinality(Users(s)) /\ identitySet[s] \in Int
    BY DEF IdentityCovers, Users, TypeOK
<1>3. s # None
    BY Zenon, NoneAssumption
<1>4. CASE s = resourceMap[n]
  <2>1. n \in Users(s)
      BY Zenon, <1>4 DEF Users
  <2>2. Users(s)' = Users(s) \ {n}
      BY Zenon, <1>3 DEF Users, TypeOK
  <2>3. Cardinality(Users(s)') = Cardinality(Users(s)) - 1
      BY Zenon, <2>1, <2>2, UsersFinite, FS_RemoveElement
  <2>4. identitySet'[s] >= identitySet[s] - 1
      BY <1>2 DEF decIdentity
  <2>5. identitySet'[s] \in Int
      BY <1>2 DEF decIdentity
  <2>6. QED
      BY <1>2, <2>3, <2>4, <2>5, UsersFinite
<1>5. CASE s # resourceMap[n]
  <2>1. identitySet'[s] = identitySet[s]
      BY Zenon, <1>5 DEF decIdentity
  <2>2. Users(s)' \subseteq Users(s)
      BY Zenon, <1>3 DEF Users, TypeOK
  <2>3. Cardinality(Users(s)') <= Cardinality(Users(s))
      BY Zenon, <2>2, UsersFinite, FS_Subset
  <2>4. QED
      BY <1>2, <2>1, <2>3, UsersFinite
<1>6. QED
    BY Zenon, <1>4, <1>5

(* Nothing of the maps changes.                                            *)
LEMMA SameCovers ==
    ASSUME IdentityCovers, UNCHANGED <<resourceMap, identitySet>>
    PROVE  IdentityCovers'
BY Zenon DEF IdentityCovers

(* An AF is mapped to a resource.                                          *)
LEMMA MappingType ==
    ASSUME NEW spec \in AfSpecs PROVE AfMapping(spec) \in Resource
BY Zenon DEF AfMapping, AfSpecs, Resource

(* So is a region.                                                         *)
LEMMA RegionType ==
    ASSUME NEW iface \in Ifaces PROVE <<"region", iface>> \in Resource
BY Zenon DEF Resource

(* The maps of a new Patcher have their types.                             *)
LEMMA EmptyTypes ==
    /\ EmptyMap \in [Names -> AfSpecs \cup {None}]
    /\ EmptyMap \in [Names -> Resource \cup {None}]
    /\ EmptyMap \in [Names -> AfModes \cup {"regiondevel", None}]
    /\ NoIdentity \in [Resource -> 0..MaxCount]
BY PatcherAssumption DEF EmptyMap, NoIdentity

(* Nothing is mapped by a new Patcher.                                     *)
LEMMA EmptyCovers ==
    ASSUME resourceMap = EmptyMap, identitySet = NoIdentity
    PROVE  IdentityCovers
<1>1. ASSUME NEW r \in Resource
      PROVE  {n \in Names : resourceMap[n] = r} = {}
    BY Zenon, NoneAssumption DEF EmptyMap
<1>2. QED
    BY <1>1, FS_EmptySet DEF IdentityCovers, NoIdentity

-----------------------------------------------------------------------------
(* Init establishes the invariant.                                         *)
LEMMA InitIInv ==
    ASSUME Init PROVE IInv
<1>1. TypeOK
    BY Zenon, EmptyTypes DEF Init, TypeOK
<1>2. IdentityCovers
    BY Zenon, EmptyCovers DEF Init
<1>3. ReadCurrent
    BY Zenon DEF Init, ReadCurrent
<1>4. MapsAgree
    BY Zenon DEF Init, MapsAgree, AfKnown, RegionKnown, EmptyMap, Names
<1>5. QED
    BY Zenon, <1>1, <1>2, <1>3, <1>4 DEF IInv

(* A restart queues every existing object and forgets all mappings.        *)
LEMMA RestartIInv ==
    ASSUME IInv, Restart PROVE IInv'
<1>1. TypeOK'
    BY Zenon, EmptyTypes DEF IInv, Restart, TypeOK, cluster
<1>2. IdentityCovers'
  <2>1. ASSUME NEW r \in Resource
        PROVE  {n \in Names : resourceMap'[n] = r} = {}
      BY Zenon, NoneAssumption DEF EmptyMap, Restart
  <2>2. QED
      BY <2>1, FS_EmptySet DEF IdentityCovers, NoIdentity, Restart
<1>3. ReadCurrent'
    BY Zenon DEF Restart, ReadCurrent
<1>4. MapsAgree'
    BY Zenon DEF Restart, MapsAgree, AfKnown, RegionKnown, AfSettled, RegionSettled,
           EmptyMap, Names, cluster
<1>5. QED
    BY Zenon, <1>1, <1>2, <1>3, <1>4 DEF IInv

(* An event leaves the maps alone and queues its name.                     *)
LEMMA AfEventIInv ==
    ASSUME IInv, NEW n \in AfNames, AfEvent(n) PROVE IInv'
<1>1. PICK obj \in AfSpecs \cup {None} : afs' = [afs EXCEPT ![n] = obj]
    BY Zenon DEF AfEvent
<1>2. TypeOK'
    BY Zenon, <1>1 DEF IInv, AfEvent, TypeOK, patcher
<1>3. IdentityCovers'
    BY Zenon, SameCovers DEF IInv, AfEvent, patcher
<1>4. ASSUME NEW m \in AfNames, m \notin afQueue'
      PROVE  m \notin afQueue /\ afs'[m] = afs[m]
    BY Zenon, <1>1, <1>4 DEF AfEvent, IInv, TypeOK
<1>5. ReadCurrent'
  <2>1. afWork' = afWork /\ regWork' = regWork /\ regions' = regions /\ regQueue' = regQueue
      BY Zenon DEF AfEvent
  <2>2. afWork # None => afWork.name \in AfNames
      BY Zenon DEF IInv, TypeOK, AfItem
  <2>3. QED
      BY Zenon, <1>4, <2>1, <2>2 DEF ReadCurrent, IInv
<1>6. MapsAgree'
    BY Zenon, <1>4 DEF AfEvent, IInv, MapsAgree, AfKnown, RegionKnown, AfSettled,
                RegionSettled, patcher
<1>7. QED
    BY Zenon, <1>2, <1>3, <1>5, <1>6 DEF IInv

(* The same for regions.                                                   *)
LEMMA RegionEventIInv ==
    ASSUME IInv, NEW n \in RegionNames, RegionEvent(n) PROVE IInv'
<1>1. PICK obj \in Ifaces \cup {None} : regions' = [regions EXCEPT ![n] = obj]
    BY Zenon DEF RegionEvent
<1>2. TypeOK'
    BY Zenon, <1>1 DEF IInv, RegionEvent, TypeOK, patcher
<1>3. IdentityCovers'
    BY Zenon, SameCovers DEF IInv, RegionEvent, patcher
<1>4. ASSUME NEW m \in RegionNames, m \notin regQueue'
      PROVE  m \notin regQueue /\ regions'[m] = regions[m]
    BY Zenon, <1>1, <1>4 DEF RegionEvent, IInv, TypeOK
<1>5. ReadCurrent'
  <2>1. afWork' = afWork /\ regWork' = regWork /\ afs' = afs /\ afQueue' = afQueue
      BY Zenon DEF RegionEvent
  <2>2. regWork # None => regWork.name \in RegionNames
      BY Zenon DEF IInv, TypeOK, RegItem
  <2>3. QED
      BY Zenon, <1>4, <2>1, <2>2 DEF ReadCurrent, IInv
<1>6. MapsAgree'
    BY Zenon, <1>4 DEF RegionEvent, IInv, MapsAgree, AfKnown, RegionKnown, AfSettled,
                RegionSettled, patcher
<1>7. QED
    BY Zenon, <1>2, <1>3, <1>5, <1>6 DEF IInv

(* Reading moves a name from the queue to the worker.                      *)
LEMMA AfGetIInv ==
    ASSUME IInv, NEW n \in AfNames, AfGet(n) PROVE IInv'
<1>1. afWork' = [name |-> n, obj |-> afs[n]] /\ afWork' \in AfItem
    BY Zenon DEF IInv, AfGet, TypeOK, AfItem
<1>2. TypeOK'
    BY Zenon, <1>1 DEF IInv, AfGet, TypeOK, cluster, patcher
<1>3. IdentityCovers'
    BY Zenon, SameCovers DEF IInv, AfGet, patcher
<1>4. ReadCurrent'
    BY <1>1 DEF IInv, ReadCurrent, AfGet, cluster
<1>5. ASSUME NEW m \in AfNames, AfSettled(m)' PROVE AfSettled(m)
  <2>1. afWork' # None
      BY Zenon, <1>1, NoneAssumption
  <2>2. m # n
      BY Zenon, <1>1, <1>5, <2>1 DEF AfSettled
  <2>3. QED
      BY Zenon, <1>5, <2>2 DEF AfSettled, AfGet
<1>6. MapsAgree'
    BY Zenon, <1>5 DEF AfGet, IInv, MapsAgree, AfKnown, RegionKnown, RegionSettled, patcher,
                cluster
<1>7. QED
    BY Zenon, <1>2, <1>3, <1>4, <1>6 DEF IInv

(* The same for regions.                                                   *)
LEMMA RegionGetIInv ==
    ASSUME IInv, NEW n \in RegionNames, RegionGet(n) PROVE IInv'
<1>1. regWork' = [name |-> n, obj |-> regions[n]] /\ regWork' \in RegItem
    BY Zenon DEF IInv, RegionGet, TypeOK, RegItem
<1>2. TypeOK'
    BY Zenon, <1>1 DEF IInv, RegionGet, TypeOK, cluster, patcher
<1>3. IdentityCovers'
    BY Zenon, SameCovers DEF IInv, RegionGet, patcher
<1>4. ReadCurrent'
    BY <1>1 DEF IInv, ReadCurrent, RegionGet, cluster
<1>5. ASSUME NEW m \in RegionNames, RegionSettled(m)' PROVE RegionSettled(m)
  <2>1. regWork' # None
      BY Zenon, <1>1, NoneAssumption
  <2>2. m # n
      BY Zenon, <1>1, <1>5, <2>1 DEF RegionSettled
  <2>3. QED
      BY Zenon, <1>5, <2>2 DEF RegionSettled, RegionGet
<1>6. MapsAgree'
    BY Zenon, <1>5 DEF RegionGet, IInv, MapsAgree, AfKnown, RegionKnown, AfSettled, patcher,
                cluster
<1>7. QED
    BY Zenon, <1>2, <1>3, <1>4, <1>6 DEF IInv

-----------------------------------------------------------------------------
(* The maps away from the name worked on.                                  *)
ElsewhereSame(n) ==
    \A m \in Names \ {n} :
        /\ resourceMap'[m] = resourceMap[m] /\ resourceModeMap'[m] = resourceModeMap[m]
        /\ afMap'[m] = afMap[m]

(* What decIdentity makes of the counters' type.                           *)
LEMMA DecType ==
    ASSUME TypeOK, NEW r, decIdentity(r)
    PROVE  identitySet' \in [Resource -> 0..MaxCount]
<1>1. ASSUME NEW s \in Resource
      PROVE  (IF s = r /\ identitySet[s] > 0 THEN identitySet[s] - 1
                                              ELSE identitySet[s]) \in 0..MaxCount
    BY PatcherAssumption DEF TypeOK
<1>2. QED
    BY Zenon, <1>1 DEF decIdentity

(* What incIdentity makes of the counters' type.                           *)
LEMMA IncType ==
    ASSUME TypeOK, NEW r \in Resource, CanInc(r), incIdentity(r)
    PROVE  identitySet' \in [Resource -> 0..MaxCount]
<1>1. identitySet[r] + 1 \in 0..MaxCount
    BY PatcherAssumption DEF TypeOK, CanInc
<1>2. QED
    BY Zenon, <1>1 DEF TypeOK, incIdentity

(* The four operations keep the maps' types and the counters' cover.       *)
MapTypes ==
    /\ afMap \in [Names -> AfSpecs \cup {None}]
    /\ resourceMap \in [Names -> Resource \cup {None}]
    /\ resourceModeMap \in [Names -> AfModes \cup {"regiondevel", None}]
    /\ identitySet \in [Resource -> 0..MaxCount]

(* RemoveAf (patcher.go:151-161).                                          *)
LEMMA RemoveAfMaps ==
    ASSUME TypeOK, IdentityCovers, NEW n \in Names, RemoveAf(n)
    PROVE  /\ MapTypes' /\ IdentityCovers' /\ ElsewhereSame(n)
           /\ resourceMap'[n] = None /\ resourceModeMap'[n] = None
<1>1. identitySet' \in [Resource -> 0..MaxCount]
    BY Zenon, DecType DEF RemoveAf
<1>2. MapTypes'
    BY Zenon, <1>1 DEF RemoveAf, MapTypes, TypeOK
<1>3. IdentityCovers'
    BY Zenon, RemoveCovers DEF RemoveAf
<1>4. ElsewhereSame(n) /\ resourceMap'[n] = None /\ resourceModeMap'[n] = None
    BY Zenon DEF ElsewhereSame, RemoveAf, TypeOK
<1>5. QED
    BY Zenon, <1>2, <1>3, <1>4

(* RemoveRegion (patcher.go:163-172).                                      *)
LEMMA RemoveRegionMaps ==
    ASSUME TypeOK, IdentityCovers, NEW n \in Names, RemoveRegion(n)
    PROVE  /\ MapTypes' /\ IdentityCovers' /\ ElsewhereSame(n)
           /\ resourceMap'[n] = None /\ resourceModeMap'[n] = None
<1>1. identitySet' \in [Resource -> 0..MaxCount]
    BY Zenon, DecType DEF RemoveRegion
<1>2. MapTypes'
    BY Zenon, <1>1 DEF RemoveRegion, MapTypes, TypeOK
<1>3. IdentityCovers'
    BY Zenon, RemoveCovers DEF RemoveRegion
<1>4. ElsewhereSame(n) /\ resourceMap'[n] = None /\ resourceModeMap'[n] = None
    BY Zenon DEF ElsewhereSame, RemoveRegion, TypeOK
<1>5. QED
    BY Zenon, <1>2, <1>3, <1>4

(* AddRegion (patcher.go:141-149).                                         *)
LEMMA AddRegionMaps ==
    ASSUME TypeOK, IdentityCovers, NEW n \in Names, NEW iface \in Ifaces,
           AddRegion(n, iface)
    PROVE  /\ MapTypes' /\ IdentityCovers' /\ ElsewhereSame(n)
           /\ resourceMap'[n] = <<"region", iface>>
           /\ resourceModeMap'[n] = "regiondevel"
<1>1. <<"region", iface>> \in Resource
    BY Zenon, RegionType
<1>2. identitySet' \in [Resource -> 0..MaxCount]
    BY Zenon, <1>1, IncType DEF AddRegion
<1>3. MapTypes'
    BY Zenon, <1>1, <1>2 DEF AddRegion, MapTypes, TypeOK
<1>4. IdentityCovers'
    BY Zenon, <1>1, AddCovers DEF AddRegion
<1>5. ElsewhereSame(n)
    BY Zenon DEF ElsewhereSame, AddRegion, TypeOK
<1>6. resourceMap'[n] = <<"region", iface>> /\ resourceModeMap'[n] = "regiondevel"
    BY Zenon DEF AddRegion, TypeOK
<1>7. QED
    BY Zenon, <1>3, <1>4, <1>5, <1>6

(* AddAf returns an error.                                                 *)
AddFails(spec) == spec.mode = "af" /\ ~Decodable(spec)

(* AddAf (patcher.go:115-139), with and without its error.                 *)
LEMMA AddAfMaps ==
    ASSUME TypeOK, IdentityCovers, NEW n \in Names, NEW spec \in AfSpecs,
           AddAf(n, spec)
    PROVE  /\ MapTypes' /\ IdentityCovers' /\ ElsewhereSame(n)
           /\ ~AddFails(spec) =>
                /\ resourceMap'[n] = AfMapping(spec)
                /\ resourceModeMap'[n] = spec.mode /\ afMap'[n] = spec
<1>1. AfMapping(spec) \in Resource /\ spec.mode \in AfModes
    BY Zenon, MappingType DEF AfSpecs
<1>2. afMap' \in [Names -> AfSpecs \cup {None}] /\ afMap'[n] = spec
    BY Zenon DEF AddAf, TypeOK
<1>3. CASE AddFails(spec)
  <2>1. UNCHANGED <<resourceMap, resourceModeMap, identitySet>>
      BY Zenon, <1>3 DEF AddAf, AddFails
  <2>2. QED
      BY Zenon, <1>2, <1>3, <2>1, SameCovers DEF MapTypes, TypeOK, ElsewhereSame, AddAf
<1>4. CASE ~AddFails(spec)
  <2>1. /\ CanInc(AfMapping(spec)) /\ incIdentity(AfMapping(spec))
        /\ resourceMap' = [resourceMap EXCEPT ![n] = AfMapping(spec)]
        /\ resourceModeMap' = [resourceModeMap EXCEPT ![n] = spec.mode]
      BY Zenon, <1>4 DEF AddAf, AddFails
  <2>2. identitySet' \in [Resource -> 0..MaxCount]
      BY Zenon, <1>1, <2>1, IncType
  <2>3. MapTypes'
      BY Zenon, <1>1, <1>2, <2>1, <2>2 DEF MapTypes, TypeOK
  <2>4. IdentityCovers'
      BY Zenon, <1>1, <2>1, AddCovers
  <2>5. ElsewhereSame(n)
      BY Zenon, <2>1 DEF ElsewhereSame, AddAf, TypeOK
  <2>6. resourceMap'[n] = AfMapping(spec) /\ resourceModeMap'[n] = spec.mode
      BY Zenon, <2>1 DEF TypeOK
  <2>7. QED
      BY Zenon, <1>2, <2>3, <2>4, <2>5, <2>6
<1>5. QED
    BY Zenon, <1>3, <1>4

-----------------------------------------------------------------------------
(* The AF controller applies what it has read.                             *)
LEMMA AfReconcileIInv ==
    ASSUME IInv, AfReconcile PROVE IInv'
<1> DEFINE n == afWork.name
           spec == afWork.obj
<1>1. afWork \in AfItem /\ n \in AfNames /\ n \in Names /\ spec \in AfSpecs \cup {None}
    BY Zenon DEF IInv, TypeOK, AfReconcile, AfItem, Names
<1>2. /\ afWork' = None /\ UNCHANGED <<afs, regions, regQueue, regWork>>
      /\ IF spec = None THEN RemoveAf(n) ELSE AddAf(n, spec)
      /\ afQueue' = IF spec # None /\ AddFails(spec) THEN afQueue \cup {n} ELSE afQueue
    BY Zenon DEF AfReconcile, cluster, AddFails
<1>3. /\ MapTypes' /\ IdentityCovers' /\ ElsewhereSame(n)
      /\ spec = None => resourceMap'[n] = None /\ resourceModeMap'[n] = None
      /\ spec # None /\ ~AddFails(spec) =>
           /\ resourceMap'[n] = AfMapping(spec)
           /\ resourceModeMap'[n] = spec.mode /\ afMap'[n] = spec
  <2>1. TypeOK /\ IdentityCovers
      BY Zenon DEF IInv
  <2>2. CASE spec = None
      BY Zenon, <1>1, <1>2, <2>1, <2>2, RemoveAfMaps
  <2>3. CASE spec # None
      BY Zenon, <1>1, <1>2, <2>1, <2>3, AddAfMaps
  <2>4. QED
      BY Zenon, <2>2, <2>3
<1> HIDE DEF n, spec
<1>4. TypeOK'
    BY Zenon, <1>1, <1>2, <1>3 DEF IInv, TypeOK, MapTypes
<1>5. ReadCurrent'
    BY Zenon, <1>2 DEF IInv, ReadCurrent
<1>6. ASSUME NEW m \in AfNames \ RegionNames, AfSettled(m)' PROVE AfKnown(m)'
  <2>1. m \notin afQueue' /\ m \notin afQueue
      BY Zenon, <1>2, <1>6 DEF AfSettled
  <2>2. CASE m = n
    <3>1. spec = afs[n]
        BY Zenon, <2>1, <2>2 DEF IInv, ReadCurrent, AfReconcile, n, spec
    <3>2. spec # None => ~AddFails(spec)
        BY Zenon, <1>2, <2>1, <2>2
    <3>3. QED
        BY Zenon, <1>2, <1>3, <2>2, <3>1, <3>2 DEF AfKnown, AfMapping
  <2>3. CASE m # n
    <3>1. AfSettled(m)
        BY Zenon, <2>1, <2>3 DEF AfSettled, n
    <3>2. AfKnown(m)
        BY Zenon, <3>1 DEF IInv, MapsAgree
    <3>3. m \in Names \ {n}
        BY Zenon, <2>3 DEF Names
    <3>4. QED
        BY Zenon, <1>2, <1>3, <3>2, <3>3 DEF AfKnown, ElsewhereSame
  <2>4. QED
      BY Zenon, <2>2, <2>3
<1>7. ASSUME NEW m \in RegionNames \ AfNames, RegionSettled(m)' PROVE RegionKnown(m)'
  <2>1. m \in Names \ {n}
      BY Zenon, <1>1 DEF Names
  <2>2. RegionSettled(m)
      BY Zenon, <1>2, <1>7 DEF RegionSettled
  <2>3. RegionKnown(m)
      BY Zenon, <2>2 DEF IInv, MapsAgree
  <2>4. QED
      BY Zenon, <1>2, <1>3, <2>1, <2>3 DEF RegionKnown, ElsewhereSame
<1>8. QED
    BY Zenon, <1>3, <1>4, <1>5, <1>6, <1>7 DEF IInv, MapsAgree

(* The region controller applies what it has read.                         *)
LEMMA RegionReconcileIInv ==
    ASSUME IInv, RegionReconcile PROVE IInv'
<1> DEFINE n == regWork.name
           obj == regWork.obj
<1>1. regWork \in RegItem /\ n \in RegionNames /\ n \in Names /\ obj \in Ifaces \cup {None}
    BY Zenon DEF IInv, TypeOK, RegionReconcile, RegItem, Names
<1>2. /\ regWork' = None /\ UNCHANGED <<afs, regions, afQueue, regQueue, afWork>>
      /\ IF obj = None THEN RemoveRegion(n) ELSE AddRegion(n, obj)
    BY Zenon DEF RegionReconcile, cluster
<1>3. /\ MapTypes' /\ IdentityCovers' /\ ElsewhereSame(n)
      /\ obj = None => resourceMap'[n] = None /\ resourceModeMap'[n] = None
      /\ obj # None => /\ resourceMap'[n] = <<"region", obj>>
                       /\ resourceModeMap'[n] = "regiondevel"
  <2>1. TypeOK /\ IdentityCovers
      BY Zenon DEF IInv
  <2>2. CASE obj = None
      BY Zenon, <1>1, <1>2, <2>1, <2>2, RemoveRegionMaps
  <2>3. CASE obj # None
      BY Zenon, <1>1, <1>2, <2>1, <2>3, AddRegionMaps
  <2>4. QED
      BY Zenon, <2>2, <2>3
<1> HIDE DEF n, obj
<1>4. TypeOK'
    BY Zenon, <1>1, <1>2, <1>3 DEF IInv, TypeOK, MapTypes
<1>5. ReadCurrent'
    BY Zenon, <1>2 DEF IInv, ReadCurrent
<1>6. ASSUME NEW m \in RegionNames \ AfNames, RegionSettled(m)' PROVE RegionKnown(m)'
  <2>1. m \notin regQueue
      BY Zenon, <1>2, <1>6 DEF RegionSettled
  <2>2. CASE m = n
    <3>1. obj = regions[n]
        BY Zenon, <2>1, <2>2 DEF IInv, ReadCurrent, RegionReconcile, n, obj
    <3>2. QED
        BY Zenon, <1>2, <1>3, <2>2, <3>1 DEF RegionKnown
  <2>3. CASE m # n
    <3>1. RegionSettled(m)
        BY Zenon, <2>1, <2>3 DEF RegionSettled, n
    <3>2. RegionKnown(m)
        BY Zenon, <3>1 DEF IInv, MapsAgree
    <3>3. m \in Names \ {n}
        BY Zenon, <2>3 DEF Names
    <3>4. QED
        BY Zenon, <1>2, <1>3, <3>2, <3>3 DEF RegionKnown, ElsewhereSame
  <2>4. QED
      BY Zenon, <2>2, <2>3
<1>7. ASSUME NEW m \in AfNames \ RegionNames, AfSettled(m)' PROVE AfKnown(m)'
  <2>1. m \in Names \ {n}
      BY Zenon, <1>1 DEF Names
  <2>2. AfSettled(m)
      BY Zenon, <1>2, <1>7 DEF AfSettled
  <2>3. AfKnown(m)
      BY Zenon, <2>2 DEF IInv, MapsAgree
  <2>4. QED
      BY Zenon, <1>2, <1>3, <2>1, <2>3 DEF AfKnown, ElsewhereSame
<1>8. QED
    BY Zenon, <1>3, <1>4, <1>5, <1>6, <1>7 DEF IInv, MapsAgree

-----------------------------------------------------------------------------
(* Every step keeps the invariant.                                         *)
LEMMA NextIInv ==
    ASSUME IInv, [Next]_vars PROVE IInv'
<1>1. CASE UNCHANGED vars
    BY Zenon, <1>1 DEF vars, IInv, TypeOK, IdentityCovers, ReadCurrent, MapsAgree, AfKnown,
                RegionKnown, AfSettled, RegionSettled
<1>2. CASE Next
    BY Zenon, <1>2, RestartIInv, AfReconcileIInv, RegionReconcileIInv, AfEventIInv, AfGetIInv,
       RegionEventIInv, RegionGetIInv DEF Next
<1>3. QED
    BY Zenon, <1>1, <1>2

(* IInv holds in every reachable state.                                    *)
LEMMA SpecIInv == Spec => []IInv
<1>1. Init => IInv
    BY Zenon, InitIInv
<1>2. IInv /\ [Next]_vars => IInv'
    BY Zenon, NextIInv
<1>3. QED
    BY <1>1, <1>2, PTL DEF Spec

(* The variables of webhook and controllers keep their types.              *)
THEOREM PatcherTypeCorrect == Spec => []TypeOK
<1>1. IInv => TypeOK
    BY Zenon DEF IInv
<1>2. QED
    BY <1>1, SpecIInv, PTL

(* identitySet counts every mapping at least as often as names of objects  *)
(* map to it (patcher.go:101-172), for any number of aliases, updates,     *)
(* resyncs, deletions and restarts; so the webhook never refuses a         *)
(* resource it maps names to.                                              *)
THEOREM IdentitiesCoverMappings == Spec => []IdentityCovers
<1>1. IInv => IdentityCovers
    BY Zenon DEF IInv
<1>2. QED
    BY <1>1, SpecIInv, PTL

(* After the last event of an object has been handled by Reconcile         *)
(* (fpgacontroller.go:43-105) the maps say what the object says, whatever  *)
(* the interleaving of the two controllers, if no object of the other kind *)
(* has its name.                                                           *)
THEOREM MapsFollowObjects == Spec => []MapsAgree
<1>1. IInv => MapsAgree
    BY Zenon DEF IInv
<1>2. QED
    BY <1>1, SpecIInv, PTL

-----------------------------------------------------------------------------
(* The webhook accepts what it has written.  A name has a mapping exactly  *)
(* when it has a mode.                                                     *)
Together == \A n \in Names : resourceMap[n] = None <=> resourceModeMap[n] = None

LEMMA MappingsAndModes ==
    ASSUME TypeOK, Together, [Next]_vars
    PROVE  Together'
<1>1. CASE UNCHANGED patcher
    BY Zenon, <1>1 DEF Together, patcher
<1>2. CASE Restart
    BY Zenon, <1>2 DEF Together, Restart, EmptyMap
<1>3. ASSUME NEW n \in Names, RemoveAf(n) \/ RemoveRegion(n)
      PROVE  Together'
    BY Zenon, <1>3 DEF Together, RemoveAf, RemoveRegion, TypeOK
<1>4. ASSUME NEW n \in Names, NEW r, r # None, NEW m, m # None,
             resourceMap' = [resourceMap EXCEPT ![n] = r],
             resourceModeMap' = [resourceModeMap EXCEPT ![n] = m]
      PROVE  Together'
    BY Zenon, <1>4 DEF Together, TypeOK
<1>5. CASE AfReconcile
  <2>1. afWork.name \in Names /\ (afWork.obj # None => afWork.obj \in AfSpecs)
      BY Zenon, <1>5 DEF AfReconcile, TypeOK, AfItem, Names
  <2>2. CASE afWork.obj = None
      BY Zenon, <1>3, <1>5, <2>1, <2>2 DEF AfReconcile
  <2>3. CASE afWork.obj # None
    <3>1. AfMapping(afWork.obj) # None /\ afWork.obj.mode # None
      <4>1. AfMapping(afWork.obj) \in Resource /\ afWork.obj.mode \in AfModes
          BY Zenon, <2>1, <2>3, MappingType DEF AfSpecs
      <4>2. QED
          BY Zenon, <4>1, NoneAssumption
    <3>2. \/ UNCHANGED <<resourceMap, resourceModeMap>>
          \/ /\ resourceMap' = [resourceMap EXCEPT ![afWork.name] = AfMapping(afWork.obj)]
             /\ resourceModeMap' = [resourceModeMap EXCEPT ![afWork.name] = afWork.obj.mode]
        BY Zenon, <1>5, <2>3 DEF AfReconcile, AddAf
    <3>3. CASE UNCHANGED <<resourceMap, resourceModeMap>>
        BY Zenon, <3>3 DEF Together
    <3>4. QED
        BY Zenon, <1>4, <2>1, <3>1, <3>2, <3>3
  <2>4. QED
      BY Zenon, <2>2, <2>3
<1>6. CASE RegionReconcile
  <2>1. regWork.name \in Names /\ (regWork.obj # None => regWork.obj \in Ifaces)
      BY Zenon, <1>6 DEF RegionReconcile, TypeOK, RegItem, Names
  <2>2. CASE regWork.obj = None
      BY Zenon, <1>3, <1>6, <2>1, <2>2 DEF RegionReconcile
  <2>3. CASE regWork.obj # None
    <3>1. <<"region", regWork.obj>> # None /\ "regiondevel" # None
        BY Zenon, <2>1, <2>3, RegionType, NoneAssumption
    <3>2. QED
        BY Zenon, <1>4, <1>6, <2>1, <2>3, <3>1 DEF RegionReconcile, AddRegion
  <2>4. QED
      BY Zenon, <2>2, <2>3
<1>7. QED
    BY Zenon, <1>1, <1>2, <1>5, <1>6 DEF Next, AfEvent, AfGet, RegionEvent, RegionGet, vars, patcher

(* The orders of a finite set: there is one, and each has every element.   *)
LEMMA Orders ==
    ASSUME NEW S, IsFiniteSet(S)
    PROVE  /\ SetToSeqs(S) # {}
           /\ \A o \in SetToSeqs(S) : /\ DOMAIN o = 1..Cardinality(S)
                                      /\ \A i \in DOMAIN o : o[i] \in S
                                      /\ \A x \in S : \E i \in DOMAIN o : o[i] = x
           /\ S # {} => Cardinality(S) \in Nat \ {0}
<1> DEFINE D == 1..Cardinality(S)
<1>1. Cardinality(S) \in Nat /\ ExistsBijection(D, S)
    BY Zenon, FS_CardinalityType
<1>2. IsFiniteSet(D) /\ Cardinality(D) = Cardinality(S)
  <2>1. IsFiniteSet(D) /\ Cardinality(D) = IF 1 > Cardinality(S) THEN 0 ELSE Cardinality(S) - 1 + 1
      BY <1>1, FS_Interval
  <2>2. QED
      BY <1>1, <2>1
<1>3. SetToSeqs(S) = Injection(D, S)
    BY Zenon DEF SetToSeqs, Injection, IsInjective
<1>4. SetToSeqs(S) # {}
    BY Zenon, <1>1, <1>3 DEF ExistsBijection, Bijection
<1>5. ASSUME NEW o \in SetToSeqs(S)
      PROVE  /\ DOMAIN o = D /\ \A i \in D : o[i] \in S
             /\ \A x \in S : \E i \in D : o[i] = x
  <2>1. o \in Surjection(D, S)
      BY Zenon, <1>2, <1>3, FS_Injection
  <2>2. QED
      BY Zenon, <1>5, <2>1 DEF SetToSeqs, Surjection
<1>6. S # {} => Cardinality(S) # 0
    BY Zenon, FS_EmptySet
<1>7. QED
    BY Zenon, <1>1, <1>4, <1>5, <1>6

(* A container that was patched asked only for names with a mapping.       *)
LEMMA PatchedIsMapped ==
    ASSUME TypeOK, Together, NEW l \in Container, NEW o \in Outcomes(Requests(l)),
           o.res = "patch"
    PROVE  /\ o.req = Resolve(l)
           /\ \A n \in DOMAIN l : n \in Names /\ resourceMap[n] \in Resource
<1>1. IsFiniteSet(DOMAIN l)
    BY Zenon DEF Container
<1>2. PICK order \in SetToSeqs(DOMAIN l) : o = PatchInOrder(l, order)
    BY Zenon DEF Outcomes, Requests, GetRequestedResources, Refuse
<1> DEFINE Stops == {i \in DOMAIN order : Returns(order, i)}
<1>3. Stops = {} /\ o.req = Resolve(l)
  <2>1. CASE Stops = {}
      BY Zenon, <1>2, <2>1 DEF PatchInOrder
  <2>2. CASE Stops # {}
    <3>1. o \in {NoOps, Refuse}
        BY Zenon, <1>2, <2>2 DEF PatchInOrder, getNoopsOrError
    <3>2. QED
        BY <3>1 DEF NoOps, Refuse
  <2>3. QED
      BY Zenon, <2>1, <2>2
<1>4. ASSUME NEW n \in DOMAIN l
      PROVE  n \in Names /\ resourceMap[n] \in Resource
  <2>1. PICK i \in DOMAIN order : order[i] = n
      BY <1>1, Orders
  <2>2. Mode(n) # None
      BY Zenon, <1>3, <2>1 DEF Returns
  <2>3. n \in Names /\ resourceModeMap[n] # None
      BY Zenon, <2>2 DEF Mode
  <2>4. QED
      BY Zenon, <2>3 DEF Together, TypeOK
<1>5. QED
    BY Zenon, <1>3, <1>4

(* Resources with an identity, and no names: the loop stops at the first   *)
(* one and getNoopsOrError accepts it.                                     *)
LEMMA IdentitiesAccepted ==
    ASSUME NEW req, IsFiniteSet(DOMAIN req), DOMAIN req # {}, DOMAIN req \subseteq Resource,
           \A r \in DOMAIN req : identitySet[r] > 0
    PROVE  Outcomes(Requests(req)) = {NoOps}
<1>1. Outcomes(Requests(req)) = {PatchInOrder(req, o) : o \in SetToSeqs(DOMAIN req)}
    BY Zenon DEF Outcomes, Requests, GetRequestedResources
<1>2. ASSUME NEW o \in SetToSeqs(DOMAIN req)
      PROVE  PatchInOrder(req, o) = NoOps
  <2> DEFINE Stops == {i \in DOMAIN o : Returns(o, i)}
             first == Min(Stops)
  <2>1. /\ DOMAIN o = 1..Cardinality(DOMAIN req) /\ Cardinality(DOMAIN req) \in Nat \ {0}
        /\ \A i \in DOMAIN o : o[i] \in Resource /\ identitySet[o[i]] > 0
      BY Zenon, Orders
  <2>2. \A i \in DOMAIN o : Mode(o[i]) = None
      BY Zenon, <2>1, NamesAssumption DEF Mode
  <2>3. Stops = 1..Cardinality(DOMAIN req)
      BY Zenon, <2>1, <2>2 DEF Returns
  <2>4. first \in DOMAIN o
    <3>1. 1 \in Stops /\ \A i \in Stops : 1 <= i
        BY <2>1, <2>3
    <3>2. first \in Stops
        BY Zenon, <3>1 DEF Min
    <3>3. QED
        BY Zenon, <3>2
  <2>5. Stops # {} /\ Mode(o[first]) = None /\ getNoopsOrError(o[first]) = NoOps
    <3>1. Stops # {}
        BY <2>1, <2>3
    <3>2. QED
        BY Zenon, <2>1, <2>2, <2>4, <3>1 DEF getNoopsOrError
  <2>6. QED
      BY Zenon, <2>5 DEF PatchInOrder
<1>3. QED
    BY <1>1, <1>2, Orders

LEMMA PatchedAccepted ==
    ASSUME TypeOK, IdentityCovers, Together
    PROVE  Idempotent
<1>1. SUFFICES ASSUME NEW l \in Container, NEW o \in Outcomes(Requests(l)), o.res = "patch",
                      l # << >>
               PROVE  Outcomes(Requests(o.req)) = {NoOps}
    BY Zenon DEF Idempotent
<1>2. IsFiniteSet(DOMAIN l) /\ DOMAIN l # {}
  <2>1. PICK S : IsFiniteSet(S) /\ l \in [S -> 1..MaxQuantity]
      BY Zenon DEF Container
  <2>2. DOMAIN l # {}
      BY <1>1, <2>1
  <2>3. QED
      BY Zenon, <2>1, <2>2
<1> DEFINE R == {resourceMap[n] : n \in DOMAIN l}
<1>3. o.req = Resolve(l) /\ \A n \in DOMAIN l : n \in Names /\ resourceMap[n] \in Resource
    BY Zenon, <1>1, PatchedIsMapped
<1>4. DOMAIN o.req = R
    BY Zenon, <1>3 DEF Resolve
<1>5. IsFiniteSet(R) /\ R # {} /\ R \subseteq Resource
  <2> DEFINE f == [n \in DOMAIN l |-> resourceMap[n]]
  <2>1. f \in Surjection(DOMAIN l, R)
      BY Zenon DEF Surjection
  <2>2. IsFiniteSet(R)
      BY Zenon, <1>2, <2>1, FS_Surjection
  <2>3. QED
      BY Zenon, <1>2, <1>3, <2>2
<1>6. ASSUME NEW r \in R
      PROVE  identitySet[r] > 0
  <2>1. r \in Resource /\ \E n \in Names : n \in Users(r)
      BY Zenon, <1>3 DEF Users
  <2>2. Cardinality(Users(r)) # 0 /\ Cardinality(Users(r)) \in Nat
      BY Zenon, <2>1, UsersFinite, FS_EmptySet
  <2>3. identitySet[r] >= Cardinality(Users(r)) /\ identitySet[r] \in 0..MaxCount
      BY Zenon, <2>1 DEF IdentityCovers, Users, TypeOK
  <2>4. QED
      BY <2>2, <2>3, PatcherAssumption
<1> HIDE DEF R
<1>7. QED
    BY Zenon, <1>4, <1>5, <1>6, IdentitiesAccepted

(* The webhook is idempotent: whatever a container asks for and in         *)
(* whichever order getPatchOps ranges over it, a container that was        *)
(* patched is accepted as it is when it comes back, in any reachable state *)
(* of the maps (patcher.go: identitySet, getNoopsOrError).                 *)
THEOREM PatchesAccepted == Spec => []Idempotent
<1>1. Init => Together
    BY Zenon DEF Init, Together, EmptyMap
<1>2. IInv /\ Together /\ [Next]_vars => Together'
    BY Zenon, MappingsAndModes DEF IInv
<1>3. IInv /\ Together => Idempotent
    BY Zenon, PatchedAccepted DEF IInv
<1>4. QED
    BY <1>1, <1>2, <1>3, SpecIInv, PTL DEF Spec

-----------------------------------------------------------------------------
(* Sums over finite sets.  MapThenSumSet adds up a set by taking out one   *)
(* element after the other, whichever CHOOSE picks.                        *)
Total(g, X) == MapThenSumSet(LAMBDA n : g[n], X)

(* The element taken out first, and what is left.                          *)
Pick(s) == CHOOSE x \in s : TRUE
Without(s) == s \ {Pick(s)}

(* The sums h of all subsets of X, each from a smaller one.                *)
Step(g, h, s) == IF s = {} THEN 0 ELSE g[Pick(s)] + h[Without(s)]

Solves(g, X, h) == h = [s \in SUBSET X |-> Step(g, h, s)]

LEMMA Picked ==
    ASSUME NEW s, s # {}
    PROVE  Pick(s) \in s /\ Without(s) \subseteq s /\ Without(s) # s
BY Zenon DEF Pick, Without

(* Any collection of subsets of a finite set has a smallest one: what      *)
(* fails for some subset fails for one all of whose parts it holds for.    *)
LEMMA SmallestSubset ==
    ASSUME NEW S, IsFiniteSet(S), NEW T, T \subseteq SUBSET S, T # {}
    PROVE  \E x \in T : \A y \in T : y \subseteq x => y = x
<1>1. IsWellFoundedOn(StrictSubsetOrdering(S), SUBSET S)
    BY Zenon, FS_StrictSubsetOrderingWellFounded, FS_FiniteSubsetsOfFinite
<1>2. PICK x \in T : \A y \in T : ~(<<y, x>> \in StrictSubsetOrdering(S))
    BY Zenon, <1>1, WFMin
<1>3. ASSUME NEW y \in T, y \subseteq x
      PROVE  y = x
    BY Zenon, <1>2, <1>3 DEF StrictSubsetOrdering
<1>4. QED
    BY Zenon, <1>3

(* The equations of the sums have one solution,                            *)
LEMMA OneSolution ==
    ASSUME NEW g, NEW X, IsFiniteSet(X), NEW Y \in SUBSET X,
           NEW h, Solves(g, X, h), NEW k, Solves(g, Y, k)
    PROVE  h[Y] = k[Y]
<1> DEFINE T == {s \in SUBSET Y : h[s] # k[s]}
<1>1. SUFFICES ASSUME T # {} PROVE FALSE
    BY Zenon
<1>2. IsFiniteSet(Y)
    BY Zenon, FS_Subset
<1>3. PICK s \in T : \A y \in T : y \subseteq s => y = s
  <2>1. T \subseteq SUBSET Y
      BY Zenon
  <2> HIDE DEF T
  <2>2. QED
      BY <1>1, <1>2, <2>1, SmallestSubset
<1>4. h[s] = Step(g, h, s) /\ k[s] = Step(g, k, s)
    BY Zenon DEF Solves
<1>5. s # {}
    BY Zenon, <1>4 DEF Step
<1>6. h[Without(s)] = k[Without(s)]
    BY Zenon, <1>3, <1>5, Picked
<1>7. QED
    BY Zenon, <1>4, <1>5, <1>6 DEF Step

(* and they have one: glue the solutions of the smaller sets.              *)
LEMMA SolutionExists ==
    ASSUME NEW g, NEW X, IsFiniteSet(X)
    PROVE  \E h : Solves(g, X, h)
<1> DEFINE T == {s \in SUBSET X : ~\E h : Solves(g, s, h)}
<1>1. SUFFICES ASSUME T # {} PROVE FALSE
    BY Zenon
<1>2. PICK t \in T : \A y \in T : y \subseteq t => y = t
  <2>1. T \subseteq SUBSET X
      BY Zenon
  <2> HIDE DEF T
  <2>2. QED
      BY <1>1, <2>1, SmallestSubset
<1>3. t \subseteq X /\ IsFiniteSet(t)
    BY Zenon, FS_Subset
<1> DEFINE H(s) == CHOOSE h : Solves(g, s, h)
<1>4. ASSUME NEW s \in SUBSET t, s # t
      PROVE  Solves(g, s, H(s)) /\ IsFiniteSet(s)
  <2>1. \E h : Solves(g, s, h)
      BY Zenon, <1>2, <1>3, <1>4
  <2>2. IsFiniteSet(s)
      BY Zenon, <1>3, FS_Subset
  <2>3. QED
      BY Zenon, <2>1, <2>2
<1> HIDE DEF H
<1> DEFINE k == [s \in SUBSET t |-> IF s = t THEN (IF t = {} THEN 0 ELSE g[Pick(t)] + H(Without(t))[Without(t)])
                                    ELSE H(s)[s]]
<1>5. ASSUME NEW s \in SUBSET t
      PROVE  k[s] = Step(g, k, s)
  <2>1. CASE s = {}
    <3>1. CASE s = t
        BY Zenon, <2>1, <3>1 DEF Step
    <3>2. CASE s # t
      <4>1. H(s)[s] = Step(g, H(s), s)
          BY Zenon, <1>4, <3>2 DEF Solves
      <4>2. QED
          BY Zenon, <2>1, <3>2, <4>1 DEF Step
    <3>3. QED
        BY Zenon, <3>1, <3>2
  <2>2. CASE s # {}
    <3>1. Without(s) \in SUBSET t /\ Without(s) # t /\ Without(s) \in SUBSET s /\ Without(s) # s
        BY Zenon, <2>2, Picked
    <3>2. k[Without(s)] = H(Without(s))[Without(s)]
        BY Zenon, <3>1
    <3>3. CASE s = t
        BY Zenon, <2>2, <3>2, <3>3 DEF Step
    <3>4. CASE s # t
      <4>1. H(s)[s] = Step(g, H(s), s)
          BY Zenon, <1>4, <3>4 DEF Solves
      <4>2. H(s)[Without(s)] = H(Without(s))[Without(s)]
          BY <1>4, <3>1, <3>4, OneSolution
      <4>3. QED
          BY Zenon, <2>2, <3>2, <3>4, <4>1, <4>2 DEF Step
    <3>5. QED
        BY Zenon, <3>3, <3>4
  <2>3. QED
      BY Zenon, <2>1, <2>2
<1>6. Solves(g, t, k)
  <2>1. k = [s \in SUBSET t |-> k[s]]
      BY Zenon
  <2> HIDE DEF k
  <2>2. QED
      BY Zenon, <1>5, <2>1 DEF Solves
<1>7. QED
    BY Zenon, <1>6

(* So the library's sum is a solution, and unfolds one step.               *)
LEMMA TotalSolves ==
    ASSUME NEW g, NEW X, IsFiniteSet(X)
    PROVE  \E h : Solves(g, X, h) /\ Total(g, X) = h[X]
<1> DEFINE j == CHOOSE h : h = [s \in SUBSET X |-> Step(g, h, s)]
<1>1. Total(g, X) = j[X]
    BY Zenon DEF Total, MapThenSumSet, MapThenFoldSet, Step, Pick, Without
<1>2. \E h : h = [s \in SUBSET X |-> Step(g, h, s)]
    BY Zenon, SolutionExists DEF Solves
<1>3. j = [s \in SUBSET X |-> Step(g, j, s)]
    BY Zenon, <1>2
<1>4. QED
    BY Zenon, <1>1, <1>3 DEF Solves

LEMMA TotalStep ==
    ASSUME NEW g, NEW X, IsFiniteSet(X)
    PROVE  Total(g, X) = IF X = {} THEN 0 ELSE g[Pick(X)] + Total(g, Without(X))
<1>1. PICK h : Solves(g, X, h) /\ Total(g, X) = h[X]
    BY Zenon, TotalSolves
<1>2. Total(g, X) = Step(g, h, X)
    BY Zenon, <1>1 DEF Solves
<1>3. CASE X = {}
    BY Zenon, <1>2, <1>3 DEF Step
<1>4. CASE X # {}
  <2>1. Without(X) \in SUBSET X /\ IsFiniteSet(Without(X))
      BY Zenon, <1>4, Picked, FS_Subset
  <2>2. PICK k : Solves(g, Without(X), k) /\ Total(g, Without(X)) = k[Without(X)]
      BY Zenon, <2>1, TotalSolves
  <2>3. h[Without(X)] = k[Without(X)]
      BY <1>1, <2>1, <2>2, OneSolution
  <2>4. QED
      BY Zenon, <1>2, <1>4, <2>2, <2>3 DEF Step
<1>5. QED
    BY Zenon, <1>3, <1>4

LEMMA TotalIsNat ==
    ASSUME NEW g, NEW X, IsFiniteSet(X), \A x \in X : g[x] \in Nat
    PROVE  Total(g, X) \in Nat
<1> DEFINE T == {s \in SUBSET X : Total(g, s) \notin Nat}
<1>1. SUFFICES ASSUME T # {} PROVE FALSE
    BY Zenon
<1>2. PICK s \in T : \A y \in T : y \subseteq s => y = s
  <2>1. T \subseteq SUBSET X
      BY Zenon
  <2> HIDE DEF T
  <2>2. QED
      BY <1>1, <2>1, SmallestSubset
<1>3. Total(g, s) = IF s = {} THEN 0 ELSE g[Pick(s)] + Total(g, Without(s))
    BY Zenon, FS_Subset, TotalStep
<1>4. s # {} 
    BY <1>3
<1>5. Total(g, Without(s)) \in Nat /\ g[Pick(s)] \in Nat
    BY Zenon, <1>2, <1>4, Picked
<1>6. Total(g, s) \in Nat
    BY <1>3, <1>4, <1>5
<1>7. QED
    BY Zenon, <1>6

(* A sum depends on the values of its elements only.                       *)
LEMMA TotalSame ==
    ASSUME NEW g, NEW k, NEW X, IsFiniteSet(X), \A x \in X : g[x] = k[x]
    PROVE  Total(g, X) = Total(k, X)
<1> DEFINE T == {s \in SUBSET X : Total(g, s) # Total(k, s)}
<1>1. SUFFICES ASSUME T # {} PROVE FALSE
    BY Zenon
<1>2. PICK s \in T : \A y \in T : y \subseteq s => y = s
  <2>1. T \subseteq SUBSET X
      BY Zenon
  <2> HIDE DEF T
  <2>2. QED
      BY <1>1, <2>1, SmallestSubset
<1>3. /\ Total(g, s) = IF s = {} THEN 0 ELSE g[Pick(s)] + Total(g, Without(s))
      /\ Total(k, s) = IF s = {} THEN 0 ELSE k[Pick(s)] + Total(k, Without(s))
    BY Zenon, FS_Subset, TotalStep
<1>4. s # {} 
    BY Zenon, <1>3
<1>5. Total(g, Without(s)) = Total(k, Without(s)) /\ g[Pick(s)] = k[Pick(s)]
    BY Zenon, <1>2, <1>4, Picked
<1>6. QED
    BY Zenon, <1>3, <1>4, <1>5

(* The element taken out first may be any.                                 *)
LEMMA TotalRemove ==
    ASSUME NEW g, NEW X, IsFiniteSet(X), \A x \in X : g[x] \in Nat, NEW x \in X
    PROVE  Total(g, X) = g[x] + Total(g, X \ {x})
<1> DEFINE Bad(s) == \E z \in s : Total(g, s) # g[z] + Total(g, s \ {z})
           T == {s \in SUBSET X : Bad(s)}
<1>1. SUFFICES ASSUME T # {} PROVE FALSE
  <2>1. X \notin T
      BY Zenon, <1>1
  <2>2. QED
      BY Zenon, <2>1
<1>2. PICK s \in T : \A y \in T : y \subseteq s => y = s
  <2>1. T \subseteq SUBSET X
      BY Zenon
  <2> HIDE DEF T
  <2>2. QED
      BY <1>1, <2>1, SmallestSubset
<1>3. PICK z \in s : Total(g, s) # g[z] + Total(g, s \ {z})
    BY Zenon
<1> DEFINE p == Pick(s)
<1>4. p \in s /\ s # {} /\ Without(s) = s \ {p}
    BY Zenon, <1>3, Picked DEF Without
<1>5. \A y \in SUBSET X : IsFiniteSet(y) /\ Total(g, y) \in Nat
    BY Zenon, FS_Subset, TotalIsNat
<1>6. Total(g, s) = g[p] + Total(g, s \ {p})
    BY Zenon, <1>4, <1>5, TotalStep
<1> HIDE DEF p
<1>7. z # p
    BY Zenon, <1>3, <1>6
<1>8. Total(g, s \ {p}) = g[z] + Total(g, (s \ {p}) \ {z})
  <2>1. s \ {p} \in SUBSET X /\ s \ {p} \subseteq s /\ s \ {p} # s /\ z \in s \ {p}
      BY Zenon, <1>3, <1>4, <1>7
  <2>2. s \ {p} \notin T
      BY Zenon, <1>2, <2>1
  <2>3. QED
      BY Zenon, <2>1, <2>2
<1>9. Total(g, s \ {z}) = g[p] + Total(g, (s \ {z}) \ {p})
  <2>1. s \ {z} \in SUBSET X /\ s \ {z} \subseteq s /\ s \ {z} # s /\ p \in s \ {z}
      BY Zenon, <1>3, <1>4, <1>7
  <2>2. s \ {z} \notin T
      BY Zenon, <1>2, <2>1
  <2>3. QED
      BY Zenon, <2>1, <2>2
<1>10. (s \ {p}) \ {z} = (s \ {z}) \ {p} /\ Total(g, (s \ {p}) \ {z}) \in Nat
    BY Zenon, <1>5
<1>11. g[p] \in Nat /\ g[z] \in Nat
    BY Zenon, <1>4
<1>12. QED
  <2> HIDE DEF T
  <2>1. QED
      BY <1>3, <1>6, <1>8, <1>9, <1>10, <1>11

(* Sums of disjoint sets add up.                                           *)
LEMMA TotalUnion ==
    ASSUME NEW g, NEW X, IsFiniteSet(X), \A x \in X : g[x] \in Nat,
           NEW A \in SUBSET X, NEW B \in SUBSET X, A \cap B = {}
    PROVE  Total(g, A \cup B) = Total(g, A) + Total(g, B)
<1> DEFINE T == {s \in SUBSET A : Total(g, s \cup B) # Total(g, s) + Total(g, B)}
<1>1. SUFFICES ASSUME T # {} PROVE FALSE
    BY Zenon
<1>2. PICK s \in T : \A y \in T : y \subseteq s => y = s
  <2>1. T \subseteq SUBSET A /\ IsFiniteSet(A)
      BY Zenon, FS_Subset
  <2> HIDE DEF T
  <2>2. QED
      BY <1>1, <2>1, SmallestSubset
<1>3. \A y \in SUBSET X : IsFiniteSet(y) /\ Total(g, y) \in Nat
    BY Zenon, FS_Subset, TotalIsNat
<1>4. s # {}
  <2>1. ASSUME s = {} PROVE FALSE
    <3>1. Total(g, s) = 0 /\ s \cup B = B
        BY Zenon, <1>3, <2>1, TotalStep
    <3>2. Total(g, s \cup B) # Total(g, s) + Total(g, B) /\ Total(g, B) \in Nat
        BY Zenon, <1>3
    <3>3. Total(g, s \cup B) = Total(g, B)
        BY Zenon, <3>1
    <3>4. QED
      <4> HIDE DEF T
      <4>1. QED
          BY <3>1, <3>2, <3>3
  <2>2. QED
      BY Zenon, <2>1
<1>5. PICK z \in s : TRUE
    BY Zenon, <1>4
<1>6. z \in X /\ z \notin B /\ g[z] \in Nat /\ s \cup B \in SUBSET X /\ s \in SUBSET X
    BY Zenon
<1>7. Total(g, s) = g[z] + Total(g, s \ {z})
    BY <1>3, <1>6, TotalRemove
<1>8. Total(g, s \cup B) = g[z] + Total(g, (s \cup B) \ {z})
    BY <1>3, <1>6, TotalRemove
<1>9. (s \cup B) \ {z} = (s \ {z}) \cup B
    BY Zenon, <1>6
<1>10. Total(g, (s \ {z}) \cup B) = Total(g, s \ {z}) + Total(g, B)
    BY <1>2
<1>11. Total(g, s \ {z}) \in Nat /\ Total(g, B) \in Nat
    BY Zenon, <1>3, <1>6
<1>12. Total(g, s \cup B) # Total(g, s) + Total(g, B)
    BY Zenon
<1>13. QED
    BY <1>6, <1>7, <1>8, <1>9, <1>10, <1>11, <1>12

(* F adds up g by the value of f, and R are the values.                    *)
Fiber(f, X, r) == {x \in X : f[x] = r}

AddsUp(F, R, g, f, X) ==
    /\ \A x \in X : f[x] \in R
    /\ \A r \in R : F[r] = Total(g, Fiber(f, X, r)) /\ \E x \in X : f[x] = r

(* Adding up by the value of f, and then the values, adds up everything.   *)
LEMMA TotalFibers ==
    ASSUME NEW g, NEW f, NEW X, IsFiniteSet(X), \A x \in X : g[x] \in Nat,
           NEW R, NEW F, AddsUp(F, R, g, f, X)
    PROVE  Total(F, R) = Total(g, X)
<1> USE DEF AddsUp
<1> DEFINE Over(Q) == {x \in X : f[x] \in Q}
           T == {Q \in SUBSET R : Total(F, Q) # Total(g, Over(Q))}
<1>1. IsFiniteSet(R)
  <2>1. [x \in X |-> f[x]] \in Surjection(X, R)
      BY Zenon DEF Surjection
  <2>2. QED
      BY Zenon, <2>1, FS_Surjection
<1>2. Over(R) = X
    BY Zenon
<1>3. SUFFICES ASSUME T # {} PROVE FALSE
  <2>1. R \notin T
      BY Zenon, <1>3
  <2>2. QED
      BY Zenon, <1>2, <2>1
<1>4. PICK Q \in T : \A y \in T : y \subseteq Q => y = Q
  <2>1. T \subseteq SUBSET R
      BY Zenon
  <2> HIDE DEF T
  <2>2. QED
      BY <1>1, <1>3, <2>1, SmallestSubset
<1>5. Q \in SUBSET R /\ Total(F, Q) # Total(g, Over(Q)) /\ IsFiniteSet(Q)
    BY Zenon, <1>1, FS_Subset
<1>6. \A y \in SUBSET X : IsFiniteSet(y) /\ Total(g, y) \in Nat
    BY Zenon, FS_Subset, TotalIsNat
<1>7. Total(F, Q) = IF Q = {} THEN 0 ELSE F[Pick(Q)] + Total(F, Without(Q))
    BY Zenon, <1>5, TotalStep
<1>8. Q # {}
  <2>1. ASSUME Q = {} PROVE FALSE
    <3>1. Over(Q) = {} /\ Over(Q) \in SUBSET X
        BY Zenon, <2>1
    <3>2. Total(g, Over(Q)) = 0
        BY Zenon, <1>6, <3>1, TotalStep
    <3>3. QED
        BY Zenon, <1>5, <1>7, <2>1, <3>2
  <2>2. QED
      BY Zenon, <2>1
<1>9. Pick(Q) \in R /\ Without(Q) \in SUBSET R /\ Total(F, Without(Q)) = Total(g, Over(Without(Q)))
    BY Zenon, <1>4, <1>5, <1>8, Picked
<1> DEFINE A == Fiber(f, X, Pick(Q))
           B == Over(Without(Q))
<1>10. F[Pick(Q)] = Total(g, A)
    BY Zenon, <1>9
<1>11. A \in SUBSET X /\ B \in SUBSET X /\ A \cap B = {} /\ A \cup B = Over(Q)
    BY <1>8, Picked DEF Without, Fiber
<1>12. Total(g, Over(Q)) = Total(g, A) + Total(g, B)
  <2> HIDE DEF A, B, Over
  <2>1. QED
      BY <1>11, TotalUnion
<1>13. QED
  <2> HIDE DEF A
  <2>1. QED
      BY Zenon, <1>5, <1>7, <1>8, <1>9, <1>10, <1>12

-----------------------------------------------------------------------------
(* A container that is patched asked with equal limits and requests, and   *)
(* for names of one mode.                                                  *)
LEMMA PatchedAsked ==
    ASSUME NEW c \in PodContainer, NEW o \in Outcomes(c), o.res = "patch"
    PROVE  c.limits \in Container /\ c = Requests(c.limits)
<1>1. GetRequestedResources(c)
  <2>1. ASSUME ~GetRequestedResources(c) PROVE FALSE
    <3>1. o = Refuse
        BY Zenon, <2>1 DEF Outcomes
    <3>2. QED
        BY Zenon, <3>1 DEF Refuse
  <2>2. QED
      BY Zenon, <2>1
<1>2. c.limits = c.requests
    BY Zenon, <1>1 DEF GetRequestedResources
<1>3. PICK l \in Container : \/ c = [limits |-> l, requests |-> l]
                             \/ c = [limits |-> << >>, requests |-> l]
                             \/ c = [limits |-> l, requests |-> << >>]
    BY Zenon DEF PodContainer
<1>4. c = [limits |-> l, requests |-> l]
    BY <1>2, <1>3
<1>5. QED
    BY Zenon, <1>4 DEF Requests

LEMMA PatchedOneMode ==
    ASSUME NEW l \in Container, NEW o \in Outcomes(Requests(l)), o.res = "patch"
    PROVE  /\ o.req = Resolve(l) /\ o.env = EnvVars(l)
           /\ \A n, m \in DOMAIN l : Mode(n) = Mode(m)
<1>1. IsFiniteSet(DOMAIN l)
    BY Zenon DEF Container
<1>2. PICK order \in SetToSeqs(DOMAIN l) : o = PatchInOrder(l, order)
    BY Zenon DEF Outcomes, Requests, GetRequestedResources, Refuse
<1> DEFINE Stops == {i \in DOMAIN order : Returns(order, i)}
<1>3. Stops = {} /\ o.req = Resolve(l) /\ o.env = EnvVars(l)
  <2>1. CASE Stops = {}
      BY Zenon, <1>2, <2>1 DEF PatchInOrder
  <2>2. CASE Stops # {}
    <3>1. o \in {NoOps, Refuse}
        BY Zenon, <1>2, <2>2 DEF PatchInOrder, getNoopsOrError
    <3>2. QED
        BY <3>1 DEF NoOps, Refuse
  <2>3. QED
      BY Zenon, <2>1, <2>2
<1>4. ASSUME NEW n \in DOMAIN l
      PROVE  Mode(n) = Mode(order[1])
  <2>1. PICK i \in DOMAIN order : order[i] = n
      BY <1>1, Orders
  <2>2. QED
      BY Zenon, <1>3, <2>1 DEF Returns
<1>5. QED
    BY Zenon, <1>3, <1>4

LEMMA PatchedUnits ==
    ASSUME NEW l \in Container, NEW o \in Outcomes(Requests(l)), o.res = "patch"
    PROVE  /\ Units(o.req) = Units(l)
           /\ o.env # << >> => Units([n \in DOMAIN o.env |-> o.env[n].count]) = Units(l)
<1>1. o.req = Resolve(l) /\ o.env = EnvVars(l) /\ \A n, m \in DOMAIN l : Mode(n) = Mode(m)
    BY Zenon, PatchedOneMode
<1>2. IsFiniteSet(DOMAIN l) /\ \A n \in DOMAIN l : l[n] \in Nat
  <2>1. PICK S : IsFiniteSet(S) /\ l \in [S -> 1..MaxQuantity]
      BY Zenon DEF Container
  <2>2. QED
      BY <2>1, QuantityAssumption
<1>3. Units(o.req) = Units(l)
  <2> DEFINE R == {resourceMap[n] : n \in DOMAIN l}
             F == [r \in R |-> Total(l, Fiber(resourceMap, DOMAIN l, r))]
  <2>1. Resolve(l) = F
      BY Zenon DEF Resolve, Total, Fiber
  <2>2. Total(F, R) = Total(l, DOMAIN l)
    <3>1. AddsUp(F, R, l, resourceMap, DOMAIN l)
        BY Zenon DEF AddsUp
    <3> HIDE DEF R, F
    <3>2. QED
        BY <1>2, <3>1, TotalFibers
  <2>3. DOMAIN F = R
      BY Zenon
  <2> HIDE DEF F, R
  <2>4. QED
      BY <1>1, <2>1, <2>2, <2>3 DEF Units, Total
<1>4. ASSUME o.env # << >>
      PROVE  Units([n \in DOMAIN o.env |-> o.env[n].count]) = Units(l)
  <2> DEFINE E == {m \in DOMAIN l : Mode(m) = "region"}
             k == [n \in DOMAIN o.env |-> o.env[n].count]
  <2>1. DOMAIN o.env = E /\ \A n \in E : o.env[n].count = l[n]
      BY <1>1 DEF EnvVars
  <2>2. E # {}
      BY <1>1, <1>4 DEF EnvVars
  <2>3. E = DOMAIN l
      BY Zenon, <1>1, <2>2
  <2>4. DOMAIN k = DOMAIN l /\ \A n \in DOMAIN l : k[n] = l[n]
      BY Zenon, <2>1, <2>3
  <2> HIDE DEF k, E
  <2>5. Total(k, DOMAIN l) = Total(l, DOMAIN l)
      BY Zenon, <1>2, <2>4, TotalSame
  <2>6. Units(k) = Units(l)
      BY Zenon, <2>4, <2>5 DEF Units, Total
  <2>7. QED
      BY Zenon, <2>6 DEF k
<1>5. QED
    BY Zenon, <1>3, <1>4

(* Whatever a container asks for, and in whichever order getPatchOps       *)
(* ranges over it, a patch keeps the number of devices, and in region mode *)
(* there is an interface and function for each of them in the environment  *)
(* of the OCI hook (patcher.go: getPatchOps).                              *)
THEOREM PatchKeepsUnits == Spec => []UnitsKept
<1>1. ASSUME NEW c \in PodContainer, NEW o \in Outcomes(c), o.res = "patch"
      PROVE  /\ Units(o.req) = Units(c.limits)
             /\ o.env # << >> => Units([n \in DOMAIN o.env |-> o.env[n].count]) = Units(o.req)
  <2>1. c.limits \in Container /\ o \in Outcomes(Requests(c.limits))
      BY Zenon, <1>1, PatchedAsked
  <2>2. QED
      BY Zenon, <1>1, <2>1, PatchedUnits
<1>2. UnitsKept
    BY Zenon, <1>1 DEF UnitsKept
<1>3. QED
    BY <1>2, PTL
=============================================================================
