--------------------------- MODULE GpuPluginProofs ---------------------------
(***************************************************************************)
(* Proofs about GpuPlugin, for any number of cards, options, changes and   *)
(* faults: what is monitored is what is advertised, and the xpumd listener *)
(* gives up only for its two reasons.                                      *)
(***************************************************************************)
EXTENDS GpuPlugin, Sequences, WellFoundedInduction, TLAPS

-----------------------------------------------------------------------------
(* The listener.                                                           *)

LEMMA DeafInit == Init => DeafForAReason
<1> SUFFICES ASSUME Init PROVE DeafForAReason
    OBVIOUS
<1>1. xpc \in {"connect", "off"}
    BY DEF Init
<1>2. QED
    BY <1>1 DEF DeafForAReason, Deaf

LEMMA DeafNext ==
    ASSUME DeafForAReason, [Next]_vars
    PROVE  DeafForAReason'
<1>1. CASE UNCHANGED <<stream, xpc, attempt>>
    BY <1>1 DEF DeafForAReason, Deaf
<1>2. CASE XpumdStops
    BY <1>2 DEF XpumdStops, DeafForAReason, Deaf
<1>3. CASE WaitForStream
    BY <1>3 DEF WaitForStream, DeafForAReason, Deaf
<1>4. CASE RecvError
    BY <1>4 DEF RecvError, DeafForAReason, Deaf
<1>5. CASE SidecarStart
    BY <1>1, <1>5 DEF SidecarStart, xpVars
<1>6. CASE SidecarFails
    BY <1>1, <1>6 DEF SidecarFails, xpVars
<1>7. CASE XpumdStart
    BY <1>1, <1>7 DEF XpumdStart, xpVars
<1>8. CASE LzConnect
    BY <1>1, <1>8 DEF LzConnect, xpVars
<1>9. CASE ScanBegin
    BY <1>1, <1>9 DEF ScanBegin, xpVars
<1>10. CASE ScanCard
    BY <1>1, <1>10 DEF ScanCard, xpVars
<1>11. CASE Notify
    BY <1>1, <1>11 DEF Notify, xpVars
<1>12. CASE Signal
    BY <1>1, <1>12 DEF Signal, xpVars
<1>13. CASE WslScan
    BY <1>1, <1>13 DEF WslScan, xpVars
<1>14. CASE \E S \in SUBSET Cards : RecvUpdate(S)
    BY <1>14 DEF RecvUpdate, DeafForAReason, Deaf
<1>15. CASE \E c \in Cards : HwChange(c) \/ CondChange(c)
    BY <1>1, <1>15 DEF HwChange, CondChange, xpVars
<1>16. CASE UNCHANGED vars
    BY <1>1, <1>16 DEF vars
<1>17. QED
    BY <1>2, <1>3, <1>4, <1>5, <1>6, <1>7, <1>8, <1>9, <1>10, <1>11, <1>12, <1>13, <1>14,
       <1>15, <1>16 DEF Next

(* For any number of attempts and errors, the listener is gone only after  *)
(* a broken stream or after all attempts in a row (waitForStream, Run).    *)
THEOREM GivesUpForAReason == Spec => []DeafForAReason
BY DeafInit, DeafNext, PTL DEF Spec

-----------------------------------------------------------------------------
(* Monitoring.  While a scan runs its map follows from its tree, in which  *)
(* every card has one type and is not still to be looked at.               *)

Resource(t) == IF opts.monitoringMode = "single" THEN "monitoring" ELSE MonitoringOf[t]

TreeOK ==
    /\ todo \subseteq Cards
    /\ \A d \in tree : /\ d.type \in Drivers /\ d.id[1] \in Cards \ todo
                       /\ d.id = <<d.id[1], d.id[2]>>
    /\ \A d, e \in tree : d.id[1] = e.id[1] => d.type = e.type

MonitorOK ==
    monitor = IF opts.enableMonitoring THEN {<<Resource(d.type), d.id[1]>> : d \in tree} ELSE {}

OptsOK == opts \in CliOptions /\ checkArgs(opts)

MInv == OptsOK /\ TreeOK /\ MonitorOK /\ MonitoringCovers

LessThan == {ss \in Nat \X Nat : ss[1] < ss[2]}

LEMMA MinIn ==
    ASSUME NEW S \in SUBSET Cards, S # {}
    PROVE  Min(S) \in S
<1>1. S \subseteq Nat
    BY CardsAssumption DEF Cards
<1>2. IsWellFoundedOn(LessThan, Nat)
    BY NatLessThanWellFounded DEF OpToRel, LessThan
<1>3. PICK x \in S : \A y \in S : ~(<<y, x>> \in LessThan)
    BY <1>1, <1>2, WFMin
<1>4. ASSUME NEW y \in S
      PROVE  x <= y
  <2>1. x \in Nat /\ y \in Nat /\ <<y, x>> \in Nat \X Nat
      BY <1>1
  <2>2. <<y, x>>[1] = y /\ <<y, x>>[2] = x
      OBVIOUS
  <2>3. ~(y < x)
      BY <1>3, <2>1, <2>2 DEF LessThan
  <2>4. QED
      BY <2>1, <2>3
<1>5. QED
    BY <1>4 DEF Min

LEMMA PairIsNotAll ==
    ASSUME NEW a, NEW b
    PROVE  <<a, b>> # <<"all">>
<1>1. Len(<<a, b>>) = 2 /\ Len(<<"all">>) = 1
    OBVIOUS
<1>2. QED
    BY <1>1

LEMMA InitMInv == Init => MInv
<1> SUFFICES ASSUME Init PROVE MInv
    OBVIOUS
<1>1. OptsOK /\ TreeOK /\ MonitorOK
    BY DEF Init, OptsOK, TreeOK, MonitorOK
<1>2. MonitoringCovers
    BY DEF Init, MonitoringCovers, Shown
<1>3. QED
    BY <1>1, <1>2 DEF MInv

LEMMA FrameMInv ==
    ASSUME MInv, UNCHANGED <<opts, todo, tree, monitor, notified>>
    PROVE  MInv'
<1>1. (OptsOK /\ TreeOK /\ MonitorOK)'
    BY DEF MInv, OptsOK, TreeOK, MonitorOK, Resource, checkArgs, checkBasics
<1>2. MonitoringCovers'
    BY DEF MInv, MonitoringCovers, Shown
<1>3. QED
    BY <1>1, <1>2 DEF MInv

LEMMA CoversFrame ==
    ASSUME MInv, UNCHANGED <<opts, notified>>
    PROVE  (OptsOK /\ MonitoringCovers)'
BY DEF MInv, OptsOK, checkArgs, checkBasics, MonitoringCovers, Shown

LEMMA ScanBeginMInv ==
    ASSUME MInv, ScanBegin
    PROVE  MInv'
<1>1. UNCHANGED <<opts, notified>> /\ tree' = {} /\ monitor' = {} /\ todo' \subseteq Cards
    BY DEF ScanBegin, filterOutInvalidCards
<1>2. QED
    BY <1>1, CoversFrame DEF MInv, TreeOK, MonitorOK

LEMMA ScanCardMInv ==
    ASSUME MInv, ScanCard
    PROVE  MInv'
<1> DEFINE c == Min(todo)
<1>1. UNCHANGED <<opts, notified>> /\ todo # {} /\ todo' = todo \ {c}
    BY DEF ScanCard
<1>2. c \in todo /\ c \in Cards
    BY <1>1, MinIn DEF MInv, TreeOK
<1>3. CASE UNCHANGED <<tree, monitor>>
    BY <1>1, <1>3, CoversFrame DEF MInv, TreeOK, MonitorOK, Resource
<1>4. CASE ~UNCHANGED <<tree, monitor>>
  <2> DEFINE h == healthStatusForCard(c)
             N == {DeviceInfo(driver(c), <<c, i>>, h, createDeviceSpecsFromDrmFiles(c)) :
                     i \in 1..opts.sharedDevNum}
  <2>1. tree' = tree \cup N /\ monitor' = monitor \cup Monitor(c)
      BY <1>4 DEF ScanCard
  <2>2. driver(c) \in Drivers
      BY DEF driver, Drivers
  <2>3. \A d \in N : d.type = driver(c) /\ d.id[1] = c /\ d.id = <<d.id[1], d.id[2]>>
      BY DEF DeviceInfo
  <2>4. N # {}
    <3>1. 1 \in 1..opts.sharedDevNum
        BY OptionsAssumption DEF MInv, OptsOK, checkArgs, checkBasics
    <3>2. QED
        BY <3>1
  <2> HIDE DEF N
  <2>5. TreeOK'
      BY <1>1, <1>2, <2>1, <2>2, <2>3 DEF MInv, TreeOK
  <2>6. {<<Resource(d.type), d.id[1]>> : d \in N} = {<<monitorResource(c), c>>}
      BY <2>3, <2>4 DEF Resource, monitorResource
  <2>7. MonitorOK'
      BY <1>1, <2>1, <2>6 DEF MInv, MonitorOK, Resource, Monitor
  <2>8. QED
      BY <1>1, <2>5, <2>7, CoversFrame DEF MInv
<1>5. QED
    BY <1>3, <1>4

LEMMA NotifyMInv ==
    ASSUME MInv, Notify
    PROVE  MInv'
<1>1. /\ UNCHANGED <<opts, todo>> /\ notified' = tree \cup MonitorDevices
      /\ tree' = {} /\ monitor' = {}
    BY DEF Notify
<1>2. (OptsOK /\ TreeOK /\ MonitorOK)'
    BY <1>1 DEF MInv, OptsOK, checkArgs, checkBasics, TreeOK, MonitorOK
<1>3. \A d \in tree : d.id # <<"all">>
    BY PairIsNotAll DEF MInv, TreeOK
<1>4. \A d \in MonitorDevices : d.id = <<"all">>
    BY DEF MonitorDevices, DeviceInfo
<1>5. Shown' = tree /\ {d \in notified' : d.id = <<"all">>} = MonitorDevices
    BY <1>1, <1>3, <1>4 DEF Shown
<1>6. ASSUME NEW d \in MonitorDevices, NEW x
      PROVE  x \in d.nodes <=> \E s \in tree : opts.enableMonitoring /\ Resource(s.type) = d.type /\ s.id[1] = x
  <2>1. d.nodes = {m[2] : m \in {y \in monitor : y[1] = d.type}}
      BY DEF MonitorDevices, DeviceInfo
  <2>2. \A y \in monitor : opts.enableMonitoring /\ \E s \in tree : y = <<Resource(s.type), s.id[1]>>
      BY DEF MInv, MonitorOK
  <2>3. opts.enableMonitoring => \A s \in tree : <<Resource(s.type), s.id[1]>> \in monitor
      BY DEF MInv, MonitorOK
  <2>4. x \in d.nodes <=> \E y \in monitor : y[1] = d.type /\ y[2] = x
      BY <2>1
  <2>5. ASSUME NEW y \in monitor, y[1] = d.type, y[2] = x
        PROVE  \E s \in tree : opts.enableMonitoring /\ Resource(s.type) = d.type /\ s.id[1] = x
    <3>1. PICK s \in tree : y = <<Resource(s.type), s.id[1]>>
        BY <2>2
    <3>2. y[1] = Resource(s.type) /\ y[2] = s.id[1]
        BY <3>1
    <3>3. QED
        BY <2>2, <2>5, <3>2
  <2>6. ASSUME NEW s \in tree, opts.enableMonitoring, Resource(s.type) = d.type, s.id[1] = x
        PROVE  \E y \in monitor : y[1] = d.type /\ y[2] = x
    <3>1. <<Resource(s.type), s.id[1]>> \in monitor
        BY <2>3, <2>6
    <3>2. QED
        BY <2>6, <3>1
  <2>7. QED
      BY <2>4, <2>5, <2>6
<1>7. \A d \in MonitorDevices : \E s \in tree : opts.enableMonitoring /\ d.type = Resource(s.type)
    BY DEF MonitorDevices, DeviceInfo, MInv, MonitorOK
<1>8. ASSUME opts.enableMonitoring, NEW s \in tree
      PROVE  \E d \in MonitorDevices : d.type = Resource(s.type)
  <2>1. <<Resource(s.type), s.id[1]>> \in monitor
      BY <1>8 DEF MInv, MonitorOK
  <2> DEFINE r == Resource(s.type)
             d == DeviceInfo(r, <<"all">>, "Healthy", {m[2] : m \in {x \in monitor : x[1] = r}})
  <2>2. r \in {m[1] : m \in monitor}
    <3>1. <<r, s.id[1]>>[1] = r
        OBVIOUS
    <3>2. QED
        BY <2>1, <3>1
  <2>3. d \in MonitorDevices
      BY <2>2 DEF MonitorDevices
  <2>4. d.type = r
      BY DEF DeviceInfo
  <2>5. QED
      BY <2>3, <2>4
<1>9. opts.enableMonitoring => UNION {d.nodes : d \in MonitorDevices} = {d.id[1] : d \in tree}
    BY <1>6, <1>8
<1>10. ASSUME NEW d \in MonitorDevices, NEW s \in tree
       PROVE  s.id[1] \in d.nodes <=> d.type \in {"monitoring", MonitoringOf[s.type]}
  <2>1. PICK t \in tree : opts.enableMonitoring /\ d.type = Resource(t.type)
      BY <1>7
  <2>2. s.id[1] \in d.nodes <=> Resource(s.type) = d.type
      BY <1>6, <2>1 DEF MInv, TreeOK
  <2>3. MonitoringOf[t.type] # "monitoring"
      BY DEF MonitoringOf, MInv, TreeOK
  <2>4. QED
      BY <2>1, <2>2, <2>3 DEF Resource
<1>11. MonitoringCovers'
    BY <1>1, <1>5, <1>9, <1>10 DEF MonitoringCovers
<1>12. QED
    BY <1>2, <1>11 DEF MInv

LEMMA WslScanMInv ==
    ASSUME MInv, WslScan
    PROVE  MInv'
<1>1. /\ UNCHANGED <<opts, todo, tree, monitor>> /\ opts.wslScan
      /\ notified' = {DeviceInfo("dxg", <<c, i>>, "Healthy", {c}) :
                        c \in GetIntelIndices, i \in 1..opts.sharedDevNum}
    BY DEF WslScan
<1>2. (OptsOK /\ TreeOK /\ MonitorOK)'
    BY <1>1 DEF MInv, OptsOK, checkArgs, checkBasics, TreeOK, MonitorOK, Resource
<1>3. ~opts.enableMonitoring
    BY <1>1 DEF MInv, OptsOK, checkArgs
<1>4. \A d \in notified' : d.id # <<"all">>
    BY <1>1, PairIsNotAll DEF DeviceInfo
<1>5. QED
    BY <1>1, <1>2, <1>3, <1>4 DEF MInv, MonitoringCovers

LEMMA NextMInv ==
    ASSUME MInv, [Next]_vars
    PROVE  MInv'
<1>1. CASE UNCHANGED <<opts, todo, tree, monitor, notified>>
    BY <1>1, FrameMInv
<1>2. CASE ScanBegin \/ ScanCard \/ Notify \/ WslScan
    BY <1>2, ScanBeginMInv, ScanCardMInv, NotifyMInv, WslScanMInv
<1>3. QED
    BY <1>1, <1>2 DEF Next, vars, loopVars, SidecarStart, SidecarFails, XpumdStart, XpumdStops,
       LzConnect, WaitForStream, RecvError, RecvUpdate, Signal, HwChange, CondChange

(* For any number of cards that change while they are scanned, monitoring  *)
(* gives access to exactly the advertised cards (scan, sysFsGpuScan).      *)
THEOREM MonitoringComplete == Spec => []MonitoringCovers
<1>1. MInv => MonitoringCovers
    BY DEF MInv
<1>2. QED
    BY InitMInv, NextMInv, <1>1, PTL DEF Spec
=============================================================================
