------------------------------ MODULE GpuPlugin ------------------------------
(***************************************************************************)
(* The GPU plugin of one node: the scan loop over the sysfs cards (or, in  *)
(* WSL, over the indices of Level-Zero), the two sources of device health  *)
(* (a Level-Zero sidecar that is asked, an xpumd stream that is listened   *)
(* to), and the channel that was meant to trigger a resource scan.         *)
(* Source: cmd/gpu_plugin, cmd/gpu_levelzero/main.go.  Notify is the last  *)
(* step of a scan here; PluginManager has what follows.                    *)
(***************************************************************************)
EXTENDS Integers, FiniteSets, FiniteSetsExt

CONSTANTS
    NumCards,
    CliOptions,    \* option records to start the plugin with
    Profiles,      \* what a sysfs card directory may look like
    Absent,
    Attempts,      \* connectAttemptsMax
    ArbitraryErrors, \* maxArbitraryErrors
    MaxChange,     \* changes of cards and of their condition
    MaxFault       \* failed scans, crashes and failures of health services

ASSUME CardsAssumption   == NumCards \in Nat
ASSUME OptionsAssumption == \A o \in CliOptions : o.sharedDevNum \in Int

Cards   == 1..NumCards
Drivers == {"i915", "xe"}

(* The device types whose number sysFsGpuScan remembers.                   *)
CountedTypes == Drivers \cup {"i915_monitoring", "xe_monitoring", "monitoring"}

VARIABLES
    opts,        \* cliOptions
    hw,          \* sysfs: the directory of each card, or Absent
    cond,        \* "ok" | "bad" (memory or bus) | "hot" (above a limit)
    sidecar,     \* the gpu_levelzero process: "up" | "down"
    zes,         \* its driver library answers
    known,       \* the cards it enumerated, once, or Absent
    lzClient,    \* levelzero.client # nil
    xpumd,       \* the xpumd daemon: "up" | "down"
    stream,      \* the listener's stream: "none" | "open" | "closed" | "broken"
    xpc,         \* the listener: "off" | "connect" | "recv" | "gone"
    attempt, errCounter,
    healths,     \* xpumd.healths: TRUE, FALSE or Absent
    pc,          \* the scan loop: "tick" | "cards" | "signal"
    todo,        \* cards still to be looked at by this scan
    tree, monitor, \* devTree and the monitor map of this scan
    previousCount,
    scanResources, \* entries in the channel, which holds one
    notified,    \* the tree given to Notify last
    changes, faults

lzVars   == <<sidecar, zes, known, lzClient>>
xpVars   == <<xpumd, stream, xpc, attempt, errCounter, healths>>
loopVars == <<pc, todo, tree, monitor, previousCount, scanResources, notified>>
vars == <<opts, hw, cond, sidecar, zes, known, lzClient, xpumd, stream, xpc,
          attempt, errCounter, healths, pc, todo, tree, monitor, previousCount,
          scanResources, notified, changes, faults>>

-----------------------------------------------------------------------------
(* Command line.  The regular expression of PCI ids is left out.           *)

checkBasics(o) ==
    /\ o.sharedDevNum >= 1
    /\ o.policy \in {"balanced", "packed", "none"}
    /\ o.allowIDs = {} \/ o.denyIDs = {}
    /\ o.monitoringMode \in {"single", "split"}

checkArgs(o) ==
    /\ checkBasics(o)
    /\ o.wslScan => ~o.enableMonitoring /\ ~o.healthManagement /\ ~o.xpumd
    /\ ~(o.healthManagement /\ o.xpumd)
    /\ o.xpumd => o.limits = "default"

(* setupLevelZeroService, setupXpumdService.                               *)
UsesLevelZero == opts.healthManagement \/ opts.wslScan
UsesXpumd(o)  == o.xpumd

(* A device of a tree: its id names a card and a share, or all cards of a  *)
(* monitoring resource; nodes are the cards whose files it gives.          *)
DeviceInfo(t, id, h, nodes) == [type |-> t, id |-> id, health |-> h, nodes |-> nodes]

DeviceTypeCount(t, n) == Cardinality({d \in t : d.type = n})

Init ==
    /\ opts \in {o \in CliOptions : checkArgs(o)}
    /\ hw \in [Cards -> Profiles \cup {Absent}]
    /\ cond = [c \in Cards |-> "ok"]
    /\ sidecar = "down" /\ zes = TRUE /\ known = Absent /\ lzClient = FALSE
    /\ xpumd = "down" /\ stream = "none" /\ attempt = 0 /\ errCounter = 0
    /\ xpc = IF UsesXpumd(opts) THEN "connect" ELSE "off"
    /\ healths = [c \in Cards |-> Absent]
    /\ pc = "tick" /\ todo = {} /\ tree = {} /\ monitor = {} /\ notified = {}
    /\ previousCount = [n \in CountedTypes |-> 0] /\ scanResources = 0
    /\ changes = 0 /\ faults = 0

-----------------------------------------------------------------------------
(* The node: cards come, go and change (SR-IOV, drivers), get bad and      *)
(* recover; the health services start, stop and fail.                      *)

HwChange(c) ==
    /\ changes < MaxChange
    /\ \E p \in (Profiles \cup {Absent}) \ {hw[c]} : hw' = [hw EXCEPT ![c] = p]
    /\ changes' = changes + 1
    /\ UNCHANGED <<opts, cond, lzVars, xpVars, loopVars, faults>>

CondChange(c) ==
    /\ opts.healthManagement \/ opts.xpumd
    /\ changes < MaxChange
    /\ \E x \in {"ok", "bad", "hot"} \ {cond[c]} :
         /\ x = "hot" => opts.healthManagement  \* xpumd has its own limits
         /\ cond' = [cond EXCEPT ![c] = x]
    /\ changes' = changes + 1
    /\ UNCHANGED <<opts, hw, lzVars, xpVars, loopVars, faults>>

SidecarStart ==
    /\ UsesLevelZero /\ sidecar = "down"
    /\ sidecar' = "up" /\ zes' = TRUE /\ known' = Absent
    /\ UNCHANGED <<opts, hw, cond, lzClient, xpVars, loopVars, changes, faults>>

(* The sidecar ends, or its driver library begins to return errors.        *)
SidecarFails ==
    /\ sidecar = "up" /\ faults < MaxFault
    /\ \/ sidecar' = "down" /\ UNCHANGED zes
       \/ zes /\ zes' = FALSE /\ UNCHANGED sidecar
    /\ faults' = faults + 1
    /\ UNCHANGED <<opts, hw, cond, known, lzClient, xpVars, loopVars, changes>>

XpumdStart ==
    /\ UsesXpumd(opts) /\ xpumd = "down"
    /\ xpumd' = "up"
    /\ UNCHANGED <<opts, hw, cond, lzVars, stream, xpc, attempt, errCounter, healths,
                   loopVars, changes, faults>>

(* xpumd ends: its stream ends with EOF when it shuts down in order, and   *)
(* with an error, which every later Recv returns again, when it does not.  *)
XpumdStops ==
    /\ xpumd = "up" /\ faults < MaxFault
    /\ xpumd' = "down"
    /\ stream' \in IF stream = "open" THEN {"closed", "broken"} ELSE {stream}
    /\ faults' = faults + 1
    /\ UNCHANGED <<opts, hw, cond, lzVars, xpc, attempt, errCounter, healths,
                   loopVars, changes>>

-----------------------------------------------------------------------------
(* Level-Zero: the replies of the sidecar and what the client makes of     *)
(* them.  A driver error is a reply that says healthy, or has no indices.  *)

(* levelzero.Run: the client exists from the first ready connection on.    *)
LzConnect ==
    /\ UsesLevelZero /\ sidecar = "up" /\ ~lzClient
    /\ lzClient' = TRUE
    /\ UNCHANGED <<opts, hw, cond, sidecar, zes, known, xpVars, loopVars, changes, faults>>

(* isClientReady, and the call reaches the sidecar.                        *)
isClientReady == lzClient /\ sidecar = "up"

(* enumerate_zes_devices: done by the first request and never again, so a  *)
(* card that comes later has no handle and is as good as healthy.          *)
Enumerated ==
    IF known = Absent /\ zes THEN {c \in Cards : hw[c] # Absent} ELSE known

Handle(c) == zes /\ c \in Enumerated

GetDeviceHealth(c)      == Handle(c) => cond[c] # "bad"
GetDeviceTemperature(c) == IF Handle(c) /\ cond[c] = "hot" THEN "above" ELSE "below"

GetIntelIndices ==
    IF zes THEN {c \in Cards : hw[c] # Absent /\ hw[c].intel} ELSE {}

healthStatusForCardLZ(c) ==
    IF isClientReady /\ (~GetDeviceHealth(c) \/ GetDeviceTemperature(c) = "above")
    THEN "Unhealthy" ELSE "Healthy"

-----------------------------------------------------------------------------
(* The xpumd listener.                                                     *)

(* waitForStream: a stream, or another attempt, or it gives up.            *)
WaitForStream ==
    /\ xpc = "connect"
    /\ \/ /\ xpumd = "up"
          /\ stream' = "open" /\ xpc' = "recv" /\ attempt' = 0
       \/ /\ xpumd = "down"
          /\ attempt' = attempt + 1
          /\ xpc' = IF attempt + 1 = Attempts THEN "gone" ELSE "connect"
          /\ UNCHANGED stream
    /\ UNCHANGED <<opts, hw, cond, lzVars, xpumd, errCounter, healths, loopVars,
                   changes, faults>>

(* A listener that takes every end of the stream for a reason to retry on  *)
(* the same stream.                                                        *)
RecvErrorRetries ==
    /\ xpc = "recv" /\ stream \in {"closed", "broken"}
    /\ IF errCounter < ArbitraryErrors
       THEN errCounter' = errCounter + 1 /\ UNCHANGED <<stream, xpc>>
       ELSE xpc' = "gone" /\ UNCHANGED <<stream, errCounter>>
    /\ UNCHANGED <<opts, hw, cond, lzVars, xpumd, attempt, healths, loopVars,
                   changes, faults>>

(* Recv fails: EOF connects again, any other error is retried on the same  *)
(* stream a few times.                                                     *)
RecvError ==
    /\ xpc = "recv"
    /\ \/ /\ stream = "closed"
          /\ stream' = "none" /\ xpc' = "connect"
          /\ UNCHANGED errCounter
       \/ /\ stream = "broken"
          /\ IF errCounter < ArbitraryErrors
             THEN errCounter' = errCounter + 1 /\ UNCHANGED xpc
             ELSE xpc' = "gone" /\ UNCHANGED errCounter
          /\ UNCHANGED stream
    /\ UNCHANGED <<opts, hw, cond, lzVars, xpumd, attempt, healths, loopVars,
                   changes, faults>>

(* Recv returns the health of some cards; applyDeviceHealthUpdate keeps    *)
(* what it knows of the others.                                            *)
RecvUpdate(S) ==
    /\ xpc = "recv" /\ stream = "open"
    /\ \A c \in S : hw[c] # Absent
    /\ healths' = [c \in Cards |-> IF c \in S THEN cond[c] = "ok" ELSE healths[c]]
    /\ errCounter' = 0
    /\ UNCHANGED <<opts, hw, cond, lzVars, xpumd, stream, xpc, attempt, loopVars,
                   changes, faults>>

healthStatusForCardXpumd(c) == IF healths[c] = FALSE THEN "Unhealthy" ELSE "Healthy"

healthStatusForCard(c) ==
    CASE opts.xpumd            -> healthStatusForCardXpumd(c)
      [] opts.healthManagement -> healthStatusForCardLZ(c)
      [] OTHER                 -> "Healthy"

-----------------------------------------------------------------------------
(* The scan loop.                                                          *)

isCompatibleDevice(c) == hw[c] # Absent /\ hw[c].intel

filterOutInvalidCards ==
    {c \in Cards : /\ isCompatibleDevice(c) /\ hw[c].drm
                   /\ opts.allowIDs # {} => hw[c].pciID \in opts.allowIDs
                   /\ opts.denyIDs # {} => hw[c].pciID \notin opts.denyIDs}

(* The ticker fires and scan lists the cards.  When the directory cannot   *)
(* be read the loop goes on with a nil tree.                               *)
ScanBegin ==
    /\ pc = "tick" /\ ~opts.wslScan
    /\ \/ todo' = filterOutInvalidCards /\ UNCHANGED faults
       \/ faults < MaxFault /\ faults' = faults + 1 /\ todo' = {}
    /\ tree' = {} /\ monitor' = {} /\ pc' = "cards"
    /\ UNCHANGED <<opts, hw, cond, lzVars, xpVars, previousCount, scanResources,
                   notified, changes>>

(* devProps.fetch: a card without a driver counts as i915.                 *)
driver(c)      == IF hw[c].driver \in Drivers THEN hw[c].driver ELSE "i915"
isPfWithVfs(c) == hw[c].numvfs > 0

(* The files of a card, named by the card; none when its directory or its  *)
(* files under /dev are missing.                                           *)
createDeviceSpecsFromDrmFiles(c) == IF hw[c].nodes THEN {c} ELSE {}

MonitoringOf == [d \in Drivers |-> IF d = "xe" THEN "xe_monitoring"
                                             ELSE "i915_monitoring"]

monitorResource(c) ==
    IF opts.monitoringMode = "single" THEN "monitoring" ELSE MonitoringOf[driver(c)]

Monitor(c) == IF opts.enableMonitoring THEN {<<monitorResource(c), c>>} ELSE {}

(* A scan that adds a card to its monitoring resource before it looks      *)
(* whether the card can be used.                                           *)
ScanCardMonitorFirst ==
    /\ pc = "cards" /\ todo # {}
    /\ LET c == Min(todo) IN
         /\ IF hw[c] = Absent THEN UNCHANGED <<tree, monitor>>
            ELSE /\ monitor' = monitor \cup Monitor(c)
                 /\ tree' = tree \cup
                      {DeviceInfo(driver(c), <<c, i>>, healthStatusForCard(c), {c}) :
                         i \in {j \in 1..opts.sharedDevNum :
                                  ~isPfWithVfs(c) /\ hw[c].nodes}}
         /\ todo' = todo \ {c}
    /\ UNCHANGED <<opts, hw, cond, lzVars, xpVars, pc, previousCount, scanResources,
                   notified, changes, faults>>

(* One card of the loop.  A card that has gone since it was listed has no  *)
(* device files, like one whose files are missing.                         *)
ScanCard ==
    /\ pc = "cards" /\ todo # {}
    /\ LET c == Min(todo) IN
         /\ IF hw[c] = Absent THEN UNCHANGED <<tree, monitor, known>>
            ELSE IF isPfWithVfs(c) \/ createDeviceSpecsFromDrmFiles(c) = {}
            THEN UNCHANGED <<tree, monitor, known>>
            ELSE /\ tree' = tree \cup
                      {DeviceInfo(driver(c), <<c, i>>, healthStatusForCard(c),
                                  createDeviceSpecsFromDrmFiles(c)) :
                         i \in 1..opts.sharedDevNum}
                 /\ monitor' = monitor \cup Monitor(c)
                 /\ known' = IF opts.healthManagement /\ isClientReady
                             THEN Enumerated ELSE known
         /\ todo' = todo \ {c}
    /\ UNCHANGED <<opts, hw, cond, sidecar, zes, lzClient, xpVars, pc, previousCount, scanResources,
                   notified, changes, faults>>

MonitorDevices ==
    {DeviceInfo(r, <<"all">>, "Healthy", {m[2] : m \in {x \in monitor : x[1] = r}}) :
       r \in {m[1] : m \in monitor}}

(* A loop that only tells the notifier when a count has changed.           *)
NotifyChanged ==
    /\ pc = "cards" /\ todo = {}
    /\ LET t == tree \cup MonitorDevices
           count == [n \in CountedTypes |-> DeviceTypeCount(t, n)] IN
         /\ notified' = IF count # previousCount THEN t ELSE notified
         /\ previousCount' = count
         /\ pc' = IF count # previousCount THEN "signal" ELSE "tick"
    /\ tree' = {} /\ monitor' = {}
    /\ UNCHANGED <<opts, hw, cond, lzVars, xpVars, todo, scanResources, changes, faults>>

(* The scan ends: the counts are compared and the tree is notified.        *)
Notify ==
    /\ pc = "cards" /\ todo = {}
    /\ LET t == tree \cup MonitorDevices
           count == [n \in CountedTypes |-> DeviceTypeCount(t, n)] IN
         /\ notified' = t
         /\ previousCount' = count
         /\ pc' = IF count # previousCount THEN "signal" ELSE "tick"
    /\ tree' = {} /\ monitor' = {}
    /\ UNCHANGED <<opts, hw, cond, lzVars, xpVars, todo, scanResources, changes, faults>>

(* dp.scanResources <- true.  Nothing receives from the channel.           *)
Signal ==
    /\ pc = "signal" /\ scanResources = 0
    /\ scanResources' = 1 /\ pc' = "tick"
    /\ UNCHANGED <<opts, hw, cond, lzVars, xpVars, todo, tree, monitor, previousCount,
                   notified, changes, faults>>

(* wslGpuScan: an error leaves the devices as they were; a reply of the    *)
(* sidecar that its driver failed is an empty list.                        *)
WslScan ==
    /\ pc = "tick" /\ opts.wslScan /\ isClientReady
    /\ notified' = {DeviceInfo("dxg", <<c, i>>, "Healthy", {c}) :
                      c \in GetIntelIndices, i \in 1..opts.sharedDevNum}
    /\ UNCHANGED <<opts, hw, cond, lzVars, xpVars, pc, todo, tree, monitor,
                   previousCount, scanResources, changes, faults>>

-----------------------------------------------------------------------------
Next ==
    \/ SidecarStart \/ SidecarFails \/ XpumdStart \/ XpumdStops \/ LzConnect
    \/ WaitForStream \/ RecvError \/ (\E S \in SUBSET Cards : RecvUpdate(S))
    \/ ScanBegin \/ ScanCard \/ Notify \/ Signal \/ WslScan
    \/ \E c \in Cards : HwChange(c) \/ CondChange(c)

Spec == Init /\ [][Next]_vars

(* Goroutines run, the kubelet restarts a sidecar, xpumd is restarted and  *)
(* while it runs it sends the health of every card.                        *)
FairSpec ==
    /\ Spec
    /\ WF_vars(SidecarStart) /\ WF_vars(XpumdStart) /\ WF_vars(LzConnect)
    /\ WF_vars(WaitForStream) /\ WF_vars(RecvError)
    /\ \A c \in Cards : WF_vars(RecvUpdate({c}))
    /\ WF_vars(ScanBegin) /\ WF_vars(ScanCard) /\ WF_vars(Notify) /\ WF_vars(Signal)
    /\ WF_vars(WslScan)

-----------------------------------------------------------------------------
(* What a reader of the README expects the node to advertise: the usable   *)
(* cards it is allowed to use, unhealthy when their source knows so.       *)
Usable(c) ==
    /\ hw[c] # Absent
    /\ hw[c].intel
    /\ ~opts.wslScan => /\ hw[c].drm /\ hw[c].nodes /\ hw[c].numvfs = 0
                        /\ opts.allowIDs # {} => hw[c].pciID \in opts.allowIDs
                        /\ hw[c].pciID \notin opts.denyIDs

Bad(c) == /\ cond[c] # "ok"
          /\ opts.xpumd \/ (opts.healthManagement /\ zes)

Shown == {d \in notified : d.id # <<"all">>}

Accurate ==
    /\ {d.id : d \in Shown} = {c \in Cards : Usable(c)} \X (1..opts.sharedDevNum)
    /\ \A d \in Shown : d.health = "Unhealthy" <=> Bad(d.id[1])

(* The loop waits for somebody to empty its channel.                       *)
Blocked == pc = "signal" /\ scanResources = 1

(* The listener has given up.                                              *)
Deaf == xpc = "gone"

(* In WSL the sidecar's driver fails and the sidecar says there is no GPU. *)
NoIndices == opts.wslScan /\ ~zes

(* A bad card has come after the sidecar enumerated the cards.             *)
Unlisted == /\ opts.healthManagement /\ known # Absent
            /\ \E c \in Cards \ known : Usable(c) /\ Bad(c)

(* Once cards, conditions and services are stable the node advertises what *)
(* there is, unless the loop is blocked on its channel, the listener has   *)
(* given up, the sidecar's driver has failed in WSL or a bad card is not   *)
(* in the sidecar's list (sysFsGpuScan, wslGpuScan, healthStatusForCard).  *)
AccurateOrStuck == <>[](Accurate \/ Blocked \/ Deaf \/ NoIndices \/ Unlisted)

(* The monitoring devices of a tree give access to exactly the cards whose *)
(* devices the tree has, each under the resource of the mode: the scan     *)
(* fills two maps from cards that may change under it.                     *)
MonitoringCovers ==
    LET All == {d \in notified : d.id = <<"all">>} IN
    /\ opts.enableMonitoring => UNION {d.nodes : d \in All} = {d.id[1] : d \in Shown}
    /\ \A d \in All : \A s \in Shown :
         s.id[1] \in d.nodes <=> d.type \in {"monitoring", MonitoringOf[s.type]}

(* The listener gives up only when xpumd was lost or could not be reached  *)
(* often enough in a row: an orderly restart of xpumd never ends it before *)
(* all attempts are used (waitForStream, Run).                             *)
DeafForAReason == Deaf => stream = "broken" \/ attempt = Attempts
=============================================================================
