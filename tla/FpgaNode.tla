------------------------------- MODULE FpgaNode -------------------------------
(***************************************************************************)
(* The FPGAs of one node and everybody who works on them: the plugin that  *)
(* scans ports and regions and allocates them, the runtime hook that       *)
(* programs the functions a container asks for, and the administrator's    *)
(* tool that installs bitstreams and programs ports by hand.               *)
(* Source: cmd/fpga_plugin, cmd/fpga_crihook, cmd/fpga_tool, pkg/fpga and  *)
(* Allocate of pkg/deviceplugin/server.go.  What FpgaAdmission makes of a  *)
(* pod is here the list of functions a container wants.                    *)
(***************************************************************************)
EXTENDS Integers, FiniteSets, Sequences, Functions

CONSTANTS
    NumPorts,
    Boards,      \* records: fme[p] and factory image[p] of each port,
                 \* iface[f] of each FME
    Modes,       \* modes to start the plugin in
    Bitstreams,  \* records ext, iface, afu, hash
    NoImage,     \* a port without a function; no file
    Stored,      \* sets of bitstreams that may be installed at the start
    Containers,
    Wants,       \* per container, FPGA_REGION_N and FPGA_AFU_N: iface, id
    MaxStart,    \* containers started
    MaxEvent,    \* crashes of firmware and commands of the tool
    MaxFault     \* failing writes, programmings, scans; killed tools

Ports == 1..NumPorts
Fmes  == 1..NumPorts

(* Factory images fit their boards, and no identifier is the one a crashed *)
(* firmware shows, or none.  A container that asks for FPGAs asks for at   *)
(* least one function.                                                     *)
ASSUME PortsAssumption == NumPorts \in Nat
ASSUME BoundsAssumption == {MaxStart, MaxEvent, MaxFault} \subseteq Nat
ASSUME ModesAssumption == Modes \subseteq {"af", "region", "regiondevel"}
ASSUME BoardsAssumption == \A b \in Boards :
    /\ b.fme \in [Ports -> Fmes] /\ b.image \in [Ports -> Bitstreams \cup {NoImage}]
    /\ \A p \in Ports : b.image[p] # NoImage => b.image[p].iface = b.iface[b.fme[p]]
ASSUME BitstreamsAssumption ==
    /\ NoImage \notin Bitstreams
    /\ \A b \in Bitstreams : b.iface # "ffff" /\ b.afu \notin {"ffff", "none"}
ASSUME WantsAssumption == \A c \in Containers :
    /\ Wants[c] \in Seq([iface : STRING, id : STRING]) \ {<<>>}
    /\ \A i \in DOMAIN Wants[c] :
         Wants[c][i].iface # "ffff" /\ Wants[c][i].id \notin {"ffff", "none"}

VARIABLES
    board, mode,
    hw,          \* what each port is programmed with
    crashed,     \* FMEs whose firmware has crashed
    assigned,    \* ports that are not released
    file,        \* bitstream storage: "absent" | "partial" | "whole"
    installing,  \* what the tool is copying
    table,       \* srv.devices of all servers of the plugin
    kube,        \* the devices as the kubelet knows them
    cdi,         \* regions with a CDI file
    cst,         \* each container: "none", "created", the steps of its hook
                 \* ("loop", "pr", "verify"), "running", "failed", "rejected"
    held,        \* devices allocated to each container
    runs,        \* hooks its start still has to run
    params,      \* paramslist: what the running hook has left to do
    bstream,     \* the bitstream it has open
    overridden,  \* containers that had a port programmed by the tool
    starts, events, faults

storeVars  == <<file, installing>>
pluginVars == <<table, kube, cdi>>
ctrVars    == <<cst, held, runs, params, bstream, overridden, starts>>
vars == <<board, mode, hw, crashed, assigned, file, installing, table, kube, cdi, cst,
          held, runs, params, bstream, overridden, starts, events, faults>>

-----------------------------------------------------------------------------
(* pkg/fpga: what a port and its FME say.  DFL and OPAE devices do the     *)
(* same.  A crashed firmware is read as ffff.                              *)

GetFME(p) == board.fme[p]

GetInterfaceUUID(f) == IF f \in crashed THEN "ffff" ELSE board.iface[f]

GetAcceleratorTypeUUID(p) ==
    IF GetFME(p) \in crashed THEN "ffff"
    ELSE IF hw[p] = NoImage THEN "none" ELSE hw[p].afu

(* NewPort: the device node of a released port is gone.                    *)
NewPort(p) == p \in assigned

(* The name a bitstream is stored under: the function of a GBS, the hash   *)
(* of an AOCX, whose function is that of the board's OpenCL support.       *)
UniqueUUID(b) == IF b.ext = "gbs" THEN b.afu ELSE b.hash

InstallPath(b) == <<b.iface, UniqueUUID(b), b.ext>>

First(S) == CHOOSE p \in S : \A q \in S : p <= q

-----------------------------------------------------------------------------
(* The plugin's scan.  getRegions finds the ports of a region in order and *)
(* keeps the first: the others are appended to a copy of the entry.        *)

PortsOf(f) == {p \in assigned : GetFME(p) = f}
getRegions == {f \in Fmes : PortsOf(f) # {}}

(* Regions that are told apart by their interface only.                    *)
AfusByInterface(f) ==
    {First({p \in assigned : GetInterfaceUUID(GetFME(p)) = GetInterfaceUUID(f)})}

Afus(f) == {First(PortsOf(f))}

Device(t, id, nodes, healthy, hook) ==
    [type |-> t, id |-> id, nodes |-> nodes, healthy |-> healthy, hook |-> hook]

RegionDevice(f, hook) ==
    Device(<<"region", GetInterfaceUUID(f)>>, f, Afus(f), GetInterfaceUUID(f) # "ffff", hook)

getRegionTree      == {RegionDevice(f, TRUE) : f \in getRegions}
getRegionDevelTree == {RegionDevice(f, FALSE) : f \in getRegions}

getAfuTree ==
    {Device(<<"af", GetInterfaceUUID(GetFME(p)), GetAcceleratorTypeUUID(p)>>, p, {p},
            GetAcceleratorTypeUUID(p) # "ffff", FALSE) :
       p \in UNION {Afus(f) : f \in getRegions}}

scanFPGAs == CASE mode = "af"          -> getAfuTree
               [] mode = "region"      -> getRegionTree
               [] mode = "regiondevel" -> getRegionDevelTree

Status == {"none", "created", "loop", "pr", "verify", "running", "failed", "rejected"}

TypeOK ==
    /\ board \in Boards /\ mode \in Modes
    /\ hw \in [Ports -> Bitstreams \cup {NoImage}]
    /\ crashed \subseteq Fmes /\ assigned \subseteq Ports
    /\ bstream \in [Containers -> Bitstreams \cup {NoImage}]
    /\ file \in [Bitstreams -> {"absent", "partial", "whole"}]
    /\ installing \in Bitstreams \cup {NoImage}
    /\ \A d \in table \cup kube : d.nodes \subseteq Ports /\ d.healthy \in BOOLEAN
    /\ cdi \subseteq Fmes
    /\ cst \in [Containers -> Status]
    /\ \A c \in Containers :
         /\ held[c] = {} <=> cst[c] \in {"none", "rejected"}
         /\ runs[c] \in 0..Cardinality({d \in held[c] : d.hook})
         /\ cst[c] \in {"pr", "verify"} <=> bstream[c] # NoImage
         /\ runs[c] > 0 <=> cst[c] \in {"created", "loop", "pr", "verify", "failed"}
    /\ overridden \subseteq Containers
    /\ starts \in 0..MaxStart /\ events \in 0..MaxEvent /\ faults \in 0..MaxFault

Init ==
    /\ board \in Boards /\ mode \in Modes
    /\ hw = board.image
    /\ crashed = {} /\ assigned = Ports
    /\ \E S \in Stored : file = [b \in Bitstreams |-> IF b \in S THEN "whole" ELSE "absent"]
    /\ installing = NoImage
    /\ table = {} /\ kube = {} /\ cdi = {}
    /\ cst = [c \in Containers |-> "none"]
    /\ held = [c \in Containers |-> {}]
    /\ runs = [c \in Containers |-> 0]
    /\ params = [c \in Containers |-> <<>>]
    /\ bstream = [c \in Containers |-> NoImage]
    /\ overridden = {} /\ starts = 0 /\ events = 0 /\ faults = 0

Scan ==
    /\ table' = scanFPGAs
    /\ UNCHANGED <<board, mode, hw, crashed, assigned, storeVars, kube, cdi, ctrVars,
                   events, faults>>

(* The sysfs directory cannot be read, or the plugin ends.                 *)
ScanFails ==
    /\ faults < MaxFault /\ faults' = faults + 1
    /\ table' = {}
    /\ UNCHANGED <<board, mode, hw, crashed, assigned, storeVars, kube, cdi, ctrVars,
                   events>>

KubeletLearns ==
    /\ kube' = table
    /\ UNCHANGED <<board, mode, hw, crashed, assigned, storeVars, table, cdi, ctrVars,
                   events, faults>>

-----------------------------------------------------------------------------
(* A container is started, retried and removed by the kubelet.             *)

ResourceOf(w) == IF mode = "af" THEN <<"af", w.iface, w.id>> ELSE <<"region", w.iface>>

Same(d, e) == d.type = e.type /\ d.id = e.id

InUse(d) == \E c \in Containers : \E e \in held[c] : Same(d, e)

(* Devices the kubelet may choose for a container.                         *)
Choice(c, D) ==
    /\ \A d \in D : d.healthy /\ ~InUse(d)
    /\ LET T == {d.type : d \in D} \cup {ResourceOf(Wants[c][i]) : i \in DOMAIN Wants[c]}
       IN \A t \in T : Cardinality({d \in D : d.type = t}) =
                       Cardinality({i \in DOMAIN Wants[c] : ResourceOf(Wants[c][i]) = t})

HooksOf(D) == Cardinality({d \in D : d.hook})

(* The CDI files of regions that have none yet: which devices fail, and    *)
(* which files are there afterwards; a chmod may fail after the write.     *)
writeCdiSpecToFilesystem(R) ==
    {w \in [failed : SUBSET R, written : SUBSET R] : R \ w.failed \subseteq w.written}

(* Devices as they are given when CDI files of some are missing.           *)
Given(E, failed) == {[e EXCEPT !.hook = @ /\ e.id \notin failed] : e \in E}

(* Allocate: the table has the last word.  A CDI file that cannot be       *)
(* written is only logged, and the container starts without the hook.      *)
Allocate(c) ==
    /\ cst[c] = "none" /\ starts < MaxStart
    /\ \E D \in SUBSET kube :
         /\ Choice(c, D)
         /\ LET E == {e \in table : \E d \in D : Same(d, e)}
                missing == {e.id : e \in {x \in E : x.hook}} \ cdi IN
            IF Cardinality(E) = Cardinality(D) /\ \A e \in E : e.healthy
            THEN \E w \in writeCdiSpecToFilesystem(missing) :
                   LET G == Given(E, w.failed) IN
                   /\ w.failed # {} => faults < MaxFault
                   /\ faults' = IF w.failed = {} THEN faults ELSE faults + 1
                   /\ cdi' = cdi \cup w.written
                   /\ held' = [held EXCEPT ![c] = G]
                   /\ runs' = [runs EXCEPT ![c] = HooksOf(G)]
                   /\ cst' = [cst EXCEPT ![c] = IF HooksOf(G) = 0 THEN "running"
                                                ELSE "created"]
            ELSE cst' = [cst EXCEPT ![c] = "rejected"] /\ UNCHANGED <<faults, cdi, held, runs>>
    /\ starts' = starts + 1
    /\ UNCHANGED <<board, mode, hw, crashed, assigned, storeVars, table, kube, params,
                   bstream, overridden, events>>

(* A container whose hook failed is created again with the same devices.   *)
Retry(c) ==
    /\ cst[c] = "failed"
    /\ cst' = [cst EXCEPT ![c] = "created"]
    /\ runs' = [runs EXCEPT ![c] = HooksOf(held[c])]
    /\ UNCHANGED <<board, mode, hw, crashed, assigned, storeVars, pluginVars, held, params,
                   bstream, overridden, starts, events, faults>>

Remove(c) ==
    /\ cst[c] \in {"running", "failed", "rejected"}
    /\ cst' = [cst EXCEPT ![c] = "none"]
    /\ held' = [held EXCEPT ![c] = {}]
    /\ runs' = [runs EXCEPT ![c] = 0]
    /\ overridden' = overridden \ {c}
    /\ UNCHANGED <<board, mode, hw, crashed, assigned, storeVars, pluginVars, params,
                   bstream, starts, events, faults>>

-----------------------------------------------------------------------------
(* The hook of a container, one run per CDI device.                        *)

NodesOf(c) == UNION {d.nodes : d \in held[c]}

(* A run that ends without closing its bitstream.                          *)
EndsOpen(c, how) ==
    /\ cst' = [cst EXCEPT ![c] = how]
    /\ params' = [params EXCEPT ![c] = <<>>]
    /\ UNCHANGED <<held, runs, bstream, overridden, starts>>

Ends(c, how) ==
    /\ cst' = [cst EXCEPT ![c] = how]
    /\ params' = [params EXCEPT ![c] = <<>>]
    /\ bstream' = [bstream EXCEPT ![c] = NoImage]
    /\ UNCHANGED <<held, runs, overridden, starts>>

(* process returned nil: the next hook runs, or the container.             *)
Succeeds(c) ==
    /\ runs' = [runs EXCEPT ![c] = @ - 1]
    /\ cst' = [cst EXCEPT ![c] = IF runs[c] = 1 THEN "running" ELSE "created"]
    /\ params' = [params EXCEPT ![c] = <<>>]
    /\ UNCHANGED <<held, bstream, overridden, starts>>

(* The device of a function: the first of the right interface.  That a     *)
(* device is processed is noted in a copy, so nothing is skipped.          *)
Matching(c, w) == {p \in NodesOf(c) : NewPort(p) /\ GetInterfaceUUID(GetFME(p)) = w.iface}

Found(c, w) ==
    /\ Matching(c, w) # {}
    /\ \A q \in NodesOf(c) : q < First(Matching(c, w)) => NewPort(q)

(* getFPGAParams goes through a Go map: any order.                         *)
HookStart(c) ==
    /\ cst[c] = "created"
    /\ IF \A i \in DOMAIN Wants[c] : Found(c, Wants[c][i])
       THEN \E o \in Bijection(DOMAIN Wants[c], DOMAIN Wants[c]) :
              /\ params' = [params EXCEPT ![c] =
                   [i \in DOMAIN Wants[c] |->
                      [want |-> Wants[c][o[i]], port |-> First(Matching(c, Wants[c][o[i]]))]]]
              /\ cst' = [cst EXCEPT ![c] = "loop"]
              /\ UNCHANGED <<held, runs, bstream, overridden, starts>>
       ELSE Ends(c, "failed")
    /\ UNCHANGED <<board, mode, hw, crashed, assigned, storeVars, pluginVars, events, faults>>

(* The files GetFPGABitstream may open: a GBS comes before an AOCX.        *)
GetFPGABitstream(w) ==
    LET At(ext) == {b \in Bitstreams : /\ InstallPath(b) = <<w.iface, w.id, ext>>
                                      /\ file[b] # "absent"}
    IN IF At("gbs") # {} THEN At("gbs") ELSE At("aocx")

(* Whether a stored file can be opened.  While it is copied it may be too   *)
(* short for its header, its metadata or its ELF sections, or long enough   *)
(* for them and not for the image.                                         *)
NewFileGBS(b)  == IF file[b] = "whole" THEN {TRUE} ELSE BOOLEAN
NewFileAOCX(b) == IF file[b] = "whole" THEN {TRUE} ELSE BOOLEAN
Open(b)        == IF b.ext = "gbs" THEN NewFileGBS(b) ELSE NewFileAOCX(b)

(* One turn of the loop, up to the open bitstream.  A function that is     *)
(* already programmed ends the whole hook.                                 *)
HookLoop(c) ==
    /\ cst[c] = "loop"
    /\ IF params[c] = <<>> THEN Succeeds(c)
       ELSE LET w == Head(params[c]).want  p == Head(params[c]).port IN
            IF ~NewPort(p) THEN Ends(c, "failed")
            ELSE IF GetAcceleratorTypeUUID(p) = w.id THEN Succeeds(c)
            ELSE IF GetFPGABitstream(w) = {} THEN Ends(c, "failed")
            ELSE \E b \in GetFPGABitstream(w) : \E opens \in Open(b) :
                   IF opens
                   THEN /\ bstream' = [bstream EXCEPT ![c] = b]
                        /\ cst' = [cst EXCEPT ![c] = "pr"]
                        /\ UNCHANGED <<held, runs, params, overridden, starts>>
                   ELSE Ends(c, "failed")
    /\ UNCHANGED <<board, mode, hw, crashed, assigned, storeVars, pluginVars, events, faults>>

(* A genericPortPR that does not compare interfaces.                       *)
genericPortPRAnyInterface(p, b, dryRun) == NewPort(p) /\ ~dryRun

(* A genericPortPR that takes its flag the wrong way round.                *)
genericPortPRWhenDry(p, b, dryRun) ==
    NewPort(p) /\ GetInterfaceUUID(GetFME(p)) = b.iface /\ dryRun

(* genericPortPR, up to the call of the driver: whether it is made.        *)
genericPortPR(p, b, dryRun) ==
    NewPort(p) /\ GetInterfaceUUID(GetFME(p)) = b.iface /\ ~dryRun

PortPRFails(p) == [image : {hw[p], NoImage}, ok : BOOLEAN]

(* The ioctl that programs a port: the image it leaves and what it returns.*)
(* It may fail, and so may an image that is not whole: the port then has   *)
(* its old function or none, with or without an error.                     *)
PortPR(p, b) == IF file[b] = "whole" THEN {[image |-> b, ok |-> TRUE]} ELSE PortPRFails(p)

HookPR(c) ==
    /\ cst[c] = "pr"
    /\ LET b == bstream[c]  p == Head(params[c]).port IN
       IF ~genericPortPR(p, b, FALSE)
       THEN Ends(c, "failed") /\ UNCHANGED <<hw, faults>>
       ELSE \E r \in PortPR(p, b) \cup PortPRFails(p) :
              /\ IF r \in PortPR(p, b) THEN UNCHANGED faults
                 ELSE faults < MaxFault /\ faults' = faults + 1
              /\ hw' = [hw EXCEPT ![p] = r.image]
              /\ IF r.ok
                 THEN /\ cst' = [cst EXCEPT ![c] = "verify"]
                      /\ UNCHANGED <<held, runs, params, bstream, overridden, starts>>
                 ELSE Ends(c, "failed")
    /\ UNCHANGED <<board, mode, crashed, assigned, storeVars, pluginVars, events>>

(* A hook that trusts the return code of the driver.                       *)
HookVerifyNot(c) ==
    /\ cst[c] = "verify"
    /\ cst' = [cst EXCEPT ![c] = "loop"]
    /\ params' = [params EXCEPT ![c] = Tail(@)]
    /\ bstream' = [bstream EXCEPT ![c] = NoImage]
    /\ UNCHANGED <<held, runs, overridden, starts>>
    /\ UNCHANGED <<board, mode, hw, crashed, assigned, storeVars, pluginVars, events, faults>>

(* The function the port reports must be the bitstream's.                  *)
HookVerify(c) ==
    /\ cst[c] = "verify"
    /\ IF GetAcceleratorTypeUUID(Head(params[c]).port) = bstream[c].afu
       THEN /\ cst' = [cst EXCEPT ![c] = "loop"]
            /\ params' = [params EXCEPT ![c] = Tail(@)]
            /\ bstream' = [bstream EXCEPT ![c] = NoImage]
            /\ UNCHANGED <<held, runs, overridden, starts>>
       ELSE Ends(c, "failed")
    /\ UNCHANGED <<board, mode, hw, crashed, assigned, storeVars, pluginVars, events, faults>>

-----------------------------------------------------------------------------
(* fpga_tool, and the firmware.                                            *)

Event == events < MaxEvent /\ events' = events + 1

doPR(p, b, dryRun) ==
    /\ Event
    /\ IF genericPortPR(p, b, dryRun)
       THEN /\ hw' = [hw EXCEPT ![p] = b]
            /\ overridden' = overridden \cup {c \in Containers : p \in NodesOf(c)}
       ELSE UNCHANGED <<hw, overridden>>
    /\ UNCHANGED <<board, mode, crashed, assigned, storeVars, pluginVars, cst, held, runs,
                   params, bstream, starts, faults>>

(* Without force an existing file is refused.  The file has its final name *)
(* from its first byte on.  A dry run copies nothing unless it is quiet.   *)
installBitstream(b, dryRun, force, quiet) ==
    /\ Event
    /\ installing = NoImage
    /\ IF (dryRun /\ ~quiet) \/ (~force /\ file[b] # "absent")
       THEN UNCHANGED storeVars
       ELSE file' = [file EXCEPT ![b] = "partial"] /\ installing' = b
    /\ UNCHANGED <<board, mode, hw, crashed, assigned, pluginVars, ctrVars, faults>>

(* io.Copy ends, or the tool dies.                                         *)
InstallEnds ==
    /\ installing # NoImage
    /\ installing' = NoImage
    /\ \/ file' = [file EXCEPT ![installing] = "whole"] /\ UNCHANGED faults
       \/ faults < MaxFault /\ faults' = faults + 1 /\ UNCHANGED file
    /\ UNCHANGED <<board, mode, hw, crashed, assigned, pluginVars, ctrVars, events>>

PortRelease(p) == Event /\ assigned' = assigned \ {p}
PortAssign(p)  == UNCHANGED events /\ assigned' = assigned \cup {p}

portReleaseOrAssign(p, release) ==
    /\ IF release THEN PortRelease(p) ELSE PortAssign(p)
    /\ UNCHANGED <<board, mode, hw, crashed, storeVars, pluginVars, ctrVars, faults>>

(* The firmware of an FME crashes, or is restarted.                        *)
Firmware(f) ==
    /\ \/ f \notin crashed /\ Event /\ crashed' = crashed \cup {f}
       \/ f \in crashed /\ crashed' = crashed \ {f} /\ UNCHANGED events
    /\ UNCHANGED <<board, mode, hw, assigned, storeVars, pluginVars, ctrVars, faults>>

-----------------------------------------------------------------------------
Hook(c) == HookStart(c) \/ HookLoop(c) \/ HookPR(c) \/ HookVerify(c)

Next ==
    \/ Scan \/ ScanFails \/ KubeletLearns \/ InstallEnds
    \/ \E c \in Containers : Allocate(c) \/ Hook(c) \/ Retry(c) \/ Remove(c)
    \/ \E p \in Ports, b \in Bitstreams, d \in BOOLEAN : doPR(p, b, d)
    \/ \E b \in Bitstreams, d, f, q \in BOOLEAN : installBitstream(b, d, f, q)
    \/ \E p \in Ports, r \in BOOLEAN : portReleaseOrAssign(p, r)
    \/ \E f \in {board.fme[p] : p \in Ports} : Firmware(f)

Spec == Init /\ [][Next]_vars

(* Hooks and the tool run, the kubelet creates failed containers again.    *)
FairSpec ==
    /\ Spec
    /\ WF_vars(Scan) /\ WF_vars(KubeletLearns) /\ WF_vars(InstallEnds)
    /\ \A c \in Containers : WF_vars(Hook(c)) /\ WF_vars(Retry(c))

-----------------------------------------------------------------------------
(* A port never holds an image for another interface, whoever programs it: *)
(* hooks, the tool, with firmware that crashes in between                  *)
(* (genericPortPR).                                                        *)
Compatible == \A p \in Ports : hw[p] # NoImage => hw[p].iface = board.iface[GetFME(p)]

(* The container was given port p for a function the port does not have.   *)
Stale(c, p) == mode = "af" /\ \E e \in held[c] :
    e.id = p /\ (hw[p] = NoImage \/ e.type[3] # hw[p].afu)

(* Two containers have a port in common only when the plugin works in af   *)
(* mode and the tool has programmed the port after the scan that one of    *)
(* them got it from: the resource a port belongs to then changes while it  *)
(* is in use (getRegions, getRegionTree, getAfuTree, Allocate).            *)
ExclusiveUnlessStale ==
    \A c, d \in Containers : c # d =>
      \A p \in NodesOf(c) \cap NodesOf(d) : Stale(c, p) \/ Stale(d, p)

(* Some port of the container reports the function w stands for.           *)
Holds(c, w) ==
    \E p \in NodesOf(c) :
      /\ hw[p] # NoImage /\ hw[p].iface = w.iface
      /\ \/ hw[p].afu = w.id
         \/ \E b \in Bitstreams : /\ b.iface = w.iface /\ UniqueUUID(b) = w.id
                                  /\ hw[p].afu = b.afu

(* A container that runs after its hook has at least one of the functions  *)
(* it asked for, so the one when it asks for one, and keeps it until the   *)
(* tool programs its ports, whatever failed or was retried before and      *)
(* whatever other hooks do (process, getFPGAParams).                       *)
FunctionHeld ==
    \A c \in Containers :
      cst[c] = "running" /\ HooksOf(held[c]) > 0 /\ c \notin overridden =>
        \E i \in DOMAIN Wants[c] : Holds(c, Wants[c][i])

(* The bitstream is missing or cut short, or a device is not reachable.    *)
Hopeless(c) ==
    \/ \E i \in DOMAIN Wants[c] :
         LET E == GetFPGABitstream(Wants[c][i]) IN E = {} \/ \E b \in E : file[b] # "whole"
    \/ \E p \in NodesOf(c) : ~NewPort(p) \/ GetFME(p) \in crashed

(* Every container that was given devices comes to run once its bitstreams *)
(* are whole and its devices answer: a failed programming or a copy that   *)
(* was read half way is made good by the next try (process).               *)
StartsUnlessHopeless ==
    <>[](\A c \in Containers :
           cst[c] \in {"none", "running", "rejected"} \/ Hopeless(c))

(* A container that runs after its hook has every function it asked for    *)
(* ("programs FPGA devices based on the environment variables").           *)
AllFunctionsHeld ==
    \A c \in Containers :
      cst[c] = "running" /\ HooksOf(held[c]) > 0 /\ c \notin overridden =>
        \A i \in DOMAIN Wants[c] : Holds(c, Wants[c][i])
=============================================================================
