---------------------------- MODULE FpgaNodeProofs ----------------------------
(***************************************************************************)
(* Proofs about FpgaNode, for any boards, bitstreams, containers, events   *)
(* and faults: images fit their ports, ports are shared only when stale,   *)
(* a container runs with a function it asked for, and the types.           *)
(***************************************************************************)
EXTENDS FpgaNode, FiniteSetTheorems, WellFoundedInduction, TLAPS

Shape ==
    /\ board \in Boards /\ mode \in Modes /\ assigned \subseteq Ports
    /\ hw \in [Ports -> Bitstreams \cup {NoImage}]
    /\ cst = [c \in Containers |-> cst[c]]
    /\ held = [c \in Containers |-> held[c]]
    /\ params = [c \in Containers |-> params[c]]
    /\ bstream = [c \in Containers |-> bstream[c]]

(* What a scan says of a device stays true of it while it is in use.       *)
DeviceOK(d) ==
    /\ d = Device(d.type, d.id, d.nodes, d.healthy, d.hook)
    /\ d.nodes \subseteq Ports
    /\ mode = "af" => /\ d.id \in Ports /\ d.nodes = {d.id} /\ d.hook = FALSE
                      /\ d.healthy => d.type = <<"af", board.iface[board.fme[d.id]], d.type[3]>>
    /\ mode # "af" => /\ \A p \in d.nodes : board.fme[p] = d.id
                      /\ d.healthy => d.type = <<"region", board.iface[d.id]>>

TableOK == \A d \in table : DeviceOK(d)

(* No device is given out twice under the same name.                       *)
Apart == \A c, d \in Containers : c # d =>
           \A x \in held[c], y \in held[d] : ~Same(x, y)

(* What a hook of c may have left to do: only ports of c, of the right     *)
(* interface, for a function c asks for.                                   *)
Param(c) ==
    {x \in [want : {Wants[c][i] : i \in DOMAIN Wants[c]}, port : Ports] :
       x.port \in NodesOf(c) /\ board.iface[board.fme[x.port]] = x.want.iface}

HoldsOne(c) == \E i \in DOMAIN Wants[c] : Holds(c, Wants[c][i])

HeldOK(c) == \A d \in held[c] : DeviceOK(d) /\ d.healthy

HookOK(c) ==
    /\ cst[c] \in {"created", "loop", "pr", "verify", "failed"} => mode # "af"
    /\ cst[c] \in {"loop", "pr", "verify"} => params[c] \in Seq(Param(c))
    /\ cst[c] \in {"pr", "verify"} =>
         /\ params[c] # <<>> /\ bstream[c] \in Bitstreams
         /\ bstream[c].iface = Head(params[c]).want.iface
         /\ UniqueUUID(bstream[c]) = Head(params[c]).want.id
    /\ cst[c] = "loop" /\ params[c] = <<>> /\ c \notin overridden => HoldsOne(c)
    /\ cst[c] = "running" /\ HooksOf(held[c]) > 0 /\ c \notin overridden => HoldsOne(c)

CtrOK(c) == HeldOK(c) /\ HookOK(c)

IInv == /\ Shape /\ Compatible /\ TableOK /\ Apart
        /\ \A c \in Containers : CtrOK(c)

-----------------------------------------------------------------------------
LessThan == {ss \in Nat \X Nat : ss[1] < ss[2]}

LEMMA FirstIn ==
    ASSUME NEW S \in SUBSET Ports, S # {}
    PROVE  First(S) \in S
<1>1. S \subseteq Nat
    BY PortsAssumption DEF Ports
<1>2. IsWellFoundedOn(LessThan, Nat)
    BY Zenon, NatLessThanWellFounded DEF OpToRel, LessThan
<1>3. PICK x \in S : \A y \in S : ~(<<y, x>> \in LessThan)
    BY Zenon, <1>1, <1>2, WFMin
<1>4. ASSUME NEW y \in S
      PROVE  x <= y
  <2>1. x \in Nat /\ y \in Nat /\ <<y, x>> \in Nat \X Nat
      BY Zenon, <1>1
  <2>2. <<y, x>>[1] = y /\ <<y, x>>[2] = x
      BY Zenon
  <2>3. ~(y < x)
      BY Zenon, <1>3, <2>1, <2>2 DEF LessThan
  <2>4. QED
      BY <2>1, <2>3
<1>5. QED
    BY Zenon, <1>4 DEF First

(* Ports of different containers differ in region modes, and in af mode    *)
(* unless one of the containers has an outdated device.                    *)
LEMMA SharedPort ==
    ASSUME IInv, NEW c \in Containers, NEW d \in Containers, c # d,
           NEW p \in NodesOf(c) \cap NodesOf(d)
    PROVE  mode = "af" /\ (Stale(c, p) \/ Stale(d, p))
<1>1. PICK x \in held[c] : p \in x.nodes
    BY Zenon DEF NodesOf
<1>2. PICK y \in held[d] : p \in y.nodes
    BY Zenon DEF NodesOf
<1>3. DeviceOK(x) /\ x.healthy /\ DeviceOK(y) /\ y.healthy /\ ~Same(x, y)
    BY Zenon DEF IInv, CtrOK, HeldOK, Apart
<1>4. CASE mode = "af"
  <2>1. x.id = p /\ y.id = p /\ x.type[3] # y.type[3]
      BY <1>1, <1>2, <1>3, <1>4 DEF DeviceOK, Same
  <2>2. QED
      BY Zenon, <1>1, <1>2, <1>4, <2>1 DEF Stale
<1>5. CASE mode # "af"
    BY Zenon, <1>1, <1>2, <1>3, <1>5 DEF DeviceOK, Same
<1>6. QED
    BY Zenon, <1>4, <1>5

(* A container's part depends on its own state and on its own ports.       *)
LEMMA KeepCtr ==
    ASSUME NEW x \in Containers, CtrOK(x), UNCHANGED <<board, mode>>,
           cst'[x] = cst[x], held'[x] = held[x], params'[x] = params[x], bstream'[x] = bstream[x],
           \/ x \in overridden'
           \/ x \notin overridden /\ \A p \in NodesOf(x) : hw'[p] = hw[p]
    PROVE  CtrOK(x)'
<1>1. NodesOf(x)' = NodesOf(x) /\ Param(x)' = Param(x)
    BY Zenon DEF NodesOf, Param
<1>2. HeldOK(x)'
    BY Zenon DEF CtrOK, HeldOK, DeviceOK
<1>3. x \in overridden' \/ (x \notin overridden /\ (HoldsOne(x) => HoldsOne(x)'))
    BY <1>1 DEF HoldsOne, Holds
<1>4. HookOK(x)'
    BY Zenon, <1>1, <1>3 DEF CtrOK, HookOK, HooksOf
<1>5. QED
    BY Zenon, <1>2, <1>4 DEF CtrOK

LEMMA InitIInv == Init => IInv
<1> SUFFICES ASSUME Init PROVE IInv
    BY Zenon
<1>1. Shape
    BY Zenon, BoardsAssumption DEF Init, Shape
<1>2. Compatible
    BY Zenon, BoardsAssumption DEF Init, Compatible, GetFME
<1>3. TableOK /\ Apart
    BY Zenon DEF Init, TableOK, Apart
<1>4. \A c \in Containers : CtrOK(c)
    BY Zenon DEF Init, CtrOK, HeldOK, HookOK
<1>5. QED
    BY Zenon, <1>1, <1>2, <1>3, <1>4 DEF IInv

(* Steps that neither program a port nor touch a container.                *)
LEMMA FrameIInv ==
    ASSUME IInv, UNCHANGED <<board, mode, hw, cst, held, params, bstream, overridden>>,
           assigned' \subseteq Ports, TableOK'
    PROVE  IInv'
<1>1. Shape' /\ Compatible' /\ Apart'
    BY DEF IInv, Shape, Compatible, GetFME, Apart, Same
<1>2. ASSUME NEW c \in Containers
      PROVE  CtrOK(c)'
    BY Zenon, KeepCtr DEF IInv
<1>3. QED
    BY Zenon, <1>1, <1>2 DEF IInv

LEMMA TableFrame ==
    ASSUME TableOK, UNCHANGED <<board, mode, table>>
    PROVE  TableOK'
BY Zenon DEF TableOK, DeviceOK

(* What any scan finds is described truly.                                 *)
LEMMA ScanOK ==
    ASSUME IInv
    PROVE  \A d \in scanFPGAs : DeviceOK(d)
<1>1. ASSUME NEW f \in getRegions
      PROVE  First(PortsOf(f)) \in Ports /\ board.fme[First(PortsOf(f))] = f
  <2>1. PortsOf(f) \in SUBSET Ports /\ PortsOf(f) # {}
      BY Zenon DEF getRegions, PortsOf, IInv, Shape
  <2>2. First(PortsOf(f)) \in PortsOf(f)
      BY Zenon, <2>1, FirstIn
  <2>3. QED
      BY Zenon, <2>1, <2>2 DEF PortsOf, GetFME
<1>2. ASSUME mode = "af", NEW p \in Ports
      PROVE  DeviceOK(Device(<<"af", GetInterfaceUUID(GetFME(p)), GetAcceleratorTypeUUID(p)>>,
                             p, {p}, GetAcceleratorTypeUUID(p) # "ffff", FALSE))
  <2> DEFINE t == <<"af", GetInterfaceUUID(GetFME(p)), GetAcceleratorTypeUUID(p)>>
             d == Device(t, p, {p}, GetAcceleratorTypeUUID(p) # "ffff", FALSE)
  <2>1. /\ d = Device(d.type, d.id, d.nodes, d.healthy, d.hook)
        /\ d.type = t /\ d.id = p /\ d.nodes = {p} /\ d.hook = FALSE
        /\ d.healthy <=> GetAcceleratorTypeUUID(p) # "ffff"
      BY Zenon DEF Device
  <2>2. d.healthy => GetInterfaceUUID(GetFME(p)) = board.iface[board.fme[p]]
      BY Zenon, <2>1 DEF GetAcceleratorTypeUUID, GetInterfaceUUID, GetFME
  <2>3. t[3] = GetAcceleratorTypeUUID(p)
      BY Zenon
  <2> HIDE DEF d
  <2>4. DeviceOK(d)
      BY Zenon, <1>2, <2>1, <2>2, <2>3 DEF DeviceOK
  <2>5. QED
      BY Zenon, <2>4 DEF d
<1>3. ASSUME mode # "af", NEW f \in getRegions, NEW hook
      PROVE  DeviceOK(RegionDevice(f, hook))
  <2> DEFINE d == RegionDevice(f, hook)
  <2>1. /\ d = Device(d.type, d.id, d.nodes, d.healthy, d.hook)
        /\ d.type = <<"region", GetInterfaceUUID(f)>> /\ d.id = f
        /\ d.nodes = {First(PortsOf(f))}
        /\ d.healthy <=> GetInterfaceUUID(f) # "ffff"
      BY Zenon DEF Device, RegionDevice, Afus
  <2>2. d.healthy => GetInterfaceUUID(f) = board.iface[f]
      BY Zenon, <2>1 DEF GetInterfaceUUID
  <2> HIDE DEF d
  <2>3. DeviceOK(d)
      BY Zenon, <1>1, <1>3, <2>1, <2>2 DEF DeviceOK
  <2>4. QED
      BY Zenon, <2>3 DEF d
<1>4. UNION {Afus(f) : f \in getRegions} \subseteq Ports
    BY Zenon, <1>1 DEF Afus
<1>5. CASE mode = "af"
    BY Zenon, <1>2, <1>4, <1>5 DEF scanFPGAs, getAfuTree
<1>6. CASE mode = "region"
    BY Zenon, <1>3, <1>6 DEF scanFPGAs, getRegionTree
<1>7. CASE mode = "regiondevel"
    BY Zenon, <1>3, <1>7 DEF scanFPGAs, getRegionDevelTree
<1>8. QED
    BY Zenon, <1>5, <1>6, <1>7, ModesAssumption DEF IInv, Shape

-----------------------------------------------------------------------------
(* The kubelet.                                                            *)

LEMMA ScanIInv ==
    ASSUME IInv, Scan \/ ScanFails
    PROVE  IInv'
<1>1. UNCHANGED <<board, mode, hw, assigned, ctrVars>> /\ table' \in {scanFPGAs, {}}
    BY Zenon DEF Scan, ScanFails
<1>2. TableOK'
    BY Zenon, <1>1, ScanOK DEF TableOK, DeviceOK
<1>3. QED
    BY Zenon, <1>1, <1>2, FrameIInv DEF ctrVars, IInv, Shape

LEMMA InUseSame ==
    ASSUME NEW d, NEW e, Same(d, e), InUse(d)
    PROVE  InUse(e)
BY Zenon DEF Same, InUse

(* Without hooks the container runs at once.                               *)
LEMMA AllocateIInv ==
    ASSUME IInv, NEW c \in Containers, Allocate(c)
    PROVE  IInv'
<1>1. UNCHANGED <<board, mode, hw, assigned, table, params, bstream, overridden>>
    BY Zenon DEF Allocate
<1>2. Compatible' /\ TableOK'
    BY Zenon, <1>1, TableFrame DEF IInv, Compatible, GetFME
<1>3. CASE cst' = [cst EXCEPT ![c] = "rejected"] /\ UNCHANGED held
  <2>0. Apart'
      BY Zenon, <1>3 DEF IInv, Apart, Same
  <2>1. Shape'
      BY Zenon, <1>1, <1>3 DEF IInv, Shape
  <2>2. cst'[c] = "rejected" /\ \A x \in Containers \ {c} : cst'[x] = cst[x]
      BY Zenon, <1>3 DEF IInv, Shape
  <2>3. CtrOK(c)'
      BY <1>1, <1>3, <2>2 DEF IInv, CtrOK, HeldOK, HookOK, DeviceOK
  <2>4. ASSUME NEW x \in Containers \ {c}
        PROVE  CtrOK(x)'
      BY Zenon, <1>1, <1>3, <2>2, KeepCtr DEF IInv
  <2>5. QED
      BY Zenon, <1>2, <2>0, <2>1, <2>3, <2>4 DEF IInv
<1>4. CASE ~(cst' = [cst EXCEPT ![c] = "rejected"] /\ UNCHANGED held)
  <2>1. PICK D \in SUBSET kube :
          LET E == {e \in table : \E d \in D : Same(d, e)}
              missing == {e.id : e \in {x \in E : x.hook}} \ cdi IN
          /\ Choice(c, D)
          /\ \A e \in E : e.healthy
          /\ \E w \in writeCdiSpecToFilesystem(missing) :
               LET G == Given(E, w.failed) IN
               /\ held' = [held EXCEPT ![c] = G]
               /\ cst' = [cst EXCEPT ![c] = IF HooksOf(G) = 0 THEN "running" ELSE "created"]
      BY Zenon, <1>4 DEF Allocate
  <2> DEFINE E == {e \in table : \E d \in D : Same(d, e)}
  <2>2. PICK F :
          /\ held' = [held EXCEPT ![c] = Given(E, F)]
          /\ cst' = [cst EXCEPT ![c] = IF HooksOf(Given(E, F)) = 0 THEN "running" ELSE "created"]
      BY Zenon, <2>1
  <2> DEFINE G == Given(E, F)
  <2>3. \A e \in E : e.healthy /\ DeviceOK(e) /\ ~InUse(e)
      BY <2>1 DEF Choice, InUse, Same, IInv, TableOK
  <2> HIDE DEF E
  <2>4. ASSUME NEW g \in G
        PROVE  g.healthy /\ DeviceOK(g) /\ ~InUse(g)
    <3>1. PICK e \in E : g = [e EXCEPT !.hook = @ /\ e.id \notin F]
        BY Zenon DEF Given
    <3>2. /\ g = Device(e.type, e.id, e.nodes, e.healthy, e.hook /\ e.id \notin F)
          /\ e.healthy /\ DeviceOK(e) /\ ~InUse(e)
        BY <2>3, <3>1 DEF DeviceOK, Device
    <3>3. /\ g.type = e.type /\ g.id = e.id /\ g.nodes = e.nodes /\ g.healthy = e.healthy
          /\ g.hook = (e.hook /\ e.id \notin F)
          /\ g = Device(g.type, g.id, g.nodes, g.healthy, g.hook)
        BY Zenon, <3>2 DEF Device
    <3>4. DeviceOK(g)
        BY Zenon, <3>2, <3>3 DEF DeviceOK
    <3>5. ~InUse(g)
      <4>1. Same(g, e)
          BY Zenon, <3>3 DEF Same
      <4>2. QED
          BY Zenon, <3>2, <4>1, InUseSame
    <3>6. QED
        BY Zenon, <3>2, <3>3, <3>4, <3>5
  <2> HIDE DEF G
  <2>5. /\ held'[c] = G /\ cst'[c] = IF HooksOf(G) = 0 THEN "running" ELSE "created"
        /\ \A x \in Containers \ {c} : held'[x] = held[x] /\ cst'[x] = cst[x]
      BY Zenon, <2>2 DEF IInv, Shape, G
  <2>6. Shape'
      BY Zenon, <1>1, <2>2 DEF IInv, Shape
  <2>7. Apart'
    <3>1. ASSUME NEW x \in Containers \ {c}, NEW d \in held[x], NEW g \in G
          PROVE  ~Same(d, g) /\ ~Same(g, d)
        BY Zenon, <2>4 DEF InUse, Same
    <3>2. QED
        BY <2>5, <3>1 DEF IInv, Apart, Same
  <2>8. mode = "af" => HooksOf(G) = 0
      BY Zenon, <2>4, FS_EmptySet DEF DeviceOK, HooksOf
  <2>9. HeldOK(c)'
      BY Zenon, <1>1, <2>4, <2>5 DEF HeldOK, DeviceOK
  <2>10. HookOK(c)'
    <3>1. CASE HooksOf(G) = 0
        BY <2>5, <3>1 DEF HookOK, HooksOf
    <3>2. CASE HooksOf(G) # 0
        BY Zenon, <1>1, <2>5, <2>8, <3>2 DEF HookOK
    <3>3. QED
        BY Zenon, <3>1, <3>2
  <2>11. ASSUME NEW x \in Containers \ {c}
         PROVE  CtrOK(x)'
      BY Zenon, <1>1, <2>5, KeepCtr DEF IInv
  <2>12. QED
      BY Zenon, <1>2, <2>6, <2>7, <2>9, <2>10, <2>11 DEF IInv, CtrOK
<1>5. QED
    BY Zenon, <1>3, <1>4

LEMMA RemoveIInv ==
    ASSUME IInv, NEW c \in Containers, Remove(c)
    PROVE  IInv'
<1>1. /\ UNCHANGED <<board, mode, hw, assigned, table, params, bstream>>
      /\ cst' = [cst EXCEPT ![c] = "none"] /\ held' = [held EXCEPT ![c] = {}]
      /\ overridden' = overridden \ {c}
    BY Zenon DEF Remove, pluginVars
<1>2. Shape' /\ Compatible' /\ TableOK'
    BY Zenon, <1>1, TableFrame DEF IInv, Shape, Compatible, GetFME
<1>3. /\ cst'[c] = "none" /\ held'[c] = {}
      /\ \A x \in Containers \ {c} : cst'[x] = cst[x] /\ held'[x] = held[x]
    BY Zenon, <1>1 DEF IInv, Shape
<1>4. Apart'
    BY <1>3 DEF IInv, Apart, Same
<1>5. CtrOK(c)'
    BY Zenon, <1>3 DEF CtrOK, HeldOK, HookOK
<1>6. ASSUME NEW x \in Containers \ {c}
      PROVE  CtrOK(x)'
    BY Zenon, <1>1, <1>3, KeepCtr DEF IInv
<1>7. QED
    BY Zenon, <1>2, <1>4, <1>5, <1>6 DEF IInv

-----------------------------------------------------------------------------
(* Hooks.                                                                  *)

Only(c, f) == f' = [x \in Containers |-> IF x = c THEN f'[c] ELSE f[x]]

(* A step of one container that programs nothing.                          *)
LEMMA OneCtr ==
    ASSUME IInv, NEW c \in Containers, CtrOK(c)',
           UNCHANGED <<board, mode, hw, assigned, table, held, overridden>>,
           Only(c, cst), Only(c, params), Only(c, bstream)
    PROVE  IInv'
<1>1. Shape'
    BY Zenon DEF IInv, Shape, Only
<1>2. Compatible' /\ TableOK' /\ Apart'
    BY TableFrame DEF IInv, Compatible, GetFME, Apart, Same
<1>3. ASSUME NEW x \in Containers \ {c}
      PROVE  CtrOK(x)'
  <2>1. cst'[x] = cst[x] /\ params'[x] = params[x] /\ bstream'[x] = bstream[x]
      BY Zenon DEF Only
  <2>2. QED
      BY Zenon, <2>1, KeepCtr DEF IInv
<1>4. QED
    BY Zenon, <1>1, <1>2, <1>3 DEF IInv

LEMMA HeldFrame ==
    ASSUME NEW c \in Containers, HeldOK(c), UNCHANGED <<board, mode, held>>
    PROVE  HeldOK(c)'
BY Zenon DEF HeldOK, DeviceOK

LEMMA RetryIInv ==
    ASSUME IInv, NEW c \in Containers, Retry(c)
    PROVE  IInv'
<1>1. /\ UNCHANGED <<board, mode, hw, assigned, table, held, params, bstream, overridden>>
      /\ cst[c] = "failed" /\ cst' = [cst EXCEPT ![c] = "created"]
    BY Zenon DEF Retry, pluginVars
<1>2. Only(c, cst) /\ Only(c, params) /\ Only(c, bstream) /\ cst'[c] = "created"
    BY Zenon, <1>1 DEF IInv, Shape, Only
<1>3. CtrOK(c)'
    BY Zenon, <1>1, <1>2, HeldFrame DEF IInv, CtrOK, HookOK
<1>4. QED
    BY Zenon, <1>1, <1>2, <1>3, OneCtr

LEMMA EndsOK ==
    ASSUME IInv, NEW c \in Containers, Ends(c, "failed"), mode # "af",
           UNCHANGED <<board, mode>>
    PROVE  Only(c, cst) /\ Only(c, params) /\ Only(c, bstream) /\ CtrOK(c)'
<1>1. /\ cst' = [cst EXCEPT ![c] = "failed"] /\ params' = [params EXCEPT ![c] = <<>>]
      /\ bstream' = [bstream EXCEPT ![c] = NoImage] /\ UNCHANGED held
    BY Zenon DEF Ends
<1>2. Only(c, cst) /\ Only(c, params) /\ Only(c, bstream) /\ cst'[c] = "failed"
    BY Zenon, <1>1 DEF IInv, Shape, Only
<1>3. QED
    BY Zenon, <1>1, <1>2, HeldFrame DEF IInv, CtrOK, HookOK

(* The ports of c, as Matching finds them, are ports of the board's        *)
(* interface.                                                              *)
LEMMA MatchingOK ==
    ASSUME IInv, NEW c \in Containers, NEW i \in DOMAIN Wants[c], Found(c, Wants[c][i])
    PROVE  [want |-> Wants[c][i], port |-> First(Matching(c, Wants[c][i]))] \in Param(c)
<1> DEFINE w == Wants[c][i]
           q == First(Matching(c, w))
<1>1. Matching(c, w) \in SUBSET Ports /\ Matching(c, w) # {}
    BY Zenon DEF Found, Matching, NewPort, IInv, Shape
<1>2. q \in Matching(c, w)
    BY Zenon, <1>1, FirstIn
<1>3. q \in Ports /\ q \in NodesOf(c) /\ GetInterfaceUUID(board.fme[q]) = w.iface
    BY Zenon, <1>1, <1>2 DEF Matching, GetFME
<1>4. w.iface # "ffff"
    BY Zenon, WantsAssumption
<1>5. board.iface[board.fme[q]] = w.iface
    BY Zenon, <1>3, <1>4 DEF GetInterfaceUUID
<1> HIDE DEF q
<1>6. [want |-> w, port |-> q] \in Param(c)
    BY Zenon, <1>3, <1>5 DEF Param
<1>7. QED
    BY Zenon, <1>6 DEF q

LEMMA HookStartIInv ==
    ASSUME IInv, NEW c \in Containers, HookStart(c)
    PROVE  IInv'
<1>1. UNCHANGED <<board, mode, hw, assigned, table, held, overridden>> /\ cst[c] = "created"
    BY Zenon DEF HookStart, pluginVars, Ends
<1>2. mode # "af"
    BY Zenon, <1>1 DEF IInv, CtrOK, HookOK
<1>3. CASE \A i \in DOMAIN Wants[c] : Found(c, Wants[c][i])
  <2>1. PICK o \in Bijection(DOMAIN Wants[c], DOMAIN Wants[c]) :
          params' = [params EXCEPT ![c] =
             [i \in DOMAIN Wants[c] |->
                [want |-> Wants[c][o[i]], port |-> First(Matching(c, Wants[c][o[i]]))]]]
      BY Zenon, <1>3 DEF HookStart
  <2>2. cst' = [cst EXCEPT ![c] = "loop"] /\ UNCHANGED bstream
      BY Zenon, <1>3 DEF HookStart
  <2>3. \A i \in DOMAIN Wants[c] : o[i] \in DOMAIN Wants[c]
      BY Zenon DEF Bijection, Injection
  <2> DEFINE s == [i \in DOMAIN Wants[c] |->
                     [want |-> Wants[c][o[i]], port |-> First(Matching(c, Wants[c][o[i]]))]]
  <2>4. \A i \in DOMAIN Wants[c] : s[i] \in Param(c)
      BY Zenon, <1>3, <2>3, MatchingOK
  <2>5. DOMAIN s = 1..Len(Wants[c]) /\ Len(Wants[c]) \in Nat \ {0}
      BY WantsAssumption
  <2> HIDE DEF s
  <2>6. s \in Seq(Param(c)) /\ s # <<>>
    <3>1. s = [i \in 1..Len(Wants[c]) |-> s[i]] /\ DOMAIN Wants[c] = 1..Len(Wants[c])
        BY Zenon, <2>5, WantsAssumption DEF s
    <3>2. s \in [1..Len(Wants[c]) -> Param(c)]
        BY Zenon, <2>4, <3>1
    <3>3. QED
        BY <2>5, <3>2
  <2>7. params'[c] = s /\ cst'[c] = "loop"
      BY Zenon, <2>1, <2>2 DEF IInv, Shape, s
  <2>8. Only(c, cst) /\ Only(c, params) /\ Only(c, bstream)
      BY Zenon, <2>1, <2>2 DEF IInv, Shape, Only
  <2>9. Param(c)' = Param(c)
      BY Zenon, <1>1 DEF Param, NodesOf
  <2>10. CtrOK(c)'
      BY Zenon, <1>1, <1>2, <2>6, <2>7, <2>9, HeldFrame DEF IInv, CtrOK, HookOK
  <2>11. QED
      BY Zenon, <1>1, <2>8, <2>10, OneCtr
<1>4. CASE ~(\A i \in DOMAIN Wants[c] : Found(c, Wants[c][i]))
  <2>1. Ends(c, "failed")
      BY Zenon, <1>4 DEF HookStart
  <2>2. QED
      BY Zenon, <1>1, <1>2, <2>1, EndsOK, OneCtr
<1>5. QED
    BY Zenon, <1>3, <1>4

(* Head and tail of what a hook has left to do.                            *)
LEMMA HeadTail ==
    ASSUME NEW S, NEW s \in Seq(S), s # <<>>
    PROVE  Head(s) \in S /\ Tail(s) \in Seq(S)
OBVIOUS

LEMMA SucceedsOK ==
    ASSUME IInv, NEW c \in Containers, Succeeds(c), mode # "af",
           UNCHANGED <<board, mode, hw>>, c \in overridden \/ HoldsOne(c)
    PROVE  Only(c, cst) /\ Only(c, params) /\ Only(c, bstream) /\ CtrOK(c)'
<1>1. /\ cst' = [cst EXCEPT ![c] = IF runs[c] = 1 THEN "running" ELSE "created"]
      /\ params' = [params EXCEPT ![c] = <<>>] /\ UNCHANGED <<held, bstream, overridden>>
    BY Zenon DEF Succeeds
<1>2. /\ Only(c, cst) /\ Only(c, params) /\ Only(c, bstream)
      /\ cst'[c] \in {"running", "created"}
    BY Zenon, <1>1 DEF IInv, Shape, Only
<1>3. c \in overridden' \/ HoldsOne(c)'
    BY Zenon, <1>1 DEF HoldsOne, Holds, NodesOf
<1>4. QED
    BY Zenon, <1>1, <1>2, <1>3, HeldFrame DEF IInv, CtrOK, HookOK

(* What a port of c reports is a function c asked for when it is the one   *)
(* asked for, or that of a bitstream stored under its name.                *)
LEMMA ReportedHolds ==
    ASSUME IInv, NEW c \in Containers, NEW x \in Param(c),
           \/ GetAcceleratorTypeUUID(x.port) = x.want.id
           \/ \E b \in Bitstreams : /\ b.iface = x.want.iface /\ UniqueUUID(b) = x.want.id
                                    /\ GetAcceleratorTypeUUID(x.port) = b.afu
    PROVE  HoldsOne(c)
<1>1. PICK i \in DOMAIN Wants[c] : x.want = Wants[c][i]
    BY Zenon DEF Param
<1>2. /\ x.port \in Ports /\ x.port \in NodesOf(c)
      /\ board.iface[board.fme[x.port]] = x.want.iface
    BY Zenon DEF Param
<1>3. GetAcceleratorTypeUUID(x.port) \notin {"ffff", "none"}
    BY Zenon, <1>1, WantsAssumption, BitstreamsAssumption
<1>4. hw[x.port] # NoImage /\ GetAcceleratorTypeUUID(x.port) = hw[x.port].afu
    BY Zenon, <1>3 DEF GetAcceleratorTypeUUID
<1>5. hw[x.port].iface = x.want.iface
    BY Zenon, <1>2, <1>4 DEF IInv, Compatible, GetFME
<1>6. Holds(c, x.want)
    BY Zenon, <1>2, <1>4, <1>5 DEF Holds
<1>7. QED
    BY Zenon, <1>1, <1>6 DEF HoldsOne

LEMMA HookLoopIInv ==
    ASSUME IInv, NEW c \in Containers, HookLoop(c)
    PROVE  IInv'
<1>1. UNCHANGED <<board, mode, hw, assigned, table, held, overridden>> /\ cst[c] = "loop"
    BY Zenon DEF HookLoop, pluginVars, Ends, Succeeds
<1>2. mode # "af" /\ params[c] \in Seq(Param(c))
    BY Zenon, <1>1 DEF IInv, CtrOK, HookOK
<1> DEFINE x == Head(params[c])
<1>3. CASE Ends(c, "failed")
    BY Zenon, <1>1, <1>2, <1>3, EndsOK, OneCtr
<1>4. CASE params[c] = <<>>
  <2>1. Succeeds(c) /\ (c \in overridden \/ HoldsOne(c))
      BY Zenon, <1>1, <1>4 DEF HookLoop, IInv, CtrOK, HookOK
  <2>2. QED
      BY Zenon, <1>1, <1>2, <2>1, SucceedsOK, OneCtr
<1>5. CASE params[c] # <<>> /\ GetAcceleratorTypeUUID(x.port) = x.want.id /\ Succeeds(c)
  <2>1. x \in Param(c)
      BY Zenon, <1>2, <1>5, HeadTail
  <2>2. HoldsOne(c)
      BY Zenon, <1>5, <2>1, ReportedHolds
  <2>3. QED
      BY Zenon, <1>1, <1>2, <1>5, <2>2, SucceedsOK, OneCtr
<1>6. CASE /\ params[c] # <<>>
           /\ \E b \in GetFPGABitstream(x.want) :
                /\ bstream' = [bstream EXCEPT ![c] = b] /\ cst' = [cst EXCEPT ![c] = "pr"]
                /\ UNCHANGED params
  <2>1. PICK b \in GetFPGABitstream(x.want) :
             bstream' = [bstream EXCEPT ![c] = b] /\ cst' = [cst EXCEPT ![c] = "pr"] /\ UNCHANGED params
      BY Zenon, <1>6
  <2>2. b \in Bitstreams /\ b.iface = x.want.iface /\ UniqueUUID(b) = x.want.id
      BY Zenon DEF GetFPGABitstream, InstallPath
  <2>3. Only(c, cst) /\ Only(c, params) /\ Only(c, bstream) /\ cst'[c] = "pr" /\ bstream'[c] = b
      BY Zenon, <2>1 DEF IInv, Shape, Only
  <2>4. Param(c)' = Param(c) /\ UniqueUUID(b)' = UniqueUUID(b)
      BY Zenon, <1>1 DEF Param, NodesOf, UniqueUUID
  <2>5. HookOK(c)'
      BY Zenon, <1>1, <1>2, <1>6, <2>1, <2>2, <2>3, <2>4 DEF HookOK, UniqueUUID
  <2>6. CtrOK(c)'
      BY Zenon, <1>1, <2>5, HeldFrame DEF IInv, CtrOK
  <2>7. QED
      BY Zenon, <1>1, <2>3, <2>6, OneCtr
<1>7. QED
    BY Zenon, <1>3, <1>4, <1>5, <1>6 DEF HookLoop

LEMMA HookVerifyIInv ==
    ASSUME IInv, NEW c \in Containers, HookVerify(c)
    PROVE  IInv'
<1>1. UNCHANGED <<board, mode, hw, assigned, table, held, overridden>> /\ cst[c] = "verify"
    BY Zenon DEF HookVerify, pluginVars, Ends
<1>2. /\ mode # "af" /\ params[c] \in Seq(Param(c)) /\ params[c] # <<>>
      /\ bstream[c] \in Bitstreams /\ bstream[c].iface = Head(params[c]).want.iface
      /\ UniqueUUID(bstream[c]) = Head(params[c]).want.id
    BY Zenon, <1>1 DEF IInv, CtrOK, HookOK
<1>3. CASE Ends(c, "failed")
    BY Zenon, <1>1, <1>2, <1>3, EndsOK, OneCtr
<1>4. CASE ~Ends(c, "failed")
  <2>1. /\ GetAcceleratorTypeUUID(Head(params[c]).port) = bstream[c].afu
        /\ cst' = [cst EXCEPT ![c] = "loop"] /\ params' = [params EXCEPT ![c] = Tail(@)]
        /\ bstream' = [bstream EXCEPT ![c] = NoImage]
      BY Zenon, <1>4 DEF HookVerify
  <2>2. Head(params[c]) \in Param(c) /\ Tail(params[c]) \in Seq(Param(c))
      BY Zenon, <1>2, HeadTail
  <2>3. HoldsOne(c)
      BY Zenon, <1>2, <2>1, <2>2, ReportedHolds
  <2>4. /\ Only(c, cst) /\ Only(c, params) /\ Only(c, bstream) /\ cst'[c] = "loop"
        /\ params'[c] = Tail(params[c])
      BY Zenon, <2>1 DEF IInv, Shape, Only
  <2>5. Param(c)' = Param(c) /\ HoldsOne(c)'
      BY Zenon, <1>1, <2>3 DEF Param, NodesOf, HoldsOne, Holds
  <2>6. HookOK(c)'
      BY Zenon, <1>1, <1>2, <2>2, <2>4, <2>5 DEF HookOK
  <2>7. CtrOK(c)'
      BY Zenon, <1>1, <2>6, HeldFrame DEF IInv, CtrOK
  <2>8. QED
      BY Zenon, <1>1, <2>4, <2>7, OneCtr
<1>5. QED
    BY Zenon, <1>3, <1>4

-----------------------------------------------------------------------------
(* Programming.                                                            *)

(* Whatever is written after the check of genericPortPR fits.              *)
LEMMA ProgramOK ==
    ASSUME IInv, NEW p \in Ports, NEW b \in Bitstreams, genericPortPR(p, b, FALSE),
           NEW r \in {b, hw[p], NoImage}, hw' = [hw EXCEPT ![p] = r], UNCHANGED board
    PROVE  Compatible' /\ hw' \in [Ports -> Bitstreams \cup {NoImage}]
<1>1. b.iface = board.iface[board.fme[p]]
    BY Zenon, BitstreamsAssumption DEF genericPortPR, GetInterfaceUUID, GetFME
<1>2. hw'[p] = r /\ \A q \in Ports \ {p} : hw'[q] = hw[q]
    BY Zenon DEF IInv, Shape
<1>3. Compatible'
    BY <1>1, <1>2 DEF IInv, Compatible, GetFME
<1>4. QED
    BY Zenon, <1>3 DEF IInv, Shape

LEMMA HookPRIInv ==
    ASSUME IInv, NEW c \in Containers, HookPR(c)
    PROVE  IInv'
<1>1. UNCHANGED <<board, mode, assigned, table, held, overridden>> /\ cst[c] = "pr"
    BY Zenon DEF HookPR, pluginVars, Ends
<1>2. /\ mode # "af" /\ params[c] \in Seq(Param(c)) /\ params[c] # <<>>
      /\ bstream[c] \in Bitstreams /\ bstream[c].iface = Head(params[c]).want.iface
      /\ UniqueUUID(bstream[c]) = Head(params[c]).want.id
    BY Zenon, <1>1 DEF IInv, CtrOK, HookOK
<1> DEFINE p == Head(params[c]).port
<1>3. p \in Ports /\ p \in NodesOf(c)
  <2>1. Head(params[c]) \in Param(c)
      BY Zenon, <1>2, HeadTail
  <2>2. QED
      BY Zenon, <2>1 DEF Param
<1>4. CASE ~genericPortPR(p, bstream[c], FALSE)
    BY Zenon, <1>1, <1>2, <1>4, EndsOK, OneCtr DEF HookPR
<1>5. CASE genericPortPR(p, bstream[c], FALSE)
  <2>1. PICK r \in PortPR(p, bstream[c]) \cup PortPRFails(p) :
          /\ hw' = [hw EXCEPT ![p] = r.image]
          /\ \/ cst' = [cst EXCEPT ![c] = "verify"] /\ UNCHANGED <<params, bstream>>
             \/ Ends(c, "failed")
      BY Zenon, <1>5 DEF HookPR
  <2>2. r.image \in {bstream[c], hw[p], NoImage}
      BY DEF PortPR, PortPRFails
  <2>3. Compatible' /\ hw' \in [Ports -> Bitstreams \cup {NoImage}]
      BY Zenon, <1>1, <1>2, <1>3, <1>5, <2>1, <2>2, ProgramOK
  <2>4. Only(c, cst) /\ Only(c, params) /\ Only(c, bstream) /\ CtrOK(c)'
    <3>1. CASE Ends(c, "failed")
        BY Zenon, <1>1, <1>2, <3>1, EndsOK
    <3>2. CASE cst' = [cst EXCEPT ![c] = "verify"] /\ UNCHANGED <<params, bstream>>
      <4>1. Only(c, cst) /\ Only(c, params) /\ Only(c, bstream) /\ cst'[c] = "verify"
          BY Zenon, <3>2 DEF IInv, Shape, Only
      <4>2. Param(c)' = Param(c)
          BY Zenon, <1>1 DEF Param, NodesOf
      <4>3. HookOK(c)'
          BY Zenon, <1>1, <1>2, <3>2, <4>1, <4>2 DEF HookOK, UniqueUUID
      <4>4. QED
          BY Zenon, <1>1, <4>1, <4>3, HeldFrame DEF IInv, CtrOK
    <3>3. QED
        BY Zenon, <2>1, <3>1, <3>2
  <2>5. ASSUME NEW x \in Containers \ {c}
        PROVE  CtrOK(x)'
    <3>1. p \notin NodesOf(x)
        BY Zenon, <1>2, <1>3, SharedPort
    <3>2. \A q \in NodesOf(x) : hw'[q] = hw[q]
      <4>1. NodesOf(x) \subseteq Ports
          BY DEF NodesOf, IInv, CtrOK, HeldOK, DeviceOK
      <4>2. QED
          BY Zenon, <2>1, <3>1, <4>1 DEF IInv, Shape
    <3>3. cst'[x] = cst[x] /\ params'[x] = params[x] /\ bstream'[x] = bstream[x]
        BY Zenon, <2>4 DEF Only
    <3>4. QED
        BY Zenon, <1>1, <3>2, <3>3, KeepCtr DEF IInv
  <2>6. Shape'
      BY Zenon, <1>1, <2>3, <2>4 DEF IInv, Shape, Only
  <2>7. TableOK' /\ Apart'
      BY Zenon, <1>1, TableFrame DEF IInv, Apart, Same
  <2>8. QED
      BY Zenon, <2>3, <2>4, <2>5, <2>6, <2>7 DEF IInv
<1>6. QED
    BY Zenon, <1>4, <1>5

LEMMA DoPRIInv ==
    ASSUME IInv, NEW p \in Ports, NEW b \in Bitstreams, NEW d \in BOOLEAN, doPR(p, b, d)
    PROVE  IInv'
<1>1. UNCHANGED <<board, mode, assigned, table, held, cst, params, bstream>>
    BY Zenon DEF doPR, pluginVars
<1>2. CASE UNCHANGED <<hw, overridden>>
  <2>1. TableOK'
      BY Zenon, <1>1, TableFrame DEF IInv
  <2>2. QED
      BY Zenon, <1>1, <1>2, <2>1, FrameIInv DEF IInv, Shape
<1>3. CASE /\ genericPortPR(p, b, d) /\ hw' = [hw EXCEPT ![p] = b]
           /\ overridden' = overridden \cup {c \in Containers : p \in NodesOf(c)}
  <2>1. genericPortPR(p, b, FALSE)
      BY Zenon, <1>3 DEF genericPortPR
  <2>2. Compatible' /\ hw' \in [Ports -> Bitstreams \cup {NoImage}]
      BY Zenon, <1>1, <1>3, <2>1, ProgramOK
  <2>3. Shape' /\ TableOK' /\ Apart'
      BY <1>1, <2>2, TableFrame DEF IInv, Shape, Apart, Same
  <2>4. ASSUME NEW x \in Containers
        PROVE  CtrOK(x)'
    <3>1. CASE x \in overridden'
        BY Zenon, <1>1, <3>1, KeepCtr DEF IInv
    <3>2. CASE x \notin overridden'
      <4>1. p \notin NodesOf(x) /\ x \notin overridden
          BY Zenon, <1>3, <3>2
      <4>2. NodesOf(x) \subseteq Ports
          BY DEF NodesOf, IInv, CtrOK, HeldOK, DeviceOK
      <4>3. \A q \in NodesOf(x) : hw'[q] = hw[q]
          BY Zenon, <1>3, <4>1, <4>2 DEF IInv, Shape
      <4>4. QED
          BY Zenon, <1>1, <4>1, <4>3, KeepCtr DEF IInv
    <3>3. QED
        BY Zenon, <3>1, <3>2
  <2>5. QED
      BY Zenon, <2>2, <2>3, <2>4 DEF IInv
<1>4. QED
    BY Zenon, <1>2, <1>3 DEF doPR

-----------------------------------------------------------------------------
(* Types.  Whether a container has devices, how many hooks it has still to *)
(* run and whether a bitstream is open follow from where it is.            *)

Devices(D) ==
    /\ IsFiniteSet(D)
    /\ \A d \in D : /\ d.nodes \subseteq Ports /\ d.healthy \in BOOLEAN
                    /\ d.hook => d.id \in Fmes

NodeTypes ==
    /\ crashed \subseteq Fmes /\ cdi \subseteq Fmes
    /\ file \in [Bitstreams -> {"absent", "partial", "whole"}]
    /\ installing \in Bitstreams \cup {NoImage}

CtrsTyped ==
    /\ bstream \in [Containers -> Bitstreams \cup {NoImage}]
    /\ cst \in [Containers -> Status]
    /\ runs = [c \in Containers |-> runs[c]]
    /\ overridden \subseteq Containers

Typed(h, k, s, b) ==
    /\ IsFiniteSet(h)
    /\ h = {} <=> s \in {"none", "rejected"}
    /\ k \in 0..HooksOf(h)
    /\ s \in {"pr", "verify"} <=> b # NoImage
    /\ k > 0 <=> s \in {"created", "loop", "pr", "verify", "failed"}

CtrTyped(c) == Typed(held[c], runs[c], cst[c], bstream[c])

Counts == starts \in 0..MaxStart /\ events \in 0..MaxEvent /\ faults \in 0..MaxFault

TypeInv ==
    /\ NodeTypes /\ Devices(table) /\ Devices(kube) /\ Counts
    /\ CtrsTyped /\ \A c \in Containers : CtrTyped(c)

LEMMA CtrPrimed ==
    ASSUME NEW c, Typed(held'[c], runs'[c], cst'[c], bstream'[c])
    PROVE  CtrTyped(c)'
BY Zenon DEF CtrTyped, Typed, HooksOf

LEMMA CtrFrame ==
    ASSUME NEW c, CtrTyped(c), held'[c] = held[c], runs'[c] = runs[c], cst'[c] = cst[c],
           bstream'[c] = bstream[c]
    PROVE  CtrTyped(c)'
BY Zenon, CtrPrimed DEF CtrTyped

LEMMA BoundsAreNumbers == MaxStart \in Nat /\ MaxEvent \in Nat /\ MaxFault \in Nat
BY Zenon, BoundsAssumption

LEMMA InitTypes == Init => TypeInv
<1> SUFFICES ASSUME Init PROVE TypeInv
    BY Zenon
<1>1. NodeTypes
    BY Zenon DEF Init, NodeTypes
<1>2. Devices(table) /\ Devices(kube)
    BY Zenon, FS_EmptySet DEF Init, Devices
<1>3. Counts
    BY BoundsAreNumbers DEF Init, Counts
<1>4. CtrsTyped
    BY Zenon DEF Init, CtrsTyped, Status
<1>5. ASSUME NEW c \in Containers
      PROVE  CtrTyped(c)
  <2>1. held[c] = {} /\ runs[c] = 0 /\ cst[c] = "none" /\ bstream[c] = NoImage
      BY Zenon DEF Init
  <2>2. HooksOf({}) = 0
      BY Zenon, FS_EmptySet DEF HooksOf
  <2>3. QED
      BY <2>1, <2>2, FS_EmptySet DEF CtrTyped, Typed
<1>6. QED
    BY Zenon, <1>1, <1>2, <1>3, <1>4, <1>5 DEF TypeInv

LEMMA ImageFinite ==
    ASSUME NEW S, IsFiniteSet(S), NEW g, DOMAIN g = S
    PROVE  IsFiniteSet({g[x] : x \in S})
<1> DEFINE T == {g[x] : x \in S}
           h == [x \in S |-> g[x]]
<1>1. h \in Surjection(S, T)
    BY Zenon DEF Surjection
<1>2. QED
    BY Zenon, <1>1, FS_Surjection

LEMMA DeviceFields ==
    ASSUME NEW t, NEW id, NEW nodes, NEW healthy \in BOOLEAN, NEW hook
    PROVE  LET d == Device(t, id, nodes, healthy, hook) IN
           d.id = id /\ d.healthy \in BOOLEAN /\ d.hook = hook
BY Zenon DEF Device

LEMMA ScanTypes ==
    ASSUME IInv
    PROVE  Devices(scanFPGAs)
<1>1. IsFiniteSet(Ports) /\ IsFiniteSet(getRegions) /\ getRegions \subseteq Fmes
  <2>1. IsFiniteSet(1..NumPorts)
      BY PortsAssumption, FS_Interval
  <2>2. getRegions \in SUBSET (1..NumPorts)
      BY Zenon DEF getRegions, Fmes
  <2>3. QED
      BY Zenon, <2>1, <2>2, FS_Subset DEF Ports, Fmes
<1>2. ASSUME NEW hook
      PROVE  IsFiniteSet({RegionDevice(f, hook) : f \in getRegions})
  <2> DEFINE g == [f \in getRegions |-> RegionDevice(f, hook)]
  <2>1. IsFiniteSet({g[f] : f \in getRegions})
      BY Zenon, <1>1, ImageFinite
  <2>2. {g[f] : f \in getRegions} = {RegionDevice(f, hook) : f \in getRegions}
      BY Zenon
  <2>3. QED
      BY Zenon, <2>1, <2>2
<1>3. IsFiniteSet(getAfuTree)
  <2> DEFINE P == UNION {Afus(f) : f \in getRegions}
             dev(p) == Device(<<"af", GetInterfaceUUID(GetFME(p)), GetAcceleratorTypeUUID(p)>>,
                              p, {p}, GetAcceleratorTypeUUID(p) # "ffff", FALSE)
             g == [p \in P |-> dev(p)]
  <2>1. IsFiniteSet(P)
    <3>1. \A f \in getRegions : First(PortsOf(f)) \in Ports
      <4> SUFFICES ASSUME NEW f \in getRegions PROVE First(PortsOf(f)) \in Ports
          BY Zenon
      <4>1. PortsOf(f) \in SUBSET Ports /\ PortsOf(f) # {}
          BY Zenon DEF getRegions, PortsOf, IInv, Shape
      <4>2. QED
          BY Zenon, <4>1, FirstIn
    <3>2. P \in SUBSET Ports
        BY Zenon, <3>1 DEF Afus
    <3>3. QED
        BY Zenon, <1>1, <3>2, FS_Subset
  <2> HIDE DEF P
  <2>2. IsFiniteSet({g[p] : p \in P})
      BY Zenon, <2>1, ImageFinite
  <2>3. {g[p] : p \in P} = {dev(p) : p \in P}
      BY Zenon
  <2>4. getAfuTree = {dev(p) : p \in P}
      BY Zenon DEF getAfuTree, P
  <2>5. QED
      BY Zenon, <2>2, <2>3, <2>4
<1>4. \A d \in scanFPGAs : d.nodes \subseteq Ports
    BY Zenon, ScanOK DEF DeviceOK
<1>5. /\ \A d \in getAfuTree : d.healthy \in BOOLEAN /\ d.hook = FALSE
      /\ \A d \in getRegionTree \cup getRegionDevelTree : d.healthy \in BOOLEAN /\ d.id \in Fmes
  <2>1. ASSUME NEW p, NEW t
        PROVE  LET d == Device(t, p, {p}, GetAcceleratorTypeUUID(p) # "ffff", FALSE) IN
               d.healthy \in BOOLEAN /\ d.hook = FALSE
    <3>1. PICK h \in BOOLEAN : h = (GetAcceleratorTypeUUID(p) # "ffff")
        BY Zenon
    <3>2. LET d == Device(t, p, {p}, h, FALSE) IN d.healthy \in BOOLEAN /\ d.hook = FALSE
        BY Zenon DEF Device
    <3>3. QED
        BY <3>1, <3>2, Zenon
  <2>2. \A d \in getAfuTree : d.healthy \in BOOLEAN /\ d.hook = FALSE
      BY <2>1, Zenon DEF getAfuTree
  <2>3. ASSUME NEW f \in getRegions, NEW hook
        PROVE  RegionDevice(f, hook).healthy \in BOOLEAN /\ RegionDevice(f, hook).id \in Fmes
    <3>1. PICK h \in BOOLEAN : h = (GetInterfaceUUID(f) # "ffff")
        BY Zenon
    <3>2. RegionDevice(f, hook) = Device(<<"region", GetInterfaceUUID(f)>>, f, Afus(f), h, hook)
        BY <3>1, Zenon DEF RegionDevice
    <3>3. QED
        BY <1>1, <3>2, DeviceFields
  <2>4. QED
      BY <2>2, <2>3, Zenon DEF getRegionTree, getRegionDevelTree
<1>6. mode \in {"af", "region", "regiondevel"}
    BY Zenon, ModesAssumption DEF IInv, Shape
<1>7. scanFPGAs \in {getAfuTree, getRegionTree, getRegionDevelTree}
    BY Zenon, <1>6 DEF scanFPGAs
<1>8. IsFiniteSet(getRegionTree) /\ IsFiniteSet(getRegionDevelTree)
    BY Zenon, <1>2 DEF getRegionTree, getRegionDevelTree
<1>9. QED
    BY Zenon, <1>3, <1>4, <1>5, <1>7, <1>8 DEF Devices

(* What the kubelet chose is not empty, since the container wants          *)
(* something; so neither is what it is given.                              *)
LEMMA GivenSome ==
    ASSUME NEW c \in Containers, NEW D, IsFiniteSet(D), Choice(c, D),
           NEW E, Cardinality(E) = Cardinality(D)
    PROVE  E # {}
<1> DEFINE t == ResourceOf(Wants[c][1])
           I == {i \in DOMAIN Wants[c] : ResourceOf(Wants[c][i]) = t}
<1>1. DOMAIN Wants[c] = 1..Len(Wants[c]) /\ Len(Wants[c]) \in Nat \ {0}
    BY WantsAssumption
<1>2. 1 \in I /\ IsFiniteSet(I)
  <2>1. IsFiniteSet(1..Len(Wants[c])) /\ I \in SUBSET (1..Len(Wants[c]))
      BY <1>1, FS_Interval
  <2>2. QED
      BY <1>1, <2>1, FS_Subset
<1>3. Cardinality({d \in D : d.type = t}) = Cardinality(I)
    BY Zenon, <1>1 DEF Choice
<1>4. Cardinality(I) # 0
    BY Zenon, <1>2, FS_EmptySet
<1>5. D # {}
    BY Zenon, <1>3, <1>4, FS_EmptySet
<1>6. QED
    BY Zenon, <1>5, FS_EmptySet

LEMMA HooksCounted ==
    ASSUME NEW D, IsFiniteSet(D)
    PROVE  HooksOf(D) \in Nat
BY Zenon, FS_Subset, FS_CardinalityType DEF HooksOf

LEMMA GivenFinite ==
    ASSUME NEW E, IsFiniteSet(E), NEW F
    PROVE  IsFiniteSet(Given(E, F)) /\ (E # {} => Given(E, F) # {})
<1> DEFINE g == [e \in E |-> [e EXCEPT !.hook = @ /\ e.id \notin F]]
<1>1. DOMAIN g = E
    BY Zenon
<1>2. Given(E, F) = {g[e] : e \in E}
    BY Zenon DEF Given
<1> HIDE DEF g
<1>3. IsFiniteSet({g[e] : e \in E})
    BY Zenon, <1>1, ImageFinite
<1>4. QED
    BY Zenon, <1>2, <1>3

LEMMA AllocateTypes ==
    ASSUME IInv, TypeInv, NEW c \in Containers, Allocate(c)
    PROVE  TypeInv'
<1>1. UNCHANGED <<crashed, file, installing, table, kube, bstream, overridden, events>>
    BY Zenon DEF Allocate, storeVars
<1>2. Devices(table)' /\ Devices(kube)'
    BY Zenon, <1>1 DEF TypeInv, Devices
<1>3. /\ cst = [x \in Containers |-> cst[x]] /\ held = [x \in Containers |-> held[x]]
      /\ runs = [x \in Containers |-> runs[x]]
    BY Zenon DEF IInv, Shape, TypeInv, CtrsTyped
<1>4. CtrTyped(c) /\ cst[c] = "none" /\ bstream[c] = NoImage /\ held[c] = {}
    BY Zenon DEF TypeInv, CtrTyped, Typed, Allocate
<1>5. starts' \in 0..MaxStart /\ (faults' = faults \/ (faults < MaxFault /\ faults' = faults + 1))
  <2>1. starts \in 0..MaxStart
      BY Zenon DEF TypeInv, Counts
  <2>2. starts < MaxStart /\ starts' = starts + 1
      BY Zenon DEF Allocate
  <2>3. faults' = faults \/ (faults < MaxFault /\ faults' = faults + 1)
      BY Zenon DEF Allocate
  <2>4. QED
      BY <2>1, <2>2, <2>3, BoundsAreNumbers
<1>6. Counts'
  <2>1. faults \in 0..MaxFault
      BY Zenon DEF TypeInv, Counts
  <2>2. faults' \in 0..MaxFault
      BY <1>5, <2>1, BoundsAreNumbers
  <2>3. QED
      BY Zenon, <1>1, <1>5, <2>2 DEF TypeInv, Counts
<1>7. CASE cst' = [cst EXCEPT ![c] = "rejected"] /\ UNCHANGED <<cdi, held, runs>>
  <2>1. NodeTypes' /\ CtrsTyped'
      BY Zenon, <1>1, <1>7 DEF TypeInv, NodeTypes, CtrsTyped, Status
  <2>2. cst'[c] = "rejected" /\ \A x \in Containers \ {c} : cst'[x] = cst[x]
      BY Zenon, <1>3, <1>7
  <2>3. CtrTyped(c)'
    <3>1. Typed(held[c], runs[c], "rejected", bstream[c])
        BY Zenon, <1>4 DEF CtrTyped, Typed
    <3>2. QED
        BY Zenon, <1>1, <1>7, <2>2, <3>1, CtrPrimed
  <2>4. \A x \in Containers \ {c} : CtrTyped(x)'
      BY Zenon, <1>1, <1>7, <2>2, CtrFrame DEF TypeInv
  <2>5. QED
      BY Zenon, <1>2, <1>6, <2>1, <2>3, <2>4 DEF TypeInv
<1>8. CASE ~(cst' = [cst EXCEPT ![c] = "rejected"] /\ UNCHANGED <<cdi, held, runs>>)
  <2>1. PICK D \in SUBSET kube :
          LET E == {e \in table : \E d \in D : Same(d, e)}
              missing == {e.id : e \in {x \in E : x.hook}} \ cdi IN
          /\ Choice(c, D)
          /\ Cardinality(E) = Cardinality(D)
          /\ \E w \in writeCdiSpecToFilesystem(missing) :
               LET G == Given(E, w.failed) IN
               /\ cdi' = cdi \cup w.written
               /\ held' = [held EXCEPT ![c] = G]
               /\ runs' = [runs EXCEPT ![c] = HooksOf(G)]
               /\ cst' = [cst EXCEPT ![c] = IF HooksOf(G) = 0 THEN "running" ELSE "created"]
      BY Zenon, <1>8 DEF Allocate
  <2> DEFINE E == {e \in table : \E d \in D : Same(d, e)}
             missing == {e.id : e \in {x \in E : x.hook}} \ cdi
  <2>2. PICK w \in writeCdiSpecToFilesystem(missing) :
          /\ cdi' = cdi \cup w.written
          /\ held' = [held EXCEPT ![c] = Given(E, w.failed)]
          /\ runs' = [runs EXCEPT ![c] = HooksOf(Given(E, w.failed))]
          /\ cst' = [cst EXCEPT ![c] =
                        IF HooksOf(Given(E, w.failed)) = 0 THEN "running" ELSE "created"]
      BY Zenon, <2>1
  <2>3. IsFiniteSet(E) /\ E # {}
    <3>1. IsFiniteSet(D) /\ IsFiniteSet(E)
        BY Zenon, FS_Subset DEF TypeInv, Devices
    <3>2. QED
        BY Zenon, <2>1, <3>1, GivenSome
  <2>4. cdi' \subseteq Fmes
    <3>1. \A e \in E : e.hook => e.id \in Fmes
        BY Zenon DEF TypeInv, Devices
    <3>2. w.written \subseteq missing
        BY Zenon DEF writeCdiSpecToFilesystem
    <3>3. missing \subseteq Fmes
        BY Zenon, <3>1
    <3>4. QED
        BY Zenon, <2>2, <3>2, <3>3 DEF TypeInv, NodeTypes
  <2> DEFINE G == Given(E, w.failed)
  <2>5. IsFiniteSet(G) /\ G # {} /\ HooksOf(G) \in Nat
      BY Zenon, <2>3, GivenFinite, HooksCounted
  <2> HIDE DEF G, E, missing
  <2>6. /\ held' = [held EXCEPT ![c] = G] /\ runs' = [runs EXCEPT ![c] = HooksOf(G)]
        /\ cst' = [cst EXCEPT ![c] = IF HooksOf(G) = 0 THEN "running" ELSE "created"]
      BY Zenon, <2>2 DEF G
  <2>7. /\ held'[c] = G /\ runs'[c] = HooksOf(G)
        /\ cst'[c] = IF HooksOf(G) = 0 THEN "running" ELSE "created"
        /\ \A x \in Containers \ {c} : held'[x] = held[x] /\ runs'[x] = runs[x] /\ cst'[x] = cst[x]
      BY Zenon, <1>3, <2>6
  <2>8. NodeTypes'
      BY Zenon, <1>1, <2>4 DEF TypeInv, NodeTypes
  <2>9. CtrsTyped'
      BY Zenon, <1>1, <2>6 DEF TypeInv, CtrsTyped, Status
  <2>10. CtrTyped(c)'
    <3>1. Typed(G, HooksOf(G), IF HooksOf(G) = 0 THEN "running" ELSE "created", NoImage)
        BY <2>5 DEF Typed
    <3>2. QED
        BY Zenon, <1>1, <1>4, <2>7, <3>1, CtrPrimed
  <2>11. \A x \in Containers \ {c} : CtrTyped(x)'
      BY Zenon, <1>1, <2>7, CtrFrame DEF TypeInv
  <2>12. QED
      BY Zenon, <1>2, <1>6, <2>8, <2>9, <2>10, <2>11 DEF TypeInv
<1>9. QED
    BY Zenon, <1>7, <1>8

(* A step of the hook of one container.                                    *)
LEMMA OneTyped ==
    ASSUME IInv, TypeInv, NEW c \in Containers, CtrTyped(c)',
           UNCHANGED <<crashed, storeVars, pluginVars, held, overridden, starts, events>>,
           \/ UNCHANGED faults
           \/ faults < MaxFault /\ faults' = faults + 1,
           Only(c, cst), Only(c, runs), Only(c, bstream),
           cst'[c] \in Status, bstream'[c] \in Bitstreams \cup {NoImage}
    PROVE  TypeInv'
<1>1. NodeTypes' /\ Devices(table)' /\ Devices(kube)'
    BY Zenon DEF TypeInv, NodeTypes, Devices, storeVars, pluginVars
<1>2. Counts'
  <2>1. faults \in 0..MaxFault
      BY Zenon DEF TypeInv, Counts
  <2>2. faults' \in 0..MaxFault
      BY <2>1, BoundsAreNumbers
  <2>3. QED
      BY Zenon, <2>2 DEF TypeInv, Counts
<1>3. CtrsTyped'
    BY Zenon DEF TypeInv, CtrsTyped, Only
<1>4. ASSUME NEW x \in Containers \ {c}
      PROVE  CtrTyped(x)'
  <2>1. cst'[x] = cst[x] /\ runs'[x] = runs[x] /\ bstream'[x] = bstream[x]
      BY Zenon DEF Only
  <2>2. QED
      BY Zenon, <2>1, CtrFrame DEF TypeInv
<1>5. QED
    BY Zenon, <1>1, <1>2, <1>3, <1>4 DEF TypeInv

(* Where a container with devices may go: its hook keeps the number of     *)
(* runs, or ends and leaves one less.                                      *)
LEMMA MovesTyped ==
    ASSUME TypeInv, NEW c \in Containers, cst[c] \in {"created", "loop", "pr", "verify", "failed"},
           held'[c] = held[c],
           bstream'[c] # NoImage <=> cst'[c] \in {"pr", "verify"},
           \/ /\ runs'[c] \in {runs[c], HooksOf(held[c])}
              /\ cst'[c] \in {"created", "loop", "pr", "verify", "failed"}
           \/ /\ runs'[c] = runs[c] - 1
              /\ cst'[c] = IF runs[c] = 1 THEN "running" ELSE "created"
    PROVE  CtrTyped(c)'
<1>1. /\ IsFiniteSet(held[c]) /\ held[c] # {} /\ runs[c] \in 0..HooksOf(held[c]) /\ runs[c] > 0
      /\ HooksOf(held[c]) \in Nat
    BY Zenon, HooksCounted DEF TypeInv, CtrTyped, Typed
<1>2. /\ runs'[c] \in 0..HooksOf(held[c])
      /\ runs'[c] > 0 <=> cst'[c] \in {"created", "loop", "pr", "verify", "failed"}
    BY <1>1
<1>3. cst'[c] \notin {"none", "rejected"}
    BY Zenon
<1>4. Typed(held[c], runs'[c], cst'[c], bstream'[c])
    BY Zenon, <1>1, <1>2, <1>3 DEF Typed
<1>5. QED
    BY Zenon, <1>4, CtrPrimed

LEMMA RunsFunction ==
    ASSUME IInv, TypeInv
    PROVE  /\ cst = [x \in Containers |-> cst[x]] /\ runs = [x \in Containers |-> runs[x]]
           /\ bstream = [x \in Containers |-> bstream[x]]
BY Zenon DEF IInv, Shape, TypeInv, CtrsTyped

LEMMA EndsTyped ==
    ASSUME IInv, TypeInv, NEW c \in Containers, Ends(c, "failed"),
           cst[c] \in {"created", "loop", "pr", "verify"},
           UNCHANGED <<crashed, storeVars, pluginVars, events>>,
           \/ UNCHANGED faults
           \/ faults < MaxFault /\ faults' = faults + 1
    PROVE  TypeInv'
<1>1. /\ cst' = [cst EXCEPT ![c] = "failed"] /\ bstream' = [bstream EXCEPT ![c] = NoImage]
      /\ UNCHANGED <<held, runs, overridden, starts>>
    BY Zenon DEF Ends
<1>2. /\ Only(c, cst) /\ Only(c, runs) /\ Only(c, bstream)
      /\ cst'[c] = "failed" /\ bstream'[c] = NoImage
    BY Zenon, <1>1, RunsFunction DEF Only
<1>3. CtrTyped(c)'
    BY Zenon, <1>1, <1>2, MovesTyped
<1>4. QED
    BY Zenon, <1>1, <1>2, <1>3, OneTyped DEF Status

(* The steps of a hook that change neither hardware nor plugin.            *)
LEMMA MoveTypes ==
    ASSUME IInv, TypeInv, NEW c \in Containers,
           cst[c] \in {"created", "loop", "pr", "verify", "failed"},
           UNCHANGED <<crashed, storeVars, pluginVars, held, overridden, starts, events>>,
           \/ UNCHANGED faults
           \/ faults < MaxFault /\ faults' = faults + 1,
           NEW s \in Status, cst' = [cst EXCEPT ![c] = s],
           NEW k, runs' = [runs EXCEPT ![c] = k] \/ (k = runs[c] /\ UNCHANGED runs),
           NEW b \in Bitstreams \cup {NoImage},
           bstream' = [bstream EXCEPT ![c] = b] \/ (b = bstream[c] /\ UNCHANGED bstream),
           b # NoImage <=> s \in {"pr", "verify"},
           \/ k \in {runs[c], HooksOf(held[c])} /\ s \in {"created", "loop", "pr", "verify", "failed"}
           \/ k = runs[c] - 1 /\ s = IF runs[c] = 1 THEN "running" ELSE "created"
    PROVE  TypeInv'
<1>1. /\ Only(c, cst) /\ Only(c, runs) /\ Only(c, bstream)
      /\ cst'[c] = s /\ bstream'[c] = b /\ runs'[c] = k
    BY Zenon, RunsFunction DEF Only
<1>2. CtrTyped(c)'
    BY Zenon, <1>1, MovesTyped
<1>3. QED
    BY Zenon, <1>1, <1>2, OneTyped

LEMMA HookTypes ==
    ASSUME IInv, TypeInv, NEW c \in Containers, Hook(c)
    PROVE  TypeInv'
<1>1. /\ UNCHANGED <<crashed, storeVars, pluginVars, held, overridden, starts, events>>
      /\ UNCHANGED faults \/ (faults < MaxFault /\ faults' = faults + 1)
      /\ cst[c] \in {"created", "loop", "pr", "verify"}
    BY Zenon DEF Hook, HookStart, HookLoop, HookPR, HookVerify, Ends, Succeeds
<1>2. cst[c] \in {"pr", "verify"} <=> bstream[c] # NoImage
    BY Zenon DEF TypeInv, CtrTyped, Typed
<1>3. bstream[c] \in Bitstreams \cup {NoImage} /\ NoImage \notin Bitstreams
    BY Zenon, BitstreamsAssumption DEF TypeInv, CtrsTyped
<1>4. CASE Ends(c, "failed")
    BY Zenon, <1>1, <1>4, EndsTyped
<1>5. CASE Succeeds(c) /\ cst[c] = "loop"
  <2> DEFINE s == IF runs[c] = 1 THEN "running" ELSE "created"
  <2>1. /\ runs' = [runs EXCEPT ![c] = runs[c] - 1] /\ cst' = [cst EXCEPT ![c] = s]
        /\ UNCHANGED bstream
      BY Zenon, <1>5 DEF Succeeds
  <2>2. s \in {"running", "created"} /\ s \in Status /\ bstream[c] = NoImage
      BY Zenon, <1>2, <1>5 DEF Status
  <2>3. s = IF runs[c] = 1 THEN "running" ELSE "created"
      BY Zenon
  <2> HIDE DEF s
  <2>4. QED
      BY Zenon, <1>1, <2>1, <2>2, <2>3, MoveTypes
<1>6. CASE /\ cst[c] = "created" /\ cst' = [cst EXCEPT ![c] = "loop"]
           /\ UNCHANGED <<runs, bstream>>
    BY Zenon, <1>1, <1>2, <1>3, <1>6, MoveTypes DEF Status
<1>7. CASE /\ cst[c] = "loop" /\ cst' = [cst EXCEPT ![c] = "pr"] /\ UNCHANGED runs
           /\ \E b \in Bitstreams : bstream' = [bstream EXCEPT ![c] = b]
    BY Zenon, <1>1, <1>3, <1>7, MoveTypes DEF Status
<1>8. CASE /\ cst[c] = "pr" /\ cst' = [cst EXCEPT ![c] = "verify"] /\ UNCHANGED <<runs, bstream>>
    BY Zenon, <1>1, <1>2, <1>3, <1>8, MoveTypes DEF Status
<1>9. CASE /\ cst[c] = "verify" /\ cst' = [cst EXCEPT ![c] = "loop"] /\ UNCHANGED runs
           /\ bstream' = [bstream EXCEPT ![c] = NoImage]
    BY Zenon, <1>1, <1>9, MoveTypes DEF Status
<1>10. QED
  <2>1. CASE HookStart(c)
      BY Zenon, <1>4, <1>6, <2>1 DEF HookStart
  <2>2. CASE HookLoop(c)
    <3>1. \A w : GetFPGABitstream(w) \subseteq Bitstreams
        BY Zenon DEF GetFPGABitstream
    <3>2. QED
        BY Zenon, <1>4, <1>5, <1>7, <2>2, <3>1 DEF HookLoop
  <2>3. CASE HookPR(c)
      BY Zenon, <1>4, <1>8, <2>3 DEF HookPR
  <2>4. CASE HookVerify(c)
      BY Zenon, <1>4, <1>9, <2>4 DEF HookVerify
  <2>5. QED
      BY Zenon, <2>1, <2>2, <2>3, <2>4 DEF Hook

LEMMA RetryTypes ==
    ASSUME IInv, TypeInv, NEW c \in Containers, Retry(c)
    PROVE  TypeInv'
<1>1. /\ UNCHANGED <<crashed, storeVars, pluginVars, held, overridden, starts, events, faults, bstream>>
      /\ cst[c] = "failed" /\ cst' = [cst EXCEPT ![c] = "created"]
      /\ runs' = [runs EXCEPT ![c] = HooksOf(held[c])]
    BY Zenon DEF Retry
<1>2. bstream[c] = NoImage
    BY Zenon, <1>1 DEF TypeInv, CtrTyped, Typed
<1>3. QED
    BY Zenon, <1>1, <1>2, MoveTypes DEF Status

LEMMA RemoveTypes ==
    ASSUME IInv, TypeInv, NEW c \in Containers, Remove(c)
    PROVE  TypeInv'
<1>1. /\ UNCHANGED <<crashed, storeVars, pluginVars, bstream, starts, events, faults>>
      /\ cst[c] \in {"running", "failed", "rejected"} /\ cst' = [cst EXCEPT ![c] = "none"]
      /\ held' = [held EXCEPT ![c] = {}] /\ runs' = [runs EXCEPT ![c] = 0]
      /\ overridden' = overridden \ {c}
    BY Zenon DEF Remove
<1>2. NodeTypes' /\ Devices(table)' /\ Devices(kube)' /\ Counts'
    BY Zenon, <1>1 DEF TypeInv, NodeTypes, Devices, Counts, storeVars, pluginVars
<1>3. CtrsTyped'
    BY Zenon, <1>1 DEF TypeInv, CtrsTyped, Status
<1>4. /\ cst'[c] = "none" /\ held'[c] = {} /\ runs'[c] = 0
      /\ \A x \in Containers \ {c} : cst'[x] = cst[x] /\ held'[x] = held[x] /\ runs'[x] = runs[x]
    BY Zenon, <1>1, RunsFunction DEF IInv, Shape
<1>5. CtrTyped(c)'
  <2>1. HooksOf({}) = 0
      BY Zenon, FS_EmptySet DEF HooksOf
  <2>2. bstream'[c] = NoImage
      BY Zenon, <1>1 DEF TypeInv, CtrTyped, Typed
  <2>3. Typed({}, 0, "none", NoImage)
      BY <2>1, FS_EmptySet DEF Typed
  <2>4. QED
      BY Zenon, <1>4, <2>2, <2>3, CtrPrimed
<1>6. \A x \in Containers \ {c} : CtrTyped(x)'
    BY Zenon, <1>1, <1>4, CtrFrame DEF TypeInv
<1>7. QED
    BY Zenon, <1>2, <1>3, <1>5, <1>6 DEF TypeInv

LEMMA NodeStepTypes ==
    ASSUME IInv, TypeInv,
           \/ Scan \/ ScanFails \/ KubeletLearns \/ InstallEnds \/ UNCHANGED vars
           \/ \E p \in Ports, b \in Bitstreams, d \in BOOLEAN : doPR(p, b, d)
           \/ \E b \in Bitstreams, d, f, q \in BOOLEAN : installBitstream(b, d, f, q)
           \/ \E p \in Ports, r \in BOOLEAN : portReleaseOrAssign(p, r)
           \/ \E f \in {board.fme[p] : p \in Ports} : Firmware(f)
    PROVE  TypeInv'
<1>1. UNCHANGED <<cdi, cst, held, runs, bstream, starts>>
    BY Zenon DEF Scan, ScanFails, KubeletLearns, InstallEnds, vars, doPR, installBitstream,
           portReleaseOrAssign, Firmware, pluginVars, ctrVars
<1>2. CtrsTyped' /\ \A c \in Containers : CtrTyped(c)'
  <2>1. \/ overridden' = overridden
        \/ \E p \in Ports : overridden' = overridden \cup {c \in Containers : p \in NodesOf(c)}
      BY Zenon DEF Scan, ScanFails, KubeletLearns, InstallEnds, vars, doPR, installBitstream,
             portReleaseOrAssign, Firmware, ctrVars
  <2>2. QED
      BY Zenon, <1>1, <2>1, CtrFrame DEF TypeInv, CtrsTyped
<1>3. Counts'
  <2>1. starts \in 0..MaxStart /\ events \in 0..MaxEvent /\ faults \in 0..MaxFault
      BY Zenon DEF TypeInv, Counts
  <2>2. /\ events' = events \/ (events < MaxEvent /\ events' = events + 1)
        /\ faults' = faults \/ (faults < MaxFault /\ faults' = faults + 1)
      BY Zenon DEF Scan, ScanFails, KubeletLearns, InstallEnds, vars, doPR, installBitstream,
             portReleaseOrAssign, PortRelease, PortAssign, Firmware, Event
  <2>3. events' \in 0..MaxEvent /\ faults' \in 0..MaxFault
      BY <2>1, <2>2, BoundsAreNumbers
  <2>4. QED
      BY Zenon, <1>1, <2>1, <2>3 DEF Counts
<1>4. Devices(table)' /\ Devices(kube)'
  <2>1. Devices({})
      BY Zenon, FS_EmptySet DEF Devices
  <2>2. table' \in {table, scanFPGAs, {}} /\ kube' \in {kube, table}
      BY Zenon DEF Scan, ScanFails, KubeletLearns, InstallEnds, vars, doPR, installBitstream,
             portReleaseOrAssign, Firmware, pluginVars
  <2>3. Devices(table') /\ Devices(kube')
      BY Zenon, <2>1, <2>2, ScanTypes DEF TypeInv
  <2>4. QED
      BY Zenon, <2>3 DEF Devices
<1>5. NodeTypes'
  <2>1. crashed' \subseteq Fmes
    <3>1. \A p \in Ports : board.fme[p] \in Fmes
        BY Zenon, BoardsAssumption DEF IInv, Shape
    <3>2. \/ crashed' = crashed
          \/ \E p \in Ports : \/ crashed' = crashed \cup {board.fme[p]}
                            \/ crashed' = crashed \ {board.fme[p]}
        BY Zenon DEF Scan, ScanFails, KubeletLearns, InstallEnds, vars, doPR, installBitstream,
               portReleaseOrAssign, Firmware
    <3>3. QED
        BY Zenon, <3>1, <3>2 DEF TypeInv, NodeTypes
  <2>2. /\ file' \in [Bitstreams -> {"absent", "partial", "whole"}]
        /\ installing' \in Bitstreams \cup {NoImage}
    <3>1. CASE InstallEnds \/ \E b \in Bitstreams, d, f, q \in BOOLEAN : installBitstream(b, d, f, q)
        BY Zenon, <3>1 DEF TypeInv, NodeTypes, InstallEnds, installBitstream, storeVars
    <3>2. CASE UNCHANGED storeVars
        BY Zenon, <3>2 DEF TypeInv, NodeTypes, storeVars
    <3>3. QED
        BY Zenon, <3>1, <3>2 DEF Scan, ScanFails, KubeletLearns, vars, doPR, portReleaseOrAssign,
                          Firmware, storeVars
  <2>3. QED
      BY Zenon, <1>1, <2>1, <2>2 DEF TypeInv, NodeTypes
<1>6. QED
    BY Zenon, <1>2, <1>3, <1>4, <1>5 DEF TypeInv

-----------------------------------------------------------------------------
LEMMA NextIInv ==
    ASSUME IInv, [Next]_vars
    PROVE  IInv'
<1>1. CASE Scan \/ ScanFails
    BY Zenon, <1>1, ScanIInv
<1>2. CASE \/ KubeletLearns \/ InstallEnds \/ UNCHANGED vars
           \/ \E b \in Bitstreams, d, f, q \in BOOLEAN : installBitstream(b, d, f, q)
           \/ \E p \in Ports, r \in BOOLEAN : portReleaseOrAssign(p, r)
           \/ \E f \in {board.fme[p] : p \in Ports} : Firmware(f)
  <2>1. UNCHANGED <<board, mode, hw, table, cst, held, params, bstream, overridden>>
      BY Zenon, <1>2 DEF KubeletLearns, InstallEnds, installBitstream, portReleaseOrAssign, Firmware,
                  vars, ctrVars, pluginVars
  <2>2. assigned' \subseteq Ports
      BY Zenon, <1>2 DEF KubeletLearns, InstallEnds, installBitstream, portReleaseOrAssign, Firmware,
                  PortRelease, PortAssign, vars, IInv, Shape
  <2>3. TableOK'
      BY Zenon, <2>1, TableFrame DEF IInv
  <2>4. QED
      BY Zenon, <2>1, <2>2, <2>3, FrameIInv
<1>3. CASE \E c \in Containers : Allocate(c) \/ Hook(c) \/ Retry(c) \/ Remove(c)
    BY Zenon, <1>3, AllocateIInv, RetryIInv, RemoveIInv, HookStartIInv, HookLoopIInv, HookPRIInv,
       HookVerifyIInv DEF Hook
<1>4. CASE \E p \in Ports, b \in Bitstreams, d \in BOOLEAN : doPR(p, b, d)
    BY Zenon, <1>4, DoPRIInv
<1>5. QED
    BY Zenon, <1>1, <1>2, <1>3, <1>4 DEF Next

(* Whoever programs a port, and whenever firmware crashes in between, no   *)
(* port ever holds an image for another interface (genericPortPR).         *)
THEOREM ImagesFit == Spec => []Compatible
<1>1. IInv => Compatible
    BY Zenon DEF IInv
<1>2. QED
    BY InitIInv, NextIInv, <1>1, PTL DEF Spec

(* Two containers have a port in common only in af mode, and only when one *)
(* of them has it for a function the port no longer has (scanFPGAs,        *)
(* Allocate).                                                              *)
THEOREM SharedOnlyIfStale == Spec => []ExclusiveUnlessStale
<1>1. IInv => ExclusiveUnlessStale
    BY Zenon, SharedPort DEF ExclusiveUnlessStale
<1>2. QED
    BY InitIInv, NextIInv, <1>1, PTL DEF Spec

(* A container that runs after its hook has a function it asked for, until *)
(* the tool programs one of its ports (process, getFPGAParams).            *)
THEOREM RunsWithFunction == Spec => []FunctionHeld
<1>1. IInv => FunctionHeld
    BY Zenon DEF IInv, CtrOK, HookOK, HoldsOne, FunctionHeld
<1>2. QED
    BY InitIInv, NextIInv, <1>1, PTL DEF Spec

LEMMA NextTypes ==
    ASSUME IInv, TypeInv, [Next]_vars
    PROVE  TypeInv'
BY Zenon, NodeStepTypes, AllocateTypes, HookTypes, RetryTypes, RemoveTypes DEF Next

(* Types, for any boards, bitstreams, containers, events and faults.  A    *)
(* container has devices from its allocation to its removal, as many hooks *)
(* to run as of its devices have one, and none left exactly when it runs   *)
(* or has not been allocated (Allocate, process).                          *)
THEOREM TypesKept == Spec => []TypeOK
<1>1. IInv /\ TypeInv => TypeOK
    BY Zenon DEF IInv, Shape, TypeInv, NodeTypes, Devices, Counts, CtrsTyped, CtrTyped, Typed, HooksOf, TypeOK
<1>2. QED
    BY InitIInv, InitTypes, NextIInv, NextTypes, <1>1, PTL DEF Spec
=============================================================================
