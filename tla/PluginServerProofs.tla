------------------------ MODULE PluginServerProofs ------------------------
(***************************************************************************)
(* Theorems about PluginServer, for every value of its constants: tables   *)
(* keep their order on the way to the kubelet (PipelineOrder), no update   *)
(* is lost silently (NoSilentLoss), and a stream goes back to an older     *)
(* list only when its server is about to be stopped (NoRegressOnStream).   *)
(* First the inductive invariant, then the steps that preserve it: those   *)
(* of the environment, the scanner and the manager, of the serving         *)
(* goroutines, and of the ListAndWatch handlers.                           *)
(***************************************************************************)
EXTENDS PluginServer, TLAPS

(* A server object that does not exist yet is as newServer makes it.       *)
FreshServers ==
    \A i \in Server :
        i > last => grpc[i] = "nil" /\ devices[i] = 0 /\ ch[i] = None /\ chst[i] = "open"

(* The manager has a server exactly when the notifier has a table; what    *)
(* goroutines, streams and the socket refer to has been created.           *)
References ==
    /\ servers <= last
    /\ servers = 0 <=> ntree = 0
    /\ mgr = "update" => servers # 0
    /\ sockSrv # 0 => grpc[sockSrv] # "nil"
    /\ \A g \in Server : Active(g) => gsrv[g] <= last
    /\ \A s \in Stream : spc[s] # "free" => grpc[ssrv[s]] # "nil"
    /\ conn # 0 => spc[conn] # "free"

(* Revisions only grow: present hardware is at the latest revision, and a  *)
(* scan in hand is not older than the notifier's tree.                     *)
ScanOrder ==
    /\ hw # 0 => hw = rev
    /\ ntree <= rev
    /\ scan # None => scan <= rev
    /\ scan > 0 => ntree <= scan

(* x precedes the table the manager is working on or has passed on.        *)
Precedes(x) == IF mgr = "update" THEN x < ntree ELSE x <= ntree

(* Strengthening of PipelineOrder: everything the manager's server holds   *)
(* precedes the notifier's table, strictly while that one is still to be   *)
(* sent.                                                                   *)
TableOrder ==
    /\ PipelineOrder
    /\ servers # 0 => /\ Precedes(devices[servers]) /\ Precedes(ch[servers])
                      /\ \A s \in Stream : ssrv[s] = servers /\ spc[s] = "assign"
                                             => Precedes(got[s])

(* Strengthening of NoSilentLoss: unless the manager's server is doomed,   *)
(* the last table sent to it is in its channel, or in the hands of the     *)
(* handler of the kubelet's stream, or in server.devices; and that handler *)
(* waits only when the kubelet has server.devices.                         *)
NewestHeld ==
    (servers # 0 /\ ~Doomed(servers)) =>
        /\ mgr = "idle" =>
             /\ ch[servers] # None => ch[servers] = ntree
             /\ ch[servers] = None =>
                  \/ \E s \in Stream : /\ ssrv[s] = servers /\ spc[s] = "assign"
                                       /\ conn = s /\ got[s] = ntree
                  \/ /\ \A s \in Stream : ssrv[s] = servers => spc[s] # "assign"
                     /\ devices[servers] = ntree
        /\ \A s \in Stream :
             conn = s /\ ssrv[s] = servers /\ spc[s] = "recv"
               => view = devices[servers]

IInv == /\ TypeOK /\ FreshServers /\ References /\ ScanOrder
        /\ TableOrder /\ NewestHeld

-----------------------------------------------------------------------------

(* What the arithmetic in the proofs needs of TypeOK: the ranges stay      *)
(* unexpanded everywhere else.                                             *)
Numbers ==
    /\ rev \in Nat /\ hw \in Nat /\ ntree \in Nat /\ servers \in Nat /\ last \in Nat
    /\ scan \in Int /\ conn \in Nat /\ view \in Int
    /\ \A i \in Server : i \in Nat /\ i # 0 /\ devices[i] \in Nat /\ ch[i] \in Int
    /\ \A s \in Stream : s \in Nat /\ s # 0 /\ got[s] \in Nat

(* Revisions, server numbers and stream numbers are numbers.               *)
LEMMA Ranges ==
    /\ \A r \in Rev : r \in Nat
    /\ \A i \in Server : i \in Nat /\ i # 0
    /\ \A s \in Stream : s \in Nat /\ s # 0
    /\ None \in Int
    /\ 0 \in Rev /\ 1 \in Server
BY BoundsAssumption DEF Rev, Server, Stream, None

LEMMA TypeNumbers == TypeOK => Numbers
BY Ranges DEF TypeOK, Numbers

(* What references to servers range over.                                  *)
LEMMA TypeReferences ==
    TypeOK => /\ servers \in Server \cup {0}
              /\ sockSrv \in Server \cup {0} /\ conn \in Stream \cup {0}
              /\ \A s \in Stream : ssrv[s] \in Server
              /\ \A g \in Server : gsrv[g] \in Server
BY Zenon DEF TypeOK

-----------------------------------------------------------------------------
(* A process that exits is back at the initial values of its variables.    *)
LEMMA ExitIInv ==
    ASSUME IInv, Exit, UNCHANGED <<hw, rev, restarts>>, faults' \in 0..MaxFault
    PROVE  IInv'
<1>1. TypeOK'
  BY Zenon, Ranges DEF Exit, IInv, TypeOK, NewServers, ServePc, HandlerPc
<1>2. FreshServers' /\ References'
  BY Ranges DEF Exit, IInv, NewServers, FreshServers, References, Active
<1>3. ScanOrder' /\ TableOrder' /\ NewestHeld'
  BY Ranges, TypeNumbers DEF Exit, IInv, Numbers, NewServers, ScanOrder, TableOrder,
     PipelineOrder, NewestHeld, None
<1>4. QED  BY Zenon, <1>1, <1>2, <1>3 DEF IInv

(* The initial states satisfy the invariant.                               *)
LEMMA InitIInv == Init => IInv
<1> SUFFICES ASSUME Init PROVE IInv
  BY Zenon
<1>1. TypeOK
  BY Ranges, BoundsAssumption DEF Init, TypeOK, NewServers, ServePc, HandlerPc
<1>2. FreshServers /\ References
  BY Ranges DEF Init, NewServers, FreshServers, References, Active
<1>3. ScanOrder /\ TableOrder /\ NewestHeld
  BY Ranges DEF Init, NewServers, ScanOrder, TableOrder, PipelineOrder, NewestHeld, None
<1>4. QED  BY Zenon, <1>1, <1>2, <1>3 DEF IInv

-----------------------------------------------------------------------------
USE DEF envVars, mgrVars, srvVars, gorVars, strmVars, sockVars, kubVars, None

(* Frame lemmas: what each part of the invariant depends on.               *)
LEMMA FrameFresh ==
    ASSUME FreshServers, UNCHANGED <<last, grpc, devices, ch, chst>>
    PROVE  FreshServers'
BY Zenon DEF FreshServers

LEMMA FrameReferences ==
    ASSUME References, UNCHANGED <<servers, last, ntree, mgr, grpc, spc, ssrv>>,
           sockSrv' \in {sockSrv, 0}, conn' \in {conn, 0},
           \A g \in Server : Active(g)' => Active(g) /\ gsrv'[g] = gsrv[g]
    PROVE  References'
BY Zenon DEF References

LEMMA FrameScan ==
    ASSUME ScanOrder, UNCHANGED <<hw, rev, scan, ntree>>
    PROVE  ScanOrder'
BY Zenon DEF ScanOrder

LEMMA FrameOrder ==
    ASSUME TableOrder, UNCHANGED <<servers, ntree, mgr, devices, ch, spc, ssrv, got>>
    PROVE  TableOrder'
BY Zenon DEF TableOrder, PipelineOrder, Precedes

(* A lost connection only makes more handlers stale.                       *)
LEMMA FrameNewest ==
    ASSUME NewestHeld, UNCHANGED <<servers, ntree, mgr, devices, ch, chst, spc, ssrv, got>>,
           UNCHANGED <<conn, view>> \/ conn' = 0, \A s \in Stream : s # 0
    PROVE  NewestHeld'
<1>1. CASE UNCHANGED <<conn, view>>
  BY Zenon, <1>1 DEF NewestHeld, Doomed, Stale
<1>2. CASE conn' = 0
  BY Zenon, <1>2 DEF NewestHeld, Doomed, Stale
<1>3. QED  BY Zenon, <1>1, <1>2

-----------------------------------------------------------------------------
(* One lemma per action: the action preserves the invariant.  A step that  *)
(* ends the process is covered by ExitIInv.                                *)
LEMMA HwChangeIInv == ASSUME IInv, HwChange PROVE IInv'
<1>n. TypeOK /\ Numbers
  BY Zenon, TypeNumbers DEF IInv
<1>1. rev' \in Rev /\ hw' \in Rev
  BY <1>n, BoundsAssumption DEF HwChange, Numbers, Rev
<1>2. TypeOK'
  BY <1>n, <1>1 DEF HwChange, TypeOK
<1>3. FreshServers' /\ References'
  BY Zenon, FrameFresh, FrameReferences DEF IInv, HwChange, Active
<1>4. ScanOrder'
  BY <1>n DEF IInv, HwChange, Numbers, ScanOrder
<1>5. TableOrder' /\ NewestHeld'
  BY Zenon, <1>n, FrameOrder, FrameNewest DEF IInv, HwChange, Numbers
<1>6. QED  BY Zenon, <1>2, <1>3, <1>4, <1>5 DEF IInv

LEMMA ProcStartIInv == ASSUME IInv, ProcStart PROVE IInv'
<1>n. TypeOK /\ Numbers
  BY Zenon, TypeNumbers DEF IInv
<1>1. TypeOK'
  BY <1>n DEF ProcStart, TypeOK
<1>2. FreshServers' /\ References' /\ ScanOrder'
  BY Zenon, FrameFresh, FrameReferences, FrameScan DEF IInv, ProcStart, Active
<1>3. TableOrder' /\ NewestHeld'
  BY Zenon, <1>n, FrameOrder, FrameNewest DEF IInv, ProcStart, Numbers
<1>4. QED  BY Zenon, <1>1, <1>2, <1>3 DEF IInv

LEMMA KubeletStopIInv == ASSUME IInv, KubeletStop PROVE IInv'
<1>n. TypeOK /\ Numbers
  BY Zenon, TypeNumbers DEF IInv
<1>1. restarts' \in 0..MaxRestart
  BY <1>n, BoundsAssumption DEF KubeletStop, TypeOK
<1>2. TypeOK'
  BY Zenon, <1>n, <1>1 DEF KubeletStop, TypeOK
<1>3. FreshServers' /\ References' /\ ScanOrder'
  BY Zenon, FrameFresh, FrameReferences, FrameScan DEF IInv, KubeletStop, Active
<1>4. TableOrder' /\ NewestHeld'
  BY Zenon, <1>n, FrameOrder, FrameNewest DEF IInv, KubeletStop, Numbers
<1>5. QED  BY Zenon, <1>2, <1>3, <1>4 DEF IInv

LEMMA KubeletStartIInv == ASSUME IInv, KubeletStart PROVE IInv'
<1>n. TypeOK /\ Numbers
  BY Zenon, TypeNumbers DEF IInv
<1>1. TypeOK'
  BY Zenon, <1>n DEF KubeletStart, Notified, TypeOK, ServePc
<1>2. \A g \in Server : Active(g)' => Active(g) /\ gsrv'[g] = gsrv[g]
  BY Zenon DEF KubeletStart, Notified, Active
<1>3. FreshServers' /\ References' /\ ScanOrder'
  BY Zenon, <1>2, FrameFresh, FrameReferences, FrameScan DEF IInv, KubeletStart
<1>4. TableOrder' /\ NewestHeld'
  BY Zenon, <1>n, FrameOrder, FrameNewest DEF IInv, KubeletStart, Numbers
<1>5. QED  BY Zenon, <1>1, <1>3, <1>4 DEF IInv

LEMMA KubeletServeIInv == ASSUME IInv, KubeletServe PROVE IInv'
<1>n. TypeOK /\ Numbers
  BY Zenon, TypeNumbers DEF IInv
<1>1. TypeOK'
  BY <1>n DEF KubeletServe, TypeOK
<1>2. FreshServers' /\ References' /\ ScanOrder'
  BY Zenon, FrameFresh, FrameReferences, FrameScan DEF IInv, KubeletServe, Active
<1>3. TableOrder' /\ NewestHeld'
  BY Zenon, <1>n, FrameOrder, FrameNewest DEF IInv, KubeletServe, Numbers
<1>4. QED  BY Zenon, <1>1, <1>2, <1>3 DEF IInv

(* A dial only occupies a free handler: no table moves.                    *)
LEMMA KubeletDialIInv == ASSUME IInv, KubeletDial PROVE IInv'
<1>n. TypeOK /\ Numbers
  BY Zenon, TypeNumbers DEF IInv
<1>1. FreshServers' /\ ScanOrder'
  BY Zenon, FrameFresh, FrameScan DEF IInv, KubeletDial
<1>2. CASE ~Reachable
  <2>1. TypeOK'
    BY Zenon, <1>n, <1>2 DEF KubeletDial, TypeOK
  <2>2. References'
    BY Zenon, <1>2, FrameReferences DEF IInv, KubeletDial, Active
  <2>3. TableOrder' /\ NewestHeld'
    BY Zenon, <1>n, <1>2, FrameOrder, FrameNewest DEF IInv, KubeletDial, Numbers
  <2>4. QED  BY Zenon, <1>1, <2>1, <2>2, <2>3 DEF IInv
<1>3. CASE Reachable
  <2>1. PICK s \in Stream : /\ spc[s] = "free" /\ spc' = [spc EXCEPT ![s] = "send"]
                            /\ ssrv' = [ssrv EXCEPT ![s] = sockSrv]
                            /\ conn' = s /\ view' = None
    BY Zenon, <1>3 DEF KubeletDial
  <2>2. sockSrv \in Server
    BY Zenon, <1>n, <1>3 DEF TypeOK, Reachable
  <2>3. TypeOK'
    BY Zenon, <1>n, <2>1, <2>2 DEF KubeletDial, TypeOK, HandlerPc
  <2>4. /\ spc'[s] = "send" /\ ssrv'[s] = sockSrv
        /\ \A t \in Stream : t # s => spc'[t] = spc[t] /\ ssrv'[t] = ssrv[t]
    BY Zenon, <1>n, <2>1 DEF TypeOK
  <2>5. UNCHANGED <<servers, last, ntree, mgr, grpc, devices, ch, chst, gpc, gsrv, got, sockSrv>>
    BY Zenon DEF KubeletDial
  <2>6. References'
    BY Zenon, <1>n, <2>1, <2>2, <2>4, <2>5 DEF IInv, References, Active, Numbers
  <2>7. TableOrder'
    BY Zenon, <2>4, <2>5 DEF IInv, TableOrder, PipelineOrder, Precedes
  <2>8. NewestHeld'
    <3>1. ASSUME servers # 0, ~Doomed(servers)' PROVE ~Doomed(servers) \/ conn = s
      BY Zenon, <3>1, <2>1, <2>4, <2>5 DEF Doomed, Stale
    <3>2. QED  BY Zenon, <1>n, <2>1, <2>4, <2>5, <3>1 DEF IInv, References, NewestHeld, Doomed, Stale, Numbers
  <2>9. QED  BY Zenon, <1>1, <2>3, <2>6, <2>7, <2>8 DEF IInv
<1>4. QED  BY Zenon, <1>2, <1>3

LEMMA ScanIInv == ASSUME IInv, Scan PROVE IInv'
<1>n. TypeOK /\ Numbers
  BY Zenon, TypeNumbers DEF IInv
<1>1. TypeOK'
  BY <1>n DEF Scan, TypeOK
<1>2. FreshServers' /\ References'
  BY Zenon, FrameFresh, FrameReferences DEF IInv, Scan, Active
<1>3. ScanOrder'
  BY <1>n DEF IInv, Scan, Numbers, ScanOrder
<1>4. TableOrder' /\ NewestHeld'
  BY Zenon, <1>n, FrameOrder, FrameNewest DEF IInv, Scan, Numbers
<1>5. QED  BY Zenon, <1>1, <1>2, <1>3, <1>4 DEF IInv

(* The new server is one that nothing refers to yet.                       *)
LEMMA NotifyAddedIInv == ASSUME IInv, NotifyAdded PROVE IInv'
<1>n. TypeOK /\ Numbers
  BY Zenon, TypeNumbers DEF IInv
<1>1. last + 1 \in Server /\ scan \in Rev
  BY <1>n, BoundsAssumption DEF NotifyAdded, Numbers, Server, TypeOK
<1>2. TypeOK'
  BY Zenon, <1>n, <1>1 DEF NotifyAdded, TypeOK, ServePc
<1>3. /\ last' = last + 1 /\ servers' = last + 1 /\ ntree' = scan /\ scan' = None
      /\ mgr' = "update" /\ scan \in Nat \ {0}
      /\ UNCHANGED <<hw, rev, grpc, devices, ch, chst, gsrv, spc, ssrv, got, sockSrv, conn, view>>
  BY Zenon, <1>1, Ranges DEF NotifyAdded
<1>4. /\ grpc[last + 1] = "nil" /\ devices[last + 1] = 0 /\ ch[last + 1] = None
      /\ \A s \in Stream : ssrv[s] = last + 1 => spc[s] = "free"
  BY <1>n, <1>1 DEF IInv, FreshServers, References, Numbers
<1>5. FreshServers'
  BY <1>n, <1>3 DEF IInv, FreshServers, Numbers
<1>6. \A g \in Server : Active(g)' => Active(g)
  BY Zenon, <1>n DEF NotifyAdded, TypeOK, Active
<1>7. \A g \in Server : gsrv[g] \in Nat
  BY Zenon, <1>n, TypeReferences, Ranges
<1>8. References'
  BY <1>n, <1>3, <1>6, <1>7 DEF IInv, References, Numbers
<1>9. ScanOrder'
  BY <1>n, <1>3 DEF IInv, ScanOrder, Numbers
<1>10. PipelineOrder'
  BY <1>n, <1>3, <1>4 DEF IInv, TableOrder, PipelineOrder, Numbers
<1>11. TableOrder'
  BY <1>3, <1>4, <1>10 DEF TableOrder, Precedes
<1>12. NewestHeld'
  BY Zenon, <1>3, <1>4 DEF NewestHeld
<1>13. QED  BY Zenon, <1>2, <1>5, <1>8, <1>9, <1>11, <1>12 DEF IInv

LEMMA NotifyUpdatedIInv == ASSUME IInv, NotifyUpdated PROVE IInv'
<1>n. TypeOK /\ Numbers
  BY Zenon, TypeNumbers DEF IInv
<1>1. scan \in Rev
  BY Zenon, <1>n DEF NotifyUpdated, TypeOK
<1>2. TypeOK'
  BY <1>n, <1>1 DEF NotifyUpdated, TypeOK
<1>3. /\ ntree' = scan /\ scan' = None /\ mgr' = "update" /\ mgr = "idle"
      /\ ntree # 0 /\ scan \in Nat \ {0} /\ scan # ntree
      /\ UNCHANGED <<hw, rev, servers, last, grpc, devices, ch, chst, gpc, gsrv, spc, ssrv,
                     got, sockSrv, conn, view>>
  BY Zenon, <1>1, Ranges DEF NotifyUpdated
<1>4. ntree < scan
  BY <1>n, <1>3 DEF IInv, ScanOrder, Numbers
<1>5. FreshServers'
  BY Zenon, <1>3, FrameFresh DEF IInv
<1>6. References'
  BY Zenon, <1>3 DEF IInv, References, Active
<1>7. ScanOrder'
  BY <1>n, <1>3 DEF IInv, ScanOrder, Numbers
<1>8. TableOrder'
  BY <1>n, <1>3, <1>4 DEF IInv, TypeOK, TableOrder, PipelineOrder, Precedes, Numbers
<1>9. NewestHeld'
  BY Zenon, <1>3 DEF IInv, NewestHeld, Doomed, Stale
<1>10. QED  BY Zenon, <1>2, <1>5, <1>6, <1>7, <1>8, <1>9 DEF IInv

(* The manager has no server afterwards, so only the references matter.    *)
LEMMA NotifyRemovedIInv == ASSUME IInv, NotifyRemoved PROVE IInv'
<1>n. TypeOK /\ Numbers
  BY Zenon, TypeNumbers DEF IInv
<1>1. CASE Exit
  BY Zenon, <1>1, <1>n, ExitIInv DEF NotifyRemoved, TypeOK
<1>2. CASE ~Exit
  <2>1. TypeOK'
    BY Ranges, <1>n, <1>2 DEF NotifyRemoved, Stop, GrpcStop, Notified, TypeOK, ServePc
  <2>2. /\ servers' = 0 /\ ntree' = 0 /\ scan' = None /\ mgr = "idle" /\ mgr' = "idle"
        /\ UNCHANGED <<hw, rev, last, devices, ch, gsrv, spc, ssrv, got>>
    BY Zenon, <1>2 DEF NotifyRemoved, Stop
  <2>3. servers \in Server /\ servers <= last
    BY Zenon, <1>n DEF IInv, NotifyRemoved, References, TypeOK
  <2>4. /\ \A i \in Server : i # servers => grpc'[i] = grpc[i] /\ chst'[i] = chst[i]
        /\ \A i \in Server : grpc[i] # "nil" => grpc'[i] # "nil"
    BY <1>n, <1>2 DEF NotifyRemoved, Stop, GrpcStop, TypeOK
  <2>5. \A g \in Server : Active(g)' => Active(g)
    BY Zenon, <1>2 DEF NotifyRemoved, Stop, GrpcStop, Notified, Active
  <2>6. conn' \in {conn, 0} /\ sockSrv' \in {sockSrv, 0}
    BY Zenon, <1>2 DEF NotifyRemoved, Stop, GrpcStop
  <2>7. FreshServers'
    BY <1>n, <2>2, <2>3, <2>4 DEF IInv, FreshServers, Numbers
  <2>8. References'
    <3>1. sockSrv' # 0 => grpc'[sockSrv'] # "nil"
      BY Zenon, <1>n, <2>4, <2>6, TypeReferences DEF IInv, References
    <3>2. \A s \in Stream : spc'[s] # "free" => grpc'[ssrv'[s]] # "nil"
      BY Zenon, <1>n, <2>2, <2>4, TypeReferences DEF IInv, References
    <3>3. \A g \in Server : Active(g)' => gsrv'[g] <= last'
      BY Zenon, <2>2, <2>5 DEF IInv, References
    <3>4. servers' <= last' /\ (conn' # 0 => spc'[conn'] # "free")
      BY <1>n, <2>2, <2>6 DEF IInv, References, Numbers
    <3>5. QED  BY Zenon, <2>2, <3>1, <3>2, <3>3, <3>4 DEF References
  <2>9. ScanOrder'
    BY <1>n, <2>2 DEF IInv, ScanOrder, Numbers
  <2>10. TableOrder' /\ NewestHeld'
    BY Zenon, <1>n, <2>2 DEF IInv, TableOrder, PipelineOrder, NewestHeld, Numbers
  <2>11. QED  BY Zenon, <2>1, <2>7, <2>8, <2>9, <2>10 DEF IInv
<1>3. QED  BY Zenon, <1>1, <1>2

(* The table sent is newer than everything the server already holds.       *)
LEMMA UpdateIInv == ASSUME IInv, Update PROVE IInv'
<1>n. TypeOK /\ Numbers
  BY Zenon, TypeNumbers DEF IInv
<1>1. CASE Exit
  BY Zenon, <1>1, <1>n, ExitIInv DEF Update, TypeOK
<1>2. CASE ~Exit
  <2>1. servers \in Server /\ servers # 0 /\ servers <= last
    BY Zenon, <1>n DEF IInv, Update, References, TypeOK
  <2>2. /\ ch' = [ch EXCEPT ![servers] = ntree] /\ mgr = "update" /\ mgr' = "idle"
        /\ UNCHANGED <<hw, rev, scan, ntree, servers, last, grpc, devices, chst, gpc, gsrv,
                       spc, ssrv, got, sockSrv, conn, view>>
    BY Zenon, <1>2 DEF Update
  <2>3. ch'[servers] = ntree /\ \A i \in Server : i # servers => ch'[i] = ch[i]
    BY Zenon, <1>n, <2>1, <2>2 DEF TypeOK
  <2>4. TypeOK'
    BY <1>n, <1>2, <2>1 DEF Update, TypeOK
  <2>5. FreshServers'
    BY <1>n, <2>1, <2>2, <2>3 DEF IInv, FreshServers, Numbers
  <2>6. References'
    BY Zenon, <2>1, <2>2 DEF IInv, References, Active
  <2>7. ScanOrder'
    BY Zenon, <2>2, FrameScan DEF IInv
  <2>8. TableOrder'
    BY <1>n, <2>1, <2>2, <2>3 DEF IInv, TableOrder, PipelineOrder, Precedes, Numbers
  <2>9. NewestHeld'
    BY <1>n, <2>1, <2>2, <2>3 DEF IInv, NewestHeld, Doomed, Stale, Numbers
  <2>10. QED  BY Zenon, <2>4, <2>5, <2>6, <2>7, <2>8, <2>9 DEF IInv
<1>3. QED  BY Zenon, <1>1, <1>2

-----------------------------------------------------------------------------
LEMMA ServeStartIInv == ASSUME IInv, NEW g \in Server, ServeStart(g) PROVE IInv'
<1>n. TypeOK /\ Numbers
  BY Zenon, TypeNumbers DEF IInv
<1>1. CASE Exit
  BY Zenon, <1>1, <1>n, ExitIInv DEF ServeStart, TypeOK
<1>2. CASE ~Exit
  <2>1. TypeOK'
    BY <1>n, <1>2 DEF ServeStart, Goto, TypeOK, ServePc
  <2>2. UNCHANGED <<hw, rev, scan, ntree, mgr, servers, last, grpc, devices, ch, chst, spc,
                    ssrv, got, sockSrv, conn, view>>
    BY Zenon, <1>2 DEF ServeStart
  <2>3. \A h \in Server : Active(h)' => gsrv'[h] = servers \/ (Active(h) /\ gsrv'[h] = gsrv[h])
    <3>1. gsrv'[g] = servers
      BY Zenon, <1>n, <1>2 DEF ServeStart, TypeOK
    <3>2. \A h \in Server : h # g => gsrv'[h] = gsrv[h] /\ gpc'[h] = gpc[h]
      BY <1>n, <1>2 DEF ServeStart, Goto, TypeOK
    <3>3. QED  BY Zenon, <3>1, <3>2 DEF Active
  <2>4. FreshServers' /\ ScanOrder'
    BY Zenon, <2>2, FrameFresh, FrameScan DEF IInv
  <2>5. References'
    BY Zenon, <2>2, <2>3 DEF IInv, References
  <2>6. TableOrder' /\ NewestHeld'
    BY Zenon, <1>n, <2>2, FrameOrder, FrameNewest DEF IInv, Numbers
  <2>7. QED  BY Zenon, <2>1, <2>4, <2>5, <2>6 DEF IInv
<1>3. QED  BY Zenon, <1>1, <1>2

(* Steps that only move the goroutine, and perhaps register.               *)
LEMMA MoveIInv ==
    ASSUME IInv, TypeOK', \A h \in Server : Active(h)' => Active(h),
           UNCHANGED <<hw, rev, scan, ntree, mgr, servers, last, grpc, devices, ch, chst, gsrv,
                       spc, ssrv, got, sockSrv, conn, view>>
    PROVE  IInv'
<1>n. TypeOK /\ Numbers
  BY Zenon, TypeNumbers DEF IInv
<1>1. FreshServers' /\ References' /\ ScanOrder'
  BY Zenon, FrameFresh, FrameReferences, FrameScan DEF IInv
<1>2. TableOrder' /\ NewestHeld'
  BY Zenon, <1>n, FrameOrder, FrameNewest DEF IInv, Numbers
<1>3. QED  BY Zenon, <1>1, <1>2 DEF IInv

LEMMA ServeCheckIInv == ASSUME IInv, NEW g \in Server, ServeCheck(g) PROVE IInv'
<1>n. TypeOK
  BY Zenon DEF IInv
<1>1. CASE Exit
  BY Zenon, <1>1, <1>n, ExitIInv DEF ServeCheck, TypeOK
<1>2. CASE ~Exit
  <2>1. TypeOK'
    BY <1>n, <1>2 DEF ServeCheck, Goto, TypeOK, ServePc
  <2>2. \A h \in Server : Active(h)' => Active(h)
    BY Zenon, <1>n, <1>2 DEF ServeCheck, Goto, TypeOK, Active
  <2>3. UNCHANGED <<hw, rev, scan, ntree, mgr, servers, last, grpc, devices, ch, chst, gsrv,
                    spc, ssrv, got, sockSrv, conn, view>>
    BY Zenon, <1>2 DEF ServeCheck
  <2>4. QED  BY Zenon, <2>1, <2>2, <2>3, MoveIInv
<1>3. QED  BY Zenon, <1>1, <1>2

LEMMA ServeWaitIInv == ASSUME IInv, NEW g \in Server, ServeWait(g) PROVE IInv'
<1>n. TypeOK
  BY Zenon DEF IInv
<1>1. CASE Exit
  BY Zenon, <1>1, <1>n, ExitIInv DEF ServeWait, TypeOK
<1>2. CASE ~Exit
  <2>1. TypeOK'
    BY <1>n, <1>2 DEF ServeWait, Goto, TypeOK, ServePc
  <2>2. \A h \in Server : Active(h)' => Active(h)
    BY Zenon, <1>n, <1>2 DEF ServeWait, Goto, TypeOK, Active
  <2>3. UNCHANGED <<hw, rev, scan, ntree, mgr, servers, last, grpc, devices, ch, chst, gsrv,
                    spc, ssrv, got, sockSrv, conn, view>>
    BY Zenon, <1>2 DEF ServeWait
  <2>4. QED  BY Zenon, <2>1, <2>2, <2>3, MoveIInv
<1>3. QED  BY Zenon, <1>1, <1>2

LEMMA RegisterIInv == ASSUME IInv, NEW g \in Server, Register(g) PROVE IInv'
<1>n. TypeOK
  BY Zenon DEF IInv
<1>1. CASE Exit
  BY Zenon, <1>1, <1>n, ExitIInv DEF Register, TypeOK
<1>2. CASE ~Exit
  <2>1. TypeOK'
    BY <1>n, <1>2 DEF Register, Goto, TypeOK, ServePc
  <2>2. \A h \in Server : Active(h)' => Active(h)
    BY Zenon, <1>n, <1>2 DEF Register, Goto, TypeOK, Active
  <2>3. UNCHANGED <<hw, rev, scan, ntree, mgr, servers, last, grpc, devices, ch, chst, gsrv,
                    spc, ssrv, got, sockSrv, conn, view>>
    BY Zenon, <1>2 DEF Register
  <2>4. QED  BY Zenon, <2>1, <2>2, <2>3, MoveIInv
<1>3. QED  BY Zenon, <1>1, <1>2

LEMMA WatchAddIInv == ASSUME IInv, NEW g \in Server, WatchAdd(g) PROVE IInv'
<1>n. TypeOK
  BY Zenon DEF IInv
<1>1. TypeOK'
  BY <1>n DEF WatchAdd, Goto, TypeOK, ServePc
<1>2. \A h \in Server : Active(h)' => Active(h)
  BY Zenon, <1>n DEF WatchAdd, Goto, TypeOK, Active
<1>3. QED  BY Zenon, <1>1, <1>2, MoveIInv DEF WatchAdd

LEMMA ServeErrorIInv == ASSUME IInv, NEW g \in Server, ServeError(g) PROVE IInv'
<1>1. faults' \in 0..MaxFault
  BY BoundsAssumption DEF ServeError, IInv, TypeOK
<1>2. QED  BY Zenon, <1>1, ExitIInv DEF ServeError

LEMMA ServeListenIInv == ASSUME IInv, NEW g \in Server, ServeListen(g) PROVE IInv'
<1>n. TypeOK /\ Numbers
  BY Zenon, TypeNumbers DEF IInv
<1>1. TypeOK'
  BY <1>n DEF ServeListen, Notified, TypeOK, ServePc
<1>2. /\ UNCHANGED <<hw, rev, scan, ntree, mgr, servers, last, devices, ch, chst, gsrv, spc,
                     ssrv, got, conn, view>>
      /\ sockSrv' = gsrv[g]
  BY Zenon DEF ServeListen
<1>3. gsrv[g] \in Server /\ gsrv[g] <= last
  BY Zenon, <1>n DEF ServeListen, IInv, References, Active, TypeOK
<1>4. grpc'[gsrv[g]] = "up" /\ \A i \in Server : i # gsrv[g] => grpc'[i] = grpc[i]
  BY Zenon, <1>n, <1>3 DEF ServeListen, TypeOK
<1>5. \A h \in Server : Active(h)' => Active(h)
  BY Zenon, <1>n DEF ServeListen, Notified, TypeOK, Active
<1>6. FreshServers'
  BY <1>n, <1>2, <1>3, <1>4 DEF IInv, FreshServers, Numbers
<1>7. References'
  BY Zenon, <1>n, <1>2, <1>3, <1>4, <1>5, TypeReferences DEF IInv, References
<1>8. ScanOrder' /\ TableOrder' /\ NewestHeld'
  BY Zenon, <1>n, <1>2, FrameScan, FrameOrder, FrameNewest DEF IInv, Numbers
<1>9. QED  BY Zenon, <1>1, <1>6, <1>7, <1>8 DEF IInv

LEMMA SocketRemovedIInv == ASSUME IInv, NEW g \in Server, SocketRemoved(g) PROVE IInv'
<1>n. TypeOK /\ Numbers
  BY Zenon, TypeNumbers DEF IInv
<1>1. TypeOK'
  BY <1>n DEF SocketRemoved, Goto, GrpcStop, Notified, TypeOK, ServePc
<1>2. UNCHANGED <<hw, rev, scan, ntree, mgr, servers, last, devices, ch, chst, gsrv, spc, ssrv, got>>
  BY Zenon DEF SocketRemoved
<1>3. gsrv[g] \in Server /\ gsrv[g] <= last
  BY Zenon, <1>n DEF SocketRemoved, IInv, References, Active, TypeOK
<1>4. /\ \A i \in Server : i # gsrv[g] => grpc'[i] = grpc[i]
      /\ \A i \in Server : grpc[i] # "nil" => grpc'[i] # "nil"
  BY Zenon, <1>n DEF SocketRemoved, GrpcStop, TypeOK
<1>5. \A h \in Server : Active(h)' => Active(h)
  BY <1>n DEF SocketRemoved, Goto, GrpcStop, Notified, TypeOK, Active
<1>6. (UNCHANGED <<conn, view>> \/ conn' = 0) /\ sockSrv' \in {sockSrv, 0}
  BY Zenon DEF SocketRemoved, GrpcStop
<1>7. FreshServers'
  BY <1>n, <1>2, <1>3, <1>4 DEF IInv, FreshServers, Numbers
<1>8. References'
  <2>1. sockSrv' # 0 => grpc'[sockSrv'] # "nil"
    BY Zenon, <1>n, <1>4, <1>6, TypeReferences DEF IInv, References
  <2>2. \A s \in Stream : spc'[s] # "free" => grpc'[ssrv'[s]] # "nil"
    BY Zenon, <1>n, <1>2, <1>4, TypeReferences DEF IInv, References
  <2>3. \A h \in Server : Active(h)' => gsrv'[h] <= last'
    BY Zenon, <1>2, <1>5 DEF IInv, References
  <2>4. QED  BY Zenon, <1>2, <1>6, <2>1, <2>2, <2>3 DEF IInv, References
<1>9. ScanOrder' /\ TableOrder' /\ NewestHeld'
  BY Zenon, <1>n, <1>2, <1>6, FrameScan, FrameOrder, FrameNewest DEF IInv, Numbers
<1>10. QED  BY Zenon, <1>1, <1>7, <1>8, <1>9 DEF IInv

(* A successful Send gives the kubelet server.devices; a failed one stops  *)
(* the server, which dooms it.                                             *)
LEMMA SendDevicesIInv == ASSUME IInv, NEW s \in Stream, SendDevices(s) PROVE IInv'
<1>n. TypeOK /\ Numbers
  BY Zenon, TypeNumbers DEF IInv
<1>1. CASE Exit
  BY Zenon, <1>1, <1>n, ExitIInv DEF SendDevices, TypeOK
<1>2. CASE conn = s
  <2>1. TypeOK'
    BY <1>n, <1>2 DEF SendDevices, TypeOK, HandlerPc
  <2>2. /\ view' = devices[ssrv[s]] /\ spc[s] = "send"
        /\ UNCHANGED <<hw, rev, scan, ntree, mgr, servers, last, grpc, devices, ch, chst, gpc, gsrv,
                       ssrv, got, sockSrv, conn>>
    BY Zenon, <1>2 DEF SendDevices
  <2>3. spc'[s] = "recv" /\ \A t \in Stream : t # s => spc'[t] = spc[t]
    BY Zenon, <1>n, <1>2 DEF SendDevices, TypeOK
  <2>4. FreshServers' /\ ScanOrder'
    BY Zenon, <2>2, FrameFresh, FrameScan DEF IInv
  <2>5. References'
    BY Zenon, <1>n, <1>2, <2>2, <2>3 DEF IInv, References, Active
  <2>6. TableOrder'
    BY Zenon, <2>2, <2>3 DEF IInv, TableOrder, PipelineOrder, Precedes
  <2>7. NewestHeld'
    BY Zenon, <1>2, <2>2, <2>3 DEF IInv, NewestHeld, Doomed, Stale
  <2>8. QED  BY Zenon, <2>1, <2>4, <2>5, <2>6, <2>7 DEF IInv
<1>3. CASE conn # s /\ ~Exit
  <2>1. TypeOK'
    BY Ranges, <1>n, <1>3 DEF SendDevices, Stop, GrpcStop, Notified, TypeOK, ServePc, HandlerPc
  <2>2. /\ spc[s] = "send"
        /\ UNCHANGED <<hw, rev, scan, ntree, mgr, servers, last, devices, ch, gsrv, ssrv, got>>
    BY Zenon, <1>3 DEF SendDevices, Stop
  <2>3. spc'[s] = "free" /\ \A t \in Stream : t # s => spc'[t] = spc[t]
    BY Zenon, <1>n, <1>3 DEF SendDevices, Stop, TypeOK
  <2>4. ssrv[s] \in Server /\ grpc[ssrv[s]] # "nil"
    BY Zenon, <1>n, <2>2, TypeReferences DEF IInv, References
  <2>5. ssrv[s] <= last
    BY <1>n, <2>4 DEF IInv, FreshServers, Numbers
  <2>6. /\ chst'[ssrv[s]] = "closed" /\ grpc'[ssrv[s]] = "stopped"
        /\ \A i \in Server : i # ssrv[s] => grpc'[i] = grpc[i] /\ chst'[i] = chst[i]
    BY <1>n, <1>3, <2>4 DEF SendDevices, Stop, GrpcStop, TypeOK
  <2>7. \A h \in Server : Active(h)' => Active(h)
    BY Zenon, <1>3 DEF SendDevices, Stop, GrpcStop, Notified, Active
  <2>8. /\ UNCHANGED <<conn, view>> \/ conn' = 0
        /\ sockSrv' \in {sockSrv, 0}
    BY Zenon, <1>3 DEF SendDevices, Stop, GrpcStop
  <2>9. FreshServers'
    BY <1>n, <2>2, <2>5, <2>6 DEF IInv, FreshServers, Numbers
  <2>10. References'
    <3>1. sockSrv' # 0 => grpc'[sockSrv'] # "nil"
      BY Zenon, <1>n, <2>6, <2>8, TypeReferences DEF IInv, References
    <3>2. \A t \in Stream : spc'[t] # "free" => grpc'[ssrv'[t]] # "nil"
      BY Zenon, <1>n, <2>2, <2>3, <2>6, TypeReferences DEF IInv, References
    <3>3. \A g \in Server : Active(g)' => gsrv'[g] <= last'
      BY Zenon, <2>2, <2>7 DEF IInv, References
    <3>4. conn' # 0 => spc'[conn'] # "free"
      BY Zenon, <1>n, <1>3, <2>3, <2>8, TypeReferences DEF IInv, References
    <3>5. QED  BY Zenon, <2>2, <3>1, <3>2, <3>3, <3>4 DEF IInv, References
  <2>11. ScanOrder'
    BY Zenon, <2>2, FrameScan DEF IInv
  <2>12. TableOrder'
    BY <2>2, <2>3 DEF IInv, TableOrder, PipelineOrder, Precedes
  <2>13. NewestHeld'
    <3>1. CASE servers = ssrv[s]
      BY Zenon, <2>2, <2>6, <3>1 DEF NewestHeld, Doomed
    <3>2. CASE servers # ssrv[s] /\ servers # 0
      <4>1. servers \in Server
        BY Zenon, <1>n, <3>2 DEF TypeOK
      <4>2. chst'[servers] = chst[servers]
        BY Zenon, <2>6, <3>2, <4>1
      <4>3. QED
        BY Zenon, <1>n, <2>2, <2>3, <2>8, <3>2, <4>2 DEF IInv, NewestHeld, Doomed, Stale, Numbers
    <3>3. QED  BY Zenon, <2>2, <3>1, <3>2 DEF NewestHeld
  <2>14. QED  BY Zenon, <2>1, <2>9, <2>10, <2>11, <2>12, <2>13 DEF IInv
<1>4. QED  BY Zenon, <1>1, <1>2, <1>3

(* A table moves from the channel to the handler that takes it, which is   *)
(* stale or the kubelet's.                                                 *)
LEMMA ReceiveIInv == ASSUME IInv, NEW s \in Stream, Receive(s) PROVE IInv'
<1>n. TypeOK /\ Numbers
  BY Zenon, TypeNumbers DEF IInv
<1>1. TypeOK'
  BY Ranges, <1>n DEF Receive, TypeOK, HandlerPc
<1>2. /\ spc[s] = "recv" /\ ssrv[s] \in Server
      /\ UNCHANGED <<hw, rev, scan, ntree, mgr, servers, last, grpc, devices, chst, gpc, gsrv, ssrv,
                     sockSrv>>
  BY Zenon, <1>n, TypeReferences DEF Receive
<1>3. ScanOrder'
  BY Zenon, <1>2, FrameScan DEF IInv
<1>4. CASE ch[ssrv[s]] # None
  <2>1. conn' = conn /\ view' = view
    BY Zenon, <1>4 DEF Receive
  <2>2. /\ spc'[s] = "assign" /\ got'[s] = ch[ssrv[s]]
        /\ \A t \in Stream : t # s => spc'[t] = spc[t] /\ got'[t] = got[t]
        /\ ch'[ssrv[s]] = None
        /\ \A i \in Server : i # ssrv[s] => ch'[i] = ch[i]
    BY Zenon, <1>n, <1>2, <1>4 DEF Receive, TypeOK
  <2>3. FreshServers'
    BY Zenon, <1>2, <2>2 DEF IInv, FreshServers
  <2>4. References'
    BY Zenon, <1>n, <1>2, <2>1, <2>2, TypeReferences DEF IInv, References, Active
  <2>5. TableOrder'
    BY <1>n, <1>2, <1>4, <2>2, TypeReferences
       DEF IInv, TableOrder, PipelineOrder, Precedes, Numbers
  <2>6. NewestHeld'
    <3>1. CASE servers # ssrv[s] /\ servers # 0
      <4>1. servers \in Server
        BY Zenon, <1>n, <3>1 DEF TypeOK
      <4>2. ch'[servers] = ch[servers]
        BY Zenon, <2>2, <3>1, <4>1
      <4>3. QED  BY <1>2, <2>1, <2>2, <3>1, <4>2 DEF IInv, NewestHeld, Doomed, Stale
    <3>2. CASE servers = ssrv[s]
      BY Zenon, <1>2, <1>4, <2>1, <2>2, <3>2 DEF IInv, NewestHeld, Doomed, Stale
    <3>3. QED  BY Zenon, <1>2, <3>1, <3>2 DEF NewestHeld
  <2>7. QED  BY Zenon, <1>1, <1>3, <2>3, <2>4, <2>5, <2>6 DEF IInv
<1>5. CASE ch[ssrv[s]] = None
  <2>1. chst[ssrv[s]] = "closed" /\ got' = got /\ ch' = ch
    BY Zenon, <1>5 DEF Receive
  <2>2. spc'[s] = "free" /\ \A t \in Stream : t # s => spc'[t] = spc[t]
    BY Zenon, <1>n, <1>5 DEF Receive, TypeOK
  <2>3. conn' # s /\ (UNCHANGED <<conn, view>> \/ conn' = 0)
    BY Zenon, <1>n, <1>5 DEF Receive, Numbers
  <2>4. FreshServers'
    BY Zenon, <1>2, <2>1, FrameFresh DEF IInv
  <2>5. References'
    BY Zenon, <1>n, <1>2, <2>2, <2>3, TypeReferences DEF IInv, References, Active
  <2>6. TableOrder'
    BY Zenon, <1>2, <2>1, <2>2 DEF IInv, TableOrder, PipelineOrder, Precedes
  <2>7. NewestHeld'
    BY Zenon, <1>n, <1>2, <2>1, <2>2, <2>3 DEF IInv, NewestHeld, Doomed, Stale, Numbers
  <2>8. QED  BY Zenon, <1>1, <1>3, <2>4, <2>5, <2>6, <2>7 DEF IInv
<1>6. QED  BY Zenon, <1>4, <1>5

LEMMA AssignIInv == ASSUME IInv, NEW s \in Stream, Assign(s) PROVE IInv'
<1>n. TypeOK /\ Numbers
  BY Zenon, TypeNumbers DEF IInv
<1>1. TypeOK'
  BY Ranges, <1>n DEF Assign, TypeOK, HandlerPc
<1>2. /\ spc[s] = "assign" /\ ssrv[s] \in Server
      /\ UNCHANGED <<hw, rev, scan, ntree, mgr, servers, last, grpc, ch, chst, gpc, gsrv, ssrv,
                     sockSrv, conn, view>>
  BY Zenon, <1>n, TypeReferences DEF Assign
<1>3. /\ spc'[s] = "send"
      /\ \A t \in Stream : t # s => spc'[t] = spc[t] /\ got'[t] = got[t]
      /\ devices'[ssrv[s]] = got[s]
      /\ \A i \in Server : i # ssrv[s] => devices'[i] = devices[i]
  BY Zenon, <1>n, <1>2 DEF Assign, TypeOK
<1>4. grpc[ssrv[s]] # "nil"
  BY Zenon, <1>2 DEF IInv, References
<1>5. FreshServers'
  BY Zenon, <1>2, <1>3, <1>4 DEF IInv, FreshServers
<1>6. References'
  BY Zenon, <1>n, <1>2, <1>3, TypeReferences DEF IInv, References, Active
<1>7. ScanOrder'
  BY Zenon, <1>2, FrameScan DEF IInv
<1>8. TableOrder'
  BY Zenon, <1>n, <1>2, <1>3, TypeReferences DEF IInv, TableOrder, PipelineOrder, Precedes, Numbers
<1>9. NewestHeld'
  <2>1. CASE servers # ssrv[s] /\ servers # 0
    <3>1. servers \in Server
      BY Zenon, <1>n, <2>1 DEF TypeOK
    <3>2. devices'[servers] = devices[servers]
      BY Zenon, <1>3, <2>1, <3>1
    <3>3. QED  BY Zenon, <1>2, <1>3, <2>1, <3>2 DEF IInv, NewestHeld, Doomed, Stale
  <2>2. CASE servers = ssrv[s]
    BY Zenon, <1>2, <1>3, <2>2 DEF IInv, NewestHeld, Doomed, Stale
  <2>3. QED  BY Zenon, <1>2, <2>1, <2>2 DEF NewestHeld
<1>10. QED  BY Zenon, <1>1, <1>5, <1>6, <1>7, <1>8, <1>9 DEF IInv

LEMMA StutterIInv == ASSUME IInv, UNCHANGED vars PROVE IInv'
<1>n. TypeOK /\ Numbers
  BY Zenon, TypeNumbers DEF IInv
<1>1. TypeOK'
  BY <1>n DEF vars, TypeOK
<1>2. FreshServers' /\ References' /\ ScanOrder'
  BY Zenon, FrameFresh, FrameReferences, FrameScan DEF IInv, vars, Active
<1>3. TableOrder' /\ NewestHeld'
  BY Zenon, <1>n, FrameOrder, FrameNewest DEF IInv, vars, Numbers
<1>4. QED  BY Zenon, <1>1, <1>2, <1>3 DEF IInv

(* Every step of the specification preserves the invariant.                *)
LEMMA NextIInv == IInv /\ [Next]_vars => IInv'
<1> SUFFICES ASSUME IInv, [Next]_vars PROVE IInv'
  BY Zenon
<1>1. CASE UNCHANGED vars
  BY Zenon, <1>1, StutterIInv
<1>2. ASSUME NEW g \in Server, ServeStep(g) \/ ServeError(g) PROVE IInv'
  BY Zenon, <1>2, ServeStartIInv, ServeCheckIInv, ServeListenIInv, ServeWaitIInv, RegisterIInv,
     WatchAddIInv, SocketRemovedIInv, ServeErrorIInv DEF ServeStep
<1>3. ASSUME NEW s \in Stream, HandlerStep(s) PROVE IInv'
  BY Zenon, <1>3, SendDevicesIInv, ReceiveIInv, AssignIInv DEF HandlerStep
<1>4. QED
  BY Zenon, <1>1, <1>2, <1>3, HwChangeIInv, ProcStartIInv, KubeletStopIInv, KubeletStartIInv,
     KubeletServeIInv, KubeletDialIInv, ScanIInv, NotifyAddedIInv, NotifyUpdatedIInv,
     NotifyRemovedIInv, UpdateIInv DEF Next

-----------------------------------------------------------------------------
LEMMA SpecIInv == Spec => []IInv
BY InitIInv, NextIInv, PTL DEF Spec

(* Every variable keeps its type, however many servers, streams, hardware  *)
(* changes, kubelet restarts and failures there are.                       *)
THEOREM TypeCorrect == Spec => []TypeOK
<1>1. IInv => TypeOK
  BY Zenon DEF IInv
<1>2. QED  BY <1>1, SpecIInv, PTL

(* Tables reach a server's channel, its handlers and server.devices in the *)
(* order in which the notifier reported them.                              *)
THEOREM TablesInOrder == Spec => []PipelineOrder
<1>1. IInv => PipelineOrder
  BY Zenon DEF IInv, TableOrder
<1>2. QED  BY <1>1, SpecIInv, PTL

(* No update accepted by Update is lost silently.                          *)
THEOREM UpdatesNotLost == Spec => []NoSilentLoss
<1>1. IInv => NoSilentLoss
  BY Zenon, Ranges DEF IInv, TypeOK, NewestHeld, NoSilentLoss
<1>2. QED  BY <1>1, SpecIInv, PTL

-----------------------------------------------------------------------------
(* What NoRegressOnStream needs: as long as no other handler of the server *)
(* is stale, what the kubelet has on its stream is not newer than          *)
(* server.devices, nor than what the stream's handler is about to store.   *)
(* A stale handler stays so until it stops the server and with it the      *)
(* stream.                                                                 *)
AtMost(s) ==
    /\ view <= devices[ssrv[s]]
    /\ spc[s] = "assign" => view <= got[s]

Undisturbed(s) == \A t \in Stream \ {s} : ~Stale(t, ssrv[s])

StreamOrder ==
    \A s \in Stream : conn = s /\ view # None /\ Undisturbed(s) => AtMost(s)

(* Steps that touch neither tables nor handlers: they keep the stream or   *)
(* close it, or open one on which nothing was sent.                        *)
LEMMA FrameStream ==
    ASSUME StreamOrder, TypeOK,
           \/ UNCHANGED <<devices, ssrv, spc, got>> /\ (UNCHANGED <<conn, view>> \/ conn' = 0)
           \/ conn' = 0
           \/ view' = None
    PROVE  StreamOrder'
<1>1. \A s \in Stream : s # 0
  BY Zenon, Ranges
<1>2. CASE conn' = 0 \/ view' = None
  BY Zenon, <1>1, <1>2 DEF StreamOrder
<1>3. CASE UNCHANGED <<devices, ssrv, spc, got, conn, view>>
  BY Zenon, <1>3 DEF StreamOrder, Undisturbed, AtMost, Stale
<1>4. QED  BY Zenon, <1>2, <1>3

LEMMA ExitStream ==
    ASSUME StreamOrder, TypeOK, Exit
    PROVE  StreamOrder'
BY Zenon, FrameStream DEF Exit

LEMMA SendStream ==
    ASSUME IInv, StreamOrder, NEW s \in Stream, SendDevices(s)
    PROVE  StreamOrder'
<1>n. TypeOK /\ Numbers
  BY Zenon, TypeNumbers DEF IInv
<1>1. CASE Exit
  BY Zenon, <1>n, <1>1, ExitStream
<1>2. CASE conn = s
  <2>1. /\ view' = devices[ssrv[s]] /\ UNCHANGED <<devices, ssrv, got, conn>>
        /\ spc'[s] = "recv"
    BY Zenon, <1>n, <1>2 DEF SendDevices, TypeOK
  <2>2. devices[ssrv[s]] \in Nat
    BY Zenon, <1>n, TypeReferences DEF Numbers
  <2>3. AtMost(s)'
    BY <2>1, <2>2 DEF AtMost
  <2>4. QED  BY Zenon, <1>2, <2>1, <2>3 DEF StreamOrder
<1>3. CASE conn # s /\ ~Exit
  <2>1. /\ spc[s] = "send" /\ UNCHANGED <<devices, ssrv, got>>
        /\ spc'[s] = "free" /\ \A t \in Stream : t # s => spc'[t] = spc[t]
    BY Zenon, <1>n, <1>3 DEF SendDevices, Stop, TypeOK
  <2>2. ssrv[s] \in Server /\ grpc[ssrv[s]] # "nil"
    BY Zenon, <1>n, <2>1, TypeReferences DEF IInv, References
  <2>3. CASE conn # 0 /\ ssrv[conn] = ssrv[s]
    <3>1. conn' = 0
      BY Zenon, <1>3, <2>2, <2>3 DEF SendDevices, Stop, GrpcStop
    <3>2. QED  BY Zenon, <1>n, <3>1, FrameStream
  <2>4. CASE ~(conn # 0 /\ ssrv[conn] = ssrv[s])
    <3>1. UNCHANGED <<conn, view>>
      BY Zenon, <1>3, <2>2, <2>4 DEF SendDevices, Stop, GrpcStop
    <3>2. SUFFICES ASSUME NEW t \in Stream, conn = t, view # None, Undisturbed(t)'
                   PROVE  AtMost(t)'
      BY Zenon, <3>1 DEF StreamOrder
    <3>3. t # 0 /\ ssrv[t] # ssrv[s] /\ t # s
      BY Zenon, <1>3, <2>4, <3>2, Ranges
    <3>4. Undisturbed(t)
      BY Zenon, <2>1, <3>1, <3>2, <3>3 DEF Undisturbed, Stale
    <3>5. AtMost(t)
      BY Zenon, <3>2, <3>4 DEF StreamOrder
    <3>6. QED  BY Zenon, <2>1, <3>1, <3>3, <3>5 DEF AtMost
  <2>5. QED  BY Zenon, <2>3, <2>4
<1>4. QED  BY Zenon, <1>1, <1>2, <1>3

(* The stream's own handler takes a newer table; any other that takes one  *)
(* is stale.                                                               *)
LEMMA ReceiveStream ==
    ASSUME IInv, StreamOrder, NEW s \in Stream, Receive(s)
    PROVE  StreamOrder'
<1>n. TypeOK /\ Numbers
  BY Zenon, TypeNumbers DEF IInv
<1>1. spc[s] = "recv" /\ ssrv[s] \in Server /\ UNCHANGED <<devices, ssrv>>
  BY Zenon, <1>n, TypeReferences DEF Receive
<1>2. CASE ch[ssrv[s]] # None
  <2>1. UNCHANGED <<conn, view>>
    BY Zenon, <1>2 DEF Receive
  <2>2. /\ spc'[s] = "assign" /\ got'[s] = ch[ssrv[s]]
        /\ \A t \in Stream : t # s => spc'[t] = spc[t] /\ got'[t] = got[t]
    BY Zenon, <1>n, <1>1, <1>2 DEF Receive, TypeOK
  <2>3. SUFFICES ASSUME NEW t \in Stream, conn = t, view # None, Undisturbed(t)'
                 PROVE  AtMost(t)'
    BY Zenon, <2>1 DEF StreamOrder
  <2>4. Undisturbed(t)
    BY Zenon, <1>1, <2>1, <2>2, <2>3 DEF Undisturbed, Stale
  <2>5. AtMost(t)
    BY Zenon, <2>3, <2>4 DEF StreamOrder
  <2>6. CASE t = s
    <3>1. devices[ssrv[s]] < ch[ssrv[s]]
      BY Zenon, <1>1, <1>2 DEF IInv, TableOrder, PipelineOrder
    <3>2. devices[ssrv[s]] \in Nat /\ ch[ssrv[s]] \in Int /\ view \in Int
      BY Zenon, <1>n, <1>1 DEF Numbers
    <3>3. QED  BY <1>1, <2>1, <2>2, <2>5, <2>6, <3>1, <3>2 DEF AtMost
  <2>7. CASE t # s
    BY Zenon, <1>1, <2>1, <2>2, <2>5, <2>7 DEF AtMost
  <2>8. QED  BY Zenon, <2>6, <2>7
<1>3. CASE ch[ssrv[s]] = None
  <2>1. /\ spc'[s] = "free" /\ got' = got /\ \A t \in Stream : t # s => spc'[t] = spc[t]
        /\ conn' = 0 \/ (conn # s /\ UNCHANGED <<conn, view>>)
    BY Zenon, <1>n, <1>3 DEF Receive, TypeOK
  <2>2. CASE conn' = 0
    BY Zenon, <1>n, <2>2, FrameStream
  <2>3. CASE conn # s /\ UNCHANGED <<conn, view>>
    BY Zenon, <1>1, <2>1, <2>3 DEF StreamOrder, Undisturbed, AtMost, Stale
  <2>4. QED  BY Zenon, <2>1, <2>2, <2>3
<1>4. QED  BY Zenon, <1>2, <1>3

LEMMA AssignStream ==
    ASSUME IInv, StreamOrder, NEW s \in Stream, Assign(s)
    PROVE  StreamOrder'
<1>n. TypeOK /\ Numbers
  BY Zenon, TypeNumbers DEF IInv
<1>1. spc[s] = "assign" /\ ssrv[s] \in Server /\ UNCHANGED <<ssrv, conn, view>>
  BY Zenon, <1>n, TypeReferences DEF Assign
<1>2. /\ spc'[s] = "send"
      /\ \A t \in Stream : t # s => spc'[t] = spc[t] /\ got'[t] = got[t]
      /\ devices'[ssrv[s]] = got[s]
      /\ \A i \in Server : i # ssrv[s] => devices'[i] = devices[i]
  BY Zenon, <1>n, <1>1 DEF Assign, TypeOK
<1>3. SUFFICES ASSUME NEW t \in Stream, conn = t, view # None, Undisturbed(t)'
               PROVE  AtMost(t)'
  BY Zenon, <1>1 DEF StreamOrder
<1>4. Undisturbed(t) /\ AtMost(t)
  BY Zenon, <1>1, <1>2, <1>3 DEF StreamOrder, Undisturbed, Stale
<1>5. CASE t = s
  BY Zenon, <1>1, <1>2, <1>4, <1>5 DEF AtMost
<1>6. CASE t # s
  <2>1. ssrv[t] # ssrv[s]
    BY Zenon, <1>1, <1>2, <1>3, <1>6 DEF Undisturbed, Stale
  <2>2. devices'[ssrv[t]] = devices[ssrv[t]]
    BY Zenon, <1>n, <1>2, <2>1, TypeReferences
  <2>3. QED  BY Zenon, <1>1, <1>2, <1>4, <1>6, <2>2 DEF AtMost
<1>7. QED  BY Zenon, <1>5, <1>6

(* All steps but a handler's.                                              *)
LEMMA OtherStream ==
    ASSUME IInv, StreamOrder,
           \/ HwChange \/ ProcStart \/ KubeletStop \/ KubeletStart \/ KubeletServe \/ KubeletDial
           \/ Scan \/ NotifyAdded \/ NotifyUpdated \/ NotifyRemoved \/ Update \/ UNCHANGED vars
           \/ \E g \in Server : ServeStep(g) \/ ServeError(g)
    PROVE  /\ StreamOrder'
           /\ UNCHANGED <<conn, view>> \/ conn' = 0 \/ view' = None
<1>n. TypeOK
  BY Zenon DEF IInv
<1>1. CASE Exit
  BY Zenon, <1>n, <1>1, ExitStream DEF Exit
<1>2. CASE KubeletDial
  <2>1. view' = None \/ UNCHANGED <<devices, ssrv, spc, got, conn, view>>
    BY Zenon, <1>2 DEF KubeletDial
  <2>2. QED  BY Zenon, <1>n, <2>1, FrameStream
<1>3. CASE ~Exit /\ ~KubeletDial
  <2>1. UNCHANGED <<devices, ssrv, spc, got>>
    <3>1. CASE \/ HwChange \/ ProcStart \/ KubeletStop \/ KubeletStart \/ KubeletServe
               \/ Scan \/ NotifyAdded \/ NotifyUpdated \/ Update \/ UNCHANGED vars
      BY Zenon, <1>3, <3>1 DEF HwChange, ProcStart, KubeletStop, KubeletStart, KubeletServe, Scan,
                        NotifyAdded, NotifyUpdated, Update, vars
    <3>2. CASE NotifyRemoved
      BY Zenon, <1>3, <3>2 DEF NotifyRemoved, Stop
    <3>3. CASE \E g \in Server : ServeStep(g) \/ ServeError(g)
      BY Zenon, <1>3, <3>3 DEF ServeStep, ServeError, ServeStart, ServeCheck, ServeListen, ServeWait,
                        Register, WatchAdd, SocketRemoved
    <3>4. QED  BY Zenon, <1>3, <3>1, <3>2, <3>3
  <2>2. UNCHANGED <<conn, view>> \/ conn' = 0
    <3>1. CASE \/ HwChange \/ ProcStart \/ KubeletStop \/ KubeletStart \/ KubeletServe
               \/ Scan \/ NotifyAdded \/ NotifyUpdated \/ Update \/ UNCHANGED vars
      BY Zenon, <1>3, <3>1 DEF HwChange, ProcStart, KubeletStop, KubeletStart, KubeletServe, Scan,
                        NotifyAdded, NotifyUpdated, Update, vars
    <3>2. CASE NotifyRemoved
      BY Zenon, <1>3, <3>2 DEF NotifyRemoved, Stop, GrpcStop
    <3>3. CASE \E g \in Server : ServeStep(g) \/ ServeError(g)
      BY <1>3, <3>3 DEF ServeStep, ServeError, ServeStart, ServeCheck, ServeListen, ServeWait,
                        Register, WatchAdd, SocketRemoved, GrpcStop
    <3>4. QED  BY Zenon, <1>3, <3>1, <3>2, <3>3
  <2>3. QED  BY Zenon, <1>n, <2>1, <2>2, FrameStream
<1>4. QED  BY Zenon, <1>1, <1>2, <1>3

LEMMA NextStream == IInv /\ StreamOrder /\ [Next]_vars => StreamOrder'
BY Zenon, OtherStream, SendStream, ReceiveStream, AssignStream DEF Next, HandlerStep

(* However many handlers a server has and however they interleave, the     *)
(* kubelet goes back to an older list on its stream only while the handler *)
(* of an older stream is about to stop the server (ListAndWatch).          *)
THEOREM StreamsKeepOrder == Spec => NoRegressOnStream
<1> DEFINE Regress(s) == conn = s /\ conn' = s /\ view # None /\ view' # None /\ view' < view
           Step == \A s \in Stream : Regress(s) => \E t \in Stream \ {s} : Stale(t, ssrv[s])
<1>1. Init => StreamOrder
  BY Zenon, Ranges DEF Init, StreamOrder
<1>2. IInv /\ StreamOrder /\ [Next]_vars => [Step]_vars
  <2>a. SUFFICES ASSUME IInv, StreamOrder, [Next]_vars, NEW s \in Stream, Regress(s)
                 PROVE  \E t \in Stream \ {s} : Stale(t, ssrv[s])
    BY Zenon
  <2>n. TypeOK /\ Numbers
    BY Zenon, <2>a, TypeNumbers DEF IInv
  <2>1. s # 0 /\ view \in Int /\ view' # view
    BY <2>a, <2>n, Ranges DEF Numbers
  <2>2. PICK t \in Stream : HandlerStep(t)
    BY Zenon, <2>a, <2>1, OtherStream DEF Next
  <2>3. SendDevices(s) /\ view' = devices[ssrv[s]]
    <3>1. CASE Exit
      BY Zenon, <2>a, <2>1, <3>1 DEF Exit
    <3>2. CASE ~Exit /\ SendDevices(t)
      BY Zenon, <2>a, <2>1, <3>2 DEF SendDevices, Stop, GrpcStop
    <3>3. CASE Receive(t)
      BY Zenon, <2>a, <2>1, <3>3 DEF Receive
    <3>4. CASE Assign(t)
      BY Zenon, <2>a, <2>1, <3>4 DEF Assign
    <3>5. QED  BY Zenon, <2>2, <3>1, <3>2, <3>3, <3>4 DEF HandlerStep
  <2>4. devices[ssrv[s]] \in Nat
    BY Zenon, <2>n, TypeReferences DEF Numbers
  <2>5. ~AtMost(s)
    BY <2>a, <2>1, <2>3, <2>4 DEF AtMost
  <2>6. QED  BY Zenon, <2>a, <2>5 DEF StreamOrder, Undisturbed
<1>3. QED  BY <1>1, <1>2, InitIInv, NextIInv, NextStream, PTL DEF Spec, NoRegressOnStream
=============================================================================
