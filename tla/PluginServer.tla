---------------------------- MODULE PluginServer ----------------------------
(***************************************************************************)
(* One resource (device type) of one device-plugin process, from the       *)
(* hardware to the kubelet: the scan loop and its notifier, the manager    *)
(* goroutine, the servers it creates, the goroutines that run              *)
(* setupAndServe, the ListAndWatch handlers, the plugin socket and the     *)
(* kubelet that dials it.  Source: pkg/deviceplugin/{manager,server}.go.   *)
(*                                                                         *)
(* A device table (map[string]DeviceInfo) is abstracted to the revision of *)
(* the hardware it was scanned from; revision 0 is the empty table, which  *)
(* is also what a scan reports when the resource is absent.                *)
(***************************************************************************)
EXTENDS Integers

CONSTANTS
    MaxRev,       \* number of hardware changes explored
    MaxServer,    \* server objects one process may create
    MaxStream,    \* ListAndWatch handlers alive at the same time
    MaxRestart,   \* kubelet restarts explored
    MaxFault      \* environment errors that make setupAndServe fail

ASSUME BoundsAssumption ==
    /\ MaxRev \in Nat /\ MaxRestart \in Nat /\ MaxFault \in Nat
    /\ MaxServer \in Nat \ {0} /\ MaxStream \in Nat \ {0}

VARIABLES
    hw,       \* what a scan would report now
    rev,      \* number of hardware changes so far
    proc,     \* "up" | "down": the plugin process
    scan,     \* table the scanner holds and is about to Notify, or None
    ntree,    \* notifier.deviceTree[devType], 0 when the key is missing
    mgr,      \* "idle" | "update": the manager goroutine
    servers,  \* m.servers[devType], 0 when the key is missing
    last,     \* number of server objects created by this process
    state,    \* server.state
    grpc,     \* server.grpcServer: "nil" | "up" | "stopped"
    devices,  \* server.devices
    ch,       \* content of server.updatesCh (capacity 1), or None
    chst,     \* "open" | "closed": server.updatesCh
    gpc,      \* position of each goroutine started by handleUpdate
    gsrv,     \* the server object that goroutine serves
    spc,      \* position of each ListAndWatch handler
    ssrv,     \* the server object the handler runs on
    got,      \* table the handler received and has not assigned yet, else 0
    sockFile, \* whether the plugin socket's path exists
    sockSrv,  \* the server whose listener is bound to that path, or 0
    kubelet,  \* "up" | "down" | "starting"
    reg,      \* whether the kubelet has a registration it has not dialled
    conn,     \* the handler at the other end of the kubelet's stream, or 0
    view,     \* last list the kubelet received on that stream, or None
    restarts, faults

envVars  == <<hw, rev>>
mgrVars  == <<scan, ntree, mgr, servers, last>>
srvVars  == <<state, grpc, devices, ch, chst>>
gorVars  == <<gpc, gsrv>>
strmVars == <<spc, ssrv, got>>
sockVars == <<sockFile, sockSrv>>
kubVars  == <<kubelet, reg, conn, view>>
vars == <<hw, rev, proc, scan, ntree, mgr, servers, last, state, grpc, devices,
          ch, chst, gpc, gsrv, spc, ssrv, got, sockFile, sockSrv, kubelet,
          reg, conn, view, restarts, faults>>

None   == -1
Rev    == 0..MaxRev
Server == 1..MaxServer
Stream == 1..MaxStream

(* Positions of a goroutine in handleUpdate's closure and setupAndServe,   *)
(* and of a handler in ListAndWatch.                                       *)
ServePc   == {"none", "launched", "check", "listen", "wait", "register", "watch",
              "watching", "removed", "done"}
HandlerPc == {"free", "send", "recv", "assign"}

TypeOK ==
    /\ hw \in Rev /\ rev \in Rev
    /\ proc \in {"up", "down"}
    /\ scan \in Rev \cup {None} /\ ntree \in Rev
    /\ mgr \in {"idle", "update"}
    /\ servers \in Server \cup {0} /\ last \in Server \cup {0}
    /\ state \in [Server -> {"uninitialized", "serving", "terminating"}]
    /\ grpc \in [Server -> {"nil", "up", "stopped"}]
    /\ devices \in [Server -> Rev]
    /\ ch \in [Server -> Rev \cup {None}]
    /\ chst \in [Server -> {"open", "closed"}]
    /\ gpc \in [Server -> ServePc]
    /\ gsrv \in [Server -> Server]
    /\ spc \in [Stream -> HandlerPc]
    /\ ssrv \in [Stream -> Server]
    /\ got \in [Stream -> Rev]
    /\ sockFile \in {"absent", "present"} /\ sockSrv \in Server \cup {0}
    /\ kubelet \in {"up", "down", "starting"}
    /\ reg \in {"none", "pending"}
    /\ conn \in Stream \cup {0}
    /\ view \in Rev \cup {None}
    /\ restarts \in 0..MaxRestart /\ faults \in 0..MaxFault

-----------------------------------------------------------------------------
(* What a fresh process holds: no tree, no server, no goroutine.           *)
NewServers == [state   |-> [i \in Server |-> "uninitialized"],
               grpc    |-> [i \in Server |-> "nil"],
               devices |-> [i \in Server |-> 0],
               ch      |-> [i \in Server |-> None],
               chst    |-> [i \in Server |-> "open"],
               gpc     |-> [g \in Server |-> "none"],
               gsrv    |-> [g \in Server |-> g]]

Init ==
    /\ hw = 0 /\ rev = 0
    /\ proc = "up"
    /\ scan = None /\ ntree = 0 /\ mgr = "idle" /\ servers = 0 /\ last = 0
    /\ state = NewServers.state /\ grpc = NewServers.grpc
    /\ devices = NewServers.devices
    /\ ch = NewServers.ch /\ chst = NewServers.chst
    /\ gpc = NewServers.gpc /\ gsrv = NewServers.gsrv
    /\ spc = [s \in Stream |-> "free"]
    /\ ssrv = [s \in Stream |-> 1]
    /\ got = [s \in Stream |-> 0]
    /\ sockFile = "absent" /\ sockSrv = 0
    /\ kubelet = "up" /\ reg = "none" /\ conn = 0 /\ view = None
    /\ restarts = 0 /\ faults = 0

(* os.Exit(1) or a panic: every goroutine and connection of the process is *)
(* gone, the socket's path stays behind with nobody listening, and a       *)
(* pending dial of the kubelet fails before the container is restarted.    *)
Exit ==
    /\ proc' = "down"
    /\ scan' = None /\ ntree' = 0 /\ mgr' = "idle" /\ servers' = 0 /\ last' = 0
    /\ state' = NewServers.state /\ grpc' = NewServers.grpc
    /\ devices' = NewServers.devices
    /\ ch' = NewServers.ch /\ chst' = NewServers.chst
    /\ gpc' = NewServers.gpc /\ gsrv' = NewServers.gsrv
    /\ spc' = [s \in Stream |-> "free"]
    /\ ssrv' = [s \in Stream |-> 1]
    /\ got' = [s \in Stream |-> 0]
    /\ sockSrv' = 0
    /\ reg' = "none" /\ conn' = 0 /\ view' = None
    /\ UNCHANGED <<sockFile, kubelet>>

(* A dial of the plugin socket succeeds.                                   *)
Reachable == sockFile = "present" /\ sockSrv # 0

(* The positions pcs after the socket's path was removed: fsnotify tells   *)
(* every goroutine that is already watching the directory.                 *)
Notified(pcs) ==
    [g \in Server |-> IF sockFile = "present" /\ pcs[g] = "watching" THEN "removed" ELSE pcs[g]]

(* grpcServer.Stop() on server i, the acting goroutines being at pcs       *)
(* afterwards: closing the listener unlinks the path, every connection is  *)
(* closed, handlers are not waited for.                                  *)
GrpcStop(i, pcs) ==
    /\ grpc' = [grpc EXCEPT ![i] = "stopped"]
    /\ IF grpc[i] = "up"
         THEN /\ sockFile' = "absent" /\ sockSrv' = 0
              /\ gpc' = Notified(pcs)
         ELSE /\ UNCHANGED sockVars
              /\ gpc' = pcs
    /\ IF conn # 0 /\ ssrv[conn] = i
         THEN conn' = 0 /\ view' = None
         ELSE UNCHANGED <<conn, view>>

(* server.Stop() on server i.  Without a grpcServer it only returns an     *)
(* error; on a server stopped before, close(updatesCh) panics.  One step:  *)
(* what another goroutine could do between its three statements, it could  *)
(* as well do before or after them.  rest is what the caller does next,    *)
(* unless the process exits.                                               *)
Stop(i, rest) ==
    \/ /\ grpc[i] = "nil"
       /\ rest
       /\ UNCHANGED <<proc, state, grpc, chst, gpc, sockFile, sockSrv, conn, view>>
    \/ /\ grpc[i] # "nil" /\ chst[i] = "open"
       /\ state' = [state EXCEPT ![i] = "terminating"]
       /\ GrpcStop(i, gpc)
       /\ chst' = [chst EXCEPT ![i] = "closed"]
       /\ rest
       /\ UNCHANGED proc
    \/ /\ grpc[i] # "nil" /\ chst[i] = "closed"
       /\ Exit

-----------------------------------------------------------------------------
(* The environment of the process.                                         *)

(* Devices appear, change health or disappear.                             *)
HwChange ==
    /\ rev < MaxRev
    /\ rev' = rev + 1
    /\ hw' \in {0, rev + 1}
    /\ UNCHANGED <<proc, mgrVars, srvVars, gorVars, strmVars, sockVars, kubVars,
                   restarts, faults>>

(* The kubelet restarts the container of an exited plugin.                 *)
ProcStart ==
    /\ proc = "down" /\ kubelet = "up"
    /\ proc' = "up"
    /\ UNCHANGED <<envVars, mgrVars, srvVars, gorVars, strmVars, sockVars, kubVars,
                   restarts, faults>>

KubeletStop ==
    /\ kubelet = "up" /\ restarts < MaxRestart
    /\ kubelet' = "down" /\ reg' = "none" /\ conn' = 0 /\ view' = None
    /\ restarts' = restarts + 1
    /\ UNCHANGED <<envVars, proc, mgrVars, srvVars, gorVars, strmVars, sockVars,
                   faults>>

(* A starting kubelet first removes the sockets of its device-plugin       *)
(* directory, then serves its registration socket.                         *)
KubeletStart ==
    /\ kubelet = "down"
    /\ kubelet' = "starting"
    /\ sockFile' = "absent" /\ sockSrv' = 0
    /\ gpc' = Notified(gpc)
    /\ UNCHANGED <<envVars, proc, mgrVars, srvVars, gsrv, strmVars, reg, conn, view,
                   restarts, faults>>

KubeletServe ==
    /\ kubelet = "starting"
    /\ kubelet' = "up"
    /\ UNCHANGED <<envVars, proc, mgrVars, srvVars, gorVars, strmVars, sockVars,
                   reg, conn, view, restarts, faults>>

(* The kubelet dials a registered endpoint and calls ListAndWatch on it,   *)
(* which starts a handler on the server that is listening there now.       *)
KubeletDial ==
    /\ reg = "pending" /\ kubelet = "up"
    /\ reg' = "none"
    /\ \/ /\ Reachable
          /\ \E s \in Stream :
               /\ spc[s] = "free" /\ \A t \in 1..(s - 1) : spc[t] # "free"
               /\ spc' = [spc EXCEPT ![s] = "send"]
               /\ ssrv' = [ssrv EXCEPT ![s] = sockSrv]
               /\ conn' = s /\ view' = None
       \/ /\ ~Reachable
          /\ UNCHANGED <<spc, ssrv, conn, view>>
    /\ UNCHANGED <<envVars, proc, mgrVars, srvVars, gorVars, got, sockVars, kubelet,
                   restarts, faults>>

-----------------------------------------------------------------------------
(* Scanner, notifier and manager.                                          *)

(* The plugin's Scan loop builds a new tree and calls Notify.  A tree      *)
(* equal to the notifier's sends nothing and changes nothing, so only a    *)
(* scan that differs is a step.                                            *)
Scan ==
    /\ proc = "up" /\ scan = None /\ hw # ntree
    /\ scan' = hw
    /\ UNCHANGED <<envVars, proc, ntree, mgr, servers, last, srvVars, gorVars,
                   strmVars, sockVars, kubVars, restarts, faults>>

(* Notify sends on an unbuffered channel, so it meets the manager at the   *)
(* top of its loop.  Added: handleUpdate creates the server, starts the    *)
(* goroutine that will serve it and goes on to Update.                     *)
NotifyAdded ==
    /\ scan # None /\ mgr = "idle"
    /\ ntree = 0 /\ scan # 0
    /\ last < MaxServer
    /\ ntree' = scan /\ scan' = None
    /\ last' = last + 1 /\ servers' = last + 1
    /\ gpc' = [gpc EXCEPT ![last + 1] = "launched"]
    /\ mgr' = "update"
    /\ UNCHANGED <<envVars, proc, srvVars, gsrv, strmVars, sockVars, kubVars,
                   restarts, faults>>

(* Updated: handleUpdate goes to Update on the existing server.            *)
NotifyUpdated ==
    /\ scan # None /\ mgr = "idle"
    /\ ntree # 0 /\ scan # 0 /\ scan # ntree
    /\ ntree' = scan /\ scan' = None
    /\ mgr' = "update"
    /\ UNCHANGED <<envVars, proc, servers, last, srvVars, gorVars, strmVars,
                   sockVars, kubVars, restarts, faults>>

(* Removed: handleUpdate stops the server, logs an error of Stop, and      *)
(* forgets the server either way.                                          *)
NotifyRemoved ==
    /\ scan # None /\ mgr = "idle"
    /\ ntree # 0 /\ scan = 0
    /\ Stop(servers, /\ ntree' = 0 /\ scan' = None /\ servers' = 0
                     /\ UNCHANGED <<mgr, last, devices, ch, gsrv, strmVars,
                                    kubelet, reg>>)
    /\ UNCHANGED <<envVars, restarts, faults>>

(* Mutant of Update: a send that gives up when the buffer is full.         *)
UpdateDrops ==
    /\ mgr = "update"
    /\ \/ /\ chst[servers] = "open"
          /\ ch' = IF ch[servers] = None THEN [ch EXCEPT ![servers] = ntree] ELSE ch
          /\ mgr' = "idle"
          /\ UNCHANGED <<proc, scan, ntree, servers, last, state, grpc, devices,
                         chst, gorVars, strmVars, sockVars, kubVars>>
       \/ chst[servers] = "closed" /\ Exit
    /\ UNCHANGED <<envVars, restarts, faults>>

(* Mutant of Update: a send that may be repeated.                          *)
UpdateRepeats ==
    /\ mgr = "update"
    /\ \/ /\ chst[servers] = "open" /\ ch[servers] = None
          /\ ch' = [ch EXCEPT ![servers] = ntree]
          /\ mgr' \in {"idle", "update"}
          /\ UNCHANGED <<proc, scan, ntree, servers, last, state, grpc, devices,
                         chst, gorVars, strmVars, sockVars, kubVars>>
       \/ chst[servers] = "closed" /\ Exit
    /\ UNCHANGED <<envVars, restarts, faults>>

(* server.Update: a send on updatesCh, which blocks while the buffer is    *)
(* full and panics once the channel is closed.                             *)
Update ==
    /\ mgr = "update"
    /\ \/ /\ chst[servers] = "open" /\ ch[servers] = None
          /\ ch' = [ch EXCEPT ![servers] = ntree]
          /\ mgr' = "idle"
          /\ UNCHANGED <<proc, scan, ntree, servers, last, state, grpc, devices,
                         chst, gorVars, strmVars, sockVars, kubVars>>
       \/ chst[servers] = "closed" /\ Exit
    /\ UNCHANGED <<envVars, restarts, faults>>

-----------------------------------------------------------------------------
(* The goroutine started by handleUpdate: Serve, that is setupAndServe.    *)

Goto(g, pc) == gpc' = [gpc EXCEPT ![g] = pc]

(* The goroutine looks its server up in m.servers only when it first runs: *)
(* the entry may be gone (nil dereference) or be a newer server.           *)
ServeStart(g) ==
    /\ gpc[g] = "launched"
    /\ \/ /\ servers # 0
          /\ gsrv' = [gsrv EXCEPT ![g] = servers]
          /\ state' = [state EXCEPT ![servers] = "serving"]
          /\ Goto(g, "check")
          /\ UNCHANGED <<proc, mgrVars, grpc, devices, ch, chst, strmVars,
                         sockVars, kubVars>>
       \/ servers = 0 /\ Exit
    /\ UNCHANGED <<envVars, restarts, faults>>

(* The loop condition, then waitForServer(pluginSocket, 1s): a server that *)
(* answers there is an error, and an error of Serve ends the process.      *)
ServeCheck(g) ==
    /\ gpc[g] = "check"
    /\ \/ /\ state[gsrv[g]] # "serving"
          /\ Goto(g, "done")
          /\ UNCHANGED <<proc, mgrVars, srvVars, gsrv, strmVars, sockVars, kubVars>>
       \/ /\ state[gsrv[g]] = "serving" /\ ~Reachable
          /\ Goto(g, "listen")
          /\ UNCHANGED <<proc, mgrVars, srvVars, gsrv, strmVars, sockVars, kubVars>>
       \/ /\ state[gsrv[g]] = "serving" /\ Reachable
          /\ Exit
    /\ UNCHANGED <<envVars, restarts, faults>>

(* os.Remove of a left-over path, Listen, grpc.NewServer, go Serve(lis).   *)
ServeListen(g) ==
    /\ gpc[g] = "listen"
    /\ gpc' = Notified([gpc EXCEPT ![g] = "wait"])
    /\ sockFile' = "present" /\ sockSrv' = gsrv[g]
    /\ grpc' = [grpc EXCEPT ![gsrv[g]] = "up"]
    /\ UNCHANGED <<envVars, proc, mgrVars, state, devices, ch, chst, gsrv,
                   strmVars, kubVars, restarts, faults>>

(* waitForServer(pluginSocket, 10s) on the server just started.            *)
ServeWait(g) ==
    /\ gpc[g] = "wait"
    /\ \/ /\ Reachable
          /\ Goto(g, "register")
          /\ UNCHANGED <<proc, mgrVars, srvVars, gsrv, strmVars, sockVars, kubVars>>
       \/ ~Reachable /\ Exit
    /\ UNCHANGED <<envVars, restarts, faults>>

(* registerWithKubelet: an unreachable kubelet is an error.                *)
Register(g) ==
    /\ gpc[g] = "register"
    /\ \/ /\ kubelet = "up"
          /\ reg' = "pending"
          /\ Goto(g, "watch")
          /\ UNCHANGED <<proc, mgrVars, srvVars, gsrv, strmVars, sockVars,
                         kubelet, conn, view>>
       \/ kubelet # "up" /\ Exit
    /\ UNCHANGED <<envVars, restarts, faults>>

(* watchFile up to watcher.Add: from here on a removal is noticed.         *)
WatchAdd(g) ==
    /\ gpc[g] = "watch"
    /\ Goto(g, "watching")
    /\ UNCHANGED <<envVars, proc, mgrVars, srvVars, gsrv, strmVars, sockVars,
                   kubVars, restarts, faults>>

(* Mutant of SocketRemoved: serving ends instead of looping.               *)
SocketRemovedEnds(g) ==
    /\ gpc[g] = "removed"
    /\ \/ /\ state[gsrv[g]] = "serving"
          /\ GrpcStop(gsrv[g], [gpc EXCEPT ![g] = "done"])
       \/ /\ state[gsrv[g]] # "serving"
          /\ Goto(g, "done")
          /\ UNCHANGED <<grpc, sockVars, conn, view>>
    /\ UNCHANGED <<envVars, proc, mgrVars, state, devices, ch, chst, gsrv,
                   strmVars, kubelet, reg, restarts, faults>>

(* watchFile returned: stop the gRPC server unless Stop did, then loop.    *)
SocketRemoved(g) ==
    /\ gpc[g] = "removed"
    /\ \/ /\ state[gsrv[g]] = "serving"
          /\ GrpcStop(gsrv[g], [gpc EXCEPT ![g] = "check"])
       \/ /\ state[gsrv[g]] # "serving"
          /\ Goto(g, "check")
          /\ UNCHANGED <<grpc, sockVars, conn, view>>
    /\ UNCHANGED <<envVars, proc, mgrVars, state, devices, ch, chst, gsrv,
                   strmVars, kubelet, reg, restarts, faults>>

(* Listen, waitForServer, Register or the watcher fails for a reason of    *)
(* the environment.                                                        *)
ServeError(g) ==
    /\ gpc[g] \in {"listen", "wait", "register", "watch", "watching"}
    /\ faults < MaxFault
    /\ faults' = faults + 1
    /\ Exit
    /\ UNCHANGED <<envVars, restarts>>

-----------------------------------------------------------------------------
(* A ListAndWatch handler.                                                 *)

(* sendDevices: the list is built from server.devices as it is now.  Send  *)
(* fails once the stream's connection is gone, and the handler then stops  *)
(* its server, whatever grpcServer that server is using by now.            *)
SendDevices(s) ==
    /\ spc[s] = "send"
    /\ \/ /\ conn = s
          /\ view' = devices[ssrv[s]]
          /\ spc' = [spc EXCEPT ![s] = "recv"]
          /\ UNCHANGED <<proc, mgrVars, srvVars, gorVars, ssrv, got, sockVars,
                         kubelet, reg, conn>>
       \/ /\ conn # s
          /\ Stop(ssrv[s], /\ spc' = [spc EXCEPT ![s] = "free"]
                           /\ UNCHANGED <<mgrVars, devices, ch, gsrv, ssrv, got,
                                          kubelet, reg>>)
    /\ UNCHANGED <<envVars, restarts, faults>>

(* Mutant of Receive: the handler does not wait for a table.               *)
ReceivePolls(s) ==
    /\ spc[s] = "recv"
    /\ got' = [got EXCEPT ![s] = ch[ssrv[s]]]
    /\ ch' = [ch EXCEPT ![ssrv[s]] = None]
    /\ spc' = [spc EXCEPT ![s] = "assign"]
    /\ UNCHANGED <<envVars, proc, mgrVars, state, grpc, devices, chst, gorVars,
                   ssrv, sockVars, kubVars, restarts, faults>>

(* Mutant of Receive: the zero value of a closed channel is taken for a    *)
(* table.                                                                  *)
ReceiveClosed(s) ==
    /\ spc[s] = "recv"
    /\ ch[ssrv[s]] # None \/ chst[ssrv[s]] = "closed"
    /\ got' = [got EXCEPT ![s] = IF ch[ssrv[s]] = None THEN 0 ELSE ch[ssrv[s]]]
    /\ ch' = [ch EXCEPT ![ssrv[s]] = None]
    /\ spc' = [spc EXCEPT ![s] = "assign"]
    /\ UNCHANGED <<envVars, proc, mgrVars, state, grpc, devices, chst, gorVars,
                   ssrv, sockVars, kubVars, restarts, faults>>

(* One turn of "for srv.devices = range srv.updatesCh": a buffered table   *)
(* is taken by any waiting handler; a closed, drained channel ends the   *)
(* handler and with it the stream.                                         *)
Receive(s) ==
    /\ spc[s] = "recv"
    /\ \/ /\ ch[ssrv[s]] # None
          /\ got' = [got EXCEPT ![s] = ch[ssrv[s]]]
          /\ ch' = [ch EXCEPT ![ssrv[s]] = None]
          /\ spc' = [spc EXCEPT ![s] = "assign"]
          /\ UNCHANGED <<conn, view>>
       \/ /\ ch[ssrv[s]] = None /\ chst[ssrv[s]] = "closed"
          /\ spc' = [spc EXCEPT ![s] = "free"]
          /\ IF conn = s THEN conn' = 0 /\ view' = None ELSE UNCHANGED <<conn, view>>
          /\ UNCHANGED <<got, ch>>
    /\ UNCHANGED <<envVars, proc, mgrVars, state, grpc, devices, chst, gorVars,
                   ssrv, sockVars, kubelet, reg, restarts, faults>>

(* The store to srv.devices: unsynchronised, so a step of its own.         *)
Assign(s) ==
    /\ spc[s] = "assign"
    /\ devices' = [devices EXCEPT ![ssrv[s]] = got[s]]
    /\ spc' = [spc EXCEPT ![s] = "send"]
    /\ got' = [got EXCEPT ![s] = 0]
    /\ UNCHANGED <<envVars, proc, mgrVars, state, grpc, ch, chst, gorVars, ssrv,
                   sockVars, kubVars, restarts, faults>>

-----------------------------------------------------------------------------
ScannerStep == Scan \/ NotifyAdded \/ NotifyUpdated \/ NotifyRemoved

ServeStep(g) == \/ ServeStart(g) \/ ServeCheck(g) \/ ServeListen(g) \/ ServeWait(g)
                \/ Register(g) \/ WatchAdd(g) \/ SocketRemoved(g)

HandlerStep(s) == SendDevices(s) \/ Receive(s) \/ Assign(s)

Next ==
    \/ HwChange \/ ProcStart
    \/ KubeletStop \/ KubeletStart \/ KubeletServe \/ KubeletDial
    \/ Scan \/ NotifyAdded \/ NotifyUpdated \/ NotifyRemoved
    \/ Update
    \/ \E g \in Server : ServeStep(g) \/ ServeError(g)
    \/ \E s \in Stream : HandlerStep(s)

Spec == Init /\ [][Next]_vars

(* Every goroutine keeps running, systemd restarts the kubelet and the     *)
(* kubelet restarts exited containers.  Nothing makes hardware change, the *)
(* kubelet stop or the environment fail.                                   *)
Fairness ==
    /\ WF_vars(ProcStart)
    /\ WF_vars(KubeletStart) /\ WF_vars(KubeletServe) /\ WF_vars(KubeletDial)
    /\ WF_vars(ScannerStep) /\ WF_vars(Update)
    /\ \A g \in Server : WF_vars(ServeStep(g))
    /\ \A s \in Stream : WF_vars(HandlerStep(s))

FairSpec == Spec /\ Fairness

-----------------------------------------------------------------------------
(* Properties.                                                             *)

(* A handler on server i whose connection is gone, and that holds a table  *)
(* or is about to send one: its Send will fail and it will Stop server i.  *)
Stale(s, i) == spc[s] \in {"assign", "send"} /\ ssrv[s] = i /\ conn # s

(* Server i has been stopped, or a stale handler is about to stop it.      *)
Doomed(i) == chst[i] = "closed" \/ \E s \in Stream : Stale(s, i)

(* An update accepted by Update is never lost silently: when the kubelet   *)
(* has a stream to the manager's server, the manager is idle, the channel  *)
(* is empty and the handler waits for the next update, then the kubelet    *)
(* has the table the notifier last reported - unless that server has been  *)
(* or is being stopped because an older stream failed to send.             *)
NoSilentLoss ==
    \A s \in Stream :
        /\ conn = s /\ spc[s] = "recv" /\ ssrv[s] = servers
        /\ mgr = "idle" /\ ch[servers] = None /\ ~Doomed(servers)
        => view = ntree

(* Tables stay in order on their way: what sits in updatesCh is newer than *)
(* what its server already holds or a handler of it took earlier, and not  *)
(* newer than what the notifier reported last.                             *)
PipelineOrder ==
    \A i \in Server :
        /\ ch[i] # None =>
             /\ devices[i] < ch[i]
             /\ \A s \in Stream : ssrv[s] = i /\ spc[s] = "assign" => got[s] < ch[i]
        /\ servers = i => ch[i] <= ntree

(* On one stream the kubelet never goes back to an older list, unless a    *)
(* handler of an older stream stored to srv.devices in the wrong order; it *)
(* is then about to fail and to stop the server (ListAndWatch).            *)
NoRegressOnStream ==
    [][ \A s \in Stream :
          conn = s /\ conn' = s /\ view # None /\ view' # None /\ view' < view
          => \E t \in Stream \ {s} : Stale(t, ssrv[s]) ]_vars

(* The kubelet's list is what a scan reports.                              *)
Converged == IF hw = 0 THEN conn = 0 ELSE conn # 0 /\ view = hw

Active(g) == gpc[g] \notin {"none", "launched", "done"}

(* A server nobody can stop any more: the manager forgot it (Stop came     *)
(* before grpcServer existed, or raced a restart of it) and it serves.     *)
Zombie ==
    \E g \in Server :
        /\ Active(g) /\ gsrv[g] # servers
        /\ state[gsrv[g]] = "serving" \/ grpc[gsrv[g]] = "up"

(* The manager's server was stopped by a stale handler.                    *)
StoppedBehindManager == servers # 0 /\ chst[servers] = "closed"

(* The kubelet removed the socket before the goroutine watched it.         *)
MissedRemoval ==
    \E g \in Server : gpc[g] = "watching" /\ sockFile = "absent" /\ state[gsrv[g]] = "serving"

(* The goroutine of a server that went away runs the one that came back,   *)
(* beside its own: the two remove each other's socket for as long as they  *)
(* like.                                                                   *)
Twins == \E g, h \in Server : g # h /\ Active(g) /\ Active(h) /\ gsrv[g] = gsrv[h]

(* Once the hardware and the kubelet stop changing, the kubelet's list is  *)
(* what a scan reports and stays so, unless the process ended in one of    *)
(* four states that it need not leave by itself.                           *)
SettlesOrStuck ==
    <>[](Converged \/ Zombie \/ StoppedBehindManager \/ MissedRemoval \/ Twins)

(* server.go:305: "Kubelet removes plugin socket when it (re)starts,       *)
(* plugin must restart in this case": a kubelet that starts while the      *)
(* manager runs a server gets a registration, unless the resource goes     *)
(* away or the process exits.                                              *)
RestartsWithKubelet ==
    (kubelet = "starting" /\ servers # 0)
        ~> (reg = "pending" \/ conn # 0 \/ servers = 0 \/ proc = "down")
=============================================================================
