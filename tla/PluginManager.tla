---------------------------- MODULE PluginManager ----------------------------
(***************************************************************************)
(* The notifier and the manager of one plugin process with several device  *)
(* types: the diff of Notify, the three loops of handleUpdate, the server  *)
(* map shared with the goroutines that handleUpdate starts, and a manager  *)
(* that blocks on a server nobody reads.  Source:                          *)
(* pkg/deviceplugin/manager.go.  A server is what the manager sees of it:  *)
(* an entry of the map, its update channel and the table its handlers took *)
(* last; PluginServer has the rest.                                        *)
(***************************************************************************)
EXTENDS Integers

CONSTANTS
    DevTypes, Tables, Absent,
    NoType,       \* cur when the manager works on no device type
    MaxLaunched,  \* goroutines of one type that have not run yet
    MaxFault      \* errors, map races that hit, servers stopped by a handler

ASSUME ManagerAssumption ==
    /\ Absent \notin Tables /\ NoType \notin DevTypes
    /\ MaxLaunched \in Nat \ {0} /\ MaxFault \in Nat

VARIABLES
    hw,        \* the tree a scan would build now
    proc,      \* "up" | "down"
    scan,      \* "none" | "notify": the scanner is about to send newTree
    newTree,   \* the argument of Notify
    ntree,     \* notifier.deviceTree
    added, updated, removed,  \* keys of updateInfo still to be handled
    mpc,       \* "loop" | "store" | "update" | "delete": inside handleUpdate
    cur,       \* the device type of the current iteration
    servers,   \* m.servers: "none" | "open" | "closed" (its updatesCh)
    ch,        \* content of the server's updatesCh, or Absent
    dev,       \* the table the server's handlers took last
    launched,  \* goroutines started that have not read m.servers yet
    faults

mgrVars == <<added, updated, removed, mpc, cur>>
srvVars == <<servers, ch, dev, launched>>
vars == <<hw, proc, scan, newTree, ntree, added, updated, removed, mpc, cur,
          servers, ch, dev, launched, faults>>

Tree    == [DevTypes -> Tables \cup {Absent}]
NoTypes == [d \in DevTypes |-> Absent]

TypeOK ==
    /\ hw \in Tree /\ newTree \in Tree /\ ntree \in Tree
    /\ proc \in {"up", "down"} /\ scan \in {"none", "notify"}
    /\ added \in SUBSET DevTypes /\ updated \in SUBSET DevTypes
    /\ removed \in SUBSET DevTypes
    /\ mpc \in {"loop", "store", "update", "delete"}
    /\ cur \in DevTypes \cup {NoType}
    /\ servers \in [DevTypes -> {"none", "open", "closed"}]
    /\ ch \in Tree /\ dev \in Tree
    /\ launched \in [DevTypes -> 0..MaxLaunched]
    /\ faults \in 0..MaxFault

Init ==
    /\ hw = NoTypes /\ proc = "up"
    /\ scan = "none" /\ newTree = NoTypes /\ ntree = NoTypes
    /\ added = {} /\ updated = {} /\ removed = {} /\ mpc = "loop" /\ cur = NoType
    /\ servers = [d \in DevTypes |-> "none"]
    /\ ch = NoTypes /\ dev = NoTypes
    /\ launched = [d \in DevTypes |-> 0]
    /\ faults = 0

(* os.Exit, a panic or the runtime's fatal error ends the process.         *)
Exit ==
    /\ proc' = "down"
    /\ scan' = "none" /\ newTree' = NoTypes /\ ntree' = NoTypes
    /\ added' = {} /\ updated' = {} /\ removed' = {} /\ mpc' = "loop" /\ cur' = NoType
    /\ servers' = [d \in DevTypes |-> "none"]
    /\ ch' = NoTypes /\ dev' = NoTypes
    /\ launched' = [d \in DevTypes |-> 0]

-----------------------------------------------------------------------------
(* The environment.                                                        *)

HwChange(d) ==
    /\ \E t \in (Tables \cup {Absent}) \ {hw[d]} : hw' = [hw EXCEPT ![d] = t]
    /\ UNCHANGED <<proc, scan, newTree, ntree, mgrVars, srvVars, faults>>

ProcStart ==
    /\ proc = "down"
    /\ proc' = "up"
    /\ UNCHANGED <<hw, scan, newTree, ntree, mgrVars, srvVars, faults>>

(* A ListAndWatch handler of the server takes the buffered table.          *)
ServerTake(d) ==
    /\ servers[d] # "none" /\ ch[d] # Absent
    /\ dev' = [dev EXCEPT ![d] = ch[d]]
    /\ ch' = [ch EXCEPT ![d] = Absent]
    /\ UNCHANGED <<hw, proc, scan, newTree, ntree, mgrVars, servers, launched, faults>>

(* A handler that failed to send stops the server.                         *)
ServerStopped(d) ==
    /\ servers[d] = "open" /\ faults < MaxFault
    /\ servers' = [servers EXCEPT ![d] = "closed"]
    /\ faults' = faults + 1
    /\ UNCHANGED <<hw, proc, scan, newTree, ntree, mgrVars, ch, dev, launched>>

-----------------------------------------------------------------------------
(* The scanner's goroutine.                                                *)

(* A notifier that compares only the keys of the trees.                    *)
ScanKeys ==
    /\ proc = "up" /\ scan = "none"
    /\ \E d \in DevTypes : (hw[d] = Absent) # (ntree[d] = Absent)
    /\ scan' = "notify" /\ newTree' = hw
    /\ UNCHANGED <<hw, proc, ntree, mgrVars, srvVars, faults>>

(* Scan builds a tree and calls Notify.  A tree equal to the previous one  *)
(* sends nothing, so only one that differs is a step.                      *)
Scan ==
    /\ proc = "up" /\ scan = "none" /\ hw # ntree
    /\ scan' = "notify" /\ newTree' = hw
    /\ UNCHANGED <<hw, proc, ntree, mgrVars, srvVars, faults>>

(* The manager is back at its channel.                                     *)
Idle == mpc = "loop" /\ added = {} /\ updated = {} /\ removed = {}

(* Notify: the diff is sent when the manager is back at its channel, and   *)
(* the new tree becomes the notifier's.                                    *)
Notify ==
    /\ scan = "notify" /\ Idle
    /\ added'   = {d \in DevTypes : newTree[d] # Absent /\ ntree[d] = Absent}
    /\ updated' = {d \in DevTypes : newTree[d] # Absent /\ ntree[d] # Absent
                                    /\ newTree[d] # ntree[d]}
    /\ removed' = {d \in DevTypes : newTree[d] = Absent /\ ntree[d] # Absent}
    /\ ntree' = newTree
    /\ scan' = "none" /\ newTree' = NoTypes
    /\ UNCHANGED <<hw, proc, mpc, cur, srvVars, faults>>

-----------------------------------------------------------------------------
(* The manager's goroutine: handleUpdate.  Maps are iterated in any order. *)

(* for devType := range update.Added: the store to m.servers begins.       *)
AddBegin(d) ==
    /\ mpc = "loop" /\ d \in added
    /\ added' = added \ {d}
    /\ cur' = d /\ mpc' = "store"
    /\ UNCHANGED <<hw, proc, scan, newTree, ntree, updated, removed, srvVars, faults>>

(* A handleUpdate that does not Update a new server.                       *)
AddNoUpdate ==
    /\ mpc = "store" /\ launched[cur] < MaxLaunched
    /\ servers' = [servers EXCEPT ![cur] = "open"]
    /\ ch' = [ch EXCEPT ![cur] = Absent] /\ dev' = [dev EXCEPT ![cur] = Absent]
    /\ launched' = [launched EXCEPT ![cur] = launched[cur] + 1]
    /\ mpc' = "loop" /\ cur' = NoType
    /\ UNCHANGED <<hw, proc, scan, newTree, ntree, added, updated, removed, faults>>

(* The store ends, the goroutine that will serve is started, and Update is *)
(* next.                                                                   *)
AddStore ==
    /\ mpc = "store" /\ launched[cur] < MaxLaunched
    /\ servers' = [servers EXCEPT ![cur] = "open"]
    /\ ch' = [ch EXCEPT ![cur] = Absent] /\ dev' = [dev EXCEPT ![cur] = Absent]
    /\ launched' = [launched EXCEPT ![cur] = launched[cur] + 1]
    /\ mpc' = "update"
    /\ UNCHANGED <<hw, proc, scan, newTree, ntree, added, updated, removed, cur, faults>>

(* A handleUpdate that replaces the server of a changed type.              *)
UpdateRecreates(d) ==
    /\ mpc = "loop" /\ added = {} /\ d \in updated
    /\ updated' = updated \ {d}
    /\ cur' = d /\ mpc' = "update"
    /\ servers' = [servers EXCEPT ![d] = "open"]
    /\ ch' = [ch EXCEPT ![d] = Absent] /\ dev' = [dev EXCEPT ![d] = Absent]
    /\ UNCHANGED <<hw, proc, scan, newTree, ntree, added, removed, launched, faults>>

(* for devType := range update.Updated.                                    *)
UpdateBegin(d) ==
    /\ mpc = "loop" /\ added = {} /\ d \in updated
    /\ updated' = updated \ {d}
    /\ cur' = d /\ mpc' = "update"
    /\ UNCHANGED <<hw, proc, scan, newTree, ntree, added, removed, srvVars, faults>>

(* m.servers[devType].Update(devices): blocks on a full channel, panics on *)
(* a closed one.                                                           *)
Update ==
    /\ mpc = "update"
    /\ \/ /\ servers[cur] = "open" /\ ch[cur] = Absent
          /\ ch' = [ch EXCEPT ![cur] = ntree[cur]]
          /\ mpc' = "loop" /\ cur' = NoType
          /\ UNCHANGED <<proc, scan, newTree, ntree, added, updated, removed, servers,
                         dev, launched>>
       \/ servers[cur] = "closed" /\ Exit
    /\ UNCHANGED <<hw, faults>>

(* for devType := range update.Removed: Stop panics on a server stopped    *)
(* before; otherwise the delete of the map's entry begins.                 *)
RemoveBegin(d) ==
    /\ mpc = "loop" /\ added = {} /\ updated = {} /\ d \in removed
    /\ \/ /\ servers[d] = "open"
          /\ removed' = removed \ {d}
          /\ cur' = d /\ mpc' = "delete"
          /\ UNCHANGED <<proc, scan, newTree, ntree, added, updated, srvVars>>
       \/ servers[d] = "closed" /\ Exit
    /\ UNCHANGED <<hw, faults>>

(* A handleUpdate that leaves the entry of a removed type in the map.      *)
RemoveKeeps ==
    /\ mpc = "delete"
    /\ mpc' = "loop" /\ cur' = NoType
    /\ UNCHANGED <<hw, proc, scan, newTree, ntree, added, updated, removed, srvVars,
                   faults>>

(* delete(m.servers, devType) ends.                                        *)
RemoveDelete ==
    /\ mpc = "delete"
    /\ servers' = [servers EXCEPT ![cur] = "none"]
    /\ ch' = [ch EXCEPT ![cur] = Absent] /\ dev' = [dev EXCEPT ![cur] = Absent]
    /\ mpc' = "loop" /\ cur' = NoType
    /\ UNCHANGED <<hw, proc, scan, newTree, ntree, added, updated, removed, launched,
                   faults>>

-----------------------------------------------------------------------------
(* A goroutine that runs more often than it was started.                   *)
GoStartTwice(d) ==
    /\ servers[d] # "none"
    /\ launched' = [launched EXCEPT ![d] = launched[d] - 1]
    /\ UNCHANGED <<hw, proc, scan, newTree, ntree, mgrVars, servers, ch, dev, faults>>

(* A goroutine started by handleUpdate reads m.servers[dt]: a missing      *)
(* entry is a nil dereference.                                             *)
GoStart(d) ==
    /\ launched[d] > 0
    /\ \/ /\ servers[d] # "none" \/ (cur = d /\ mpc = "store")
          /\ launched' = [launched EXCEPT ![d] = launched[d] - 1]
          /\ UNCHANGED <<proc, scan, newTree, ntree, mgrVars, servers, ch, dev>>
       \/ /\ servers[d] = "none" \/ (cur = d /\ mpc = "delete")
          /\ Exit
    /\ UNCHANGED <<hw, faults>>

(* The same read while the manager writes the map: a data race, which the  *)
(* runtime may notice and then ends the process.                           *)
MapRace(d) ==
    /\ launched[d] > 0 /\ mpc \in {"store", "delete"}
    /\ faults < MaxFault
    /\ faults' = faults + 1
    /\ Exit
    /\ UNCHANGED hw

(* Scan or Serve returns an error: os.Exit.                                *)
Fails ==
    /\ proc = "up" /\ faults < MaxFault
    /\ faults' = faults + 1
    /\ Exit
    /\ UNCHANGED hw

-----------------------------------------------------------------------------
Manager == \/ AddStore \/ Update \/ RemoveDelete
           \/ \E d \in DevTypes : AddBegin(d) \/ UpdateBegin(d) \/ RemoveBegin(d)

Next ==
    \/ ProcStart \/ Fails \/ Scan \/ Notify \/ AddStore \/ Update \/ RemoveDelete
    \/ \E d \in DevTypes :
         \/ HwChange(d) \/ ServerTake(d) \/ ServerStopped(d)
         \/ AddBegin(d) \/ UpdateBegin(d) \/ RemoveBegin(d)
         \/ GoStart(d) \/ MapRace(d)

Spec == Init /\ [][Next]_vars

(* Goroutines run and the kubelet restarts the container.  Nothing makes a *)
(* server read its channel.                                                *)
Fairness ==
    /\ WF_vars(ProcStart) /\ WF_vars(Scan) /\ WF_vars(Notify) /\ WF_vars(Manager)
    /\ \A d \in DevTypes : WF_vars(GoStart(d))

FairSpec == Spec /\ Fairness

-----------------------------------------------------------------------------
(* What the server of each type was given last.                            *)
Given(d) == IF servers[d] = "none" THEN Absent
            ELSE IF ch[d] # Absent THEN ch[d] ELSE dev[d]

Fed == [d \in DevTypes |-> Given(d)]

(* The manager implements the feed: each difference of two trees is given  *)
(* to its server once, before Notify returns from the next tree.           *)
Feed == INSTANCE DeviceFeed WITH reported <- ntree, told <- Fed

FeedImplemented == Feed!FeedSpec

(* Types whose difference is not handled yet.                              *)
Pending == added \cup updated \cup removed \cup {cur}

(* m.servers has an entry exactly for the types of the notifier's tree,    *)
(* holding their newest table, except for types still being handled; the   *)
(* three loops find the entries they expect.                               *)
InSync ==
    /\ \A d \in DevTypes \ Pending :
         Given(d) = ntree[d] /\ (servers[d] = "none" <=> ntree[d] = Absent)
    /\ \A d \in added : servers[d] = "none" /\ ntree[d] # Absent
    /\ \A d \in updated : servers[d] # "none" /\ Given(d) # ntree[d]
    /\ \A d \in removed : servers[d] # "none" /\ ntree[d] = Absent
    /\ mpc = "update" => servers[cur] # "none" /\ Given(cur) # ntree[cur]

Stable == <>[][hw' = hw]_hw

Blocked == mpc = "update" /\ ch[cur] # Absent

(* Once the hardware is stable every type has been given its table, or the *)
(* manager is blocked on one type whose server nobody reads.               *)
SettlesOrBlocked == Stable => <>[](Fed = hw \/ Blocked)

(* If the handlers of every type keep reading, all types get their tables. *)
SettlesIfRead ==
    Stable /\ (\A d \in DevTypes : WF_vars(ServerTake(d))) => <>[](dev = hw)
=============================================================================
