------------------------- MODULE PluginManagerProofs -------------------------
(***************************************************************************)
(* Proofs about PluginManager, for any sets of device types and tables:    *)
(* types, the agreement of server map and notifier tree, and the           *)
(* refinement of DeviceFeed.  The inductive invariant speaks of one device *)
(* type at a time (Row), so a step has to be looked at only for the type   *)
(* it works on.                                                            *)
(***************************************************************************)
EXTENDS PluginManager, TLAPS

(* Where type d stands between the notifier's tree and its server.         *)
Row(d) ==
    /\ d \in added =>
         /\ servers[d] = "none" /\ ntree[d] # Absent
         /\ d \notin updated /\ d \notin removed /\ cur # d
    /\ d \in updated =>
         /\ servers[d] # "none" /\ ntree[d] # Absent /\ Given(d) # ntree[d]
         /\ d \notin removed /\ cur # d
    /\ d \in removed =>
         /\ servers[d] # "none" /\ ntree[d] = Absent /\ Given(d) # Absent
         /\ cur # d
    /\ cur = d =>
         /\ mpc = "store" => servers[d] = "none" /\ ntree[d] # Absent
         /\ mpc = "update" =>
              servers[d] # "none" /\ ntree[d] # Absent /\ Given(d) # ntree[d]
         /\ mpc = "delete" =>
              servers[d] # "none" /\ ntree[d] = Absent /\ Given(d) # Absent
    /\ d \notin added /\ d \notin updated /\ d \notin removed /\ cur # d =>
         Given(d) = ntree[d] /\ (servers[d] = "none" <=> ntree[d] = Absent)

Rows == \A d \in DevTypes : Row(d)

(* The manager has a current type exactly inside an iteration.             *)
Cursor == mpc = "loop" <=> cur = NoType

IInv == TypeOK /\ Rows /\ Cursor

rowVars == <<added, updated, removed, mpc, cur, servers, ch, dev, ntree>>
-----------------------------------------------------------------------------
(* Row(d) and Cursor depend on rowVars only.                               *)
LEMMA RowFrame ==
    ASSUME UNCHANGED rowVars, Rows, Cursor
    PROVE  Rows' /\ Cursor'
BY DEF rowVars, Rows, Row, Cursor, Given

(* A process that ended has forgotten everything.                          *)
LEMMA ExitIInv ==
    ASSUME TypeOK, Exit, hw' = hw, faults' \in 0..MaxFault
    PROVE  IInv'
<1>1. NoTypes \in Tree
    BY DEF NoTypes, Tree
<1>2. TypeOK'
  <2>1. [d \in DevTypes |-> 0] \in [DevTypes -> 0..MaxLaunched]
      BY ManagerAssumption
  <2>2. QED
      BY <1>1, <2>1 DEF TypeOK, Exit
<1>3. Rows' /\ Cursor'
    BY ManagerAssumption DEF Exit, Rows, Row, Cursor, Given, NoTypes
<1>4. QED
    BY <1>2, <1>3 DEF IInv

(* Init establishes the invariant.                                         *)
LEMMA InitIInv ==
    ASSUME Init PROVE IInv
<1>1. NoTypes \in Tree
    BY DEF NoTypes, Tree
<1>2. [d \in DevTypes |-> 0] \in [DevTypes -> 0..MaxLaunched] /\ 0 \in 0..MaxFault
    BY ManagerAssumption
<1>3. TypeOK
    BY <1>1, <1>2 DEF TypeOK, Init
<1>4. Rows /\ Cursor
    BY ManagerAssumption DEF Init, Rows, Row, Cursor, Given, NoTypes
<1>5. QED
    BY <1>3, <1>4 DEF IInv

-----------------------------------------------------------------------------
(* Steps that leave tree, manager and servers alone.                       *)
LEMMA QuietIInv ==
    ASSUME IInv, ProcStart \/ Scan \/ \E d \in DevTypes : HwChange(d)
    PROVE  IInv'
<1>1. UNCHANGED rowVars
    BY DEF ProcStart, Scan, HwChange, rowVars, mgrVars, srvVars
<1>2. TypeOK'
  <2>1. CASE ProcStart
      BY <2>1 DEF IInv, TypeOK, ProcStart, mgrVars, srvVars
  <2>2. CASE Scan
      BY <2>2 DEF IInv, TypeOK, Scan, mgrVars, srvVars
  <2>3. ASSUME NEW d \in DevTypes, HwChange(d) PROVE TypeOK'
    <3>1. hw' \in Tree
        BY <2>3 DEF IInv, TypeOK, HwChange, Tree
    <3>2. QED
        BY <2>3, <3>1 DEF IInv, TypeOK, HwChange, mgrVars, srvVars
  <2>4. QED
      BY <2>1, <2>2, <2>3
<1>3. QED
    BY <1>1, <1>2, RowFrame DEF IInv

(* A handler moves a table from the channel to srv.devices.                *)
LEMMA TakeIInv ==
    ASSUME IInv, NEW d \in DevTypes, ServerTake(d)
    PROVE  IInv' /\ \A e \in DevTypes : Given(e)' = Given(e)
<1>1. ch' \in Tree /\ dev' \in Tree
    BY DEF IInv, TypeOK, ServerTake, Tree
<1>2. TypeOK'
    BY <1>1 DEF IInv, TypeOK, ServerTake, mgrVars
<1>3. ASSUME NEW e \in DevTypes PROVE Given(e)' = Given(e)
    BY DEF ServerTake, IInv, TypeOK, Tree, Given
<1>4. Rows' /\ Cursor'
    BY <1>3 DEF ServerTake, IInv, Rows, Row, Cursor, mgrVars
<1>5. QED
    BY <1>2, <1>3, <1>4 DEF IInv

(* A handler stops the server: its entry stays, with its tables.           *)
LEMMA StoppedIInv ==
    ASSUME IInv, NEW d \in DevTypes, ServerStopped(d)
    PROVE  IInv' /\ \A e \in DevTypes : Given(e)' = Given(e)
<1>1. servers' \in [DevTypes -> {"none", "open", "closed"}]
    BY DEF IInv, TypeOK, ServerStopped
<1>2. faults' \in 0..MaxFault
    BY ManagerAssumption DEF IInv, TypeOK, ServerStopped
<1>3. TypeOK'
    BY <1>1, <1>2 DEF IInv, TypeOK, ServerStopped, mgrVars
<1>4. ASSUME NEW e \in DevTypes
      PROVE  Given(e)' = Given(e) /\ (servers'[e] = "none" <=> servers[e] = "none")
    BY DEF ServerStopped, IInv, TypeOK, Given
<1>5. Rows'
  <2>1. SUFFICES ASSUME NEW e \in DevTypes PROVE Row(e)'
      BY DEF Rows
  <2>2. QED
      BY <1>4 DEF ServerStopped, IInv, Rows, Row, mgrVars
<1>6. Cursor'
    BY DEF ServerStopped, IInv, Cursor, mgrVars
<1>7. QED
    BY <1>3, <1>4, <1>5, <1>6 DEF IInv

(* The diff puts each type that differs into exactly one of the sets.      *)
LEMMA NotifyIInv ==
    ASSUME IInv, Notify
    PROVE  IInv' /\ \A e \in DevTypes : Given(e) = ntree[e] /\ Given(e)' = Given(e)
<1>1. cur = NoType /\ mpc = "loop" /\ added = {} /\ updated = {} /\ removed = {}
    BY DEF Notify, Idle, IInv, Cursor
<1>2. NoTypes \in Tree
    BY DEF NoTypes, Tree
<1>3. TypeOK'
    BY <1>2 DEF IInv, TypeOK, Notify, srvVars
<1>4. ASSUME NEW e \in DevTypes
      PROVE  /\ Given(e) = ntree[e] /\ (servers[e] = "none" <=> ntree[e] = Absent)
             /\ Given(e)' = Given(e) /\ servers'[e] = servers[e]
    BY <1>1, ManagerAssumption DEF IInv, Rows, Row, Notify, srvVars, Given
<1>5. Rows'
  <2>1. SUFFICES ASSUME NEW e \in DevTypes PROVE Row(e)'
      BY DEF Rows
  <2>2. cur' # e
      BY <1>1, ManagerAssumption DEF Notify
  <2>3. QED
      BY <1>4, <2>2 DEF Row, Notify
<1>6. Cursor'
    BY <1>1 DEF Notify, Cursor
<1>7. QED
    BY <1>3, <1>4, <1>5, <1>6 DEF IInv

-----------------------------------------------------------------------------
(* The loops take a type out of its set and make it the current one.       *)
LEMMA AddBeginIInv ==
    ASSUME IInv, NEW d \in DevTypes, AddBegin(d)
    PROVE  IInv' /\ \A e \in DevTypes : Given(e)' = Given(e)
<1>1. TypeOK'
    BY DEF IInv, TypeOK, AddBegin, srvVars
<1>2. ASSUME NEW e \in DevTypes PROVE Given(e)' = Given(e)
    BY DEF AddBegin, srvVars, Given
<1>3. Rows'
  <2>1. SUFFICES ASSUME NEW e \in DevTypes PROVE Row(e)'
      BY DEF Rows
  <2>2. cur = NoType /\ cur # e
      BY ManagerAssumption DEF AddBegin, IInv, Cursor
  <2>3. Row(e) /\ Row(d)
      BY DEF IInv, Rows
  <2>4. QED
      BY <1>2, <2>2, <2>3 DEF Row, AddBegin, srvVars
<1>4. Cursor'
    BY ManagerAssumption DEF AddBegin, Cursor
<1>5. QED
    BY <1>1, <1>2, <1>3, <1>4 DEF IInv

(* The second loop does the same.                                          *)
LEMMA UpdateBeginIInv ==
    ASSUME IInv, NEW d \in DevTypes, UpdateBegin(d)
    PROVE  IInv' /\ \A e \in DevTypes : Given(e)' = Given(e)
<1>1. TypeOK'
    BY DEF IInv, TypeOK, UpdateBegin, srvVars
<1>2. ASSUME NEW e \in DevTypes PROVE Given(e)' = Given(e)
    BY DEF UpdateBegin, srvVars, Given
<1>3. Rows'
  <2>1. SUFFICES ASSUME NEW e \in DevTypes PROVE Row(e)'
      BY DEF Rows
  <2>2. cur = NoType /\ cur # e
      BY ManagerAssumption DEF UpdateBegin, IInv, Cursor
  <2>3. Row(e) /\ Row(d)
      BY DEF IInv, Rows
  <2>4. QED
      BY <1>2, <2>2, <2>3 DEF Row, UpdateBegin, srvVars
<1>4. Cursor'
    BY ManagerAssumption DEF UpdateBegin, Cursor
<1>5. QED
    BY <1>1, <1>2, <1>3, <1>4 DEF IInv

(* So does the third, unless Stop panics.                                  *)
LEMMA RemoveBeginIInv ==
    ASSUME IInv, NEW d \in DevTypes, RemoveBegin(d), ~Exit
    PROVE  IInv' /\ (\A e \in DevTypes : Given(e)' = Given(e)) /\ ntree' = ntree
<1>1. TypeOK'
    BY DEF IInv, TypeOK, RemoveBegin, srvVars
<1>2. ASSUME NEW e \in DevTypes PROVE Given(e)' = Given(e)
    BY DEF RemoveBegin, srvVars, Given
<1>3. Rows'
  <2>1. SUFFICES ASSUME NEW e \in DevTypes PROVE Row(e)'
      BY DEF Rows
  <2>2. cur = NoType /\ cur # e
      BY ManagerAssumption DEF RemoveBegin, IInv, Cursor
  <2>3. Row(e) /\ Row(d)
      BY DEF IInv, Rows
  <2>4. QED
      BY <1>2, <2>2, <2>3 DEF Row, RemoveBegin, srvVars
<1>4. Cursor'
    BY ManagerAssumption DEF RemoveBegin, Cursor
<1>5. QED
    BY <1>1, <1>2, <1>3, <1>4 DEF IInv, RemoveBegin

(* Inside an iteration there is a current type.                            *)
LEMMA Current ==
    ASSUME IInv, mpc # "loop" PROVE cur \in DevTypes
BY DEF IInv, TypeOK, Cursor

(* A new server has been given nothing.                                    *)
LEMMA AddStoreIInv ==
    ASSUME IInv, AddStore
    PROVE  IInv' /\ \A e \in DevTypes : Given(e)' = Given(e)
<1>1. cur \in DevTypes /\ cur' = cur /\ mpc' = "update"
    BY Current DEF AddStore
<1>2. TypeOK'
  <2>1. servers' \in [DevTypes -> {"none", "open", "closed"}]
      BY DEF IInv, TypeOK, AddStore
  <2>2. ch' \in Tree /\ dev' \in Tree
      BY DEF IInv, TypeOK, AddStore, Tree
  <2>3. launched' \in [DevTypes -> 0..MaxLaunched]
    <3>1. launched[cur] + 1 \in 0..MaxLaunched
        BY <1>1, ManagerAssumption DEF IInv, TypeOK, AddStore
    <3>2. QED
        BY <3>1 DEF IInv, TypeOK, AddStore
  <2>4. QED
      BY <2>1, <2>2, <2>3 DEF IInv, TypeOK, AddStore
<1>3. Row(cur)
    BY <1>1 DEF IInv, Rows
<1>4. ASSUME NEW e \in DevTypes, e # cur
      PROVE  servers'[e] = servers[e] /\ ch'[e] = ch[e] /\ dev'[e] = dev[e]
    BY <1>4 DEF IInv, TypeOK, AddStore, Tree
<1>5. servers'[cur] = "open" /\ ch'[cur] = Absent /\ dev'[cur] = Absent
    BY <1>1 DEF IInv, TypeOK, AddStore, Tree
<1>6. servers[cur] = "none" /\ ntree[cur] # Absent
    BY <1>3 DEF Row, AddStore
<1>7. ASSUME NEW e \in DevTypes PROVE Given(e)' = Given(e)
    BY <1>1, <1>4, <1>5, <1>6 DEF Given
<1>8. Rows'
  <2>1. SUFFICES ASSUME NEW e \in DevTypes PROVE Row(e)'
      BY DEF Rows
  <2>2. UNCHANGED <<added, updated, removed, ntree>>
      BY DEF AddStore
  <2>3. CASE e = cur
    <3>1. Given(cur) = Absent
        BY <1>6 DEF Given
    <3>2. QED
        BY <1>1, <1>3, <1>5, <1>6, <1>7, <2>2, <2>3, <3>1 DEF Row
  <2>4. CASE e # cur
      BY <1>1, <1>4, <1>7, <2>2, <2>4 DEF Row, IInv, Rows
  <2>5. QED
      BY <2>3, <2>4
<1>9. Cursor'
    BY <1>1, ManagerAssumption DEF Cursor
<1>10. QED
    BY <1>2, <1>7, <1>8, <1>9 DEF IInv

(* An Update that does not panic gives the current type its table.         *)
LEMMA UpdateIInv ==
    ASSUME IInv, Update, ~Exit
    PROVE  /\ IInv' /\ ntree' = ntree
           /\ cur \in DevTypes /\ Given(cur) # ntree[cur]
           /\ \A e \in DevTypes : Given(e)' = IF e = cur THEN ntree[e] ELSE Given(e)
<1>1. /\ cur \in DevTypes /\ cur' = NoType /\ mpc' = "loop"
      /\ UNCHANGED <<added, updated, removed, ntree, servers, dev>>
    BY Current DEF Update
<1>2. TypeOK'
  <2>1. ch' \in Tree
      BY <1>1 DEF IInv, TypeOK, Update, Tree
  <2>2. QED
      BY <2>1 DEF IInv, TypeOK, Update
<1>3. Row(cur)
    BY <1>1 DEF IInv, Rows
<1>4. servers[cur] # "none" /\ ntree[cur] # Absent /\ Given(cur) # ntree[cur]
    BY <1>3 DEF Row, Update
<1>5. ch'[cur] = ntree[cur]
    BY <1>1 DEF IInv, TypeOK, Update, Tree
<1>6. ASSUME NEW e \in DevTypes, e # cur PROVE ch'[e] = ch[e]
    BY <1>6 DEF IInv, TypeOK, Update, Tree
<1>7. ASSUME NEW e \in DevTypes, e # cur PROVE Given(e)' = Given(e)
    BY <1>1, <1>6, <1>7 DEF Given
<1>8. ASSUME NEW e \in DevTypes, e = cur PROVE Given(e)' = ntree[e]
    BY <1>1, <1>4, <1>5, <1>8 DEF Given
<1>9. Rows'
  <2>1. SUFFICES ASSUME NEW e \in DevTypes PROVE Row(e)'
      BY DEF Rows
  <2>2. cur' # e
      BY <1>1, ManagerAssumption
  <2>3. CASE e = cur
      BY <1>1, <1>3, <1>4, <1>8, <2>2, <2>3 DEF Row
  <2>4. CASE e # cur
      BY <1>1, <1>7, <2>2, <2>4 DEF Row, IInv, Rows
  <2>5. QED
      BY <2>3, <2>4
<1>10. Cursor'
    BY <1>1 DEF Cursor
<1>11. QED
    BY <1>1, <1>2, <1>4, <1>7, <1>8, <1>9, <1>10 DEF IInv

(* A deleted entry is a type told to be absent.                            *)
LEMMA RemoveDeleteIInv ==
    ASSUME IInv, RemoveDelete
    PROVE  /\ IInv' /\ ntree' = ntree
           /\ cur \in DevTypes /\ Given(cur) # ntree[cur]
           /\ \A e \in DevTypes : Given(e)' = IF e = cur THEN ntree[e] ELSE Given(e)
<1>1. /\ cur \in DevTypes /\ cur' = NoType /\ mpc' = "loop"
      /\ UNCHANGED <<added, updated, removed, ntree>>
    BY Current DEF RemoveDelete
<1>2. TypeOK'
  <2>1. servers' \in [DevTypes -> {"none", "open", "closed"}]
      BY DEF IInv, TypeOK, RemoveDelete
  <2>2. ch' \in Tree /\ dev' \in Tree
      BY DEF IInv, TypeOK, RemoveDelete, Tree
  <2>3. QED
      BY <2>1, <2>2 DEF IInv, TypeOK, RemoveDelete
<1>3. Row(cur)
    BY <1>1 DEF IInv, Rows
<1>4. ntree[cur] = Absent /\ Given(cur) # Absent
    BY <1>3 DEF Row, RemoveDelete
<1>5. ASSUME NEW e \in DevTypes, e = cur
      PROVE  servers'[e] = "none" /\ Given(e)' = ntree[e]
    BY <1>1, <1>4, <1>5 DEF IInv, TypeOK, RemoveDelete, Given
<1>6. ASSUME NEW e \in DevTypes, e # cur
      PROVE  servers'[e] = servers[e] /\ Given(e)' = Given(e)
    BY <1>6 DEF IInv, TypeOK, RemoveDelete, Tree, Given
<1>7. Rows'
  <2>1. SUFFICES ASSUME NEW e \in DevTypes PROVE Row(e)'
      BY DEF Rows
  <2>2. cur' # e
      BY <1>1, ManagerAssumption
  <2>3. CASE e = cur
      BY <1>1, <1>3, <1>4, <1>5, <2>2, <2>3 DEF Row
  <2>4. CASE e # cur
      BY <1>1, <1>6, <2>2, <2>4 DEF Row, IInv, Rows
  <2>5. QED
      BY <2>3, <2>4
<1>8. Cursor'
    BY <1>1 DEF Cursor
<1>9. QED
    BY <1>1, <1>2, <1>4, <1>5, <1>6, <1>7, <1>8 DEF IInv

(* A goroutine that finds its entry only counts itself started.            *)
LEMMA GoStartIInv ==
    ASSUME IInv, NEW d \in DevTypes, GoStart(d), ~Exit
    PROVE  IInv' /\ UNCHANGED rowVars
<1>1. UNCHANGED rowVars
    BY DEF GoStart, rowVars, mgrVars
<1>2. launched[d] - 1 \in 0..MaxLaunched
    BY ManagerAssumption DEF IInv, TypeOK, GoStart
<1>3. launched' \in [DevTypes -> 0..MaxLaunched]
    BY <1>2 DEF IInv, TypeOK, GoStart
<1>4. TypeOK'
    BY <1>3 DEF IInv, TypeOK, GoStart, mgrVars
<1>5. QED
    BY <1>1, <1>4, RowFrame DEF IInv

-----------------------------------------------------------------------------
(* A step that ends the process is a Forget of the feed.                   *)
LEMMA ExitForgets ==
    ASSUME Exit PROVE Feed!Forget
<1>1. Fed' = NoTypes
    BY DEF Exit, Fed, Given, NoTypes
<1>2. QED
    BY <1>1 DEF Exit, Feed!Forget, Feed!NoTypes, NoTypes

(* Every step that changes neither the tree nor what a server was given is *)
(* a stutter of the feed.                                                  *)
LEMMA Stutter ==
    ASSUME ntree' = ntree, \A e \in DevTypes : Given(e)' = Given(e)
    PROVE  UNCHANGED Feed!feedVars
<1>1. Fed' = Fed
    BY DEF Fed
<1>2. QED
    BY <1>1 DEF Feed!feedVars

(* Giving the current type its table is a Tell.                            *)
LEMMA Tells ==
    ASSUME NEW d \in DevTypes, ntree' = ntree, Given(d) # ntree[d],
           \A e \in DevTypes : Given(e)' = IF e = d THEN ntree[e] ELSE Given(e)
    PROVE  Feed!Tell(d)
<1>1. Fed[d] # ntree[d]
    BY DEF Fed
<1>2. Fed' = [Fed EXCEPT ![d] = ntree[d]]
    BY DEF Fed
<1>3. QED
    BY <1>1, <1>2 DEF Feed!Tell

(* Every step keeps the invariant and is a step of the feed.               *)
LEMMA StepIInv ==
    ASSUME IInv, [Next]_vars
    PROVE  IInv' /\ [Feed!FeedNext]_(Feed!feedVars)
<1>1. CASE UNCHANGED vars
  <2>1. UNCHANGED rowVars /\ UNCHANGED <<hw, proc, scan, newTree, launched, faults>>
      BY <1>1 DEF vars, rowVars
  <2>2. TypeOK'
      BY <2>1 DEF IInv, TypeOK, rowVars
  <2>3. ntree' = ntree /\ \A e \in DevTypes : Given(e)' = Given(e)
      BY <2>1 DEF rowVars, Given
  <2>4. QED
      BY <2>1, <2>2, <2>3, RowFrame, Stutter DEF IInv
<1>2. CASE Exit /\ hw' = hw /\ faults' \in 0..MaxFault
    BY <1>2, ExitIInv, ExitForgets DEF IInv, Feed!FeedNext
<1>3. CASE ProcStart \/ Scan \/ \E d \in DevTypes : HwChange(d)
  <2>1. ntree' = ntree /\ \A e \in DevTypes : Given(e)' = Given(e)
      BY <1>3 DEF ProcStart, Scan, HwChange, srvVars, Given
  <2>2. QED
      BY <1>3, <2>1, QuietIInv, Stutter
<1>4. CASE Notify
  <2>1. Fed = ntree /\ Fed' = Fed
      BY <1>4, NotifyIInv DEF Fed, IInv, TypeOK, Tree
  <2>2. ntree' \in Feed!Tree
      BY <1>4 DEF Notify, IInv, TypeOK, Tree, Feed!Tree
  <2>3. Feed!Report
      BY <2>1, <2>2 DEF Feed!Report
  <2>4. QED
      BY <1>4, <2>3, NotifyIInv DEF Feed!FeedNext
<1>5. CASE AddStore
  <2>1. ntree' = ntree
      BY <1>5 DEF AddStore
  <2>2. QED
      BY <1>5, <2>1, AddStoreIInv, Stutter
<1>6. CASE Update /\ ~Exit
    BY <1>6, UpdateIInv, Tells DEF Feed!FeedNext
<1>7. CASE RemoveDelete
    BY <1>7, RemoveDeleteIInv, Tells DEF Feed!FeedNext
<1>8. ASSUME NEW d \in DevTypes, ServerTake(d) \/ ServerStopped(d)
      PROVE  IInv' /\ UNCHANGED Feed!feedVars
  <2>1. ntree' = ntree
      BY <1>8 DEF ServerTake, ServerStopped
  <2>2. QED
      BY <1>8, <2>1, TakeIInv, StoppedIInv, Stutter
<1>9. ASSUME NEW d \in DevTypes, AddBegin(d) \/ UpdateBegin(d)
      PROVE  IInv' /\ UNCHANGED Feed!feedVars
  <2>1. ntree' = ntree
      BY <1>9 DEF AddBegin, UpdateBegin
  <2>2. QED
      BY <1>9, <2>1, AddBeginIInv, UpdateBeginIInv, Stutter
<1>10. ASSUME NEW d \in DevTypes, RemoveBegin(d), ~Exit
       PROVE  IInv' /\ UNCHANGED Feed!feedVars
    BY <1>10, RemoveBeginIInv, Stutter
<1>11. ASSUME NEW d \in DevTypes, GoStart(d), ~Exit
       PROVE  IInv' /\ UNCHANGED Feed!feedVars
  <2>1. ntree' = ntree /\ \A e \in DevTypes : Given(e)' = Given(e)
      BY <1>11, GoStartIInv DEF rowVars, Given
  <2>2. QED
      BY <1>11, <2>1, GoStartIInv, Stutter
<1>12. ASSUME NEW d \in DevTypes, MapRace(d) \/ Fails
       PROVE  Exit /\ hw' = hw /\ faults' \in 0..MaxFault
    BY <1>12, ManagerAssumption DEF MapRace, Fails, IInv, TypeOK
<1>13. CASE Fails
    BY <1>13, <1>2, ManagerAssumption DEF Fails, IInv, TypeOK
<1>14. ASSUME NEW d \in DevTypes, GoStart(d) \/ Update \/ RemoveBegin(d)
       PROVE  hw' = hw /\ faults' \in 0..MaxFault
    BY <1>14 DEF GoStart, Update, RemoveBegin, IInv, TypeOK
<1>15. CASE Update
    BY <1>15, <1>2, <1>6 DEF Update, IInv, TypeOK
<1>16. QED
    BY <1>1, <1>2, <1>3, <1>4, <1>5, <1>7, <1>8, <1>9, <1>10, <1>11, <1>12, <1>13,
       <1>14, <1>15 DEF Next

(* IInv holds in every reachable state.                                    *)
LEMMA SpecIInv == Spec => []IInv
<1>1. Init => IInv
    BY InitIInv
<1>2. IInv /\ [Next]_vars => IInv'
    BY StepIInv
<1>3. QED
    BY <1>1, <1>2, PTL DEF Spec

(* Every variable keeps its type (notifier, manager.go:38-74, and Manager, *)
(* manager.go:78-164), for any device types and tables.                    *)
THEOREM ManagerTypeCorrect == Spec => []TypeOK
<1>1. IInv => TypeOK
    BY DEF IInv
<1>2. QED
    BY <1>1, SpecIInv, PTL

(* handleUpdate (manager.go:114-164) leaves m.servers with exactly the     *)
(* types of the notifier's tree and their newest tables, and each of its   *)
(* loops finds the entries it dereferences.                                *)
THEOREM ServerMapInSync == Spec => []InSync
<1>1. ASSUME IInv PROVE InSync
  <2>1. mpc = "update" => servers[cur] # "none" /\ Given(cur) # ntree[cur]
      BY <1>1, Current DEF IInv, Rows, Row
  <2>2. QED
      BY <1>1, <2>1 DEF IInv, TypeOK, Rows, Row, InSync, Pending
<1>2. QED
    BY <1>1, SpecIInv, PTL

(* Notify and handleUpdate implement DeviceFeed: every difference of two   *)
(* trees reaches its server once, before the next tree is taken over.      *)
THEOREM ManagerImplementsFeed == Spec => FeedImplemented
<1>1. Init => Feed!FeedInit
    BY DEF Init, Feed!FeedInit, Feed!NoTypes, NoTypes, Fed, Given
<1>2. IInv /\ [Next]_vars => [Feed!FeedNext]_(Feed!feedVars)
    BY StepIInv
<1>3. QED
    BY <1>1, <1>2, SpecIInv, PTL DEF Spec, FeedImplemented, Feed!FeedSpec
=============================================================================
