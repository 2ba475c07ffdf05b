------------------------------- MODULE Operator -------------------------------
(***************************************************************************)
(* The operator: pkg/controllers/reconciler.go with the controller of one  *)
(* kind of plugin, one custom resource (cr) of that kind and the DaemonSet *)
(* (ds) it controls.                                                       *)
(*                                                                         *)
(* The API server checks resource versions: a write based on a copy that   *)
(* is not the current object fails.  The operator reads from informer      *)
(* caches, which follow the objects with a delay and skip to the latest    *)
(* version; each event of the resource or of the DaemonSet queues one      *)
(* Reconcile, and at most one runs at a time.                              *)
(***************************************************************************)
EXTENDS Controllers

CONSTANTS
    Nodes,      \* nodes a pod of the DaemonSet may run on
    None,       \* no such resource
    MaxEvents   \* bound on the changes by users and pods, the failing API
                \* calls and the restarts of the operator

VARIABLES
    kind,       \* the kind of this resource
    cr,         \* the resource [uid, spec, status], or None
    ds,         \* its DaemonSet [uid, owner, template, ready], or NoDs
    pods,       \* nodes with a ready pod of the DaemonSet
    crCache, dsCache, podCache,  \* what the informers have seen
    unseen,     \* which of "cr" and "ds" has an event to be delivered
    queued,     \* a request is in the work queue
    pc,         \* where Reconcile is
    dp, child,  \* the objects Reconcile has read
    lastUid, events

api    == <<cr, ds, pods>>
caches == <<crCache, dsCache, podCache>>
client == <<caches, queued, pc, dp, child>>
vars == <<kind, cr, ds, pods, crCache, dsCache, podCache, unseen, queued, pc,
          dp, child, lastUid, events>>

(* No such DaemonSet.                                                      *)
NoDs == [uid |-> 0, owner |-> 0, template |-> None, ready |-> 0]

NoStatus == [controlled |-> 0, ready |-> 0, nodeNames |-> <<>>]
Statuses == [controlled : 0..2, ready : 0..Cardinality(Nodes), nodeNames : Seq(Nodes)]

Resources == [uid : 0..MaxEvents, spec : Specs, status : Statuses]

ASSUME NodesAssumption  == IsFiniteSet(Nodes)
ASSUME EventsAssumption == MaxEvents \in Nat
ASSUME NoneAssumption   == None \notin Resources

TypeOK ==
    /\ kind \in Kinds
    /\ cr # None => cr \in Resources /\ cr.spec \in SpecsOf(kind)
    /\ ds # NoDs => /\ ds.uid \in 1..2 /\ ds.owner \in 0..MaxEvents
                    /\ ds.ready \in 0..Cardinality(Nodes)
    /\ pods \subseteq Nodes /\ podCache \subseteq Nodes
    /\ queued \in BOOLEAN /\ unseen \subseteq {"cr", "ds"}
    /\ pc \in {"idle", "get", "upgrade", "sync", "status"}
    /\ dp = None <=> pc \in {"idle", "get"}
    /\ child # NoDs => pc # "idle"
    /\ events \in 0..MaxEvents /\ lastUid \in 1..2

(* The resource may have been written before this version of the operator, *)
(* with images that are too old.                                           *)
Init ==
    /\ kind \in Kinds
    /\ \E s \in SpecsOf(kind) :
         /\ validatePlugin(kind, [s EXCEPT !.image = MinImage,
                                     !.initImage = IF @ = "" THEN "" ELSE MinImage])
         /\ cr = [uid |-> 0, spec |-> s, status |-> NoStatus]
    /\ ds = NoDs /\ pods = {}
    /\ crCache = None /\ dsCache = NoDs /\ podCache = {}
    /\ unseen = {"cr"} /\ queued = FALSE /\ pc = "idle" /\ dp = None /\ child = NoDs
    /\ lastUid = 1 /\ events = 0

-----------------------------------------------------------------------------
(* The users and the cluster.                                              *)

(* Every write that changes an object makes an event.                      *)
Changed(objs) == unseen' = unseen \cup objs

Event == events < MaxEvents /\ events' = events + 1

(* A user creates, changes or deletes the resource; the webhook rejects an *)
(* invalid one.                                                            *)
WriteCr ==
    /\ Event
    /\ \E s \in SpecsOf(kind) :
         /\ validatePlugin(kind, s)
         /\ IF cr = None
            THEN cr' = [uid |-> events', spec |-> s, status |-> NoStatus]
            ELSE s # cr.spec /\ cr' = [cr EXCEPT !.spec = s]
    /\ Changed({"cr"})
    /\ UNCHANGED <<kind, ds, pods, client, lastUid>>

DeleteCr ==
    /\ Event /\ cr # None /\ cr' = None /\ Changed({"cr"})
    /\ UNCHANGED <<kind, ds, pods, client, lastUid>>

(* The garbage collector deletes a DaemonSet whose owner is gone.          *)
Orphan == ds # NoDs /\ (cr # None => cr.uid # ds.owner)

CollectDs ==
    /\ Orphan /\ ds' = NoDs /\ pods' = {} /\ Changed({"ds"})
    /\ UNCHANGED <<kind, cr, client, lastUid, events>>

DeleteDs ==
    /\ Event /\ ds # NoDs /\ ds' = NoDs /\ pods' = {} /\ Changed({"ds"})
    /\ UNCHANGED <<kind, cr, client, lastUid>>

(* A pod becomes ready or goes away; the DaemonSet's status counts it.     *)
PodChange(n) ==
    /\ Event /\ ds # NoDs
    /\ pods' = IF n \in pods THEN pods \ {n} ELSE pods \cup {n}
    /\ ds' = [ds EXCEPT !.ready = Cardinality(pods')] /\ Changed({"ds"})
    /\ UNCHANGED <<kind, cr, client, lastUid>>

CrEvent ==
    /\ "cr" \in unseen /\ unseen' = unseen \ {"cr"}
    /\ crCache' = cr /\ queued' = TRUE
    /\ UNCHANGED <<kind, api, dsCache, podCache, pc, dp, child, lastUid, events>>

DsEvent ==
    /\ "ds" \in unseen /\ unseen' = unseen \ {"ds"}
    /\ dsCache' = ds /\ queued' = TRUE
    /\ UNCHANGED <<kind, api, crCache, podCache, pc, dp, child, lastUid, events>>

(* Pods are cached, but their events queue nothing.                        *)
PodEvent ==
    /\ podCache # pods /\ podCache' = pods
    /\ UNCHANGED <<kind, api, crCache, dsCache, unseen, queued, pc, dp, child, lastUid, events>>

-----------------------------------------------------------------------------
(* Reconcile.                                                              *)

Fails  == Event
Works  == events' = events
Return(again) ==
    pc' = "idle" /\ dp' = None /\ child' = NoDs /\ queued' = again

(* fetchObjects: the index is by the owner's name, so a DaemonSet of an    *)
(* earlier resource of that name is found too.                             *)
ListChildren ==
    /\ pc = "idle" /\ queued /\ queued' = FALSE
    /\ child' = dsCache /\ pc' = "get"
    /\ UNCHANGED <<kind, api, caches, unseen, dp, lastUid, events>>

(* A resource that is not found is an error, so the request is retried.    *)
GetCr ==
    /\ pc = "get"
    /\ IF crCache = None THEN Return(TRUE)
       ELSE dp' = crCache /\ pc' = "upgrade" /\ UNCHANGED <<queued, child>>
    /\ UNCHANGED <<kind, api, caches, unseen, lastUid, events>>

(* The spec Reconcile works with.                                          *)
Upgraded == UpgradeImages(dp.spec)

UpgradeRequeues ==
    /\ pc = "upgrade"
    /\ IF Upgraded # dp.spec THEN Return(TRUE)
       ELSE pc' = "sync" /\ UNCHANGED <<queued, dp, child>>
    /\ UNCHANGED <<kind, api, caches, unseen, lastUid, events>>

UpgradeOverwrites ==
    /\ pc = "upgrade" /\ pc' = "sync"
    /\ IF Upgraded # dp.spec /\ cr # None
       THEN cr' = [cr EXCEPT !.spec = Upgraded] /\ dp' = cr' /\ Changed({"cr"})
       ELSE UNCHANGED <<cr, dp, unseen>>
    /\ UNCHANGED <<kind, ds, pods, caches, queued, child, lastUid, events>>

(* upgradeDevicePluginImages: a failing write is only logged, and the      *)
(* upgraded images are used all the same.                                  *)
Upgrade ==
    /\ pc = "upgrade" /\ pc' = "sync"
    /\ \/ Upgraded # dp.spec /\ cr = dp /\ Works
          /\ cr' = [cr EXCEPT !.spec = Upgraded] /\ dp' = cr' /\ Changed({"cr"})
       \/ Upgraded = dp.spec /\ Works /\ UNCHANGED <<cr, dp, unseen>>
       \/ Upgraded # dp.spec /\ cr # dp /\ Works /\ UNCHANGED <<cr, dp, unseen>>
       \/ Upgraded # dp.spec /\ Fails /\ UNCHANGED <<cr, dp, unseen>>
    /\ UNCHANGED <<kind, ds, pods, caches, queued, child, lastUid>>

CreateDs ==
    /\ pc = "sync" /\ child = NoDs
    /\ LET t == NewDaemonSet(kind, Upgraded) IN
       \/ /\ Works /\ ds = NoDs /\ ValidTemplate(t)
          /\ ds' = [uid |-> 3 - lastUid, owner |-> dp.uid, template |-> Stored(t), ready |-> 0]
          /\ lastUid' = 3 - lastUid /\ Changed({"ds"}) /\ Return(queued)
       \/ /\ Works /\ (ds # NoDs \/ ~ValidTemplate(t))
          /\ Return(TRUE) /\ UNCHANGED <<ds, unseen, lastUid>>
       \/ Fails /\ Return(TRUE) /\ UNCHANGED <<ds, unseen, lastUid>>
    /\ UNCHANGED <<kind, cr, pods, caches>>

(* What UpdateDaemonSet makes of the DaemonSet, and whether it says so.    *)
Target  == UpdateDaemonSet(kind, child.template, Upgraded)
Updated == Target # child.template \/ (kind = "sgx" /\ Upgraded.initImage # "")

UpdateForgets ==
    /\ pc = "sync" /\ child # NoDs
    /\ \/ /\ Works /\ ds = child /\ ds' = [ds EXCEPT !.template = Stored(Target)]
          /\ child' = ds' /\ pc' = "status" /\ UNCHANGED <<queued, dp>>
       \/ Fails /\ Updated /\ Return(queued) /\ ds' = ds
    /\ Changed(IF ds' = ds THEN {} ELSE {"ds"})
    /\ UNCHANGED <<kind, cr, pods, caches, lastUid>>

UpdateDs ==
    /\ pc = "sync" /\ child # NoDs
    /\ \/ /\ Works /\ ~Updated /\ pc' = "status" /\ UNCHANGED <<ds, unseen, queued, dp, child>>
       \/ /\ Works /\ Updated /\ ds = child /\ ValidTemplate(Target)
          /\ ds' = [ds EXCEPT !.template = Stored(Target)] /\ child' = ds'
          /\ Changed(IF ds' = ds THEN {} ELSE {"ds"})
          /\ pc' = "status" /\ UNCHANGED <<queued, dp>>
       \/ /\ Works /\ Updated /\ (ds # child \/ ~ValidTemplate(Target))
          /\ Return(TRUE) /\ UNCHANGED <<ds, unseen>>
       \/ Fails /\ Updated /\ Return(TRUE) /\ UNCHANGED <<ds, unseen>>
    /\ UNCHANGED <<kind, cr, pods, caches, lastUid>>

StatusOf(obj, nodeNames) ==
    [controlled |-> obj.uid, ready |-> obj.ready, nodeNames |-> nodeNames]

StatusForgets ==
    /\ pc = "status" /\ Return(queued)
    /\ \/ Works /\ cr = dp /\ cr' = [cr EXCEPT !.status = StatusOf(child, <<>>)]
       \/ Fails /\ cr' = cr
    /\ Changed(IF cr' = cr THEN {} ELSE {"cr"})
    /\ UNCHANGED <<kind, ds, pods, caches, lastUid>>

(* A set of nodes, listed in any order.                                    *)
Listings(S) == {f \in [1..Cardinality(S) -> S] : Range(f) = S}

(* UpdateStatus with the nodes of the cached pods, which are listed in any *)
(* order; a conflict asks for another run, another failure is retried too. *)
UpdateStatus ==
    /\ pc = "status"
    /\ \E nodeNames \in Listings(podCache) :
         LET s == StatusOf(child, nodeNames) IN
            \/ Works /\ s = dp.status /\ Return(queued) /\ UNCHANGED <<cr, unseen>>
            \/ /\ Works /\ s # dp.status /\ cr = dp
               /\ cr' = [cr EXCEPT !.status = s] /\ Changed({"cr"}) /\ Return(queued)
            \/ Works /\ s # dp.status /\ cr # dp /\ Return(TRUE) /\ UNCHANGED <<cr, unseen>>
            \/ Fails /\ s # dp.status /\ Return(TRUE) /\ UNCHANGED <<cr, unseen>>
    /\ UNCHANGED <<kind, ds, pods, caches, lastUid>>

(* The operator restarts: its informers list everything again.             *)
Restart ==
    /\ Fails /\ Return(cr # None \/ ds # NoDs)
    /\ crCache' = cr /\ dsCache' = ds /\ podCache' = pods /\ unseen' = {}
    /\ UNCHANGED <<kind, api, lastUid>>

Reconcile == ListChildren \/ GetCr \/ Upgrade \/ CreateDs \/ UpdateDs \/ UpdateStatus
Informers == CrEvent \/ DsEvent \/ PodEvent
Cluster   == \/ WriteCr \/ DeleteCr \/ CollectDs \/ DeleteDs
             \/ \E n \in Nodes : PodChange(n)

Next == Reconcile \/ Informers \/ Cluster \/ Restart

(* The worker, the watches and the garbage collector keep running; nothing *)
(* makes a user act or a call fail.                                        *)
Fairness ==
    /\ WF_vars(Reconcile) /\ WF_vars(CollectDs)
    /\ WF_vars(CrEvent) /\ WF_vars(DsEvent)

Spec == Init /\ [][Next]_vars /\ Fairness

-----------------------------------------------------------------------------
(* Properties.                                                             *)

(* Nothing is left to do: all events are delivered and handled.            *)
Quiet == ~queued /\ pc = "idle" /\ unseen = {}

(* The DaemonSet's template carries what the resource says, with its images*)
(* upgraded.                                                               *)
InSync == Carries(kind, ds.template, UpgradeImages(cr.spec))

(* No edit, deletion, failed call, stale read or restart is ever forgotten *)
(* by Reconcile: whenever nothing is left to do, the DaemonSet is there,   *)
(* is the resource's own and carries what the resource says.               *)
NoLostEdit ==
    Quiet /\ cr # None /\ ~Orphan => ds # NoDs /\ InSync

(* ...and the resource's status names that DaemonSet and its ready pods.   *)
StatusCurrent ==
    Quiet /\ cr # None /\ ds # NoDs =>
        cr.status.controlled = ds.uid /\ cr.status.ready = ds.ready

(* Whatever history of edits a DaemonSet has gone through, the template    *)
(* Reconcile is about to write is one the API server accepts: no volume    *)
(* twice, none missing.                                                    *)
AlwaysValid ==
    pc = "sync" => ValidTemplate(IF child = NoDs THEN NewDaemonSet(kind, Upgraded) ELSE Target)

(* A write of Reconcile never undoes what a user wrote meanwhile: all it   *)
(* does to the resource's spec is to upgrade the images it has now.        *)
EditsKept ==
    [][Reconcile /\ cr # None => cr' # None /\ cr'.spec \in {cr.spec, UpgradeImages(cr.spec)}]_vars

(* Once users stop, the DaemonSet is gone with its resource, or is its own *)
(* and follows it, for ever.                                               *)
Converges ==
    <>[](IF cr = None THEN ds = NoDs ELSE ds # NoDs /\ ~Orphan /\ InSync)

(* cmd/dsa_plugin/README.md: the provisioning config is passed to the init *)
(* container through a volume mount.                                       *)
ConfigPassed ==
    Quiet /\ cr # None /\ ds # NoDs /\ cr.spec.provisioningConfig # "" =>
        \E n \in DOMAIN ds.template.volumes :
            /\ cr.spec.provisioningConfig \in Range(ds.template.volumes[n])
            /\ \E c \in Range(ds.template.initContainers) : n \in c.mounts
===============================================================================
