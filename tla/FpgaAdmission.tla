---------------------------- MODULE FpgaAdmission ----------------------------
(***************************************************************************)
(* What the FPGA webhook does to a container (getPatchOps), as a function  *)
(* of the Patcher's maps, and the properties of the webhook.  getPatchOps  *)
(* ranges over a Go map, so its outcome may depend on the order; Outcomes  *)
(* collects those of all orders.                                           *)
(***************************************************************************)
EXTENDS FpgaPatcher, SequencesExt

CONSTANTS
    MaxRequests,  \* FPGA resources one container asks for
    MaxQuantity   \* and how many of each

(* No object is named like the resource another one maps to.               *)
ASSUME NamesAssumption == Names \cap Resource = {}

ASSUME QuantityAssumption == MaxQuantity \in Nat

(* A container names FPGA resources by objects or directly.                *)
Container == UNION {[S -> 1..MaxQuantity] :
                      S \in {T \in SUBSET (Names \cup Resource) :
                               IsFiniteSet(T) /\ Cardinality(T) <= MaxRequests}}

(* A pod's container has limits and requests of its own.                   *)
PodContainer == {[limits |-> l, requests |-> l] : l \in Container}
           \cup {[limits |-> << >>, requests |-> l] : l \in Container}
           \cup {[limits |-> l, requests |-> << >>] : l \in Container}

Refuse == [res |-> "error"]
NoOps  == [res |-> "noop"]

Mode(x) == IF x \in Names THEN resourceModeMap[x] ELSE None

(* Iteration i of the loop returns: the resource is unmapped, its mode is  *)
(* unknown, or not the mode of the resources before it.                    *)
Returns(order, i) ==
    Mode(order[i]) \in {None, "other"} \/ Mode(order[i]) # Mode(order[1])

(* A webhook without identities.                                           *)
getNoopsOrErrorStrict(x) == Refuse

(* getNoopsOrError accepts an unmapped name that is an identity.           *)
getNoopsOrError(x) ==
    IF x \in Resource /\ identitySet[x] > 0 THEN NoOps ELSE Refuse

(* A loop that overwrites the quantity of a mapping it has seen.           *)
ResolveLast(req) ==
    [r \in {resourceMap[n] : n \in DOMAIN req} |->
       req[CHOOSE m \in DOMAIN req : resourceMap[m] = r]]

(* The rewritten requests: quantities of names with one mapping add up.    *)
Resolve(req) ==
    [r \in {resourceMap[n] : n \in DOMAIN req} |->
       MapThenSumSet(LAMBDA n : req[n], {m \in DOMAIN req : resourceMap[m] = r})]

(* FPGA_REGION_i and FPGA_AFU_i for the OCI hook, one pair per unit.       *)
EnvVars(req) ==
    [n \in {m \in DOMAIN req : Mode(m) = "region"} |->
       [iface |-> afMap[n].iface, afu |-> afMap[n].afu, count |-> req[n]]]

PatchInOrder(req, order) ==
    LET Stops == {i \in DOMAIN order : Returns(order, i)} IN
    IF Stops = {}
    THEN [res |-> "patch", req |-> Resolve(req), env |-> EnvVars(req)]
    ELSE LET x == order[Min(Stops)] IN
         IF Mode(x) = None THEN getNoopsOrError(x) ELSE Refuse

(* GetRequestedResources: limits and requests must agree.                  *)
GetRequestedResources(c) == c.limits = c.requests

(* getPatchOps.                                                            *)
Outcomes(c) ==
    IF ~GetRequestedResources(c) THEN {Refuse}
    ELSE {PatchInOrder(c.limits, o) : o \in SetToSeqs(DOMAIN c.limits)}

-----------------------------------------------------------------------------
Requests(l) == [limits |-> l, requests |-> l]

(* The webhook is idempotent (comment of identitySet): a container it has  *)
(* patched is accepted without a change when it comes back.                *)
Idempotent ==
    \A l \in Container : \A o \in Outcomes(Requests(l)) :
        o.res = "patch" /\ l # << >> => Outcomes(Requests(o.req)) = {NoOps}

Units(req) == MapThenSumSet(LAMBDA x : req[x], DOMAIN req)

(* A patch keeps the number of devices asked for, and in region mode the   *)
(* OCI hook is told what to program for each of them.                      *)
UnitsKept ==
    \A c \in PodContainer : \A o \in Outcomes(c) :
        o.res = "patch" =>
            /\ Units(o.req) = Units(c.limits)
            /\ o.env # << >> =>
                 Units([n \in DOMAIN o.env |-> o.env[n].count]) = Units(o.req)
=============================================================================
