----------------------------- MODULE DeviceFeed -----------------------------
(***************************************************************************)
(* What the plugin framework promises between a scanner and the servers of *)
(* its resources: every difference between two reported device trees is    *)
(* told to the server of its device type exactly once, and all of them are *)
(* told before the next tree is reported.                                  *)
(***************************************************************************)

CONSTANTS
    DevTypes,  \* device types (resources) of one plugin
    Tables,    \* device tables a type can have
    Absent     \* a type without devices

VARIABLES
    reported,  \* the tree reported last
    told       \* for each type, the table its server was given last

feedVars == <<reported, told>>

Tree    == [DevTypes -> Tables \cup {Absent}]
NoTypes == [d \in DevTypes |-> Absent]

FeedInit == reported = NoTypes /\ told = NoTypes

(* The scanner reports a new tree once the previous one has been told.     *)
Report ==
    /\ told = reported
    /\ reported' \in Tree
    /\ UNCHANGED told

(* The server of type d is given the reported table, or stopped for good.  *)
Tell(d) ==
    /\ told[d] # reported[d]
    /\ told' = [told EXCEPT ![d] = reported[d]]
    /\ UNCHANGED reported

(* The process dies and forgets everything.                                *)
Forget == reported' = NoTypes /\ told' = NoTypes

FeedNext == Report \/ Forget \/ \E d \in DevTypes : Tell(d)

FeedSpec == FeedInit /\ [][FeedNext]_feedVars
=============================================================================
