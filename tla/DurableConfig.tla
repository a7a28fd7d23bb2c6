---------------------------- MODULE DurableConfig ---------------------------
(***************************************************************************)
(* What the panel promises whoever changes its configuration, without      *)
(* files, locks, processes or crashes.  Changes become durable and stay    *)
(* so; a change is answered with success once it is durable and in force;  *)
(* the core may be reloaded at any time, even with changes that will be    *)
(* given up, but never without one that was answered.  A change in         *)
(* Deferred is answered when durable and comes into force later.           *)
(***************************************************************************)
CONSTANTS Requests, Deferred

VARIABLES committed, answered, inForce

vars == <<committed, answered, inForce>>

Init == committed = {} /\ answered = {} /\ inForce = {}

\* Changes become durable; deferred ones may be answered at once.
Commit ==
    \E new \in SUBSET Requests, now \in SUBSET Deferred :
        /\ committed' = committed \cup new
        /\ now \subseteq committed'
        /\ answered' = answered \cup now
        /\ UNCHANGED inForce

Answer ==
    \E r \in committed \cap inForce :
        /\ answered' = answered \cup {r}
        /\ UNCHANGED <<committed, inForce>>

Reload ==
    \E served \in SUBSET Requests :
        /\ answered \ Deferred \subseteq served
        /\ inForce' = served
        /\ UNCHANGED <<committed, answered>>

Next == Commit \/ Answer \/ Reload

Spec == Init /\ [][Next]_vars
=============================================================================
