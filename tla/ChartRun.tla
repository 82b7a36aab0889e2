------------------------------- MODULE ChartRun ------------------------------
(***************************************************************************)
(* What the log of a branch promises whoever reads it: a run is always in  *)
(* one complete configuration of its chart, work goes on only in active    *)
(* states, and a step leaves only what its own transition or a finished    *)
(* join lets it leave.  Nothing is said here of machines, queues, crashes  *)
(* or of how a transition computes its leaves.                             *)
(***************************************************************************)
EXTENDS ChartTree

VARIABLES
  leaves,   \* the active leaves
  working,  \* the active states whose action has begun and is not over
  failed    \* the run failed as a whole

vars == <<leaves, working, failed>>

Init == Legal(leaves) /\ working = {} /\ ~failed

(* Some active states that are not at work begin to work. *)
Begin ==
  /\ \E fresh \in SUBSET ((leaves \cap State) \ working) : working' = working \cup fresh
  /\ UNCHANGED <<leaves, failed>>

(* May a step of s end at this scope: its own deadline, or a transition of *)
(* the scope itself.                                                       *)
Handles(s, scope) ==
  \/ scope = s /\ After[s] # None
  \/ \E e \in Event : Kind[scope] # "final" /\ On[scope][e] # None

(* One active state moves the run on.  Work outside the scope it leaves    *)
(* goes on, and no work begins; outside the scope only leaves that already *)
(* were final may go, in a join.                                           *)
Leave(s) ==
  /\ s \in leaves
  /\ Legal(leaves')
  /\ \E scope \in Up[s] :
       /\ Handles(s, scope)
       /\ \A l \in leaves \ leaves' : l \in Under(scope) \/ Kind[l] = "final"
       /\ working \ Under(scope) \subseteq working'
  /\ working' \subseteq (working \ {s}) \cap leaves'
  /\ UNCHANGED failed

Fail == ~failed /\ failed' = TRUE /\ UNCHANGED <<leaves, working>>

Next == Begin \/ (\E s \in State : Leave(s)) \/ Fail

Spec == Init /\ [][Next]_vars
=============================================================================
