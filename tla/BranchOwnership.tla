-------------------------- MODULE BranchOwnership --------------------------
(***************************************************************************)
(* What the runner controller promises of a branch, independently of how   *)
(* it keeps it: at most one runtime works on a branch, moves are one at a  *)
(* time, and a head is moved only when no runtime works on any branch      *)
(* that is fenced for the move.                                            *)
(***************************************************************************)
EXTENDS Naturals

CONSTANTS Branch, Entry

VARIABLES
  working,  \* <<x, b>>: the runtime of reservation x works on branch b
  fenced,   \* branches of the move that is under way
  moved     \* head moves so far

vars == <<working, fenced, moved>>

Init == working = {} /\ fenced = {} /\ moved = 0

Begin(x, b) ==
  /\ \A w \in working : w[2] # b
  /\ working' = working \cup {<<x, b>>}
  /\ UNCHANGED <<fenced, moved>>

Finish(w) == working' = working \ {w} /\ UNCHANGED <<fenced, moved>>

Fence(S) == fenced = {} /\ fenced' = S /\ UNCHANGED <<working, moved>>

MoveHead ==
  /\ \A w \in working : w[2] \notin fenced
  /\ fenced # {} /\ moved' = moved + 1
  /\ UNCHANGED <<working, fenced>>

Unfence == fenced' = {} /\ UNCHANGED <<working, moved>>

Next ==
  \/ \E x \in Entry, b \in Branch : Begin(x, b)
  \/ \E w \in working : Finish(w)
  \/ \E S \in SUBSET Branch : Fence(S)
  \/ MoveHead \/ Unfence

Spec == Init /\ [][Next]_vars
=============================================================================
