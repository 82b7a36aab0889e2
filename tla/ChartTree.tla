------------------------------ MODULE ChartTree ------------------------------
(***************************************************************************)
(* The statechart a run executes, and how entering, handling an event and  *)
(* joining parallel regions rearrange its active leaves (core/paths.ts and *)
(* the tree walks of core/projection.ts).  A chart is data: it is given by *)
(* the constants below, and nothing here changes.  Targets are declared as *)
(* sibling ids in the source; here they are already resolved to nodes.     *)
(* Map instances and actor-local states are not part of this module.       *)
(***************************************************************************)
EXTENDS Naturals, FiniteSets

CONSTANTS
  Node,     \* the state paths of the chart
  Event,    \* event types a completion can carry, FAILED excluded
  None,     \* "undefined"
  Top,      \* ast.initial: the node a fresh run enters
  Kind,     \* Node -> "state" | "final" | "compound" | "parallel" | "region"
  Parent,   \* Node -> the containing node, or None
  Initial,  \* compound or region -> its initial child
  OnDone,   \* compound or parallel -> the sibling entered when it completes
  On,       \* Node -> Event -> target of the node's own transition, or None
  After,    \* state -> target of its deadline, or None
  Rank      \* state -> its place in document order

State == {n \in Node : Kind[n] = "state"}

(* The node and every container of it. *)
Up[n \in Node] ==
  {n} \cup (IF Parent[n] = None THEN {} ELSE Up[Parent[n]])

(* underScope: the nodes at or below a scope. *)
Under(scope) == {n \in Node : scope \in Up[n]}

(* enterState: the leaves a node resolves to when it is entered.  A final  *)
(* child of a compound completes the compound on the spot.                 *)
EnterState[n \in Node] ==
  CASE Kind[n] \in {"compound", "region"} -> EnterState[Initial[n]]
    [] Kind[n] = "parallel" ->
         UNION {EnterState[r] : r \in {m \in Node : Parent[m] = n}}
    [] Kind[n] = "final" /\ Parent[n] # None ->
         IF Kind[Parent[n]] = "compound" THEN EnterState[OnDone[Parent[n]]] ELSE {n}
    [] OTHER -> {n}

(* findHandler: the leaf that emitted the event handles it, or the closest *)
(* container that declares it.                                             *)
FindHandler[n \in Node] ==
  [e \in Event |->
     IF Kind[n] # "final" /\ On[n][e] # None THEN n
     ELSE IF Parent[n] = None THEN None ELSE FindHandler[Parent[n]][e]]

(* allowedEvents: every event a completion of the leaf can take somewhere. *)
AllowedEvents(n) == {e \in Event : FindHandler[n][e] # None}

(* findCompletedParallel: the parallels whose leaves, all active and at    *)
(* least one, are final.                                                   *)
CompletedParallels(leaves) ==
  {p \in UNION {Up[l] : l \in leaves} :
     /\ Kind[p] = "parallel"
     /\ \A l \in leaves \cap Under(p) : Kind[l] = "final"}

(* completeParallels: leave completed parallels through onDone, innermost  *)
(* first, until none is left.                                              *)
Join(leaves) ==
  LET done == CompletedParallels(leaves)
      p == CHOOSE q \in done : done \cap Under(q) = {q}
  IN (leaves \ Under(p)) \cup EnterState[OnDone[p]]
CompleteParallels[leaves \in SUBSET Node] ==
  IF CompletedParallels(leaves) = {} THEN leaves ELSE CompleteParallels[Join(leaves)]

(* exitAndEnter, on the leaves: everything under the exit scope leaves and *)
(* the target is entered.                                                  *)
ExitAndEnter(leaves, scope, target) ==
  (leaves \ Under(scope)) \cup EnterState[target]

(* isFinalState *)
IsFinal(leaves) == leaves # {} /\ \A l \in leaves : Kind[l] = "final"

-----------------------------------------------------------------------------
(***************************************************************************)
(* What the code promises about a set of leaves, stated the other way      *)
(* round: from the nodes that count as active, not from how they got there.*)
(***************************************************************************)

Children(n) == {m \in Node : Parent[m] = n}

(* A full configuration: the leaves and their containers form one branch   *)
(* through every compound and region, all branches through every parallel, *)
(* no completed compound or parallel still waits, and no leaf is a         *)
(* container.                                                              *)
Legal(leaves) ==
  LET active == UNION {Up[l] : l \in leaves}
  IN /\ Cardinality({n \in active : Parent[n] = None}) = 1
     /\ \A l \in leaves : Kind[l] \in {"state", "final"}
     /\ \A n \in active :
          CASE Kind[n] \in {"compound", "region"} ->
                 Cardinality(Children(n) \cap active) = 1
            [] Kind[n] = "parallel" -> Children(n) \subseteq active
            [] OTHER -> n \in leaves
     /\ \A l \in leaves :
          Kind[l] = "final" /\ Parent[l] # None => Kind[Parent[l]] # "compound"
     /\ CompletedParallels(leaves) = {}

-----------------------------------------------------------------------------
(***************************************************************************)
(* What normalize.ts asks of a chart before it accepts it, as far as the   *)
(* walks above rely on it.                                                 *)
(***************************************************************************)

(* collectState: nodes are nested in containers, and a child of a parallel *)
(* is a region, which no other node is.                                    *)
Containers ==
  /\ Kind \in [Node -> {"state", "final", "compound", "parallel", "region"}]
  /\ Parent \in [Node -> Node \cup {None}]
  /\ \A n \in Node : Parent[n] # None =>
       /\ Kind[Parent[n]] \in {"compound", "parallel", "region"}
       /\ Kind[Parent[n]] = "parallel" <=> Kind[n] = "region"
  /\ \A n \in Node : Kind[n] = "region" => Parent[n] # None
  /\ \A ns \in SUBSET Node \ {{}} : \E n \in ns : Parent[n] \notin ns

(* validateTargets: handlers and deadlines lead to siblings, those of a    *)
(* region to the region itself.                                            *)
Beside(m, n) == m \in Node /\ Parent[m] = Parent[n]
HandlersResolve ==
  /\ \A n \in Node, e \in Event : Kind[n] # "final" /\ On[n][e] # None =>
       Beside(On[n][e], n) /\ (Kind[n] = "region" => On[n][e] = n)
  /\ \A s \in State : After[s] # None => Beside(After[s], s)

(* validateTargets: a container begins with a child and goes on beside it. *)
ContainersResolve ==
  /\ \A n \in Node : Kind[n] \in {"compound", "region"} =>
       Initial[n] \in Node /\ Parent[Initial[n]] = n
  /\ \A n \in Node : Kind[n] \in {"compound", "parallel"} => Beside(OnDone[n], n)

(* validateEnterCycles: entering a node settles on leaves.                 *)
Successors(n) ==
  CASE Kind[n] \in {"compound", "region"} -> {Initial[n]}
    [] Kind[n] = "parallel" -> Children(n)
    [] Kind[n] = "final" /\ Parent[n] # None ->
         IF Kind[Parent[n]] = "compound" THEN {OnDone[Parent[n]]} ELSE {}
    [] OTHER -> {}
EntrySettles == \A ns \in SUBSET Node \ {{}} : \E n \in ns : Successors(n) \cap ns = {}

ASSUME ChartAssumption ==
  /\ IsFiniteSet(Node)
  /\ None \notin Node
  /\ Top \in Node /\ Parent[Top] = None
  /\ After \in [State -> Node \cup {None}]
  /\ Rank \in [State -> Nat]
  /\ \A s, t \in State : Rank[s] = Rank[t] => s = t
  /\ Containers /\ HandlersResolve /\ ContainersResolve /\ EntrySettles

(* How many joins are left.                                                *)
JoinsLeft[leaves \in SUBSET Node] ==
  IF CompletedParallels(leaves) = {} THEN 0 ELSE 1 + JoinsLeft[Join(leaves)]

(* What normalize.ts does not ask for, and a chart that comes to rest has: *)
(* a parallel has regions, for one without enters no leaf; and joins end,  *)
(* for a parallel complete as it is entered that leads to itself keeps     *)
(* completeParallels busy for ever.                                        *)
ASSUME JoinAssumption ==
  /\ \A n \in Node : Kind[n] = "parallel" => Children(n) # {}
  /\ \A leaves \in SUBSET Node :
       /\ JoinsLeft[leaves] \in Nat
       /\ CompletedParallels(leaves) # {} => JoinsLeft[Join(leaves)] < JoinsLeft[leaves]
=============================================================================
