------------------------------ MODULE Projection -----------------------------
(***************************************************************************)
(* core/projection.ts: the fold of durable records into the state of a     *)
(* branch.  A unit below is one appendDrafts call of the machine or of the *)
(* user-response path, the records that become durable together: a group   *)
(* of invocations, a completion, a verdict with the recovery decision it   *)
(* brings, ...  Rejects is where projectBranch throws (the commit boundary *)
(* then refuses the append), Skips is where a record names an inactive     *)
(* state and changes nothing, and ProjectBranch is the resulting           *)
(* projection.                                                             *)
(* Event payloads, results, inputs, artifacts and emits are left out.      *)
(***************************************************************************)
EXTENDS ChartTree

CONSTANTS
  Action,    \* state -> "agent" | "script" | "import" | "user"
  Guarded,   \* agent states whose action declares a validator
  Nudge,     \* recovery policy: Scope -> nudges before a restart
  Restart    \* recovery policy: Scope -> restarts before failure

Scope == {"general", "validation"}

ASSUME ActionAssumption ==
  /\ Action \in [State -> {"agent", "script", "import", "user"}]
  /\ Guarded \subseteq {s \in State : Action[s] = "agent"}
  /\ Nudge \in [Scope -> Nat]
  /\ Restart \in [Scope -> Nat]

(* A pending action, or its absence.  seq is the record that began the     *)
(* current phase; session stands for the session uuid and is named after   *)
(* the record that created it; gate is the opened interaction's record.    *)
Pending ==
  [phase : {"none", "running", "validating"}, visit : Nat, seq : Nat,
   session : Nat, gate : Nat, event : Event \cup {None},
   nudges : [Scope -> Nat], restarts : [Scope -> Nat], retried : BOOLEAN]

NoPending ==
  [phase |-> "none", visit |-> 0, seq |-> 0, session |-> 0, gate |-> 0,
   event |-> None, nudges |-> [c \in Scope |-> 0],
   restarts |-> [c \in Scope |-> 0], retried |-> FALSE]

BranchProjection ==
  [leaves : SUBSET Node, pending : [State -> Pending], visits : [State -> Nat],
   gates : SUBSET [seq : Nat, at : State], failed : BOOLEAN, seq : Nat]

(* createBranchProjection *)
EmptyProjection ==
  [leaves |-> CompleteParallels[EnterState[Top]],
   pending |-> [s \in State |-> NoPending], visits |-> [s \in State |-> 0],
   gates |-> {}, failed |-> FALSE, seq |-> 0]

-----------------------------------------------------------------------------
RetryUnit ==
  [type : {"retry"}, at : State, scope : Scope, mode : {"nudge", "restart"},
   prev : Nat, nudge : Nat, restart : Nat]
FailureUnit == [type : {"failure_intent"}, at : State]

Unit ==
  [type : {"invoke"}, group : SUBSET State]
    \cup [type : {"complete", "accepted"}, at : State, event : Event]
    \cup [type : {"rejected"}, at : State, event : Event,
          decision : RetryUnit \cup FailureUnit]
    \cup [type : {"timer_fired"}, at : State]
    \cup [type : {"opened"}, at : State, phase : Nat]
    \cup [type : {"resolved"}, at : State, gate : Nat, event : Event]
    \cup RetryUnit \cup FailureUnit

(* How many log records a unit appends. *)
Size(u) ==
  CASE u.type = "invoke" -> Cardinality(u.group)
    [] u.type = "rejected" -> 2
    [] OTHER -> 1

(* The sequence id of s's record in a group of invocations at base. *)
InvokeSeq(u, base, s) == base + Cardinality({t \in u.group : Rank[t] < Rank[s]})

-----------------------------------------------------------------------------
(* Mutant: the open interaction stays behind. *)
RemovePendingOnly(p, s) == [p EXCEPT !.pending[s] = NoPending]

(* removePendingAction *)
RemovePending(p, s) ==
  [p EXCEPT !.pending[s] = NoPending,
            !.gates = {g \in @ : g.seq # p.pending[s].gate}]

(* Mutant: the leaves move and the work stays. *)
MoveLeaves(p, scope, target) ==
  [p EXCEPT !.leaves = CompleteParallels[ExitAndEnter(@, scope, target)]]

(* exitAndEnter: pending work survives exactly where its leaf is active    *)
(* after the exit and the entry; the rest is abandoned together with its   *)
(* open interaction.  Completed joins follow in the same step.             *)
Move(p, scope, target) ==
  LET next == ExitAndEnter(p.leaves, scope, target)
      gone == {s \in State \ next : p.pending[s].phase # "none"}
  IN [p EXCEPT !.leaves = CompleteParallels[next],
               !.pending = [s \in State |-> IF s \in gone THEN NoPending ELSE @[s]],
               !.gates = {g \in @ : \A s \in gone : g.seq # p.pending[s].gate}]

(* Mutant: a bubbled event leaves only the leaf it comes from. *)
TransitionOfLeaf(p, s, e) ==
  LET handler == FindHandler[s][e] IN Move(p, s, On[handler][e])

(* applyTransition *)
Transition(p, s, e) ==
  LET handler == FindHandler[s][e] IN Move(p, handler, On[handler][e])

(* applyActionCompletion, past its refusals: a guarded completion waits    *)
(* for its verdict, any other one is taken at once.                        *)
Claimed(q, e, base) ==
  [phase |-> "validating", visit |-> q.visit, seq |-> base, session |-> q.session,
   gate |-> 0, event |-> e, nudges |-> q.nudges, restarts |-> q.restarts,
   retried |-> q.retried]

Complete(p, s, e, base) ==
  IF s \in Guarded
  THEN [p EXCEPT !.pending[s] = Claimed(@, e, base)]
  ELSE Transition(RemovePending(p, s), s, e)

(* recoveryCountersForScope: a restart grants the nudges of both scopes    *)
(* again.                                                                  *)
NudgesAfter(q, u) ==
  [c \in Scope |-> IF u.mode = "restart" THEN 0
                   ELSE IF c = u.scope THEN u.nudge ELSE q.nudges[c]]
(* Mutant: a restart is not counted. *)
RestartsUncounted(q, u) == q.restarts
RestartsAfter(q, u) ==
  [c \in Scope |-> IF c = u.scope THEN u.restart ELSE q.restarts[c]]

(* applyActionRetry, past its assertions. *)
Retried(q, u, base) ==
  [phase |-> "running", visit |-> q.visit, seq |-> base,
   session |-> IF u.mode = "restart" THEN base ELSE q.session,
   gate |-> 0, event |-> None, nudges |-> NudgesAfter(q, u),
   restarts |-> RestartsAfter(q, u), retried |-> TRUE]

Retry(p, u, base) == [p EXCEPT !.pending[u.at] = Retried(@, u, base)]

(* applyActionRetry's assertions. *)
RetryFits(p, u) ==
  LET q == p.pending[u.at] IN
  /\ q.phase # "none"
  /\ Action[u.at] = "agent"
  /\ q.session = u.prev
  /\ CASE u.mode = "nudge" ->
            /\ q.nudges[u.scope] < Nudge[u.scope]
            /\ u.nudge = q.nudges[u.scope] + 1
            /\ u.restart = q.restarts[u.scope]
       [] u.mode = "restart" ->
            /\ q.nudges[u.scope] >= Nudge[u.scope]
            /\ q.restarts[u.scope] < Restart[u.scope]
            /\ u.nudge = 0
            /\ u.restart = q.restarts[u.scope] + 1

(* assertFailureIntent and the failure_intent case of projectBranch. *)
Fail(p) == [p EXCEPT !.failed = TRUE, !.gates = {}]

Decide(p, u, base) == IF u.type = "retry" THEN Retry(p, u, base) ELSE Fail(p)
DecisionFits(p, u) == IF u.type = "retry" THEN RetryFits(p, u) ELSE ~p.failed

-----------------------------------------------------------------------------
(* Records whose state is inactive are dropped without an effect. *)
Skips(p, u) ==
  CASE u.type = "invoke" -> ~(u.group \subseteq p.leaves)
    [] u.type \in {"complete", "timer_fired"} -> u.at \notin p.leaves
    [] OTHER -> FALSE

(* Where projectBranch throws. *)
Rejects(p, u) ==
  CASE u.type = "invoke" ->
         \E s \in u.group \cap p.leaves : p.pending[s].phase # "none"
    [] u.type = "complete" ->
         u.at \in p.leaves /\ p.pending[u.at].phase # "running"
    [] u.type \in {"accepted", "rejected"} ->
         \/ p.pending[u.at].phase # "validating"
         \/ p.pending[u.at].event # u.event
         \/ u.type = "rejected" /\ ~DecisionFits(p, u.decision)
    [] u.type = "opened" ->
         \/ p.pending[u.at].phase # "running"
         \/ p.pending[u.at].seq # u.phase
         \/ Action[u.at] # "user"
         \/ p.pending[u.at].gate # 0
    [] u.type = "resolved" ->
         \/ [seq |-> u.gate, at |-> u.at] \notin p.gates
         \/ p.pending[u.at].phase # "running"
         \/ p.pending[u.at].gate # u.gate
         \/ u.event \notin AllowedEvents(u.at)
         \/ u.at \notin p.leaves
    [] u.type \in {"retry", "failure_intent"} -> ~DecisionFits(p, u)
    [] OTHER -> FALSE

(* A fresh visit. *)
Invoked(visit, base) ==
  [phase |-> "running", visit |-> visit, seq |-> base, session |-> base, gate |-> 0,
   event |-> None, nudges |-> NoPending.nudges, restarts |-> NoPending.restarts,
   retried |-> FALSE]

Invoke(p, u, base) ==
  LET started == u.group \cap p.leaves IN
  [p EXCEPT
     !.visits = [s \in State |-> IF s \in started THEN @[s] + 1 ELSE @[s]],
     !.pending = [s \in State |->
        IF s \in started THEN Invoked(p.visits[s] + 1, InvokeSeq(u, base, s)) ELSE @[s]]]

(* An interaction opens. *)
Open(p, s, base) ==
  [p EXCEPT !.pending[s].gate = base, !.gates = @ \cup {[seq |-> base, at |-> s]}]

(* projectBranch, on a unit it does not refuse. *)
Effect(p, u, base) ==
  CASE u.type = "invoke" -> Invoke(p, u, base)
    [] u.type \in {"complete", "resolved"} -> Complete(p, u.at, u.event, base)
    [] u.type = "accepted" -> Transition(RemovePending(p, u.at), u.at, u.event)
    [] u.type = "rejected" ->
         Decide([p EXCEPT !.pending[u.at].seq = base], u.decision, base + 1)
    [] u.type = "timer_fired" -> Move(RemovePending(p, u.at), u.at, After[u.at])
    [] u.type = "opened" -> Open(p, u.at, base)
    [] u.type \in {"retry", "failure_intent"} -> Decide(p, u, base)

Apply(p, u, base) ==
  IF Skips(p, u) /\ u.type # "invoke" THEN p ELSE Effect(p, u, base)

Latest(m, n) == IF m > n THEN m ELSE n

ProjectBranch(p, u, base) ==
  [Apply(p, u, base) EXCEPT !.seq = Latest(p.seq, base + Size(u) - 1)]

(* The pending work an exit drops while its session may be alive. *)
Abandoned(p, u, base) ==
  {s \in State : /\ p.pending[s].phase # "none"
                 /\ ProjectBranch(p, u, base).pending[s].phase = "none"
                 /\ s # u.at}
=============================================================================
