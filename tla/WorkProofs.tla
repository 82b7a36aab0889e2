------------------------------ MODULE WorkProofs ------------------------------
(***************************************************************************)
(* That no work is lost, for every chart, every policy and every           *)
(* interleaving (NoWorkIsLost of Execution).  The invariant names, for     *)
(* everything the machine's projection calls for, who carries it: the rest *)
(* of the batch, a message on its way to the machine, an append that will  *)
(* settle it, or the task or the deadline itself.  When the loop is idle   *)
(* only the last is left.                                                  *)
(*                                                                         *)
(* And that the machine, when nothing of the log is still on its way to    *)
(* it, knows the log (MachineCatchesUp), where no user answers out of turn.*)
(*                                                                         *)
(* The last part is about sessions: an action never has two that nobody    *)
(* told to stop (OneSessionPerAction).                                     *)
(***************************************************************************)
EXTENDS ExecutionProofs, SequenceTheorems

(* What a queue holds. *)
Held(q) == {q[i] : i \in DOMAIN q}

(* The units that settle the phase s is in, or fail the run. *)
Ends(u, s) ==
  /\ u.type \in {"complete", "accepted", "rejected", "timer_fired", "retry",
                 "failure_intent"}
  /\ u.at = s

(* The units that may begin a phase of s. *)
Begins(u, s) ==
  \/ u.type = "invoke" /\ s \in u.group
  \/ Action[s] = "agent" /\ Ends(u, s)

(* Who carries what p calls for, given a batch, a queue, a buffer, tasks   *)
(* and deadlines.                                                          *)
Ending(b, q, s) ==
  Ends(b.unit, s) \/ \E e \in Held(q) : e.kind = "ack" /\ Ends(e.unit, s)

Invoking(b, q, s) ==
  \/ s \in b.invokes
  \/ \E e \in Held(q) : e.kind = "ack" /\ e.unit.type = "invoke" /\ s \in e.unit.group

Opening(p, b, q, s) ==
  \/ OpenId(p, s) \in b.opens
  \/ \E e \in Held(q) : /\ e.kind = "ack" /\ e.unit.type = "opened"
                        /\ e.unit.at = s /\ e.unit.phase = p.pending[s].seq

Told(kind, id, sent) == \E e \in sent : e.kind = kind /\ e.id = id

Answers(p, s) == IF p.pending[s].phase = "validating" THEN "verdict" ELSE "work"

AtWork(p, s, ts) ==
  \E t \in ts : /\ t.id = PhaseId(p, s) /\ ~t.told
                /\ (t.kind = "guard") = (p.pending[s].phase = "validating")

TaskCarried(p, b, q, sent, ts, s) ==
  \/ PhaseId(p, s) \in b.work
  \/ Ending(b, q, s)
  \/ Told(Answers(p, s), PhaseId(p, s), sent)
  \/ AtWork(p, s, ts)

TimerCarried(p, b, q, sent, tm, s) ==
  \/ PhaseId(p, s) \in b.work
  \/ Ending(b, q, s)
  \/ Told("timer", PhaseId(p, s), sent)
  \/ PhaseId(p, s) \in tm

Carried(p, b, q, sent, ts, tm) ==
  /\ \A s \in DueInvokes(p) : Invoking(b, q, s)
  /\ \A s \in DueOpens(p) : Opening(p, b, q, s)
  /\ \A s \in Working(p) :
       /\ HasTask(p, PhaseId(p, s)) => TaskCarried(p, b, q, sent, ts, s)
       /\ HasTimer(p, PhaseId(p, s)) => TimerCarried(p, b, q, sent, tm, s)

-----------------------------------------------------------------------------
(* Pending work is at active leaves, so that no unit about it is skipped. *)
Placed(p) == \A s \in State : p.pending[s].phase # "none" => s \in p.leaves

(* All phases began at or before record n. *)
Recent(p, n) == \A s \in State : p.pending[s].seq <= n

(* The acknowledgements of the machine's own appends. *)
Own(e) == e.kind = "ack" /\ e.unit.type # "resolved"
Until(e) == e.base + Size(e.unit) - 1

Ordered(q) ==
  \A i, j \in DOMAIN q : i < j /\ Own(q[i]) /\ Own(q[j]) => Until(q[i]) < q[j].base

(* They wait in the order of the log, behind all the machine has seen;     *)
(* only users resolve, and what they resolve is theirs.                    *)
Unheard(e) == Own(e) => Until(e) <= durable.seq /\ Recent(machine, e.base - 1)
OfUser(e) == e.kind = "ack" /\ e.unit.type = "resolved" => Action[e.unit.at] = "user"

AcksInOrder ==
  /\ \A e \in Held(buffer) : ~Own(e) /\ OfUser(e)
  /\ \A e \in Held(queue) : Unheard(e) /\ OfUser(e)
  /\ Ordered(queue)

(* An attempt that has not begun. *)
Fresh(q) == q # <<>> /\ Head(q).kind = "start"

StartFirst(q) == \A i \in DOMAIN q : q[i].kind = "start" => i = 1
NoStart(q) == \A e \in Held(q) : e.kind # "start"

(* The start of an attempt comes first, with nothing dispatched before it; *)
(* after it exactly what the projection calls for is marked.               *)
Marks ==
  /\ NoStart(buffer) /\ StartFirst(queue)
  /\ IF Fresh(queue) THEN loop = "ready" /\ dispatched = {}
     ELSE batch.last \/ dispatched = Desired(machine)

(* Between its steps a batch owes no cancellation but a deadline's own. *)
CancelsOwed ==
  loop = "busy" /\ ~batch.last =>
    \/ batch.cancels = {}
    \/ batch.unit.type = "timer_fired" /\ batch.cancels = {batch.unit.at}

(* Who was told to stop knows, and nobody stops a validator. *)
Stops(ts) ==
  \A t \in ts : (t.kind = "guard" => t.stage = "live") /\ (t.stage = "stopping" => t.told)

(* While a branch runs, everything its machine has called for is carried;  *)
(* an attempt that has not begun and one that is over owe nothing.         *)
RunningOK ==
  /\ loop = "ready" => batch = NoBatch /\ buffer = <<>>
  /\ Stops(tasks) /\ Placed(machine) /\ Recent(machine, durable.seq)
  /\ AcksInOrder /\ Marks /\ CancelsOwed
  /\ ~Fresh(queue) /\ ~batch.last =>
       Carried(machine, batch, queue, Held(queue) \cup Held(buffer), tasks, timers)

WorkInv ==
  /\ LogInv
  /\ Recent(durable, durable.seq)
  /\ loop \in {"down", "threw"} => batch = NoBatch /\ buffer = <<>> /\ tasks = {}
  /\ loop \in Live /\ ~draining => RunningOK

-----------------------------------------------------------------------------
(* What projecting a unit makes of an entry: nothing, what it was, what it  *)
(* was with its interaction open, or a phase begun by one of its records.  *)
Untouched(p, r, s) == r.pending[s] = p.pending[s]
Begun(r, u, base, s) ==
  /\ u.type # "resolved" /\ Begins(u, s)
  /\ r.pending[s].seq \in base .. (base + Size(u) - 1)
Becomes(p, r, u, base, s) ==
  \/ r.pending[s] = NoPending
  \/ Untouched(p, r, s)
  \/ u.type = "opened" /\ u.at = s /\ r.pending[s] = [p.pending[s] EXCEPT !.gate = base]
  \/ Begun(r, u, base, s)

(* The number of an invocation in its group's range. *)
LEMMA InvokeSeqRange ==
  ASSUME NEW u \in Unit, u.type = "invoke", NEW base \in Nat, NEW s \in u.group
  PROVE  InvokeSeq(u, base, s) \in base .. (base + Size(u) - 1)
<1> DEFINE before == {t \in u.group : Rank[t] < Rank[s]}
<1>1. u.group \subseteq State /\ IsFiniteSet(u.group) /\ s \in State
  BY UnitType, StateFinite, FS_Subset
<1>2. Rank[s] \in Nat
  BY <1>1, ChartAssumption
<1>3. before \subseteq u.group \ {s}
  BY <1>2
<1>4. IsFiniteSet(u.group \ {s}) /\ Cardinality(u.group \ {s}) = Cardinality(u.group) - 1
  BY <1>1, FS_RemoveElement
<1>5. IsFiniteSet(before) /\ Cardinality(before) <= Cardinality(u.group) - 1
  BY <1>3, <1>4, FS_Subset
<1>6. Cardinality(before) \in Nat /\ Cardinality(u.group) \in Nat
  BY <1>1, <1>5, FS_CardinalityType
<1>7. InvokeSeq(u, base, s) = base + Cardinality(before) /\ Size(u) = Cardinality(u.group)
  BY DEF InvokeSeq, Size
<1> QED
  BY <1>5, <1>6, <1>7

(* A unit that is not a group of invocations appends one record or two. *)
LEMMA SmallSize ==
  ASSUME NEW u \in Unit, u.type # "invoke"
  PROVE  Size(u) = IF u.type = "rejected" THEN 2 ELSE 1
BY DEF Size

(* Moving on drops entries or leaves them alone. *)
LEMMA DroppedOrKept ==
  ASSUME NEW p, Typed(p), NEW at \in State, NEW scope, NEW target \in Node, NEW s \in State
  PROVE  LET r == Move(RemovePending(p, at), scope, target) IN
         /\ r.pending[s] \in {p.pending[s], NoPending}
         /\ r.pending[at] = NoPending
<1> DEFINE v == RemovePending(p, at)
<1>1. /\ v \in BranchProjection /\ v.pending[s] \in {p.pending[s], NoPending}
      /\ v.pending[at] = NoPending
  <2>1. p \in BranchProjection /\ p.pending \in [State -> Pending]
    BY DEF Typed, BranchProjection
  <2>2. v \in BranchProjection /\ v.pending[s] \in {p.pending[s], NoPending}
    BY <2>1, RemovePendingType
  <2>3. v.pending = [p.pending EXCEPT ![at] = NoPending]
    BY <2>1, RemovePendingType
  <2> HIDE DEF v
  <2> QED
    BY <2>1, <2>2, <2>3
<1> HIDE DEF v
<1>2. /\ Move(v, scope, target).pending[s] \in {v.pending[s], NoPending}
      /\ Move(v, scope, target).pending[at] \in {v.pending[at], NoPending}
  BY <1>1, MoveType
<1> QED
  BY <1>1, <1>2 DEF v

(* So does a transition. *)
LEMMA TransitionDrops ==
  ASSUME NEW p, Typed(p), NEW at \in State, NEW e \in AllowedEvents(at), NEW s \in State
  PROVE  LET r == Transition(RemovePending(p, at), at, e) IN
         /\ r.pending[s] \in {p.pending[s], NoPending}
         /\ r.pending[at] = NoPending
BY HandlerTarget, DroppedOrKept DEF Transition

(* And a completion, unless it is a claim. *)
LEMMA CompleteDrops ==
  ASSUME NEW p, Typed(p), NEW at \in State, NEW e \in AllowedEvents(at), NEW base \in Nat,
         NEW s \in State
  PROVE  LET r == Complete(p, at, e, base) IN
         IF at \in Guarded
         THEN /\ r.pending[at].seq = base
              /\ s # at => r.pending[s] = p.pending[s]
         ELSE /\ r.pending[s] \in {p.pending[s], NoPending}
              /\ r.pending[at] = NoPending
<1>1. CASE at \in Guarded
  BY <1>1 DEF Complete, Claimed, Typed, BranchProjection
<1>2. CASE at \notin Guarded
  <2>1. Complete(p, at, e, base) = Transition(RemovePending(p, at), at, e)
    BY <1>2 DEF Complete
  <2> QED
    BY <1>2, <2>1, TransitionDrops
<1> QED
  BY <1>1, <1>2

(* A recovery decision begins a phase of its action, or changes no entry. *)
LEMMA DecideEntry ==
  ASSUME NEW p, Typed(p), NEW u \in RetryUnit \cup FailureUnit, NEW base \in Nat,
         NEW s \in State
  PROVE  LET r == Decide(p, u, base) IN
         IF u.type = "retry" /\ u.at = s THEN r.pending[s].seq = base
         ELSE r.pending[s] = p.pending[s]
<1>1. CASE u.type = "retry"
  <2>1. u \in RetryUnit
    BY <1>1 DEF FailureUnit
  <2>2. Decide(p, u, base) = Retry(p, u, base)
    BY <1>1 DEF Decide
  <2>3. Retry(p, u, base).pending[s]
          = IF u.at = s THEN Retried(p.pending[s], u, base) ELSE p.pending[s]
    BY <2>1, RetriedEntry
  <2>4. Retried(p.pending[s], u, base).seq = base
    BY DEF Retried
  <2> QED
    BY <1>1, <2>2, <2>3, <2>4
<1>2. CASE u.type # "retry"
  BY <1>2 DEF Decide, Fail, Typed, BranchProjection
<1> QED
  BY <1>1, <1>2

(* A failure is a failure. *)
LEMMA DecideFails ==
  ASSUME NEW p, Typed(p), NEW u \in RetryUnit \cup FailureUnit, NEW base \in Nat,
         u.type # "retry"
  PROVE  Decide(p, u, base).failed
BY DEF Decide, Fail, Typed, BranchProjection

(* What a unit of each type makes of an entry. *)
LEMMA EffectEntry ==
  ASSUME NEW p, Typed(p), NEW u \in Unit, Sensible(u), ~Rejects(p, u), NEW base \in Nat,
         u.type = "resolved" => Action[u.at] = "user", NEW s \in State
  PROVE  Becomes(p, Effect(p, u, base), u, base, s)
<1> DEFINE r == Effect(p, u, base)
<1>1. /\ p \in BranchProjection /\ p.pending \in [State -> Pending]
      /\ Size(u) \in Nat
  BY SizeType DEF Typed, BranchProjection
<1>2. CASE u.type = "invoke"
  <2>1. CASE s \in u.group \cap p.leaves
    <3>1. r.pending[s].seq = InvokeSeq(u, base, s)
      BY <1>1, <1>2, <2>1 DEF Effect, Invoke, Invoked, BranchProjection
    <3>2. Begun(r, u, base, s)
      BY <1>2, <2>1, <3>1, InvokeSeqRange DEF Begun, Begins
    <3> QED
      BY <3>2 DEF Becomes
  <2>2. CASE s \notin u.group \cap p.leaves
    <3>1. Untouched(p, r, s)
      BY <1>1, <1>2, <2>2 DEF Effect, Invoke, BranchProjection, Untouched
    <3> QED
      BY <3>1 DEF Becomes
  <2> QED
    BY <2>1, <2>2
<1>3. u.type # "invoke" => u.at \in State /\ Size(u) >= 1
  BY UnitType, SmallSize
<1>4. CASE u.type \in {"complete", "resolved"}
  <2>1. u.at \in State /\ u.event \in AllowedEvents(u.at)
    BY <1>4, UnitType DEF Sensible
  <2>2. r = Complete(p, u.at, u.event, base)
    BY <1>4 DEF Effect
  <2>3. CASE u.at \in Guarded
    <3>1. u.type = "complete"
      BY <1>4, <2>3, ActionAssumption
    <3>2. IF s = u.at THEN r.pending[s].seq = base ELSE Untouched(p, r, s)
      BY <2>1, <2>2, <2>3, CompleteDrops DEF Untouched
    <3>3. s = u.at => Begun(r, u, base, s)
      BY <1>1, <1>3, <2>3, <3>1, <3>2, ActionAssumption DEF Begun, Begins, Ends
    <3> QED
      BY <3>2, <3>3 DEF Becomes
  <2>4. CASE u.at \notin Guarded
    <3>1. r.pending[s] \in {p.pending[s], NoPending}
      BY <2>1, <2>2, <2>4, CompleteDrops
    <3> QED
      BY <3>1 DEF Becomes, Untouched
  <2> QED
    BY <2>3, <2>4
<1>5. CASE u.type = "accepted"
  <2>1. u.at \in State /\ u.event \in AllowedEvents(u.at)
    BY <1>5, UnitType DEF Rejects, Typed, ClaimsFit
  <2>2. r = Transition(RemovePending(p, u.at), u.at, u.event)
    BY <1>5 DEF Effect
  <2>3. r.pending[s] \in {p.pending[s], NoPending}
    BY <2>1, <2>2, TransitionDrops
  <2> QED
    BY <2>3 DEF Becomes, Untouched
<1>6. CASE u.type = "timer_fired"
  <2>1. u.at \in State /\ After[u.at] \in Node
    BY <1>6, UnitType, ChartAssumption DEF Sensible
  <2>2. r = Move(RemovePending(p, u.at), u.at, After[u.at])
    BY <1>6 DEF Effect
  <2>3. r.pending[s] \in {p.pending[s], NoPending}
    BY <2>1, <2>2, DroppedOrKept
  <2> QED
    BY <2>3 DEF Becomes, Untouched
<1>7. CASE u.type = "opened"
  <2>1. r.pending = [p.pending EXCEPT ![u.at].gate = base] /\ u.at \in State
    BY <1>1, <1>7, UnitType DEF Effect, Open, BranchProjection
  <2>2. CASE s = u.at
    BY <1>1, <1>7, <2>1, <2>2 DEF Becomes
  <2>3. CASE s # u.at
    BY <1>1, <2>1, <2>3 DEF Becomes, Untouched
  <2> QED
    BY <2>2, <2>3
<1>8. CASE u.type \in {"retry", "failure_intent"}
  <2>1. u \in RetryUnit \cup FailureUnit /\ r = Decide(p, u, base)
    BY <1>8, UnitType DEF Effect
  <2>2. IF u.type = "retry" /\ u.at = s THEN r.pending[s].seq = base
        ELSE Untouched(p, r, s)
    BY <2>1, DecideEntry DEF Untouched
  <2>3. u.type = "retry" /\ u.at = s => Begins(u, s)
    BY DEF Rejects, DecisionFits, RetryFits, Begins, Ends
  <2>4. u.type = "retry" /\ u.at = s => Begun(r, u, base, s)
    BY <1>1, <1>3, <1>8, <2>2, <2>3 DEF Begun
  <2> QED
    BY <2>2, <2>4 DEF Becomes
<1>9. CASE u.type = "rejected"
  <2> DEFINE v == [p EXCEPT !.pending[u.at].seq = base]
             d == u.decision
  <2>1. /\ u.at \in State /\ d \in RetryUnit \cup FailureUnit /\ base + 1 \in Nat
        /\ Size(u) = 2
    BY <1>9, UnitType, SmallSize
  <2>2. Typed(v) /\ r = Decide(v, d, base + 1)
    BY <1>9, <2>1, ResequenceTyped DEF Effect
  <2>3. IF s = u.at THEN v.pending[s].seq = base ELSE v.pending[s] = p.pending[s]
    BY <1>1, <2>1 DEF Typed, BranchProjection, Pending
  <2> HIDE DEF v
  <2>4. IF d.type = "retry" /\ d.at = s THEN r.pending[s].seq = base + 1
        ELSE r.pending[s] = v.pending[s]
    BY <2>1, <2>2, DecideEntry
  <2>5. IF s = u.at THEN r.pending[s].seq \in {base, base + 1} ELSE Untouched(p, r, s)
    BY <1>9, <2>3, <2>4 DEF Untouched, Sensible
  <2>6. s = u.at => Begins(u, s)
    BY <1>9, ActionAssumption DEF Rejects, Typed, ClaimsFit, Begins, Ends
  <2>7. s = u.at => Begun(r, u, base, s)
    BY <1>9, <2>1, <2>5, <2>6 DEF Begun
  <2> QED
    BY <2>5, <2>7 DEF Becomes
<1> QED
  BY <1>2, <1>4, <1>5, <1>6, <1>7, <1>8, <1>9, UnitType

(* What projectBranch makes of an entry. *)
LEMMA ProjectedFields ==
  ASSUME NEW p, Typed(p), NEW u \in Unit, Sensible(u), ~Rejects(p, u), NEW base \in Nat
  PROVE  LET r == ProjectBranch(p, u, base)
             a == Apply(p, u, base)
         IN r.pending = a.pending /\ r.leaves = a.leaves /\ r.failed = a.failed
BY ApplyTyped DEF ProjectBranch, Typed, BranchProjection

LEMMA ProjectedEntry ==
  ASSUME NEW p, Typed(p), NEW u \in Unit, Sensible(u), ~Rejects(p, u), NEW base \in Nat,
         u.type = "resolved" => Action[u.at] = "user", NEW s \in State
  PROVE  Becomes(p, ProjectBranch(p, u, base), u, base, s)
<1>1. CASE Skips(p, u) /\ u.type # "invoke"
  <2>1. Untouched(p, ProjectBranch(p, u, base), s)
    BY <1>1, ProjectedFields DEF Apply, Untouched
  <2> QED
    BY <2>1 DEF Becomes
<1>2. CASE ~(Skips(p, u) /\ u.type # "invoke")
  <2>1. Becomes(p, Effect(p, u, base), u, base, s)
    BY EffectEntry
  <2>2. ProjectBranch(p, u, base).pending = Effect(p, u, base).pending
    BY <1>2, ProjectedFields DEF Apply
  <2> QED
    BY <2>1, <2>2 DEF Becomes, Untouched, Begun
<1> QED
  BY <1>1, <1>2

(* A unit that settles the phase of an active action leaves nothing of it, *)
(* or begins another, or fails the run.                                    *)
LEMMA EndedPhase ==
  ASSUME NEW p, Typed(p), NEW u \in Unit, Sensible(u), ~Rejects(p, u), NEW base \in Nat,
         NEW s \in State, Ends(u, s), s \in p.leaves
  PROVE  LET r == ProjectBranch(p, u, base) IN
         r.failed \/ r.pending[s] = NoPending \/ r.pending[s].seq >= base
<1> DEFINE e == Effect(p, u, base)
           r == ProjectBranch(p, u, base)
<1>1. ~Skips(p, u) /\ u.at = s
  BY DEF Skips, Ends
<1>2. r.pending = e.pending /\ r.failed = e.failed
  BY <1>1, ProjectedFields DEF Apply
<1>3. CASE u.type = "complete"
  <2>1. u.event \in AllowedEvents(s) /\ e = Complete(p, s, u.event, base)
    BY <1>1, <1>3 DEF Sensible, Effect
  <2>2. e.pending[s].seq = base \/ e.pending[s] = NoPending
    BY <2>1, CompleteDrops
  <2> QED
    BY <1>2, <2>2
<1>4. CASE u.type = "accepted"
  <2>1. u.event \in AllowedEvents(s) /\ e = Transition(RemovePending(p, s), s, u.event)
    BY <1>1, <1>4 DEF Effect, Rejects, Typed, ClaimsFit
  <2> QED
    BY <1>2, <2>1, TransitionDrops
<1>5. CASE u.type = "timer_fired"
  <2>1. After[s] \in Node /\ e = Move(RemovePending(p, s), s, After[s])
    BY <1>1, <1>5, ChartAssumption DEF Effect, Sensible
  <2> QED
    BY <1>2, <2>1, DroppedOrKept
<1>6. CASE u.type \in {"retry", "failure_intent"}
  <2>1. u \in RetryUnit \cup FailureUnit /\ e = Decide(p, u, base)
    BY <1>6, UnitType DEF Effect
  <2>2. e.failed \/ e.pending[s].seq = base
    BY <1>1, <1>6, <2>1, DecideEntry, DecideFails
  <2> QED
    BY <1>2, <2>2
<1>7. CASE u.type = "rejected"
  <2> DEFINE v == [p EXCEPT !.pending[s].seq = base]
             d == u.decision
  <2>1. d \in RetryUnit \cup FailureUnit /\ base + 1 \in Nat
    BY <1>7, UnitType
  <2>2. Typed(v) /\ e = Decide(v, d, base + 1)
    BY <1>1, <1>7, <2>1, ResequenceTyped DEF Effect
  <2>3. v.pending[s].seq = base
    BY DEF Typed, BranchProjection, Pending
  <2> HIDE DEF v
  <2>4. e.pending[s].seq = base + 1 \/ e.pending[s] = v.pending[s]
    BY <2>1, <2>2, DecideEntry
  <2> QED
    BY <1>2, <2>3, <2>4
<1> QED
  BY <1>3, <1>4, <1>5, <1>6, <1>7 DEF Ends

(* An invocation of an active state begins its visit. *)
LEMMA InvokedEntry ==
  ASSUME NEW p, Typed(p), NEW u \in Unit, Sensible(u), ~Rejects(p, u), NEW base \in Nat,
         u.type = "invoke", NEW s \in u.group \cap p.leaves
  PROVE  ProjectBranch(p, u, base).pending[s].phase = "running"
<1>1. s \in State
  BY UnitType
<1>2. Effect(p, u, base).pending[s].phase = "running"
  BY <1>1 DEF Effect, Invoke, Invoked, Typed, BranchProjection
<1> QED
  BY <1>2, ProjectedFields DEF Apply

(* An opened interaction is open. *)
LEMMA OpenedEntry ==
  ASSUME NEW p, Typed(p), NEW u \in Unit, Sensible(u), ~Rejects(p, u), NEW base \in Nat,
         u.type = "opened"
  PROVE  ProjectBranch(p, u, base).pending[u.at].gate = base
<1>1. u.at \in State
  BY UnitType
<1>2. Effect(p, u, base).pending[u.at].gate = base
  BY <1>1 DEF Effect, Open, Typed, BranchProjection, Pending
<1> QED
  BY <1>2, ProjectedFields DEF Apply, Skips

-----------------------------------------------------------------------------
(* Pending work stays at active leaves. *)

(* Settling an action keeps work placed. *)
LEMMA RemovePendingPlaced ==
  ASSUME NEW p, Typed(p), Placed(p), NEW at \in State
  PROVE  Placed(RemovePending(p, at))
<1>1. p \in BranchProjection
  BY DEF Typed
<1>2. RemovePending(p, at).leaves = p.leaves
  BY <1>1 DEF RemovePending, BranchProjection
<1>3. \A s \in State : RemovePending(p, at).pending[s] \in {p.pending[s], NoPending}
  BY <1>1, RemovePendingType
<1> QED
  BY <1>2, <1>3, NoPendingType DEF Placed

(* An exit drops what it leaves, and a join takes only final leaves away. *)
LEMMA MovePlaced ==
  ASSUME NEW p, Typed(p), NEW scope, NEW target \in Node
  PROVE  Placed(Move(p, scope, target))
<1> DEFINE next == ExitAndEnter(p.leaves, scope, target)
           r == Move(p, scope, target)
<1>1. p \in BranchProjection /\ next \in SUBSET Node
  BY EnterType DEF ExitAndEnter, Typed, BranchProjection
<1>2. next \cap State \subseteq CompleteParallels[next]
  BY <1>1, JoinsTakeFinals DEF State
<1>3. /\ r.leaves = CompleteParallels[next]
      /\ r.pending = [s \in State |-> IF s \in {t \in State \ next : p.pending[t].phase # "none"}
                                      THEN NoPending ELSE p.pending[s]]
  BY <1>1 DEF Move, BranchProjection
<1> HIDE DEF next, r
<1>4. Placed(r)
  BY <1>2, <1>3, NoPendingType DEF Placed
<1> QED
  BY <1>4 DEF r

(* A recovery decision begins no work where there was none. *)
LEMMA DecidePlaced ==
  ASSUME NEW p, Typed(p), Placed(p), NEW u \in RetryUnit \cup FailureUnit,
         u.type = "retry" => p.pending[u.at].phase # "none", NEW base \in Nat
  PROVE  Placed(Decide(p, u, base))
<1> DEFINE r == Decide(p, u, base)
<1>1. r.leaves = p.leaves
  BY DEF Decide, Retry, Fail, Typed, BranchProjection
<1>2. \A s \in State : r.pending[s] # p.pending[s] => u.type = "retry" /\ s = u.at
  <2>1. CASE u.type = "retry"
    <3>1. u \in RetryUnit /\ r = Retry(p, u, base)
      BY <2>1 DEF FailureUnit, Decide
    <3> QED
      BY <2>1, <3>1, RetriedEntry
  <2>2. CASE u.type # "retry"
    BY <2>2 DEF Decide, Fail, Typed, BranchProjection
  <2> QED
    BY <2>1, <2>2
<1> QED
  BY <1>1, <1>2 DEF Placed

(* So does every unit that is not refused. *)
LEMMA ProjectBranchPlaced ==
  ASSUME NEW p, Typed(p), Placed(p), NEW u \in Unit, Sensible(u), ~Rejects(p, u),
         NEW base \in Nat
  PROVE  Placed(ProjectBranch(p, u, base))
<1> DEFINE e == Effect(p, u, base)
<1>1. /\ p \in BranchProjection /\ p.pending \in [State -> Pending]
  BY DEF Typed, BranchProjection
<1>2. CASE u.type = "invoke"
  <2>1. e.leaves = p.leaves
    BY <1>1, <1>2 DEF Effect, Invoke, BranchProjection
  <2>2. \A s \in State : e.pending[s] # p.pending[s] => s \in p.leaves
    BY <1>1, <1>2 DEF Effect, Invoke, BranchProjection
  <2> QED
    BY <1>2, <2>1, <2>2, ProjectedFields DEF Apply, Placed
<1>3. CASE Skips(p, u) /\ u.type # "invoke"
  BY <1>3, ProjectedFields DEF Apply, Placed
<1> SUFFICES ASSUME ~Skips(p, u), u.type # "invoke"
             PROVE  Placed(e)
  BY <1>2, <1>3, ProjectedFields DEF Apply, Placed
<1>4. u.at \in State
  BY UnitType
<1>5. ASSUME NEW scope, NEW target \in Node
      PROVE  Placed(Move(RemovePending(p, u.at), scope, target))
  BY <1>4, <1>5, RemovePendingTyped, MovePlaced
<1>6. ASSUME u.event \in AllowedEvents(u.at)
      PROVE  Placed(Transition(RemovePending(p, u.at), u.at, u.event))
  BY <1>4, <1>5, <1>6, HandlerTarget DEF Transition
<1>7. CASE u.type \in {"complete", "resolved"}
  <2>1. u.event \in AllowedEvents(u.at) /\ e = Complete(p, u.at, u.event, base)
    BY <1>7 DEF Sensible, Effect
  <2>2. u.at \in p.leaves
    BY <1>7 DEF Skips, Rejects
  <2>3. CASE u.at \in Guarded
    <3>1. e = [p EXCEPT !.pending[u.at] = Claimed(@, u.event, base)]
      BY <2>1, <2>3 DEF Complete
    <3>2. e.leaves = p.leaves /\ \A s \in State \ {u.at} : e.pending[s] = p.pending[s]
      BY <1>1, <1>4, <3>1 DEF BranchProjection
    <3> QED
      BY <2>2, <3>2 DEF Placed
  <2>4. CASE u.at \notin Guarded
    BY <1>6, <2>1, <2>4 DEF Complete
  <2> QED
    BY <2>3, <2>4
<1>8. CASE u.type = "accepted"
  <2>1. u.event \in AllowedEvents(u.at)
    BY <1>4, <1>8 DEF Rejects, Typed, ClaimsFit
  <2> QED
    BY <1>6, <1>8, <2>1 DEF Effect
<1>9. CASE u.type = "timer_fired"
  <2>1. After[u.at] \in Node
    BY <1>4, <1>9, ChartAssumption DEF Sensible
  <2> QED
    BY <1>5, <1>9, <2>1 DEF Effect
<1>10. CASE u.type = "opened"
  <2>1. e = Open(p, u.at, base)
    BY <1>10 DEF Effect
  <2>2. e.leaves = p.leaves /\ e.pending = [p.pending EXCEPT ![u.at].gate = base]
    BY <1>1, <2>1 DEF Open, BranchProjection
  <2> HIDE DEF e
  <2>3. \A s \in State : e.pending[s].phase = p.pending[s].phase
    BY <1>1, <1>4, <2>2 DEF Pending
  <2> QED
    BY <2>2, <2>3 DEF Placed
<1>11. CASE u.type \in {"retry", "failure_intent"}
  <2>1. u \in RetryUnit \cup FailureUnit /\ e = Decide(p, u, base)
    BY <1>11, UnitType DEF Effect
  <2>2. u.type = "retry" => p.pending[u.at].phase # "none"
    BY <1>11 DEF Rejects, DecisionFits, RetryFits
  <2> QED
    BY <2>1, <2>2, DecidePlaced
<1>12. CASE u.type = "rejected"
  <2> DEFINE v == [p EXCEPT !.pending[u.at].seq = base]
             d == u.decision
  <2>1. d \in RetryUnit \cup FailureUnit /\ base + 1 \in Nat /\ DecisionFits(p, d)
    BY <1>12, UnitType DEF Rejects
  <2>2. Typed(v) /\ e = Decide(v, d, base + 1)
    BY <1>4, <1>12, <2>1, ResequenceTyped DEF Effect
  <2>3. v.leaves = p.leaves /\ \A s \in State : v.pending[s].phase = p.pending[s].phase
    BY <1>1, <1>4 DEF BranchProjection, Pending
  <2>4. d.at \in State
    BY <2>1 DEF RetryUnit, FailureUnit
  <2> HIDE DEF v
  <2>5. Placed(v)
    BY <2>3 DEF Placed
  <2>6. d.type = "retry" => v.pending[d.at].phase # "none"
    BY <2>1, <2>3, <2>4 DEF DecisionFits, RetryFits
  <2> QED
    BY <2>1, <2>2, <2>5, <2>6, DecidePlaced
<1> QED
  BY <1>7, <1>8, <1>9, <1>10, <1>11, <1>12, UnitType

(* The records of a unit come after all before it. *)
LEMMA ProjectBranchRecent ==
  ASSUME NEW p, Typed(p), NEW u \in Unit, Sensible(u), ~Rejects(p, u), NEW base \in Nat,
         u.type = "resolved" => Action[u.at] = "user",
         NEW n \in Nat, Recent(p, n), base + Size(u) - 1 <= n \/ u.type = "resolved"
  PROVE  Recent(ProjectBranch(p, u, base), n)
<1> DEFINE r == ProjectBranch(p, u, base)
<1> SUFFICES ASSUME NEW s \in State PROVE r.pending[s].seq <= n
  BY DEF Recent
<1>1. Becomes(p, r, u, base, s)
  BY ProjectedEntry
<1>2. Size(u) \in Nat /\ p.pending[s] \in Pending /\ NoPending.seq = 0
  BY SizeType, PendingOf DEF NoPending
<1>3. p.pending[s].seq <= n
  BY DEF Recent
<1>4. [p.pending[s] EXCEPT !.gate = base].seq = p.pending[s].seq
  BY <1>2 DEF Pending
<1> HIDE DEF r
<1>5. CASE Begun(r, u, base, s)
  BY <1>2, <1>5 DEF Begun
<1>6. CASE r.pending[s] = NoPending
  BY <1>2, <1>6
<1>7. CASE Untouched(p, r, s)
  BY <1>3, <1>7 DEF Untouched
<1>8. CASE r.pending[s] = [p.pending[s] EXCEPT !.gate = base]
  BY <1>3, <1>4, <1>8
<1> QED
  BY <1>1, <1>5, <1>6, <1>7, <1>8 DEF Becomes

-----------------------------------------------------------------------------
(* What queues hold. *)
LEMMA HeldOf ==
  ASSUME NEW q \in Seq(Message)
  PROVE  /\ DOMAIN q = 1 .. Len(q) /\ Len(q) \in Nat
         /\ Held(q) \subseteq Message
         /\ Held(<<>>) = {}
BY DEF Held

(* One message more. *)
LEMMA HeldAppend ==
  ASSUME NEW q \in Seq(Message), NEW e \in Message
  PROVE  Held(Append(q, e)) = Held(q) \cup {e}
<1> DEFINE r == Append(q, e)
<1>1. /\ Len(r) = Len(q) + 1 /\ r[Len(q) + 1] = e /\ DOMAIN r = 1 .. Len(r)
      /\ \A i \in 1 .. Len(q) : r[i] = q[i]
  BY AppendProperties
<1>2. Len(q) \in Nat /\ DOMAIN q = 1 .. Len(q)
  OBVIOUS
<1> HIDE DEF r
<1>3. ASSUME NEW i \in DOMAIN r PROVE r[i] \in Held(q) \cup {e}
  BY <1>1, <1>2 DEF Held
<1>4. ASSUME NEW i \in DOMAIN q PROVE q[i] \in Held(r)
  <2>1. i \in DOMAIN r /\ r[i] = q[i]
    BY <1>1, <1>2
  <2> QED
    BY <2>1 DEF Held
<1>5. e \in Held(r)
  <2>1. Len(q) + 1 \in DOMAIN r
    BY <1>1, <1>2
  <2> QED
    BY <1>1, <2>1 DEF Held
<1>6. Held(r) = Held(q) \cup {e}
  BY <1>3, <1>4, <1>5 DEF Held
<1> QED
  BY <1>6 DEF r

(* One message less. *)
LEMMA HeldTail ==
  ASSUME NEW q \in Seq(Message), q # <<>>
  PROVE  Held(q) = {Head(q)} \cup Held(Tail(q)) /\ Head(q) \in Message
<1> DEFINE r == Tail(q)
<1>1. /\ Len(r) = Len(q) - 1 /\ Len(q) \in Nat \ {0} /\ DOMAIN r = 1 .. Len(r)
      /\ DOMAIN q = 1 .. Len(q) /\ Head(q) = q[1]
      /\ \A i \in 1 .. Len(r) : r[i] = q[i + 1]
  OBVIOUS
<1> HIDE DEF r
<1>2. ASSUME NEW i \in DOMAIN q PROVE q[i] \in {Head(q)} \cup Held(r)
  <2>1. CASE i = 1
    BY <1>1, <2>1
  <2>2. CASE i # 1
    <3>1. i - 1 \in DOMAIN r /\ r[i - 1] = q[i]
      BY <1>1, <2>2
    <3> QED
      BY <3>1 DEF Held
  <2> QED
    BY <2>1, <2>2
<1>3. ASSUME NEW i \in DOMAIN r PROVE r[i] \in Held(q)
  <2>1. i + 1 \in DOMAIN q /\ r[i] = q[i + 1]
    BY <1>1
  <2> QED
    BY <2>1 DEF Held
<1>4. Head(q) \in Held(q)
  <2>1. 1 \in DOMAIN q
    BY <1>1
  <2> QED
    BY <1>1, <2>1 DEF Held
<1>5. Held(q) = {Head(q)} \cup Held(r)
  BY <1>2, <1>3, <1>4 DEF Held
<1> QED
  BY <1>4, <1>5, HeldOf DEF r

(* One queue behind another. *)
LEMMA HeldConcat ==
  ASSUME NEW q \in Seq(Message), NEW r \in Seq(Message)
  PROVE  Held(q \o r) = Held(q) \cup Held(r)
<1> DEFINE c == q \o r
<1>1. /\ Len(q) \in Nat /\ Len(r) \in Nat /\ Len(c) = Len(q) + Len(r)
      /\ DOMAIN q = 1 .. Len(q) /\ DOMAIN r = 1 .. Len(r) /\ DOMAIN c = 1 .. Len(c)
      /\ \A i \in 1 .. Len(c) : c[i] = IF i <= Len(q) THEN q[i] ELSE r[i - Len(q)]
  BY ConcatProperties
<1> HIDE DEF c
<1>2. ASSUME NEW i \in DOMAIN c PROVE c[i] \in Held(q) \cup Held(r)
  <2>1. CASE i <= Len(q)
    <3>1. i \in DOMAIN q /\ c[i] = q[i]
      BY <1>1, <2>1
    <3> QED
      BY <3>1 DEF Held
  <2>2. CASE ~(i <= Len(q))
    <3>1. i - Len(q) \in DOMAIN r /\ c[i] = r[i - Len(q)]
      BY <1>1, <2>2
    <3> QED
      BY <3>1 DEF Held
  <2> QED
    BY <2>1, <2>2
<1>3. ASSUME NEW i \in DOMAIN q PROVE q[i] \in Held(c)
  <2>1. i \in DOMAIN c /\ c[i] = q[i]
    BY <1>1
  <2> QED
    BY <2>1 DEF Held
<1>4. ASSUME NEW i \in DOMAIN r PROVE r[i] \in Held(c)
  <2>1. i + Len(q) \in DOMAIN c /\ c[i + Len(q)] = r[i]
    BY <1>1
  <2> QED
    BY <2>1 DEF Held
<1>5. Held(c) = Held(q) \cup Held(r)
  BY <1>2, <1>3, <1>4 DEF Held
<1> QED
  BY <1>5 DEF c

(* An empty queue is in order. *)
LEMMA EmptyQueue == Ordered(<<>>) /\ StartFirst(<<>>) /\ NoStart(<<>>) /\ ~Fresh(<<>>)
BY DEF Ordered, StartFirst, NoStart, Held, Fresh

(* A queue that has been begun, or never had to be, holds no start. *)
LEMMA BegunQueue ==
  ASSUME NEW q \in Seq(Message), StartFirst(q)
  PROVE  /\ ~Fresh(q) => NoStart(q)
         /\ NoStart(q) => ~Fresh(q)
<1>1. CASE q = <<>>
  BY <1>1, EmptyQueue
<1>2. CASE q # <<>>
  <2>1. Head(q) = q[1] /\ 1 \in DOMAIN q /\ q[1] \in Held(q)
    BY <1>2 DEF Held
  <2> QED
    BY <1>2, <2>1 DEF StartFirst, NoStart, Fresh, Held
<1> QED
  BY <1>1, <1>2

(* The rest of a queue in order is in order, and behind its head. *)
LEMMA OrderTail ==
  ASSUME NEW q \in Seq(Message), q # <<>>, Ordered(q), StartFirst(q)
  PROVE  /\ Ordered(Tail(q)) /\ NoStart(Tail(q)) /\ StartFirst(Tail(q))
         /\ Own(Head(q)) =>
              \A e \in Held(Tail(q)) : Own(e) => Until(Head(q)) < e.base
<1> DEFINE r == Tail(q)
<1>1. /\ Len(r) = Len(q) - 1 /\ Len(q) \in Nat \ {0} /\ DOMAIN r = 1 .. Len(r)
      /\ DOMAIN q = 1 .. Len(q) /\ Head(q) = q[1]
      /\ \A i \in 1 .. Len(r) : r[i] = q[i + 1]
  OBVIOUS
<1> HIDE DEF r
<1>2. \A i \in DOMAIN r : i + 1 \in DOMAIN q /\ i + 1 # 1 /\ r[i] = q[i + 1]
  BY <1>1
<1>3. \A i, j \in DOMAIN r : i < j => i + 1 < j + 1
  BY <1>1
<1>4. Ordered(r)
  BY <1>2, <1>3 DEF Ordered
<1>5. NoStart(r)
  BY <1>2 DEF NoStart, StartFirst, Held
<1>6. StartFirst(r)
  BY <1>5 DEF NoStart, StartFirst, Held
<1>7. ASSUME Own(Head(q)), NEW i \in DOMAIN r, Own(r[i])
      PROVE  Until(Head(q)) < r[i].base
  <2>1. 1 \in DOMAIN q /\ 1 < i + 1
    BY <1>1, <1>2
  <2> QED
    BY <1>1, <1>2, <1>7, <2>1 DEF Ordered
<1>8. Own(Head(q)) => \A e \in Held(r) : Own(e) => Until(Head(q)) < e.base
  BY <1>7 DEF Held
<1> QED
  BY <1>4, <1>5, <1>6, <1>8 DEF r

(* A message that joins, later than all before it if it is ordered at all. *)
LEMMA OrderAppend ==
  ASSUME NEW q \in Seq(Message), Ordered(q), StartFirst(q), NEW e \in Message,
         e.kind # "start",
         Own(e) => \A x \in Held(q) : Own(x) => Until(x) < e.base
  PROVE  /\ Ordered(Append(q, e)) /\ StartFirst(Append(q, e))
         /\ Fresh(Append(q, e)) = Fresh(q)
<1> DEFINE r == Append(q, e)
           n == Len(q) + 1
<1>1. /\ DOMAIN r = 1 .. n /\ r[n] = e /\ n \in Nat /\ DOMAIN q = 1 .. (n - 1)
      /\ \A i \in 1 .. (n - 1) : r[i] = q[i]
      /\ r # <<>> /\ Head(r) = r[1]
  BY AppendProperties
<1> HIDE DEF r, n
<1>2. ASSUME NEW i \in DOMAIN r, NEW j \in DOMAIN r, i < j, Own(r[i]), Own(r[j])
      PROVE  Until(r[i]) < r[j].base
  <2>1. i \in DOMAIN q /\ r[i] = q[i] /\ q[i] \in Held(q)
    BY <1>1, <1>2 DEF Held
  <2>2. CASE j = n
    BY <1>1, <1>2, <2>1, <2>2
  <2>3. CASE j # n
    <3>1. j \in DOMAIN q /\ r[j] = q[j]
      BY <1>1, <2>3
    <3> QED
      BY <1>2, <2>1, <3>1 DEF Ordered
  <2> QED
    BY <2>2, <2>3
<1>3. StartFirst(r)
  BY <1>1 DEF StartFirst
<1>4. CASE q = <<>>
  <2>1. Head(r) = e
    BY <1>4 DEF r
  <2> QED
    BY <1>2, <1>3, <1>4, <2>1 DEF Ordered, Fresh, r
<1>5. CASE q # <<>>
  <2>1. Head(r) = Head(q)
    BY <1>1, <1>5
  <2> QED
    BY <1>1, <1>2, <1>3, <1>5, <2>1 DEF Ordered, Fresh, r
<1> QED
  BY <1>4, <1>5

(* Messages that join and are not ordered. *)
LEMMA OrderConcat ==
  ASSUME NEW q \in Seq(Message), Ordered(q), NoStart(q), NEW r \in Seq(Message),
         NoStart(r), \A e \in Held(r) : ~Own(e)
  PROVE  Ordered(q \o r) /\ StartFirst(q \o r) /\ NoStart(q \o r)
<1> DEFINE c == q \o r
<1>1. /\ Len(q) \in Nat /\ Len(r) \in Nat /\ Len(c) = Len(q) + Len(r)
      /\ DOMAIN q = 1 .. Len(q) /\ DOMAIN r = 1 .. Len(r) /\ DOMAIN c = 1 .. Len(c)
      /\ \A i \in 1 .. Len(c) : c[i] = IF i <= Len(q) THEN q[i] ELSE r[i - Len(q)]
  BY ConcatProperties
<1>2. NoStart(c)
  BY HeldConcat DEF NoStart
<1> HIDE DEF c
<1>3. ASSUME NEW i \in DOMAIN c, Own(c[i]) PROVE i \in DOMAIN q /\ c[i] = q[i]
  <2>1. CASE i <= Len(q)
    BY <1>1, <2>1
  <2>2. CASE ~(i <= Len(q))
    <3>1. i - Len(q) \in DOMAIN r /\ c[i] = r[i - Len(q)]
      BY <1>1, <2>2
    <3> QED
      BY <1>3, <3>1 DEF Held
  <2> QED
    BY <2>1, <2>2
<1>4. Ordered(c)
  BY <1>3 DEF Ordered
<1>5. StartFirst(c)
  BY <1>2 DEF StartFirst, NoStart, Held
<1> QED
  BY <1>2, <1>4, <1>5 DEF c

-----------------------------------------------------------------------------
(* Carrying on with a batch. *)

(* The kinds of work. *)
LEMMA StartedTask ==
  ASSUME NEW p, NEW id \in Id, HasTask(p, id)
  PROVE  LET t == TaskFor(p, id) IN
         /\ t.id = id /\ ~t.told /\ t.stage # "stopping"
         /\ (t.kind = "guard") = (p.pending[id.at].phase = "validating")
         /\ t.kind = "guard" => t.stage = "live"
<1>1. id.at \in State
  BY DEF Id
<1>2. Action[id.at] # "guard"
  BY <1>1, ActionAssumption
<1> QED
  BY <1>2 DEF TaskFor

(* A cancel tells whoever it reaches, and reaches no other. *)
LEMMA AfterCancelStops ==
  ASSUME NEW ts \in SUBSET Task, Stops(ts), NEW at
  PROVE  /\ Stops(AfterCancel(ts, at))
         /\ \A t \in ts : t.id.at \notin at => t \in AfterCancel(ts, at)
<1> DEFINE told(t) == [t EXCEPT !.told = TRUE, !.stage = IF @ = "live" THEN "stopping" ELSE @]
           hit(t) == t.id.at \in at /\ t.kind # "guard"
<1>1. \A t \in Task : told(t).told /\ told(t).kind = t.kind
  BY DEF Task
<1>2. \A t \in AfterCancel(ts, at) : t \in ts \/ \E u \in ts : hit(u) /\ t = told(u)
  BY DEF AfterCancel
<1> HIDE DEF told
<1>3. Stops(AfterCancel(ts, at))
  BY <1>1, <1>2 DEF Stops
<1>4. \A t \in ts : t.id.at \notin at => t \in AfterCancel(ts, at)
  BY DEF AfterCancel
<1> QED
  BY <1>3, <1>4

(* What a cancel takes away, something else carries. *)
LEMMA CancelCarries ==
  ASSUME NEW p, NEW b, NEW q, NEW sent, NEW ts \in SUBSET Task, Stops(ts), NEW tm,
         Carried(p, b, q, sent, ts, tm),
         NEW at, \A s \in at \cap Working(p) : Ending(b, q, s)
  PROVE  Carried(p, b, q, sent, AfterCancel(ts, at), tm)
<1> SUFFICES ASSUME NEW s \in Working(p), TaskCarried(p, b, q, sent, ts, s)
             PROVE  TaskCarried(p, b, q, sent, AfterCancel(ts, at), s)
  BY DEF Carried
<1>1. CASE s \in at
  BY <1>1 DEF TaskCarried
<1>2. CASE s \notin at
  <2>1. PhaseId(p, s).at = s
    BY DEF PhaseId
  <2>2. AtWork(p, s, ts) => AtWork(p, s, AfterCancel(ts, at))
    BY <1>2, <2>1, AfterCancelStops DEF AtWork
  <2> QED
    BY <2>2 DEF TaskCarried
<1> QED
  BY <1>1, <1>2

(* Messages that arrive, tasks and deadlines that are added lose nothing. *)
LEMMA MoreCarries ==
  ASSUME NEW p, NEW b, NEW q, NEW sent, NEW ts, NEW tm, Carried(p, b, q, sent, ts, tm),
         NEW q2, Held(q) \subseteq Held(q2), NEW sent2, sent \subseteq sent2,
         NEW ts2, ts \subseteq ts2, NEW tm2, tm \subseteq tm2
  PROVE  Carried(p, b, q2, sent2, ts2, tm2)
<1>1. \A s : Ending(b, q, s) => Ending(b, q2, s)
  BY DEF Ending
<1>2. \A s : Invoking(b, q, s) => Invoking(b, q2, s)
  BY DEF Invoking
<1>3. \A s : Opening(p, b, q, s) => Opening(p, b, q2, s)
  BY DEF Opening
<1>4. \A k, id : Told(k, id, sent) => Told(k, id, sent2)
  BY DEF Told
<1>5. \A s : AtWork(p, s, ts) => AtWork(p, s, ts2)
  BY DEF AtWork
<1>6. \A s : TaskCarried(p, b, q, sent, ts, s) => TaskCarried(p, b, q2, sent2, ts2, s)
  BY <1>1, <1>4, <1>5 DEF TaskCarried
<1>7. \A s : TimerCarried(p, b, q, sent, tm, s) => TimerCarried(p, b, q2, sent2, tm2, s)
  BY <1>1, <1>4 DEF TimerCarried
<1> QED
  BY <1>2, <1>3, <1>6, <1>7 DEF Carried

(* The cancellations of a batch that go out before its next append. *)
Outgoing(b) == IF b.unit = NoUnit THEN b.cancels ELSE {}

(* Where an Advance that is not told to drop the batch leaves the runtime. *)
LEMMA AdvanceCases ==
  ASSUME ~draining, NEW m, NEW asked, NEW q, Advance(m, asked, q)
  PROVE  \/ /\ loop' = "busy"
            /\ batch' = [asked EXCEPT !.cancels = @ \ Outgoing(asked)]
            /\ tasks' = AfterCancel(tasks, Outgoing(asked))
            /\ timers' = timers /\ queue' = q /\ buffer' = buffer
         \/ /\ loop' = "ready" /\ batch' = NoBatch /\ ~asked.last
            /\ asked.unit = NoUnit /\ asked.invokes = {} /\ asked.opens = {}
            /\ tasks' = AfterCancel(tasks, Outgoing(asked))
                          \cup {TaskFor(m, id) : id \in {i \in asked.work : HasTask(m, i)}}
            /\ timers' = timers \cup {id \in asked.work : HasTimer(m, id)}
            /\ queue' = q \o buffer /\ buffer' = <<>>
         \/ /\ loop' \in Ended /\ batch' = NoBatch
            /\ tasks' = {} /\ queue' = <<>> /\ buffer' = <<>>
<1>1. CASE asked.unit # NoUnit \/ asked.invokes # {} \/ asked.opens # {}
  BY <1>1 DEF Advance, Outgoing
<1>2. CASE ~(asked.unit # NoUnit \/ asked.invokes # {} \/ asked.opens # {}) /\ asked.last
  BY <1>2 DEF Advance, Ended
<1>3. CASE ~(asked.unit # NoUnit \/ asked.invokes # {} \/ asked.opens # {}) /\ ~asked.last
  BY <1>3 DEF Advance, Outgoing
<1> QED
  BY <1>1, <1>2, <1>3

(* What was asked of a batch is carried once the batch goes on. *)
LEMMA AdvanceCarries ==
  ASSUME ~draining, NEW m, NEW asked \in Batch, NEW q \in Seq(Message), buffer \in Seq(Message),
         Advance(m, asked, q), ~asked.last, tasks \subseteq Task, Stops(tasks),
         Carried(m, asked, q, Held(q) \cup Held(buffer), tasks, timers),
         \A s \in Outgoing(asked) \cap Working(m) : Ending(asked, q, s),
         loop' \in Live
  PROVE  Carried(m, batch', queue', Held(queue') \cup Held(buffer'), tasks', timers')
<1> DEFINE cancelled == AfterCancel(tasks, Outgoing(asked))
           sent == Held(q) \cup Held(buffer)
<1>1. Carried(m, asked, q, sent, cancelled, timers)
  BY CancelCarries
<1>2. CASE /\ loop' = "busy"
           /\ batch' = [asked EXCEPT !.cancels = @ \ Outgoing(asked)]
           /\ tasks' = cancelled
           /\ timers' = timers /\ queue' = q /\ buffer' = buffer
  <2> DEFINE b == batch'
  <2>1. b.unit = asked.unit /\ b.invokes = asked.invokes /\ b.opens = asked.opens
        /\ b.work = asked.work
    BY <1>2 DEF Batch
  <2> HIDE DEF b, cancelled
  <2>2. Carried(m, b, q, sent, cancelled, timers)
    BY <1>1, <2>1 DEF Carried, Invoking, Opening, TaskCarried, TimerCarried, Ending
  <2> QED
    BY <1>2, <2>2 DEF b
<1>3. CASE /\ batch' = NoBatch
           /\ asked.unit = NoUnit /\ asked.invokes = {} /\ asked.opens = {}
           /\ tasks' = cancelled
                         \cup {TaskFor(m, id) : id \in {i \in asked.work : HasTask(m, i)}}
           /\ timers' = timers \cup {id \in asked.work : HasTimer(m, id)}
           /\ queue' = q \o buffer /\ buffer' = <<>>
  <2>1. Held(queue') = sent /\ Held(buffer') = {}
    BY <1>3, HeldConcat, HeldOf
  <2>2. Carried(m, asked, queue', sent, tasks', timers')
    <3>1. Held(q) \subseteq Held(queue') /\ cancelled \subseteq tasks' /\ timers \subseteq timers'
      BY <1>3, <2>1
    <3> QED
      BY <1>1, <3>1, MoreCarries
  <2>3. ASSUME NEW s \in Working(m), HasTask(m, PhaseId(m, s)), PhaseId(m, s) \in asked.work
        PROVE  AtWork(m, s, tasks')
    <3> DEFINE id == PhaseId(m, s)
    <3>1. id \in Id /\ id.at = s
      BY <2>3 DEF Batch, PhaseId
    <3>2. TaskFor(m, id) \in tasks'
      BY <1>3, <2>3
    <3> QED
      BY <2>3, <3>1, <3>2, StartedTask DEF AtWork
  <2>4. ASSUME NEW s \in Working(m), HasTimer(m, PhaseId(m, s)), PhaseId(m, s) \in asked.work
        PROVE  PhaseId(m, s) \in timers'
    BY <1>3, <2>4
  <2>5. \A s : ~Ends(asked.unit, s)
    BY <1>3 DEF Ends, NoUnit
  <2>6. NoBatch.unit = NoUnit /\ NoBatch.invokes = {} /\ NoBatch.opens = {}
    BY DEF NoBatch
  <2>7. \A s \in DueInvokes(m) : Invoking(NoBatch, queue', s)
    BY <1>3, <2>2, <2>6 DEF Carried, Invoking
  <2>8. \A s \in DueOpens(m) : Opening(m, NoBatch, queue', s)
    BY <1>3, <2>2, <2>6 DEF Carried, Opening
  <2>9. \A s : Ending(asked, queue', s) => Ending(NoBatch, queue', s)
    BY <2>5 DEF Ending
  <2>10. \A s \in Working(m) : HasTask(m, PhaseId(m, s)) =>
            TaskCarried(m, NoBatch, queue', sent, tasks', s)
    BY <2>2, <2>3, <2>9 DEF Carried, TaskCarried
  <2>11. \A s \in Working(m) : HasTimer(m, PhaseId(m, s)) =>
            TimerCarried(m, NoBatch, queue', sent, timers', s)
    BY <2>2, <2>4, <2>9 DEF Carried, TimerCarried
  <2>12. Carried(m, NoBatch, queue', sent, tasks', timers')
    BY <2>7, <2>8, <2>10, <2>11 DEF Carried
  <2> QED
    BY <1>3, <2>1, <2>12
<1> QED
  BY <1>2, <1>3, AdvanceCases DEF Live, Ended

-----------------------------------------------------------------------------
(* What an output asks for. *)
Going(m, u, cs) ==
  LET fresh == Desired(m) \ dispatched IN
  [unit |-> u, cancels |-> cs, last |-> FALSE,
   invokes |-> {id.at : id \in {i \in fresh : i.kind = "invoke"}},
   opens |-> {id \in fresh : id.kind = "open"},
   work |-> {id \in fresh : id.kind = "phase"}]

Over(m) == m.failed \/ IsFinal(m.leaves)

(* An output is a batch of its own, with the final flag if the run is over. *)
LEMMA OutputCases ==
  ASSUME NEW m, Typed(m), NEW u, u = NoUnit \/ Appendable(u), NEW cs \in SUBSET State,
         Output(m, u, cs)
  PROVE  \E asked \in Batch :
           /\ Advance(m, asked, Tail(queue))
           /\ asked.last = Over(m)
           /\ ~Over(m) => asked = Going(m, u, cs) /\ dispatched' = Desired(m)
           /\ machine' = m /\ UNCHANGED <<log, error, runner>>
<1> DEFINE fresh == Desired(m) \ dispatched
           final == [NoBatch EXCEPT !.unit = u, !.last = TRUE,
                       !.cancels = cs \cup
                         {s \in State : m.failed /\ m.pending[s].phase # "none"}]
           out == IF Over(m) THEN final ELSE Going(m, u, cs)
<1>1. u \in Unit \cup {NoUnit} /\ fresh \subseteq Id
  BY IdType DEF Appendable
<1>2. final \in Batch /\ final.last = TRUE
  BY <1>1 DEF NoBatch, Batch
<1>3. {id.at : id \in {i \in fresh : i.kind = "invoke"}} \subseteq State
  BY <1>1 DEF Id
<1>4. Going(m, u, cs) \in Batch /\ Going(m, u, cs).last = FALSE
  BY <1>1, <1>3 DEF Going, Batch
<1>5. out \in Batch /\ out.last = Over(m)
  <2>1. Over(m) \in BOOLEAN
    BY DEF Over, IsFinal, Typed, BranchProjection
  <2> HIDE DEF final
  <2> QED
    BY <1>2, <1>4, <2>1
<1>6. /\ Advance(m, out, Tail(queue)) /\ machine' = m /\ UNCHANGED <<log, error, runner>>
      /\ ~Over(m) => dispatched' = Desired(m)
  BY DEF Output, Over, Going, Marked
<1>7. ~Over(m) => out = Going(m, u, cs)
  OBVIOUS
<1> HIDE DEF out
<1> QED
  BY <1>5, <1>6, <1>7

(* What was not marked is asked for. *)
LEMMA FreshIsAsked ==
  ASSUME NEW m, NEW u, NEW cs, NEW s \in State
  PROVE  LET b == Going(m, u, cs) IN
         /\ s \in DueInvokes(m) /\ InvokeId(s) \notin dispatched => s \in b.invokes
         /\ s \in DueOpens(m) /\ OpenId(m, s) \notin dispatched => OpenId(m, s) \in b.opens
         /\ /\ s \in Working(m)
            /\ HasTask(m, PhaseId(m, s)) \/ HasTimer(m, PhaseId(m, s))
            /\ PhaseId(m, s) \notin dispatched
            => PhaseId(m, s) \in b.work
<1> DEFINE fresh == Desired(m) \ dispatched
           b == Going(m, u, cs)
<1>1. ASSUME s \in DueInvokes(m), InvokeId(s) \notin dispatched
      PROVE  s \in b.invokes
  <2>1. InvokeId(s) \in fresh /\ InvokeId(s).kind = "invoke" /\ InvokeId(s).at = s
    BY <1>1 DEF Desired, InvokeId
  <2> QED
    BY <2>1 DEF Going
<1>2. ASSUME s \in DueOpens(m), OpenId(m, s) \notin dispatched
      PROVE  OpenId(m, s) \in b.opens
  <2>1. OpenId(m, s) \in fresh /\ OpenId(m, s).kind = "open"
    BY <1>2 DEF Desired, OpenId
  <2> QED
    BY <2>1 DEF Going
<1>3. ASSUME s \in Working(m), HasTask(m, PhaseId(m, s)) \/ HasTimer(m, PhaseId(m, s)),
             PhaseId(m, s) \notin dispatched
      PROVE  PhaseId(m, s) \in b.work
  <2>1. PhaseId(m, s).at = s /\ PhaseId(m, s).kind = "phase"
    BY DEF PhaseId
  <2>2. s \in DuePhases(m)
    BY <1>3, <2>1 DEF DuePhases, Working, HasTask, HasTimer
  <2>3. PhaseId(m, s) \in fresh
    BY <1>3, <2>2 DEF Desired
  <2> QED
    BY <2>1, <2>3 DEF Going
<1> QED
  BY <1>1, <1>2, <1>3

(* What is marked was called for. *)
LEMMA MarkedWasDue ==
  ASSUME NEW p, NEW m, NEW s \in State
  PROVE  /\ InvokeId(s) \in Desired(p) => s \in DueInvokes(p)
         /\ OpenId(m, s) \in Desired(p) => s \in DueOpens(p) /\ OpenId(p, s) = OpenId(m, s)
         /\ PhaseId(m, s) \in Desired(p) => s \in DuePhases(p) /\ PhaseId(p, s) = PhaseId(m, s)
<1>1. \A t : InvokeId(t).kind = "invoke" /\ InvokeId(t).at = t
  BY DEF InvokeId
<1>2. \A v, t : OpenId(v, t).kind = "open" /\ OpenId(v, t).at = t
  BY DEF OpenId
<1>3. \A v, t : PhaseId(v, t).kind = "phase" /\ PhaseId(v, t).at = t
  BY DEF PhaseId
<1> QED
  BY <1>1, <1>2, <1>3 DEF Desired

(* The first output of an attempt asks for everything. *)
LEMMA FirstOutputCarries ==
  ASSUME NEW m, NEW u, NEW cs, dispatched = {}, NEW q, NEW sent, NEW ts, NEW tm
  PROVE  Carried(m, Going(m, u, cs), q, sent, ts, tm)
<1>1. \A s \in State : s \in DueInvokes(m) => s \in Going(m, u, cs).invokes
  BY FreshIsAsked
<1>2. \A s \in State : s \in DueOpens(m) => OpenId(m, s) \in Going(m, u, cs).opens
  BY FreshIsAsked
<1>3. \A s \in Working(m) : HasTask(m, PhaseId(m, s)) \/ HasTimer(m, PhaseId(m, s))
         => PhaseId(m, s) \in Going(m, u, cs).work
  BY FreshIsAsked DEF Working
<1> QED
  BY <1>1, <1>2, <1>3 DEF Carried, Invoking, Opening, TaskCarried, TimerCarried,
     DueInvokes, DueOpens

(* Does a unit answer the message e, if any phase waits for it? *)
Answered(e, u) ==
  \A s \in Working(machine) :
    /\ e.id = PhaseId(machine, s)
    /\ \/ e.kind = Answers(machine, s)
       \/ e.kind = "timer" /\ HasTimer(machine, PhaseId(machine, s))
    => Ends(u, s)

(* An answer takes over from the message it answers. *)
LEMMA AnswerCarries ==
  ASSUME NEW e \in Message, e.kind \in {"work", "verdict", "timer"},
         NEW q, NEW r, Held(q) = {e} \cup Held(r), NEW u, Answered(e, u), NEW cs,
         NEW ts, NEW tm, Carried(machine, NoBatch, q, Held(q), ts, tm)
  PROVE  Carried(machine, Going(machine, u, cs), r, Held(r), ts, tm)
<1> DEFINE b == Going(machine, u, cs)
<1>1. b.unit = u
  BY DEF Going
<1>2. \A x \in Held(q) : x.kind = "ack" => x \in Held(r)
  OBVIOUS
<1>3. /\ NoBatch.invokes = {} /\ NoBatch.opens = {} /\ NoBatch.work = {}
      /\ \A s : ~Ends(NoBatch.unit, s)
  BY DEF NoBatch, NoUnit, Ends
<1> HIDE DEF b
<1>4. \A s : Invoking(NoBatch, q, s) => Invoking(b, r, s)
  BY <1>2, <1>3 DEF Invoking
<1>5. \A s : Opening(machine, NoBatch, q, s) => Opening(machine, b, r, s)
  BY <1>2, <1>3 DEF Opening
<1>6. \A s : Ending(NoBatch, q, s) => Ending(b, r, s)
  BY <1>2, <1>3 DEF Ending
<1>7. ASSUME NEW s \in Working(machine), TaskCarried(machine, NoBatch, q, Held(q), ts, s)
      PROVE  TaskCarried(machine, b, r, Held(r), ts, s)
  <2>1. CASE e.id = PhaseId(machine, s) /\ e.kind = Answers(machine, s)
    <3>1. Ends(u, s)
      BY <2>1 DEF Answered
    <3> QED
      BY <1>1, <3>1 DEF TaskCarried, Ending
  <2>2. CASE ~(e.id = PhaseId(machine, s) /\ e.kind = Answers(machine, s))
    <3>1. Told(Answers(machine, s), PhaseId(machine, s), Held(q))
            => Told(Answers(machine, s), PhaseId(machine, s), Held(r))
      BY <2>2 DEF Told
    <3> QED
      BY <1>3, <1>6, <1>7, <3>1 DEF TaskCarried
  <2> QED
    BY <2>1, <2>2
<1>8. ASSUME NEW s \in Working(machine), HasTimer(machine, PhaseId(machine, s)),
             TimerCarried(machine, NoBatch, q, Held(q), tm, s)
      PROVE  TimerCarried(machine, b, r, Held(r), tm, s)
  <2>1. CASE e.id = PhaseId(machine, s) /\ e.kind = "timer"
    <3>1. Ends(u, s)
      BY <1>8, <2>1 DEF Answered
    <3> QED
      BY <1>1, <3>1 DEF TimerCarried, Ending
  <2>2. CASE ~(e.id = PhaseId(machine, s) /\ e.kind = "timer")
    <3>1. Told("timer", PhaseId(machine, s), Held(q))
            => Told("timer", PhaseId(machine, s), Held(r))
      BY <2>2 DEF Told
    <3> QED
      BY <1>3, <1>6, <1>8, <3>1 DEF TimerCarried
  <2> QED
    BY <2>1, <2>2
<1>9. Carried(machine, b, r, Held(r), ts, tm)
  BY <1>4, <1>5, <1>7, <1>8 DEF Carried
<1> QED
  BY <1>9 DEF b

(* Once the machine has heard of an append, what it called for before and  *)
(* still calls for is carried as before, and the rest is asked for.  An    *)
(* effect id is never used again: what the append began has a record later *)
(* than all the machine knew.                                              *)
LEMMA AckCarries ==
  ASSUME Typed(machine), Placed(machine), dispatched = Desired(machine),
         NEW e \in Message, e.kind = "ack", OfUser(e), Unheard(e),
         ~Rejects(machine, e.unit),
         NEW q, NEW r, Held(q) = {e} \cup Held(r), NEW ts, NEW tm,
         Carried(machine, NoBatch, q, Held(q), ts, tm),
         NEW m, m = ProjectBranch(machine, e.unit, e.base), ~m.failed, NEW cs
  PROVE  Carried(m, Going(m, NoUnit, cs), r, Held(r), ts, tm)
<1> DEFINE b == Going(m, NoUnit, cs)
           u == e.unit
<1>1. /\ u \in Unit /\ Sensible(u) /\ e.base \in Nat \ {0} /\ e.base \in Nat
      /\ u.type = "resolved" => Action[u.at] = "user"
      /\ u.type # "resolved" => Recent(machine, e.base - 1)
  BY MessageType DEF OfUser, Unheard, Own
<1>2. Typed(m)
  BY <1>1, ProjectBranchTyped
<1>3. ASSUME NEW s \in State
      PROVE  /\ machine.pending[s] \in Pending /\ machine.pending[s].seq \in Nat
             /\ m.pending[s] \in Pending /\ m.pending[s].seq \in Nat
  BY <1>2, PendingOf DEF Pending
<1>4. /\ NoBatch.invokes = {} /\ NoBatch.opens = {} /\ NoBatch.work = {}
      /\ \A s : ~Ends(NoBatch.unit, s)
  BY DEF NoBatch, NoUnit, Ends
<1>5. ASSUME NEW s \in DueInvokes(m) PROVE Invoking(b, r, s)
  <2>1. s \in State
    BY DEF DueInvokes
  <2>2. CASE InvokeId(s) \notin dispatched
    BY <2>1, <2>2, FreshIsAsked DEF Invoking
  <2>3. CASE InvokeId(s) \in dispatched
    <3>1. s \in DueInvokes(machine)
      BY <2>1, <2>3, MarkedWasDue
    <3>2. PICK x \in Held(q) : x.kind = "ack" /\ x.unit.type = "invoke" /\ s \in x.unit.group
      BY <1>4, <3>1 DEF Carried, Invoking
    <3>3. x # e
      <4> SUFFICES ASSUME x = e PROVE FALSE
        OBVIOUS
      <4>1. s \in machine.leaves /\ u.type = "invoke" /\ s \in u.group
        BY <3>1, <3>2 DEF DueInvokes
      <4>2. m.pending[s].phase = "running"
        BY <1>1, <4>1, InvokedEntry
      <4> QED
        BY <4>2 DEF DueInvokes
    <3> QED
      BY <3>2, <3>3 DEF Invoking
  <2> QED
    BY <2>2, <2>3
<1>6. ASSUME NEW s \in DueOpens(m) PROVE Opening(m, b, r, s)
  <2>1. s \in State /\ m.pending[s].gate = 0
    BY DEF DueOpens
  <2>2. CASE OpenId(m, s) \notin dispatched
    BY <2>1, <2>2, FreshIsAsked DEF Opening
  <2>3. CASE OpenId(m, s) \in dispatched
    <3>1. s \in DueOpens(machine) /\ OpenId(machine, s) = OpenId(m, s)
      BY <2>1, <2>3, MarkedWasDue
    <3>2. machine.pending[s].seq = m.pending[s].seq
      BY <3>1 DEF OpenId
    <3>3. PICK x \in Held(q) : /\ x.kind = "ack" /\ x.unit.type = "opened"
                              /\ x.unit.at = s /\ x.unit.phase = machine.pending[s].seq
      BY <1>4, <3>1 DEF Carried, Opening
    <3>4. x # e
      <4> SUFFICES ASSUME x = e PROVE FALSE
        OBVIOUS
      <4>1. m.pending[s].gate = e.base
        BY <1>1, <3>3, OpenedEntry
      <4> QED
        BY <1>1, <2>1, <4>1
    <3> QED
      BY <3>2, <3>3, <3>4 DEF Opening
  <2> QED
    BY <2>2, <2>3
<1>7. ASSUME NEW s \in Working(m), PhaseId(m, s) \in dispatched
      PROVE  /\ s \in Working(machine) /\ PhaseId(machine, s) = PhaseId(m, s)
             /\ machine.pending[s].phase = m.pending[s].phase
             /\ ~Ends(u, s)
  <2>1. s \in State /\ m.pending[s].phase # "none"
    BY DEF Working
  <2>2. s \in DuePhases(machine) /\ PhaseId(machine, s) = PhaseId(m, s)
    BY <1>7, <2>1, MarkedWasDue
  <2>3. s \in Working(machine) /\ machine.pending[s].seq = m.pending[s].seq
    BY <2>2 DEF DuePhases, Working, PhaseId
  <2>4. ASSUME u.type # "resolved" PROVE m.pending[s].seq < e.base
    <3>1. machine.pending[s].seq <= e.base - 1
      BY <1>1, <2>1, <2>4 DEF Recent
    <3> QED
      BY <1>1, <1>3, <2>1, <2>3, <3>1
  <2>5. ~Begun(m, u, e.base, s)
    <3> SUFFICES ASSUME Begun(m, u, e.base, s) PROVE FALSE
      OBVIOUS
    <3>1. m.pending[s].seq < e.base /\ m.pending[s].seq >= e.base
      BY <1>1, <2>4, SizeType DEF Begun
    <3> QED
      BY <1>1, <1>3, <2>1, <3>1
  <2>6. m.pending[s] = machine.pending[s]
          \/ m.pending[s] = [machine.pending[s] EXCEPT !.gate = e.base]
    BY <1>1, <2>1, <2>5, ProjectedEntry, NoPendingType DEF Becomes, Untouched
  <2>7. machine.pending[s].phase = m.pending[s].phase
    BY <1>3, <2>1, <2>6 DEF Pending
  <2>8. ~Ends(u, s)
    <3> SUFFICES ASSUME Ends(u, s) PROVE FALSE
      OBVIOUS
    <3>1. s \in machine.leaves
      BY <2>1, <2>3 DEF Placed, Working
    <3>2. m.pending[s].seq >= e.base
      BY <1>1, <2>1, <3>1, EndedPhase, NoPendingType
    <3>3. m.pending[s].seq < e.base
      BY <2>4 DEF Ends
    <3> QED
      BY <1>1, <1>3, <2>1, <3>2, <3>3
  <2> QED
    BY <2>2, <2>3, <2>7, <2>8
<1> DEFINE mine(s) == HasTask(m, PhaseId(m, s)) \/ HasTimer(m, PhaseId(m, s))
<1>8. ASSUME NEW s \in Working(m), PhaseId(m, s) \notin dispatched, mine(s)
      PROVE  PhaseId(m, s) \in b.work
  BY <1>8, FreshIsAsked DEF Working
<1>9. ASSUME NEW s \in Working(m), PhaseId(m, s) \in dispatched
      PROVE  /\ Ending(NoBatch, q, s) => Ending(b, r, s)
             /\ HasTask(m, PhaseId(m, s)) = HasTask(machine, PhaseId(machine, s))
             /\ HasTimer(m, PhaseId(m, s)) = HasTimer(machine, PhaseId(machine, s))
             /\ Answers(m, s) = Answers(machine, s)
  <2>1. Ending(NoBatch, q, s) => Ending(b, r, s)
    BY <1>4, <1>7, <1>9 DEF Ending
  <2>2. PhaseId(m, s).at = s /\ PhaseId(machine, s).at = s
    BY DEF PhaseId
  <2> QED
    BY <1>7, <1>9, <2>1, <2>2 DEF HasTask, HasTimer, Answers
<1>10. \A k, id : k # "ack" /\ Told(k, id, Held(q)) => Told(k, id, Held(r))
  BY DEF Told
<1>11. ASSUME NEW s \in Working(m), HasTask(m, PhaseId(m, s))
       PROVE  TaskCarried(m, b, r, Held(r), ts, s)
  <2>1. CASE PhaseId(m, s) \notin dispatched
    BY <1>8, <1>11, <2>1 DEF TaskCarried
  <2>2. CASE PhaseId(m, s) \in dispatched
    <3>1. TaskCarried(machine, NoBatch, q, Held(q), ts, s)
      BY <1>7, <1>9, <1>11, <2>2 DEF Carried
    <3>2. AtWork(machine, s, ts) => AtWork(m, s, ts)
      BY <1>7, <2>2 DEF AtWork
    <3>3. Answers(m, s) # "ack"
      BY DEF Answers
    <3>4. Told(Answers(machine, s), PhaseId(machine, s), Held(q))
            => Told(Answers(m, s), PhaseId(m, s), Held(r))
      BY <1>7, <1>9, <1>10, <2>2, <3>3
    <3> QED
      BY <1>4, <1>9, <2>2, <3>1, <3>2, <3>4 DEF TaskCarried
  <2> QED
    BY <2>1, <2>2
<1>12. ASSUME NEW s \in Working(m), HasTimer(m, PhaseId(m, s))
       PROVE  TimerCarried(m, b, r, Held(r), tm, s)
  <2>1. CASE PhaseId(m, s) \notin dispatched
    BY <1>8, <1>12, <2>1 DEF TimerCarried
  <2>2. CASE PhaseId(m, s) \in dispatched
    <3>1. TimerCarried(machine, NoBatch, q, Held(q), tm, s)
      BY <1>7, <1>9, <1>12, <2>2 DEF Carried
    <3>2. Told("timer", PhaseId(machine, s), Held(q)) => Told("timer", PhaseId(m, s), Held(r))
      BY <1>7, <1>10, <2>2
    <3>3. PhaseId(machine, s) = PhaseId(m, s)
      BY <1>7, <2>2
    <3> QED
      BY <1>4, <1>9, <2>2, <3>1, <3>2, <3>3 DEF TimerCarried
  <2> QED
    BY <2>1, <2>2
<1> HIDE DEF b
<1>13. Carried(m, b, r, Held(r), ts, tm)
  BY <1>5, <1>6, <1>11, <1>12 DEF Carried
<1> QED
  BY <1>13 DEF b

-----------------------------------------------------------------------------
(* The steps of a branch that runs on. *)
Runs == loop \in Live /\ ~draining

(* What goes on after an Advance is well-kept: tasks, queues and batch. *)
LEMMA AdvanceKeeps ==
  ASSUME ~draining, loop' \in Live, NEW m, NEW asked \in Batch, NEW q \in Seq(Message),
         Advance(m, asked, q), tasks \subseteq Task, Stops(tasks)
  PROVE  /\ loop' = "ready" => batch' = NoBatch /\ buffer' = <<>>
         /\ Stops(tasks')
         /\ loop' = "busy" => /\ batch' = [asked EXCEPT !.cancels = @ \ Outgoing(asked)]
                              /\ queue' = q /\ buffer' = buffer
         /\ loop' = "ready" => queue' = q \o buffer /\ ~asked.last
<1> DEFINE cancelled == AfterCancel(tasks, Outgoing(asked))
           started == {TaskFor(m, id) : id \in {i \in asked.work : HasTask(m, i)}}
<1>1. Stops(cancelled)
  BY AfterCancelStops
<1>2. Stops(started)
  <2>1. \A id \in asked.work : HasTask(m, id) =>
          /\ TaskFor(m, id).stage # "stopping"
          /\ TaskFor(m, id).kind = "guard" => TaskFor(m, id).stage = "live"
    BY StartedTask DEF Batch
  <2> QED
    BY <2>1 DEF Stops
<1>3. tasks' \in {cancelled, cancelled \cup started}
  BY AdvanceCases DEF Live, Ended
<1> HIDE DEF cancelled, started
<1>4. Stops(tasks')
  BY <1>1, <1>2, <1>3 DEF Stops
<1> QED
  BY <1>4, AdvanceCases DEF Live, Ended

(* An output of the machine. *)
LEMMA OutputRuns ==
  ASSUME WorkInv, Runs, loop = "ready", queue # <<>>, loop' \in Live,
         NEW m, Typed(m), Placed(m), Recent(m, durable.seq),
         \A e \in Held(Tail(queue)) : Own(e) => Recent(m, e.base - 1),
         NEW u, u = NoUnit \/ Appendable(u), NEW cs \in SUBSET State, Output(m, u, cs),
         \/ cs = {}
         \/ u = NoUnit /\ cs \cap Working(m) = {}
         \/ u.type = "timer_fired" /\ cs = {u.at},
         ~Over(m) => Carried(m, Going(m, u, cs), Tail(queue), Held(Tail(queue)), tasks, timers)
  PROVE  RunningOK'
<1> DEFINE q == Tail(queue)
<1>1. /\ queue \in Seq(Message) /\ q \in Seq(Message) /\ tasks \subseteq Task
      /\ RunningOK /\ buffer = <<>> /\ ~draining
  BY DEF WorkInv, Runs, RunningOK, LogInv, TypeInv, RuntimeInv
<1>2. PICK asked \in Batch :
           /\ Advance(m, asked, q)
           /\ asked.last = Over(m)
           /\ ~Over(m) => asked = Going(m, u, cs) /\ dispatched' = Desired(m)
           /\ machine' = m /\ UNCHANGED <<log, error, runner>>
  BY OutputCases
<1>3. /\ Held(q) \subseteq Held(queue) /\ Ordered(q) /\ NoStart(q) /\ StartFirst(q) /\ ~Fresh(q)
  BY <1>1, HeldTail, OrderTail, BegunQueue DEF RunningOK, AcksInOrder, Marks
<1> HIDE DEF q
<1>4. q \o buffer = q
  BY <1>1
<1>5. queue' = q /\ buffer' = <<>>
  BY <1>1, <1>2, <1>4, AdvanceKeeps DEF RunningOK, Live
<1>6. /\ loop' = "ready" => batch' = NoBatch /\ buffer' = <<>>
      /\ Stops(tasks')
      /\ loop' = "busy" => batch' = [asked EXCEPT !.cancels = @ \ Outgoing(asked)]
      /\ loop' = "ready" => ~asked.last
  BY <1>1, <1>2, AdvanceKeeps DEF RunningOK
<1>7. durable' = durable
  BY <1>2 DEF log
<1>8. AcksInOrder'
  <2>1. \A e \in Held(q) : OfUser(e) /\ (Own(e) => Until(e) <= durable.seq)
    BY <1>1, <1>3 DEF RunningOK, AcksInOrder, Unheard
  <2>2. \A e \in Held(q) : Own(e) => Recent(machine', e.base - 1)
    BY <1>2 DEF q
  <2>3. Held(buffer') = {}
    BY <1>5, HeldOf, <1>1
  <2> QED
    BY <1>3, <1>5, <1>7, <2>1, <2>2, <2>3 DEF AcksInOrder, Unheard
<1>9. batch'.last \/ ~Over(m)
  <2>1. CASE loop' = "busy"
    <3>1. batch'.last = asked.last
      BY <1>6, <2>1 DEF Batch
    <3> QED
      BY <1>2, <3>1
  <2>2. CASE loop' = "ready"
    BY <1>2, <1>6, <2>2
  <2> QED
    BY <2>1, <2>2 DEF Live
<1>10. Marks'
  BY <1>2, <1>3, <1>5, <1>9, EmptyQueue DEF Marks
<1>11. CancelsOwed'
  <2> SUFFICES ASSUME loop' = "busy", ~batch'.last
               PROVE  \/ batch'.cancels = {}
                      \/ batch'.unit.type = "timer_fired" /\ batch'.cancels = {batch'.unit.at}
    BY DEF CancelsOwed
  <2>1. asked = Going(m, u, cs) /\ asked.unit = u /\ asked.cancels = cs
    BY <1>2, <1>9 DEF Going
  <2>2. batch'.unit = u /\ batch'.cancels = cs \ Outgoing(asked)
    BY <1>6, <2>1 DEF Batch
  <2>3. u = NoUnit => Outgoing(asked) = cs
    BY <2>1 DEF Outgoing
  <2>4. u # NoUnit => Outgoing(asked) = {}
    BY <2>1 DEF Outgoing
  <2> QED
    BY <2>2, <2>3, <2>4
<1>12. ASSUME ~batch'.last
       PROVE  Carried(m, batch', queue', Held(queue') \cup Held(buffer'), tasks', timers')
  <2>1. asked = Going(m, u, cs) /\ asked.unit = u /\ asked.cancels = cs /\ ~asked.last
    BY <1>2, <1>9, <1>12 DEF Going
  <2>2. Held(buffer) = {} /\ buffer \in Seq(Message)
    BY <1>1, HeldOf
  <2>3. Carried(m, asked, q, Held(q) \cup Held(buffer), tasks, timers)
    BY <1>9, <1>12, <2>1, <2>2 DEF q
  <2>4. Outgoing(asked) \cap Working(m) = {}
    <3>1. NoUnit.type # "timer_fired"
      BY DEF NoUnit
    <3> QED
      BY <2>1, <3>1 DEF Outgoing
  <2> QED
    BY <1>1, <1>2, <2>1, <2>2, <2>3, <2>4, AdvanceCarries DEF RunningOK
<1>13. Placed(machine') /\ Recent(machine', durable'.seq) /\ machine' = m
  BY <1>2, <1>7
<1> QED
  BY <1>6, <1>8, <1>10, <1>11, <1>12, <1>13 DEF RunningOK

(* What the machine finds when it takes its next event. *)
LEMMA TakingNext ==
  ASSUME WorkInv, Runs, loop = "ready", queue # <<>>
  PROVE  /\ Typed(machine) /\ Placed(machine) /\ Recent(machine, durable.seq)
         /\ durable.seq \in Nat
         /\ Head(queue) \in Message /\ Held(queue) = {Head(queue)} \cup Held(Tail(queue))
         /\ Unheard(Head(queue)) /\ OfUser(Head(queue))
         /\ \A e \in Held(Tail(queue)) : Own(e) =>
              /\ Recent(machine, e.base - 1)
              /\ Own(Head(queue)) => Until(Head(queue)) < e.base
         /\ IF Head(queue).kind = "start" THEN dispatched = {}
            ELSE /\ dispatched = Desired(machine)
                 /\ Carried(machine, NoBatch, queue, Held(queue), tasks, timers)
<1>1. /\ queue \in Seq(Message) /\ Typed(machine) /\ RunningOK /\ durable.seq \in Nat
      /\ batch = NoBatch /\ buffer = <<>>
  BY DEF WorkInv, Runs, RunningOK, LogInv, TypeInv, RuntimeInv, Typed, BranchProjection
<1>2. /\ Head(queue) \in Message /\ Held(queue) = {Head(queue)} \cup Held(Tail(queue))
  BY <1>1, HeldTail
<1>3. Held(buffer) = {} /\ NoBatch.last = FALSE
  BY <1>1, HeldOf DEF NoBatch
<1>4. Held(queue) \cup Held(buffer) = Held(queue)
  BY <1>3
<1>5. IF Head(queue).kind = "start" THEN dispatched = {}
      ELSE /\ dispatched = Desired(machine)
           /\ Carried(machine, NoBatch, queue, Held(queue), tasks, timers)
  BY <1>1, <1>3, <1>4 DEF RunningOK, Marks, Fresh
<1>6. \A e \in Held(queue) : Unheard(e) /\ OfUser(e)
  BY <1>1 DEF RunningOK, AcksInOrder
<1>7. Own(Head(queue)) => \A e \in Held(Tail(queue)) : Own(e) => Until(Head(queue)) < e.base
  BY <1>1, OrderTail DEF RunningOK, AcksInOrder, Marks
<1> QED
  BY <1>1, <1>2, <1>5, <1>6, <1>7 DEF RunningOK, Unheard

(* An answer, a verdict or a deadline is taken. *)
LEMMA AnswerRuns ==
  ASSUME WorkInv, Runs, loop = "ready", queue # <<>>, loop' \in Live,
         Head(queue).kind \in {"work", "verdict", "timer"},
         NEW u, u = NoUnit \/ Appendable(u), NEW cs \in SUBSET State,
         Answered(Head(queue), u), Output(machine, u, cs),
         cs = {} \/ (u.type = "timer_fired" /\ cs = {u.at})
  PROVE  RunningOK'
<1>1. Carried(machine, Going(machine, u, cs), Tail(queue), Held(Tail(queue)), tasks, timers)
  BY TakingNext, AnswerCarries
<1> QED
  BY <1>1, TakingNext, OutputRuns

(* The answer to a message that answers a phase of its own. *)
LEMMA CurrentAnswered ==
  ASSUME Typed(machine), NEW e, e.kind \in {"work", "verdict", "timer"}, NEW u,
         LET phase == IF e.kind = "verdict" THEN "validating" ELSE "running" IN
         Current(machine, e.id, phase) => Ends(u, e.id.at)
  PROVE  Answered(e, u)
<1> SUFFICES ASSUME NEW s \in Working(machine), e.id = PhaseId(machine, s),
                    \/ e.kind = Answers(machine, s)
                    \/ e.kind = "timer" /\ HasTimer(machine, PhaseId(machine, s))
             PROVE  Ends(u, s)
  BY DEF Answered
<1>1. e.id.at = s
  BY DEF PhaseId
<1>2. s \in State /\ machine.pending[s].phase \in {"running", "validating"}
  BY PendingOf DEF Working, Pending
<1>3. machine.pending[s].phase = IF e.kind = "verdict" THEN "validating" ELSE "running"
  BY <1>1, <1>2 DEF Answers, HasTimer
<1> QED
  BY <1>1, <1>3 DEF Current

(* What the machine hears began no later than the log and what it will hear *)
(* of next.                                                                 *)
LEMMA AckRecent ==
  ASSUME WorkInv, Runs, loop = "ready", queue # <<>>, Head(queue).kind = "ack",
         ~Rejects(machine, Head(queue).unit),
         NEW m, m = ProjectBranch(machine, Head(queue).unit, Head(queue).base)
  PROVE  /\ Recent(m, durable.seq)
         /\ \A x \in Held(Tail(queue)) : Own(x) => Recent(m, x.base - 1)
<1> DEFINE e == Head(queue)
<1>1. /\ Typed(machine) /\ Recent(machine, durable.seq) /\ durable.seq \in Nat
      /\ e \in Message /\ Held(queue) = {e} \cup Held(Tail(queue))
      /\ Unheard(e) /\ OfUser(e)
      /\ \A x \in Held(Tail(queue)) : Own(x) =>
           /\ Recent(machine, x.base - 1)
           /\ Own(e) => Until(e) < x.base
  BY TakingNext
<1>2. /\ e.unit \in Unit /\ Sensible(e.unit) /\ e.base \in Nat \ {0}
      /\ e.unit.type = "resolved" => Action[e.unit.at] = "user"
      /\ e.unit.type # "resolved" => Own(e)
      /\ Own(e) => e.base + Size(e.unit) - 1 = Until(e)
      /\ Size(e.unit) \in Nat
  BY <1>1, MessageType, SizeType DEF OfUser, Own, Until
<1>3. ASSUME NEW n \in Nat, Recent(machine, n), Own(e) => Until(e) <= n
      PROVE  Recent(m, n)
  BY <1>1, <1>2, <1>3, ProjectBranchRecent
<1>4. Recent(m, durable.seq)
  BY <1>1, <1>3 DEF Unheard
<1>5. ASSUME NEW x \in Held(Tail(queue)), Own(x)
      PROVE  Recent(m, x.base - 1)
  <2>1. x \in Message /\ x.base \in Nat \ {0}
    <3>1. x \in Message
      BY <1>1, HeldOf DEF WorkInv, LogInv, TypeInv, RuntimeInv
    <3> QED
      BY <1>5, <3>1, MessageType DEF Own
  <2>2. Until(e) \in Int
    BY <1>2 DEF Until
  <2>3. Own(e) => Until(e) <= x.base - 1
    BY <1>1, <1>5, <2>1, <2>2
  <2> QED
    BY <1>1, <1>3, <1>5, <2>1, <2>3
<1> QED
  BY <1>4, <1>5

(* The machine's steps. *)
LEMMA MachineRuns ==
  ASSUME WorkInv, Runs, loop' \in Live, Machine
  PROVE  RunningOK'
<1> DEFINE e == Head(queue)
<1>1. loop = "ready" /\ queue # <<>>
  BY DEF Machine, StepStart, StepWork, StepTimer, StepVerdict, StepAck, Awaiting
<1>2. /\ Typed(machine) /\ Placed(machine) /\ Recent(machine, durable.seq) /\ durable.seq \in Nat
      /\ e \in Message /\ Held(queue) = {e} \cup Held(Tail(queue))
      /\ Unheard(e) /\ OfUser(e)
      /\ \A x \in Held(Tail(queue)) : Own(x) =>
           /\ Recent(machine, x.base - 1)
           /\ Own(e) => Until(e) < x.base
      /\ IF e.kind = "start" THEN dispatched = {}
         ELSE /\ dispatched = Desired(machine)
              /\ Carried(machine, NoBatch, queue, Held(queue), tasks, timers)
  BY <1>1, TakingNext
<1>3. CASE StepStart
  <2>1. dispatched = {} /\ Output(machine, NoUnit, {})
    BY <1>2, <1>3 DEF StepStart, Awaiting
  <2>2. Carried(machine, Going(machine, NoUnit, {}), Tail(queue), Held(Tail(queue)), tasks, timers)
    BY <2>1, FirstOutputCarries
  <2> QED
    BY <1>1, <1>2, <2>1, <2>2, OutputRuns
<1>4. CASE StepWork
  <2>1. e.kind = "work" /\ e.id.at \in State
        /\ e.result \in AllowedEvents(e.id.at) \cup {"retryable", "fatal"}
    BY <1>2, <1>4, MessageType DEF StepWork, Awaiting, Id
  <2>2. CASE Current(machine, e.id, "running")
    <3> DEFINE u == OutcomeUnit(e.id.at, e.result)
    <3>1. Appendable(u) /\ Output(machine, u, {})
      BY <1>2, <1>4, <2>1, <2>2, OutcomeAppendable DEF StepWork
    <3>2. Ends(u, e.id.at)
      BY DEF OutcomeUnit, RecoveryDecision, Ends
    <3> HIDE DEF u
    <3>3. Answered(e, u)
      BY <1>2, <2>1, <3>2, CurrentAnswered
    <3> QED
      BY <1>1, <2>1, <3>1, <3>3, AnswerRuns
  <2>3. CASE ~Current(machine, e.id, "running")
    <3>1. Output(machine, NoUnit, {})
      BY <1>4, <2>3 DEF StepWork
    <3>2. Answered(e, NoUnit)
      BY <1>2, <2>1, <2>3, CurrentAnswered
    <3> QED
      BY <1>1, <2>1, <3>1, <3>2, AnswerRuns
  <2> QED
    BY <2>2, <2>3
<1>5. CASE StepTimer
  <2>1. e.kind = "timer" /\ e.id.at \in State /\ After[e.id.at] # None
    BY <1>2, <1>5, MessageType DEF StepTimer, Awaiting, Id
  <2>2. CASE Current(machine, e.id, "running")
    <3> DEFINE u == [type |-> "timer_fired", at |-> e.id.at]
    <3>1. Appendable(u) /\ Output(machine, u, {e.id.at})
      BY <1>5, <2>1, <2>2 DEF StepTimer, Appendable, Unit, Sensible
    <3>2. Ends(u, e.id.at) /\ u.type = "timer_fired" /\ u.at = e.id.at
      BY DEF Ends
    <3> HIDE DEF u
    <3>3. Answered(e, u)
      BY <1>2, <2>1, <3>2, CurrentAnswered
    <3> QED
      BY <1>1, <2>1, <3>1, <3>2, <3>3, AnswerRuns
  <2>3. CASE ~Current(machine, e.id, "running")
    <3>1. Output(machine, NoUnit, {})
      BY <1>5, <2>3 DEF StepTimer
    <3>2. Answered(e, NoUnit)
      BY <1>2, <2>1, <2>3, CurrentAnswered
    <3> QED
      BY <1>1, <2>1, <3>1, <3>2, AnswerRuns
  <2> QED
    BY <2>2, <2>3
<1>6. CASE StepVerdict
  <2>1. e.kind = "verdict" /\ e.id.at \in State /\ e.ok \in BOOLEAN
    BY <1>2, <1>6, MessageType DEF StepVerdict, Awaiting, Id
  <2> DEFINE u == VerdictUnit(e.id.at, e.ok)
  <2>2. Current(machine, e.id, "validating")
    BY <1>6 DEF StepVerdict, Throw, Live
  <2>3. Appendable(u) /\ Output(machine, u, {})
    BY <1>2, <1>6, <2>1, <2>2, VerdictAppendable DEF StepVerdict, Current
  <2>4. Ends(u, e.id.at)
    BY DEF VerdictUnit, Ends
  <2> HIDE DEF u
  <2>5. Answered(e, u)
    BY <1>2, <2>1, <2>4, CurrentAnswered
  <2> QED
    BY <1>1, <2>1, <2>3, <2>5, AnswerRuns
<1>7. CASE StepAck
  <2> DEFINE m == ProjectBranch(machine, e.unit, e.base)
             cs == Abandoned(machine, e.unit, e.base)
  <2>1. /\ e.kind = "ack" /\ e.unit \in Unit /\ Sensible(e.unit) /\ e.base \in Nat \ {0}
    BY <1>2, <1>7, MessageType DEF StepAck, Awaiting
  <2>2. ~Rejects(machine, e.unit) /\ Output(m, NoUnit, cs)
    BY <1>7 DEF StepAck, Throw, Live
  <2>3. Typed(m) /\ Placed(m)
    BY <1>2, <2>1, <2>2, ProjectBranchTyped, ProjectBranchPlaced
  <2>4. cs \in SUBSET State /\ cs \cap Working(m) = {}
    BY DEF Abandoned, Working
  <2>5. /\ Recent(m, durable.seq)
        /\ \A x \in Held(Tail(queue)) : Own(x) => Recent(m, x.base - 1)
    BY <1>1, <2>1, <2>2, AckRecent
  <2>6. ASSUME ~Over(m)
        PROVE  Carried(m, Going(m, NoUnit, cs), Tail(queue), Held(Tail(queue)), tasks, timers)
    <3>1. ~m.failed
      BY <2>6 DEF Over
    <3> HIDE DEF cs
    <3> QED
      BY <1>2, <2>1, <2>2, <3>1, AckCarries
  <2> HIDE DEF m, cs
  <2> QED
    BY <1>1, <2>2, <2>3, <2>4, <2>5, <2>6, OutputRuns
<1> QED
  BY <1>3, <1>4, <1>5, <1>6, <1>7 DEF Machine

(* An append takes over from the batch what it will settle. *)
LEMMA CommitCarries ==
  ASSUME NEW b, NEW q \in Seq(Message), NEW buf, NEW ts, NEW tm,
         Carried(machine, b, q, Held(q) \cup buf, ts, tm),
         NEW e \in Message, e.kind = "ack", NEW rest, rest.work = b.work,
         \A s : Ends(b.unit, s) => Ends(e.unit, s),
         \A s \in b.invokes \ rest.invokes : e.unit.type = "invoke" /\ s \in e.unit.group,
         \A id \in b.opens \ rest.opens :
            e.unit.type = "opened" /\ e.unit.at = id.at /\ e.unit.phase = id.seq
  PROVE  Carried(machine, rest, Append(q, e), Held(Append(q, e)) \cup buf, ts, tm)
<1> DEFINE r == Append(q, e)
<1>1. Held(r) = Held(q) \cup {e}
  BY HeldAppend
<1>2. Carried(machine, b, r, Held(r) \cup buf, ts, tm)
  <2>1. Held(q) \subseteq Held(r) /\ Held(q) \cup buf \subseteq Held(r) \cup buf
    BY <1>1
  <2> HIDE DEF r
  <2> QED
    BY <2>1, MoreCarries
<1> HIDE DEF r
<1>3. e \in Held(r)
  BY <1>1
<1>4. \A s : Invoking(b, r, s) => Invoking(rest, r, s)
  BY <1>3 DEF Invoking
<1>5. \A s : Opening(machine, b, r, s) => Opening(machine, rest, r, s)
  BY <1>3 DEF Opening, OpenId
<1>6. \A s : Ending(b, r, s) => Ending(rest, r, s)
  BY <1>3 DEF Ending
<1>7. \A s : TaskCarried(machine, b, r, Held(r) \cup buf, ts, s)
               => TaskCarried(machine, rest, r, Held(r) \cup buf, ts, s)
  BY <1>6 DEF TaskCarried
<1>8. \A s : TimerCarried(machine, b, r, Held(r) \cup buf, tm, s)
               => TimerCarried(machine, rest, r, Held(r) \cup buf, tm, s)
  BY <1>6 DEF TimerCarried
<1>9. Carried(machine, rest, r, Held(r) \cup buf, ts, tm)
  BY <1>2, <1>4, <1>5, <1>7, <1>8 DEF Carried
<1> QED
  BY <1>9 DEF r

(* A commit of a part of the batch. *)
LEMMA CommitRuns ==
  ASSUME WorkInv, Runs, loop = "busy", loop' \in Live,
         NEW u, Appendable(u), NEW rest \in Batch, Commit(u, rest),
         rest.unit = NoUnit, rest.last = batch.last, rest.work = batch.work,
         \A s : Ends(batch.unit, s) => Ends(u, s),
         \A s \in batch.invokes \ rest.invokes : u.type = "invoke" /\ s \in u.group,
         \A id \in batch.opens \ rest.opens :
            u.type = "opened" /\ u.at = id.at /\ u.phase = id.seq,
         ~batch.last => \A s \in rest.cancels : Ends(u, s)
  PROVE  RunningOK'
<1> DEFINE base == durable.seq + 1
           ack == [kind |-> "ack", unit |-> u, base |-> base]
           q == Append(queue, ack)
<1>1. /\ queue \in Seq(Message) /\ buffer \in Seq(Message) /\ tasks \subseteq Task
      /\ RunningOK /\ ~draining /\ Typed(durable) /\ durable.seq \in Nat
      /\ batch \in Batch
  BY DEF WorkInv, Runs, LogInv, TypeInv, RuntimeInv, Typed, BranchProjection
<1>2. u \in Unit /\ Sensible(u) /\ u.type # "resolved" /\ Size(u) \in Nat
      /\ base \in Nat \ {0}
  BY <1>1, SizeType DEF Appendable
<1>3. ~Rejects(durable, u)
  BY DEF Commit, Throw, Live
<1>4. /\ durable' = ProjectBranch(durable, u, base)
      /\ Advance(machine, rest, q)
      /\ machine' = machine /\ dispatched' = dispatched
  BY <1>1, <1>3 DEF Commit
<1>5. ack \in Message /\ ack.kind = "ack" /\ ack.unit = u /\ ack.base = base
  BY <1>2, AckMessage
<1>6. durable'.seq = Latest(durable.seq, base + Size(u) - 1)
  <2>1. Apply(durable, u, base) \in BranchProjection
    BY <1>1, <1>2, <1>3, ApplyTyped DEF Typed
  <2> QED
    BY <1>4, <2>1 DEF ProjectBranch, BranchProjection
<1>7. durable'.seq \in Nat /\ durable.seq <= durable'.seq /\ base + Size(u) - 1 <= durable'.seq
  BY <1>1, <1>2, <1>6 DEF Latest
<1> HIDE DEF ack
<1>8. \A x \in Held(queue) : Own(x) => Until(x) \in Int /\ Until(x) < ack.base
  <2> SUFFICES ASSUME NEW x \in Held(queue), Own(x)
               PROVE  Until(x) \in Int /\ Until(x) < base
    BY <1>5
  <2>1. x \in Message
    BY <1>1, HeldOf
  <2>2. x.base \in Nat /\ Size(x.unit) \in Nat
    BY <2>1, MessageType, SizeType DEF Own
  <2>3. Until(x) <= durable.seq
    BY <1>1 DEF RunningOK, AcksInOrder, Unheard
  <2> QED
    BY <1>1, <2>2, <2>3 DEF Until
<1>9. ~Fresh(queue) /\ StartFirst(queue) /\ Ordered(queue)
  BY <1>1 DEF RunningOK, Marks, AcksInOrder
<1>10. /\ Ordered(q) /\ StartFirst(q) /\ ~Fresh(q) /\ q \in Seq(Message)
       /\ Held(q) = Held(queue) \cup {ack}
  BY <1>1, <1>5, <1>8, <1>9, OrderAppend, HeldAppend
<1> HIDE DEF q
<1>11. NoStart(q)
  BY <1>10, BegunQueue
<1>12. /\ loop' = "ready" => batch' = NoBatch /\ buffer' = <<>>
       /\ Stops(tasks')
       /\ loop' = "busy" => /\ batch' = [rest EXCEPT !.cancels = @ \ Outgoing(rest)]
                            /\ queue' = q /\ buffer' = buffer
       /\ loop' = "ready" => queue' = q \o buffer /\ ~rest.last
  BY <1>1, <1>4, <1>10, AdvanceKeeps DEF RunningOK
<1>13. NoStart(buffer) /\ \A e \in Held(buffer) : ~Own(e) /\ OfUser(e)
  BY <1>1 DEF RunningOK, Marks, AcksInOrder
<1>14. /\ Ordered(queue') /\ StartFirst(queue') /\ ~Fresh(queue')
       /\ Held(queue') \subseteq Held(q) \cup Held(buffer)
       /\ Held(buffer') \subseteq Held(buffer)
  <2>1. CASE loop' = "busy"
    BY <1>10, <1>12, <2>1
  <2>2. CASE loop' = "ready"
    <3>1. queue' = q \o buffer /\ buffer' = <<>>
      BY <1>12, <2>2
    <3>2. /\ Ordered(q \o buffer) /\ StartFirst(q \o buffer) /\ NoStart(q \o buffer)
          /\ q \o buffer \in Seq(Message)
      BY <1>1, <1>10, <1>11, <1>13, OrderConcat
    <3>3. Held(q \o buffer) = Held(q) \cup Held(buffer) /\ Held(<<>>) = {}
      BY <1>1, <1>10, HeldConcat, HeldOf
    <3> QED
      BY <3>1, <3>2, <3>3, BegunQueue
  <2> QED
    BY <2>1, <2>2 DEF Live
<1>15. AcksInOrder'
  <2>1. \A e \in Held(queue) : Unheard(e) /\ OfUser(e)
    BY <1>1 DEF RunningOK, AcksInOrder
  <2>2. OfUser(ack) /\ Until(ack) <= durable'.seq /\ Recent(machine, ack.base - 1)
    <3>1. Recent(machine, durable.seq)
      BY <1>1 DEF RunningOK
    <3>2. ack.base - 1 = durable.seq
      BY <1>1, <1>5
    <3> QED
      BY <1>2, <1>5, <1>7, <3>1, <3>2 DEF OfUser, Until
  <2>3. ASSUME NEW e \in Held(queue')
        PROVE  /\ OfUser(e)
               /\ Own(e) => Until(e) <= durable'.seq /\ Recent(machine', e.base - 1)
    <3>1. CASE e \in Held(queue)
      <4>1. Own(e) => Until(e) \in Int
        BY <1>8, <3>1
      <4> QED
        BY <1>1, <1>4, <1>7, <2>1, <3>1, <4>1 DEF Unheard
    <3>2. CASE e = ack
      BY <1>4, <2>2, <3>2
    <3>3. CASE e \in Held(buffer)
      BY <1>13, <3>3
    <3> QED
      BY <1>10, <1>14, <3>1, <3>2, <3>3
  <2>4. \A e \in Held(buffer') : ~Own(e) /\ OfUser(e)
    BY <1>13, <1>14
  <2> QED
    BY <1>14, <2>3, <2>4 DEF AcksInOrder, Unheard
<1>16. batch'.last = batch.last \/ (loop' = "ready" /\ ~batch.last)
  <2>1. CASE loop' = "busy"
    BY <1>12, <2>1 DEF Batch
  <2>2. CASE loop' = "ready"
    BY <1>12, <2>2
  <2> QED
    BY <2>1, <2>2 DEF Live
<1>17. Marks'
  <2>1. NoStart(buffer')
    BY <1>13, <1>14 DEF NoStart
  <2>2. batch.last \/ dispatched = Desired(machine)
    BY <1>1, <1>9 DEF RunningOK, Marks
  <2> QED
    BY <1>4, <1>14, <1>16, <2>1, <2>2 DEF Marks
<1>18. CancelsOwed'
  <2> SUFFICES ASSUME loop' = "busy" PROVE batch'.cancels = {}
    BY DEF CancelsOwed
  <2>1. Outgoing(rest) = rest.cancels
    BY DEF Outgoing
  <2> QED
    BY <1>12, <2>1 DEF Batch
<1>19. ASSUME ~batch'.last
       PROVE  Carried(machine', batch', queue', Held(queue') \cup Held(buffer'), tasks', timers')
  <2>1. ~batch.last /\ ~rest.last
    BY <1>16, <1>19
  <2>2. Carried(machine, batch, queue, Held(queue) \cup Held(buffer), tasks, timers)
    BY <1>1, <1>9, <2>1 DEF RunningOK
  <2>3. Carried(machine, rest, q, Held(q) \cup Held(buffer), tasks, timers)
    BY <1>1, <1>5, <2>2, CommitCarries DEF q
  <2>4. \A s \in Outgoing(rest) \cap Working(machine) : Ending(rest, q, s)
    <3>1. Outgoing(rest) = rest.cancels
      BY DEF Outgoing
    <3>2. ack \in Held(q)
      BY <1>10
    <3> QED
      BY <1>5, <2>1, <3>1, <3>2 DEF Ending
  <2>5. Stops(tasks)
    BY <1>1 DEF RunningOK
  <2> QED
    BY <1>1, <1>4, <1>10, <2>1, <2>3, <2>4, <2>5, AdvanceCarries
<1>20. Placed(machine') /\ Recent(machine', durable'.seq)
  <2>1. Placed(machine) /\ Recent(machine, durable.seq)
    BY <1>1 DEF RunningOK
  <2>2. \A s \in State : machine.pending[s].seq \in Nat
    BY PendingOf DEF WorkInv, LogInv, TypeInv, Pending
  <2>3. Recent(machine, durable'.seq)
    BY <1>1, <1>7, <2>1, <2>2 DEF Recent
  <2> QED
    BY <1>4, <2>1, <2>3
<1> QED
  BY <1>12, <1>15, <1>17, <1>18, <1>19, <1>20 DEF RunningOK

(* The writer's steps. *)
LEMMA WriterRuns ==
  ASSUME WorkInv, Runs, loop' \in Live, Writer
  PROVE  RunningOK'
<1>1. /\ loop = "busy" /\ batch \in Batch
      /\ batch.unit # NoUnit => Appendable(batch.unit)
      /\ RunningOK
  BY DEF WorkInv, Runs, LogInv, TypeInv, RuntimeInv, Batch, Appendable, Writer,
         CommitResponse, CommitInvokes, CommitOpen
<1>2. /\ ~batch.last => batch.cancels = {} \/ (batch.unit.type = "timer_fired"
                                                 /\ batch.cancels = {batch.unit.at})
      /\ \A s : ~Ends(NoUnit, s)
      /\ NoUnit.type = "none"
  BY <1>1 DEF RunningOK, CancelsOwed, Ends, NoUnit
<1>3. CASE CommitResponse
  <2> DEFINE rest == [batch EXCEPT !.unit = NoUnit]
  <2>1. /\ rest \in Batch /\ rest.unit = NoUnit /\ rest.last = batch.last
        /\ rest.work = batch.work /\ rest.invokes = batch.invokes
        /\ rest.opens = batch.opens /\ rest.cancels = batch.cancels
    BY <1>1 DEF Batch
  <2>2. Appendable(batch.unit) /\ Commit(batch.unit, rest)
    BY <1>1, <1>3 DEF CommitResponse
  <2>3. ~batch.last => \A s \in rest.cancels : Ends(batch.unit, s)
    BY <1>2, <2>1 DEF Ends
  <2> HIDE DEF rest
  <2> QED
    BY <1>1, <2>1, <2>2, <2>3, CommitRuns
<1>4. CASE CommitInvokes
  <2> DEFINE rest == [batch EXCEPT !.invokes = {}]
             u == [type |-> "invoke", group |-> batch.invokes]
  <2>1. /\ rest \in Batch /\ rest.unit = NoUnit /\ rest.last = batch.last
        /\ rest.work = batch.work /\ rest.invokes = {}
        /\ rest.opens = batch.opens /\ rest.cancels = batch.cancels
    BY <1>1, <1>4 DEF Batch, CommitInvokes
  <2>2. Appendable(u) /\ u.type = "invoke" /\ u.group = batch.invokes
    BY <1>1 DEF Batch, Appendable, Unit, Sensible
  <2>3. Commit(u, rest) /\ batch.unit = NoUnit
    BY <1>4 DEF CommitInvokes
  <2>4. ~batch.last => \A s \in rest.cancels : Ends(u, s)
    BY <1>2, <2>1, <2>3
  <2> HIDE DEF rest, u
  <2> QED
    BY <1>1, <1>2, <2>1, <2>2, <2>3, <2>4, CommitRuns
<1>5. CASE CommitOpen
  <2>1. PICK id \in batch.opens :
          Commit([type |-> "opened", at |-> id.at, phase |-> id.seq],
                 [batch EXCEPT !.opens = @ \ {id}])
    BY <1>5 DEF CommitOpen
  <2> DEFINE rest == [batch EXCEPT !.opens = @ \ {id}]
             u == [type |-> "opened", at |-> id.at, phase |-> id.seq]
  <2>2. /\ rest \in Batch /\ rest.unit = NoUnit /\ rest.last = batch.last
        /\ rest.work = batch.work /\ rest.invokes = batch.invokes
        /\ rest.opens = batch.opens \ {id} /\ rest.cancels = batch.cancels
    BY <1>1, <1>5 DEF Batch, CommitOpen
  <2>3. Appendable(u) /\ u.type = "opened" /\ u.at = id.at /\ u.phase = id.seq
    BY <1>1 DEF Batch, Id, Appendable, Unit, Sensible
  <2>4. Commit(u, rest) /\ batch.unit = NoUnit
    BY <1>5, <2>1 DEF CommitOpen
  <2>5. ~batch.last => \A s \in rest.cancels : Ends(u, s)
    BY <1>2, <2>2, <2>4
  <2> HIDE DEF rest, u
  <2> QED
    BY <1>1, <1>2, <2>2, <2>3, <2>4, <2>5, CommitRuns
<1> QED
  BY <1>3, <1>4, <1>5 DEF Writer

-----------------------------------------------------------------------------
(* What executors, deadlines and users do to a running branch: queues grow *)
(* by messages that are not the machine's own acknowledgements,            *)
QueuesGrow ==
  /\ Ordered(queue') /\ StartFirst(queue') /\ Fresh(queue') = Fresh(queue)
  /\ NoStart(buffer') /\ (loop = "ready" => buffer' = <<>>)
  /\ Held(queue) \subseteq Held(queue') /\ Held(buffer) \subseteq Held(buffer')
  /\ \A e \in Held(queue') : OfUser(e) /\ (Own(e) => e \in Held(queue))
  /\ \A e \in Held(buffer') : ~Own(e) /\ OfUser(e)

(* and whatever is no longer at work or armed has sent one, unless it was  *)
(* told to stop. *)
Sent == Held(queue') \cup Held(buffer')
HandedOn ==
  /\ \A t \in tasks : ~t.told =>
       \/ \E v \in tasks' : v.id = t.id /\ v.kind = t.kind /\ ~v.told
       \/ Told(IF t.kind = "guard" THEN "verdict" ELSE "work", t.id, Sent)
  /\ \A id \in timers : id \in timers' \/ Told("timer", id, Sent)

LEMMA SendGrows ==
  ASSUME WorkInv, Runs, NEW e \in Message, e.kind # "start", ~Own(e), OfUser(e), Send(e)
  PROVE  QueuesGrow /\ e \in Sent
<1>1. /\ queue \in Seq(Message) /\ buffer \in Seq(Message) /\ RunningOK /\ ~draining
      /\ loop \in {"ready", "busy"}
  BY DEF WorkInv, Runs, LogInv, TypeInv, RuntimeInv, Live
<1>2. /\ Ordered(queue) /\ StartFirst(queue) /\ NoStart(buffer)
      /\ \A x \in Held(queue) : OfUser(x)
      /\ \A x \in Held(buffer) : ~Own(x) /\ OfUser(x)
      /\ loop = "ready" => buffer = <<>>
  BY <1>1 DEF RunningOK, AcksInOrder, Marks
<1>3. CASE loop = "ready"
  <2>1. queue' = Append(queue, e) /\ buffer' = buffer
    BY <1>1, <1>3 DEF Send
  <2>2. Held(Append(queue, e)) = Held(queue) \cup {e}
    BY <1>1, HeldAppend
  <2>3. /\ Ordered(Append(queue, e)) /\ StartFirst(Append(queue, e))
        /\ Fresh(Append(queue, e)) = Fresh(queue)
    BY <1>1, <1>2, OrderAppend
  <2> QED
    BY <1>2, <1>3, <2>1, <2>2, <2>3 DEF QueuesGrow, Sent
<1>4. CASE loop = "busy"
  <2>1. queue' = queue /\ buffer' = Append(buffer, e)
    BY <1>1, <1>4 DEF Send
  <2>2. Held(Append(buffer, e)) = Held(buffer) \cup {e}
    BY <1>1, HeldAppend
  <2>3. NoStart(Append(buffer, e))
    BY <1>2, <2>2 DEF NoStart
  <2> QED
    BY <1>2, <1>4, <2>1, <2>2, <2>3 DEF QueuesGrow, Sent
<1> QED
  BY <1>1, <1>3, <1>4

LEMMA SilenceGrows ==
  ASSUME WorkInv, Runs, UNCHANGED <<queue, buffer>>
  PROVE  QueuesGrow
BY DEF WorkInv, Runs, RunningOK, AcksInOrder, Marks, QueuesGrow

(* Nothing is lost on the way from a task or a deadline to the machine. *)
LEMMA HandedOnCarries ==
  ASSUME NEW p, NEW b, Carried(p, b, queue, Held(queue) \cup Held(buffer), tasks, timers),
         QueuesGrow, HandedOn
  PROVE  Carried(p, b, queue', Held(queue') \cup Held(buffer'), tasks', timers')
<1> DEFINE old == Held(queue) \cup Held(buffer)
<1>1. Held(queue) \subseteq Held(queue') /\ old \subseteq Sent
  BY DEF QueuesGrow, Sent
<1>2. Carried(p, b, queue', Sent, tasks, timers)
  <2> HIDE DEF old
  <2>1. Carried(p, b, queue, old, tasks, timers)
    BY DEF old
  <2> QED
    BY <1>1, <2>1, MoreCarries
<1>3. ASSUME NEW s, AtWork(p, s, tasks)
      PROVE  AtWork(p, s, tasks') \/ Told(Answers(p, s), PhaseId(p, s), Sent)
  <2>1. PICK t \in tasks : /\ t.id = PhaseId(p, s) /\ ~t.told
                          /\ (t.kind = "guard") = (p.pending[s].phase = "validating")
    BY <1>3 DEF AtWork
  <2>2. CASE \E v \in tasks' : v.id = t.id /\ v.kind = t.kind /\ ~v.told
    BY <2>1, <2>2 DEF AtWork
  <2>3. CASE Told(IF t.kind = "guard" THEN "verdict" ELSE "work", t.id, Sent)
    <3>1. Answers(p, s) = IF t.kind = "guard" THEN "verdict" ELSE "work"
      BY <2>1 DEF Answers
    <3> QED
      BY <2>1, <2>3, <3>1
  <2> QED
    BY <2>1, <2>2, <2>3 DEF HandedOn
<1>4. \A id \in timers : id \in timers' \/ Told("timer", id, Sent)
  BY DEF HandedOn
<1>5. \A s : TaskCarried(p, b, queue', Sent, tasks, s)
               => TaskCarried(p, b, queue', Sent, tasks', s)
  BY <1>3 DEF TaskCarried
<1>6. \A s : TimerCarried(p, b, queue', Sent, timers, s)
               => TimerCarried(p, b, queue', Sent, timers', s)
  BY <1>4 DEF TimerCarried
<1>7. Carried(p, b, queue', Sent, tasks', timers')
  BY <1>2, <1>5, <1>6 DEF Carried
<1> QED
  BY <1>7 DEF Sent

(* Such a step leaves a running branch as it should be. *)
LEMMA GrowingRuns ==
  ASSUME WorkInv, Runs, QueuesGrow, HandedOn, Stops(tasks'),
         UNCHANGED <<machine, dispatched, loop, batch>>,
         durable'.seq \in Nat, durable.seq <= durable'.seq
  PROVE  RunningOK'
<1>1. /\ queue \in Seq(Message) /\ RunningOK /\ durable.seq \in Nat /\ Typed(machine)
  BY DEF WorkInv, Runs, LogInv, TypeInv, RuntimeInv, Typed, BranchProjection
<1>2. AcksInOrder'
  <2>1. ASSUME NEW e \in Held(queue'), Own(e)
        PROVE  Until(e) <= durable'.seq /\ Recent(machine', e.base - 1)
    <3>1. e \in Held(queue) /\ Unheard(e)
      BY <1>1, <2>1 DEF QueuesGrow, RunningOK, AcksInOrder
    <3>2. e \in Message
      BY <1>1, <3>1, HeldOf
    <3>3. e.base \in Nat /\ Size(e.unit) \in Nat
      BY <2>1, <3>2, MessageType, SizeType DEF Own
    <3>4. Until(e) \in Int
      BY <3>3 DEF Until
    <3>5. Until(e) <= durable.seq /\ Recent(machine, e.base - 1)
      BY <2>1, <3>1 DEF Unheard
    <3> QED
      BY <1>1, <3>4, <3>5
  <2> QED
    BY <2>1 DEF AcksInOrder, Unheard, QueuesGrow
<1>3. Marks'
  BY <1>1 DEF RunningOK, Marks, QueuesGrow
<1>4. CancelsOwed'
  BY <1>1 DEF RunningOK, CancelsOwed
<1>5. Recent(machine', durable'.seq)
  <2>1. \A s \in State : machine.pending[s].seq \in Nat
    BY <1>1, PendingOf DEF Pending
  <2> QED
    BY <1>1, <2>1 DEF RunningOK, Recent
<1>6. ASSUME ~Fresh(queue'), ~batch'.last
      PROVE  Carried(machine', batch', queue', Held(queue') \cup Held(buffer'), tasks', timers')
  <2>1. Carried(machine, batch, queue, Held(queue) \cup Held(buffer), tasks, timers)
    BY <1>1, <1>6 DEF RunningOK, QueuesGrow
  <2>2. Carried(machine, batch, queue', Held(queue') \cup Held(buffer'), tasks', timers')
    BY <2>1, HandedOnCarries
  <2> QED
    BY <2>2
<1>7. Placed(machine') /\ (loop' = "ready" => batch' = NoBatch /\ buffer' = <<>>)
  BY <1>1 DEF RunningOK, QueuesGrow
<1> QED
  BY <1>2, <1>3, <1>4, <1>5, <1>6, <1>7 DEF RunningOK

(* Agents, scripts, imports and validators. *)
LEMMA WorkRuns ==
  ASSUME WorkInv, Runs, Work
  PROVE  RunningOK'
<1>1. PICK t \in tasks : EndDelay(t) \/ Begin(t) \/ Answer(t) \/ Verdict(t)
  BY DEF Work
<1>2. /\ tasks \subseteq Task /\ t \in Task /\ Stops(tasks) /\ durable.seq \in Nat
      /\ t.id \in Id
  BY DEF WorkInv, Runs, RunningOK, LogInv, TypeInv, RuntimeInv, Typed, BranchProjection, Task
<1>3. UNCHANGED <<log, machine, dispatched, loop, batch, timers>>
  BY <1>1 DEF EndDelay, Begin, Answer, Verdict
<1>4. durable'.seq \in Nat /\ durable.seq <= durable'.seq
  BY <1>2, <1>3 DEF log
<1>5. ASSUME NEW stage \in {"preparing", "live"}, t.stage \in {"delayed", "preparing"},
             tasks' = (tasks \ {t}) \cup {[t EXCEPT !.stage = stage]},
             UNCHANGED <<queue, buffer>>
      PROVE  RunningOK'
  <2> DEFINE v == [t EXCEPT !.stage = stage]
  <2>1. v.stage = stage /\ v.kind = t.kind /\ v.id = t.id /\ v.told = t.told
    BY <1>2 DEF Task
  <2> HIDE DEF v
  <2>2. tasks' = (tasks \ {t}) \cup {v}
    BY <1>5 DEF v
  <2>3. t.kind # "guard"
    BY <1>2, <1>5 DEF Stops
  <2>4. Stops(tasks')
    BY <1>2, <1>5, <2>1, <2>2, <2>3 DEF Stops
  <2>5. HandedOn
    BY <1>3, <2>1, <2>2 DEF HandedOn
  <2> QED
    BY <1>3, <1>4, <1>5, <2>4, <2>5, SilenceGrows, GrowingRuns
<1>6. ASSUME NEW e \in Message, e.kind = IF t.kind = "guard" THEN "verdict" ELSE "work",
             e.id = t.id, Send(e), tasks' = tasks \ {t}
      PROVE  RunningOK'
  <2>1. QueuesGrow /\ e \in Sent
    BY <1>6, SendGrows DEF Own, OfUser
  <2>2. HandedOn
    BY <1>3, <1>6, <2>1 DEF HandedOn, Told
  <2>3. Stops(tasks')
    BY <1>2, <1>6 DEF Stops
  <2> QED
    BY <1>3, <1>4, <2>1, <2>2, <2>3, GrowingRuns
<1>7. CASE EndDelay(t)
  BY <1>5, <1>7 DEF EndDelay
<1>8. CASE Begin(t)
  <2> DEFINE e == [kind |-> "work", id |-> t.id, result |-> "fatal"]
  <2>1. t.kind # "guard"
    BY <1>2, <1>8 DEF Begin, Stops
  <2>2. CASE tasks' = tasks \ {t} /\ Send(e)
    <3>1. e \in Message /\ e.kind = "work" /\ e.id = t.id
      BY <1>2, WorkMessage
    <3> HIDE DEF e
    <3> QED
      BY <1>6, <2>1, <2>2, <3>1
  <2>3. CASE tasks' = (tasks \ {t}) \cup {[t EXCEPT !.stage = "live"]}
             /\ UNCHANGED <<queue, buffer>>
    BY <1>5, <1>8, <2>3 DEF Begin
  <2> QED
    BY <1>8, <2>2, <2>3 DEF Begin
<1>9. CASE Answer(t)
  <2>1. tasks' = tasks \ {t} /\ t.kind # "guard"
    BY <1>9 DEF Answer
  <2>2. CASE t.stage = "stopping" /\ t.kind = "agent"
    <3>1. UNCHANGED <<queue, buffer>> /\ t.told
      BY <1>2, <1>9, <2>2 DEF Answer, Stops
    <3>2. HandedOn
      BY <1>3, <2>1, <3>1 DEF HandedOn
    <3>3. Stops(tasks')
      BY <1>2, <2>1 DEF Stops
    <3> QED
      BY <1>3, <1>4, <3>1, <3>2, <3>3, SilenceGrows, GrowingRuns
  <2>3. CASE ~(t.stage = "stopping" /\ t.kind = "agent")
    <3>1. PICK r \in {"fatal"} \cup Outcomes(t) :
            Send([kind |-> "work", id |-> t.id, result |-> r])
      BY <1>9, <2>3 DEF Answer
    <3> DEFINE e == [kind |-> "work", id |-> t.id, result |-> r]
    <3>2. r \in AllowedEvents(t.id.at) \cup {"retryable", "fatal"}
      BY ExecutionAssumption DEF Outcomes
    <3>3. e \in Message /\ e.kind = "work" /\ e.id = t.id
      BY <1>2, <3>2, WorkMessage
    <3> HIDE DEF e
    <3>4. Send(e)
      BY <3>1 DEF e
    <3> QED
      BY <1>6, <2>1, <3>3, <3>4
  <2> QED
    BY <2>2, <2>3
<1>10. CASE Verdict(t)
  <2>1. PICK ok \in BOOLEAN : Send([kind |-> "verdict", id |-> t.id, ok |-> ok])
    BY <1>10 DEF Verdict
  <2> DEFINE e == [kind |-> "verdict", id |-> t.id, ok |-> ok]
  <2>2. e \in Message /\ e.kind = "verdict" /\ e.id = t.id
    BY <1>2, VerdictMessage
  <2>3. tasks' = tasks \ {t} /\ t.kind = "guard"
    BY <1>10 DEF Verdict
  <2> HIDE DEF e
  <2>4. Send(e)
    BY <2>1 DEF e
  <2> QED
    BY <1>6, <2>2, <2>3, <2>4
<1> QED
  BY <1>1, <1>7, <1>8, <1>9, <1>10

(* Deadlines. *)
LEMMA ClockRuns ==
  ASSUME WorkInv, Runs, Clock
  PROVE  RunningOK'
<1>1. PICK id \in timers : TimerFires(id)
  BY DEF Clock
<1> DEFINE e == [kind |-> "timer", id |-> id]
<1>2. e \in Message /\ e.kind = "timer" /\ e.id = id /\ Send(e)
  BY <1>1, TimerMessage DEF WorkInv, LogInv, TypeInv, RuntimeInv, TimerFires
<1>3. /\ timers' = timers \ {id} /\ UNCHANGED <<log, machine, dispatched, loop, batch, tasks>>
  BY <1>1 DEF TimerFires
<1> HIDE DEF e
<1>4. QueuesGrow /\ e \in Sent
  BY <1>2, SendGrows DEF Own, OfUser
<1>5. HandedOn
  BY <1>2, <1>3, <1>4 DEF HandedOn, Told
<1>6. Stops(tasks') /\ durable'.seq \in Nat /\ durable.seq <= durable'.seq
  BY <1>3 DEF WorkInv, Runs, RunningOK, LogInv, TypeInv, Typed, BranchProjection, log
<1> QED
  BY <1>3, <1>4, <1>5, <1>6, GrowingRuns

(* Users and hosts. *)
LEMMA UserRuns ==
  ASSUME WorkInv, Runs, User
  PROVE  RunningOK'
<1>1. PICK g \in durable.gates, v \in Event : Respond(g, v)
  BY DEF User
<1> DEFINE u == [type |-> "resolved", at |-> g.at, gate |-> g.seq, event |-> v]
           base == durable.seq + 1
           e == [kind |-> "ack", unit |-> u, base |-> base]
<1>2. /\ Typed(durable) /\ durable.seq \in Nat /\ base \in Nat \ {0}
      /\ g.at \in State /\ g.seq \in Nat
      /\ Sound(durable, durable.seq) /\ Stops(tasks)
  BY DEF WorkInv, Runs, RunningOK, LogInv, TypeInv, Typed, BranchProjection
<1>3. u \in Unit /\ u.type = "resolved" /\ u.at = g.at /\ u.event = v
  BY <1>2 DEF Unit
<1>4. ~Rejects(durable, u) /\ ~durable.failed /\ durable' = ProjectBranch(durable, u, base)
      /\ UNCHANGED <<machine, dispatched, loop, batch, tasks, timers>>
      /\ Send(e)
  BY <1>1 DEF Respond, Runs
<1>5. Sensible(u)
  BY <1>3, <1>4 DEF Rejects, Sensible
<1>6. Action[g.at] = "user"
  <2>1. g \in {[seq |-> durable.pending[s].gate, at |-> s] : s \in Opened(durable)}
    BY <1>2, <1>4 DEF Sound
  <2> QED
    BY <1>2, <2>1 DEF Sound, EntrySound, Opened
<1> HIDE DEF u
<1>7. e \in Message /\ e.kind = "ack" /\ e.unit = u
  BY <1>2, <1>3, <1>5, AckMessage
<1>8. durable'.seq = Latest(durable.seq, base + Size(u) - 1) /\ Size(u) \in Nat
  <2>1. Apply(durable, u, base) \in BranchProjection
    BY <1>2, <1>3, <1>4, <1>5, ApplyTyped DEF Typed
  <2> QED
    BY <1>3, <1>4, <2>1, SizeType DEF ProjectBranch, BranchProjection
<1>9. durable'.seq \in Nat /\ durable.seq <= durable'.seq
  BY <1>2, <1>8 DEF Latest
<1> HIDE DEF e
<1>10. QueuesGrow
  BY <1>3, <1>4, <1>6, <1>7, SendGrows DEF Own, OfUser
<1>11. HandedOn /\ Stops(tasks')
  BY <1>2, <1>4 DEF HandedOn
<1> QED
  BY <1>4, <1>9, <1>10, <1>11, GrowingRuns

-----------------------------------------------------------------------------
(* A branch as an attempt begins. *)
Started ==
  /\ loop = "ready" /\ batch = NoBatch /\ buffer = <<>> /\ tasks = {} /\ dispatched = {}
  /\ queue = <<[kind |-> "start"]>>
  /\ Placed(machine) /\ Recent(machine, durable.seq)

LEMMA StartedRuns == Started => RunningOK
<1> SUFFICES ASSUME Started PROVE RunningOK
  OBVIOUS
<1> DEFINE q == <<[kind |-> "start"]>>
<1>1. q # <<>> /\ Head(q).kind = "start" /\ DOMAIN q = {1} /\ q[1].kind = "start"
  OBVIOUS
<1>2. queue = q /\ Held(buffer) = {}
  BY DEF Started, Held
<1> HIDE DEF q
<1>3. Fresh(q) /\ StartFirst(q) /\ Ordered(q) /\ \A e \in Held(q) : ~Own(e) /\ OfUser(e)
  BY <1>1 DEF Fresh, StartFirst, Ordered, Held, Own, OfUser
<1>4. AcksInOrder /\ Marks
  BY <1>2, <1>3 DEF AcksInOrder, Unheard, Marks, NoStart, Started
<1>5. CancelsOwed /\ Stops(tasks)
  BY DEF Started, CancelsOwed, Stops
<1> QED
  BY <1>2, <1>3, <1>4, <1>5 DEF Started, RunningOK

(* The log's own phases began at its records. *)
LEMMA StepRecent ==
  ASSUME LogInv, Recent(durable, durable.seq), [Next]_vars
  PROVE  Recent(durable', durable'.seq)
<1>1. CASE durable' = durable
  BY <1>1
<1>2. ASSUME NEW u \in Unit, Appends(u)
      PROVE  Recent(durable', durable'.seq)
  <2> DEFINE base == durable.seq + 1
             n == Latest(durable.seq, base + Size(u) - 1)
  <2>1. /\ Typed(durable) /\ Sound(durable, durable.seq) /\ durable.seq \in Nat
        /\ Sensible(u) /\ ~Rejects(durable, u) /\ base \in Nat /\ Size(u) \in Nat
        /\ durable' = ProjectBranch(durable, u, base)
    BY <1>2, SizeType DEF LogInv, TypeInv, Typed, BranchProjection, Appends
  <2>2. durable'.seq = n
    <3>1. Apply(durable, u, base) \in BranchProjection
      BY <2>1, ApplyTyped DEF Typed
    <3> QED
      BY <2>1, <3>1 DEF ProjectBranch, BranchProjection
  <2>3. n \in Nat /\ durable.seq <= n /\ base + Size(u) - 1 <= n
    BY <2>1 DEF Latest
  <2>4. ASSUME u.type = "resolved" PROVE Action[u.at] = "user"
    <3>1. [seq |-> u.gate, at |-> u.at] \in durable.gates /\ ~durable.failed
      BY <1>2, <2>1, <2>4 DEF Rejects, Appends
    <3>2. PICK s \in Opened(durable) :
            [seq |-> u.gate, at |-> u.at] = [seq |-> durable.pending[s].gate, at |-> s]
      BY <2>1, <3>1 DEF Sound
    <3>3. u.at = s
      BY <3>2
    <3> QED
      BY <2>1, <3>3 DEF Sound, EntrySound, Opened
  <2> HIDE DEF n
  <2>5. Recent(durable, n)
    <3>1. \A s \in State : durable.pending[s].seq \in Nat
      BY <2>1, PendingOf DEF Pending
    <3> QED
      BY <2>1, <2>3, <3>1 DEF Recent
  <2> HIDE DEF base
  <2>6. Recent(ProjectBranch(durable, u, base), n)
    BY <2>1, <2>3, <2>4, <2>5, ProjectBranchRecent
  <2> QED
    BY <2>1, <2>2, <2>6
<1> QED
  BY <1>1, <1>2, StepAppends DEF LogInv

(* A loop that is down or threw left nothing behind. *)
LEMMA StepLeavesNothing ==
  ASSUME WorkInv, [Next]_vars, loop' \in {"down", "threw"}
  PROVE  batch' = NoBatch /\ buffer' = <<>> /\ tasks' = {}
<1>1. CASE Machine
  <2>1. ASSUME NEW m, NEW u, NEW cs, Output(m, u, cs) PROVE FALSE
    BY <2>1 DEF Output, Advance
  <2>2. ASSUME NEW cause, Throw(cause) PROVE batch' = NoBatch /\ buffer' = <<>> /\ tasks' = {}
    BY <2>2 DEF Throw, Disposed
  <2> QED
    BY <1>1, <2>1, <2>2 DEF Machine, StepStart, StepWork, StepTimer, StepVerdict, StepAck
<1>2. CASE Writer
  <2>1. ASSUME NEW u, NEW rest, Commit(u, rest)
        PROVE  batch' = NoBatch /\ buffer' = <<>> /\ tasks' = {}
    <3>1. CASE Rejects(durable, u)
      BY <2>1, <3>1 DEF Commit, Throw, Disposed
    <3>2. CASE ~Rejects(durable, u)
      BY <2>1, <3>2 DEF Commit, Advance
    <3> QED
      BY <3>1, <3>2
  <2> QED
    BY <1>2, <2>1 DEF Writer, CommitResponse, CommitInvokes, CommitOpen
<1>3. CASE Work
  <2>1. loop' = loop /\ tasks # {}
    BY <1>3 DEF Work, EndDelay, Begin, Answer, Verdict
  <2> QED
    BY <2>1 DEF WorkInv
<1>4. CASE Clock
  BY <1>4 DEF Clock, TimerFires, Send, WorkInv
<1>5. CASE User
  BY <1>5 DEF User, Respond, WorkInv, Live
<1>6. CASE BeginDrain \/ Drained \/ Crash \/ Restarted
  BY <1>6 DEF BeginDrain, Drained, Crash, Restarted, Disposed, Live
<1>7. CASE Finished \/ UNCHANGED vars
  BY <1>7 DEF Finished, vars, WorkInv
<1> QED
  BY <1>1, <1>2, <1>3, <1>4, <1>5, <1>6, <1>7 DEF Next

(* A branch that runs after a step is as it should be. *)
LEMMA StepRuns ==
  ASSUME WorkInv, [Next]_vars, loop' \in Live, ~draining'
  PROVE  RunningOK'
<1>1. CASE Machine
  <2>1. loop = "ready" /\ draining' = draining
    BY <1>1 DEF Machine, StepStart, StepWork, StepTimer, StepVerdict, StepAck, Awaiting,
                Output, runner
  <2> QED
    BY <1>1, <2>1, MachineRuns DEF Runs, Live
<1>2. CASE Writer
  <2>1. loop = "busy" /\ draining' = draining
    BY <1>2 DEF Writer, CommitResponse, CommitInvokes, CommitOpen, Commit, runner
  <2> QED
    BY <1>2, <2>1, WriterRuns DEF Runs, Live
<1>3. CASE Work
  <2>1. loop' = loop /\ draining' = draining
    BY <1>3 DEF Work, EndDelay, Begin, Answer, Verdict, runner
  <2> QED
    BY <1>3, <2>1, WorkRuns DEF Runs
<1>4. CASE Clock
  BY <1>4, ClockRuns DEF Clock, TimerFires, Runs, runner
<1>5. CASE User
  BY <1>5, UserRuns DEF User, Respond, Runs, runner
<1>6. CASE BeginDrain \/ Drained \/ Crash
  BY <1>6 DEF BeginDrain, Drained, Crash, Live
<1>7. CASE Restarted
  <2>1. batch = NoBatch /\ buffer = <<>> /\ tasks = {}
    BY <1>7 DEF Restarted, WorkInv
  <2>2. /\ loop' = "ready" /\ machine' = durable /\ dispatched' = {}
        /\ queue' = <<[kind |-> "start"]>>
        /\ UNCHANGED <<durable, buffer, batch, tasks>>
    BY <1>7 DEF Restarted, Live, log
  <2>3. Placed(durable) /\ Recent(durable, durable.seq)
    BY DEF WorkInv, LogInv, Sound, EntrySound, Placed
  <2>4. Started'
    BY <2>1, <2>2, <2>3 DEF Started
  <2>5. Started' => RunningOK'
    BY StartedRuns, PTL
  <2> QED
    BY <2>4, <2>5
<1>8. CASE Finished \/ UNCHANGED vars
  <2>1. UNCHANGED vars
    BY <1>8 DEF Finished
  <2>2. RunningOK
    BY <2>1 DEF WorkInv, vars
  <2> QED
    BY <2>1, <2>2 DEF vars, RunningOK, AcksInOrder, Unheard, Marks, CancelsOwed
<1> QED
  BY <1>1, <1>2, <1>3, <1>4, <1>5, <1>6, <1>7, <1>8 DEF Next

(* The inductive invariant holds throughout. *)
LEMMA SpecWorkInv == Spec => []WorkInv
<1>1. Init => WorkInv
  <2> SUFFICES ASSUME Init PROVE WorkInv
    OBVIOUS
  <2>1. \A s \in State : durable.pending[s] = NoPending /\ machine.pending[s] = NoPending
    BY DEF Init, EmptyProjection
  <2>2. durable.seq = 0 /\ NoPending.seq = 0 /\ NoPending.phase = "none"
    BY DEF Init, EmptyProjection, NoPending
  <2>3. Started
    BY <2>1, <2>2 DEF Init, Started, Placed, Recent
  <2>4. Recent(durable, durable.seq)
    BY <2>1, <2>2 DEF Recent
  <2>5. loop = "ready"
    BY DEF Init
  <2> QED
    BY <2>3, <2>4, <2>5, InitLogInv, StartedRuns DEF WorkInv
<1>2. WorkInv /\ [Next]_vars => WorkInv'
  <2> SUFFICES ASSUME WorkInv, [Next]_vars PROVE WorkInv'
    OBVIOUS
  <2>1. LogInv' /\ Recent(durable', durable'.seq)
    BY NextLogInv, StepRecent DEF WorkInv
  <2> QED
    BY <2>1, StepLeavesNothing, StepRuns DEF WorkInv
<1> QED
  BY <1>1, <1>2, PTL DEF Spec

(* No work is lost: when the loop is idle, everything the chart calls for  *)
(* is under way, whatever was appended, answered, cancelled, drained or    *)
(* restarted before, and in whatever order the machine heard of it         *)
(* (createMachineOutput and its dispatched markers, performRunEffects,     *)
(* chart_runtime's send).                                                  *)
THEOREM SpecNoWorkIsLost == Spec => []NoWorkIsLost
<1>1. WorkInv => NoWorkIsLost
  <2> SUFFICES ASSUME WorkInv, Idle PROVE NoWorkIsLost
    BY DEF NoWorkIsLost
  <2>1. /\ RunningOK /\ batch = NoBatch /\ queue = <<>> /\ buffer = <<>>
    BY DEF WorkInv, Idle, Live, RunningOK
  <2>2. Held(queue) = {} /\ Held(buffer) = {} /\ ~Fresh(queue)
    BY <2>1, EmptyQueue DEF Held
  <2>3. /\ ~NoBatch.last /\ NoBatch.invokes = {} /\ NoBatch.opens = {} /\ NoBatch.work = {}
        /\ \A s : ~Ends(NoBatch.unit, s)
    BY DEF NoBatch, NoUnit, Ends
  <2>4. Carried(machine, NoBatch, queue, {}, tasks, timers)
    <3>1. Held(queue) \cup Held(buffer) = {}
      BY <2>2
    <3>2. Carried(machine, batch, queue, Held(queue) \cup Held(buffer), tasks, timers)
      BY <2>1, <2>2, <2>3 DEF RunningOK
    <3> QED
      BY <2>1, <3>1, <3>2
  <2>5. \A s : ~Invoking(NoBatch, queue, s) /\ ~Opening(machine, NoBatch, queue, s)
               /\ ~Ending(NoBatch, queue, s)
    BY <2>2, <2>3 DEF Invoking, Opening, Ending
  <2>6. \A s : TaskCarried(machine, NoBatch, queue, {}, tasks, s) => AtWork(machine, s, tasks)
    BY <2>3, <2>5 DEF TaskCarried, Told
  <2>7. \A s : TimerCarried(machine, NoBatch, queue, {}, timers, s)
                 => PhaseId(machine, s) \in timers
    BY <2>3, <2>5 DEF TimerCarried, Told
  <2>8. DueInvokes(machine) = {} /\ DueOpens(machine) = {}
    BY <2>4, <2>5 DEF Carried
  <2>9. \A s \in Working(machine) :
          /\ HasTask(machine, PhaseId(machine, s)) => AtWork(machine, s, tasks)
          /\ HasTimer(machine, PhaseId(machine, s)) => PhaseId(machine, s) \in timers
    BY <2>4, <2>6, <2>7 DEF Carried
  <2> QED
    BY <2>8, <2>9 DEF NoWorkIsLost, AtWork
<1> QED
  BY <1>1, SpecWorkInv, PTL

-----------------------------------------------------------------------------
(* The machine as a reader of the log.  p is what the machine knows, d the *)
(* log, and h[i] what it knows when it has heard the first i messages: the *)
(* records of the log are all on their way, once each and in order.  That  *)
(* nothing happens between two acknowledgements is said for any two        *)
(* messages, and not only for neighbours, so that it needs no induction.   *)
Hears(p, e) == IF e.kind = "ack" THEN ProjectBranch(p, e.unit, e.base) ELSE p
Deaf(q, i, j) == \A k \in (i + 1) .. j : q[k].kind # "ack"
Leads(p, q, d) ==
  \E h : /\ h[0] = p /\ h[Len(q)] = d
         /\ \A i \in 1 .. Len(q) : h[i] = Hears(h[i - 1], q[i])
         /\ \A i, j \in 0 .. Len(q) : i <= j /\ Deaf(q, i, j) => h[i] = h[j]

(* The machine hears of the next message. *)
LEMMA LeadsTail ==
  ASSUME NEW p, NEW q \in Seq(Message), NEW d, q # <<>>, Leads(p, q, d)
  PROVE  Leads(Hears(p, Head(q)), Tail(q), d)
<1> DEFINE r == Tail(q)
<1>1. /\ Len(r) = Len(q) - 1 /\ Len(q) \in Nat \ {0} /\ Head(q) = q[1]
      /\ \A i \in 1 .. Len(r) : r[i] = q[i + 1]
  OBVIOUS
<1>2. PICK h :
        /\ h[0] = p /\ h[Len(q)] = d
        /\ \A i \in 1 .. Len(q) : h[i] = Hears(h[i - 1], q[i])
        /\ \A i, j \in 0 .. Len(q) : i <= j /\ Deaf(q, i, j) => h[i] = h[j]
  BY DEF Leads
<1> HIDE DEF r
<1> DEFINE g == [i \in 0 .. Len(r) |-> h[i + 1]]
<1>3. \A i \in 0 .. Len(r) : g[i] = h[i + 1]
  OBVIOUS
<1> HIDE DEF g
<1>4. g[0] = Hears(p, Head(q)) /\ g[Len(r)] = d
  <2>1. h[1] = Hears(h[0], q[1]) /\ 0 \in 0 .. Len(r) /\ Len(r) \in 0 .. Len(r)
        /\ Len(r) + 1 = Len(q)
    BY <1>1, <1>2
  <2> QED
    BY <1>1, <1>2, <1>3, <2>1
<1>5. ASSUME NEW i \in 1 .. Len(r) PROVE g[i] = Hears(g[i - 1], r[i])
  <2>1. /\ i \in 0 .. Len(r) /\ i - 1 \in 0 .. Len(r) /\ i + 1 \in 1 .. Len(q)
        /\ (i - 1) + 1 = i /\ (i + 1) - 1 = i
    BY <1>1
  <2>2. h[i + 1] = Hears(h[i], q[i + 1])
    BY <1>2, <2>1
  <2> QED
    BY <1>1, <1>3, <2>1, <2>2
<1>6. ASSUME NEW i \in 0 .. Len(r), NEW j \in 0 .. Len(r), i <= j, Deaf(r, i, j)
      PROVE  g[i] = g[j]
  <2>1. /\ i + 1 \in 0 .. Len(q) /\ j + 1 \in 0 .. Len(q) /\ i + 1 <= j + 1
    BY <1>1, <1>6
  <2>2. ASSUME NEW k \in (i + 1 + 1) .. (j + 1) PROVE q[k].kind # "ack"
    <3>1. /\ k - 1 \in (i + 1) .. j /\ k - 1 \in 1 .. Len(r) /\ (k - 1) + 1 = k
      BY <1>1
    <3>2. r[k - 1].kind # "ack" /\ r[k - 1] = q[k]
      BY <1>1, <1>6, <3>1 DEF Deaf
    <3> QED
      BY <3>2
  <2>3. Deaf(q, i + 1, j + 1)
    BY <2>2 DEF Deaf
  <2> QED
    BY <1>2, <1>3, <2>1, <2>3
<1>7. Leads(Hears(p, Head(q)), r, d)
  BY <1>4, <1>5, <1>6 DEF Leads
<1> QED
  BY <1>7 DEF r

(* One message more, which takes the log further if it is of the log. *)
LEMMA LeadsAppend ==
  ASSUME NEW p, NEW q \in Seq(Message), NEW d, NEW e, Leads(p, q, d)
  PROVE  Leads(p, Append(q, e), Hears(d, e))
<1> DEFINE r == Append(q, e)
           n == Len(q)
<1>1. /\ Len(r) = n + 1 /\ n \in Nat /\ r[n + 1] = e
      /\ \A i \in 1 .. n : r[i] = q[i]
  OBVIOUS
<1>2. PICK h :
        /\ h[0] = p /\ h[n] = d
        /\ \A i \in 1 .. n : h[i] = Hears(h[i - 1], q[i])
        /\ \A i, j \in 0 .. n : i <= j /\ Deaf(q, i, j) => h[i] = h[j]
  BY DEF Leads
<1> HIDE DEF r, n
<1> DEFINE g == [i \in 0 .. (n + 1) |-> IF i = n + 1 THEN Hears(d, e) ELSE h[i]]
<1>3. /\ g[n + 1] = Hears(d, e)
      /\ \A i \in 0 .. n : g[i] = h[i]
  BY <1>1
<1> HIDE DEF g
<1>4. g[0] = p /\ g[Len(r)] = Hears(d, e) /\ g[n] = d
  BY <1>1, <1>2, <1>3
<1>5. ASSUME NEW i \in 1 .. Len(r) PROVE g[i] = Hears(g[i - 1], r[i])
  <2>1. CASE i = n + 1
    <3>1. i - 1 = n
      BY <1>1, <2>1
    <3> QED
      BY <1>1, <1>3, <1>4, <2>1, <3>1
  <2>2. CASE i # n + 1
    <3>1. i \in 1 .. n /\ i \in 0 .. n /\ i - 1 \in 0 .. n
      BY <1>1, <2>2
    <3>2. h[i] = Hears(h[i - 1], q[i])
      BY <1>2, <3>1
    <3> QED
      BY <1>1, <1>3, <3>1, <3>2
  <2> QED
    BY <2>1, <2>2
<1>6. ASSUME NEW i \in 0 .. Len(r), NEW j \in 0 .. Len(r), i <= j, Deaf(r, i, j)
      PROVE  g[i] = g[j]
  <2>1. ASSUME NEW m \in 0 .. n, i <= m, m <= j PROVE h[i] = h[m] /\ g[i] = h[m]
    <3>1. ASSUME NEW k \in (i + 1) .. m PROVE q[k].kind # "ack"
      <4>1. k \in (i + 1) .. j /\ k \in 1 .. n
        BY <1>1, <2>1
      <4> QED
        BY <1>1, <1>6, <4>1 DEF Deaf
    <3>2. Deaf(q, i, m) /\ i \in 0 .. n
      BY <1>1, <2>1, <3>1 DEF Deaf
    <3> QED
      BY <1>2, <1>3, <2>1, <3>2
  <2>2. CASE j = n + 1 /\ i # j
    <3>1. n \in 0 .. n /\ i <= n /\ n <= j /\ j \in (i + 1) .. j
      BY <1>1, <1>6, <2>2
    <3>2. e.kind # "ack"
      BY <1>1, <1>6, <2>2, <3>1 DEF Deaf
    <3> QED
      BY <1>2, <1>3, <2>1, <2>2, <3>1, <3>2 DEF Hears
  <2>3. CASE j # n + 1
    <3>1. j \in 0 .. n
      BY <1>1, <2>3
    <3> QED
      BY <1>3, <1>6, <2>1, <3>1
  <2> QED
    BY <2>2, <2>3
<1>7. Leads(p, r, Hears(d, e))
  BY <1>4, <1>5, <1>6 DEF Leads
<1> QED
  BY <1>7 DEF r

(* Where nothing of the log is on its way, the machine knows it all. *)
LEMMA LeadsSilent ==
  ASSUME NEW p, NEW q \in Seq(Message), NEW d, Leads(p, q, d),
         \A i \in DOMAIN q : q[i].kind # "ack"
  PROVE  p = d
<1>1. Len(q) \in Nat /\ DOMAIN q = 1 .. Len(q)
  OBVIOUS
<1>2. Deaf(q, 0, Len(q)) /\ 0 \in 0 .. Len(q) /\ Len(q) \in 0 .. Len(q) /\ 0 <= Len(q)
  BY <1>1 DEF Deaf
<1> QED
  BY <1>2 DEF Leads

(* A queue of which nothing is of the log. *)
LEMMA LeadsNowhere ==
  ASSUME NEW p, NEW q \in Seq(Message), \A e \in Held(q) : e.kind # "ack"
  PROVE  Leads(p, q, p)
<1> DEFINE h == [i \in 0 .. Len(q) |-> p]
<1>1. Len(q) \in Nat /\ DOMAIN q = 1 .. Len(q)
  OBVIOUS
<1>2. \A i \in 0 .. Len(q) : h[i] = p
  OBVIOUS
<1>3. \A i \in 1 .. Len(q) : q[i].kind # "ack" /\ i \in 0 .. Len(q) /\ i - 1 \in 0 .. Len(q)
  BY <1>1 DEF Held
<1> HIDE DEF h
<1>4. h[0] = p /\ h[Len(q)] = p /\ \A i \in 1 .. Len(q) : h[i] = Hears(h[i - 1], q[i])
  BY <1>1, <1>2, <1>3 DEF Hears
<1> QED
  BY <1>2, <1>4 DEF Leads
(* A queue behind another brings nothing of the log. *)
LEMMA LeadsConcat ==
  ASSUME NEW p, NEW q \in Seq(Message), NEW d, NEW s \in Seq(Message), Leads(p, q, d),
         \A e \in Held(s) : e.kind # "ack"
  PROVE  Leads(p, q \o s, d)
<1> DEFINE r == q \o s
           n == Len(q)
<1>1. /\ Len(r) = n + Len(s) /\ n \in Nat /\ Len(s) \in Nat
      /\ \A i \in 1 .. n : r[i] = q[i]
      /\ \A i \in (n + 1) .. Len(r) : r[i].kind # "ack"
  <2>1. /\ Len(q) \in Nat /\ Len(s) \in Nat /\ Len(r) = Len(q) + Len(s)
        /\ \A i \in 1 .. Len(r) : r[i] = IF i <= Len(q) THEN q[i] ELSE s[i - Len(q)]
    BY ConcatProperties
  <2> HIDE DEF r
  <2>2. ASSUME NEW i \in (Len(q) + 1) .. Len(r) PROVE r[i].kind # "ack"
    <3>1. i - Len(q) \in DOMAIN s /\ i \in 1 .. Len(r) /\ ~(i <= Len(q))
      BY <2>1
    <3> QED
      BY <2>1, <3>1 DEF Held
  <2>3. \A i \in 1 .. Len(q) : r[i] = q[i]
    BY <2>1
  <2> QED
    BY <2>1, <2>2, <2>3
<1>2. PICK h :
        /\ h[0] = p /\ h[n] = d
        /\ \A i \in 1 .. n : h[i] = Hears(h[i - 1], q[i])
        /\ \A i, j \in 0 .. n : i <= j /\ Deaf(q, i, j) => h[i] = h[j]
  BY DEF Leads
<1> HIDE DEF r, n
<1> DEFINE g == [i \in 0 .. Len(r) |-> IF i <= n THEN h[i] ELSE d]
<1>3. /\ \A i \in 0 .. n : g[i] = h[i]
      /\ \A i \in n .. Len(r) : g[i] = d
      /\ n \in 0 .. n /\ 0 \in 0 .. n /\ Len(r) \in n .. Len(r)
  BY <1>1, <1>2
<1> HIDE DEF g
<1>4. g[0] = p /\ g[Len(r)] = d
  BY <1>2, <1>3
<1>5. ASSUME NEW i \in 1 .. Len(r) PROVE g[i] = Hears(g[i - 1], r[i])
  <2>1. CASE i <= n
    <3>1. i \in 1 .. n /\ i \in 0 .. n /\ i - 1 \in 0 .. n
      BY <1>1, <2>1
    <3> QED
      BY <1>1, <1>2, <1>3, <3>1
  <2>2. CASE ~(i <= n)
    <3>1. i \in n .. Len(r) /\ i - 1 \in n .. Len(r) /\ i \in (n + 1) .. Len(r)
      BY <1>1, <2>2
    <3> QED
      BY <1>1, <1>3, <3>1 DEF Hears
  <2> QED
    BY <2>1, <2>2
<1>6. ASSUME NEW i \in 0 .. Len(r), NEW j \in 0 .. Len(r), i <= j, Deaf(r, i, j)
      PROVE  g[i] = g[j]
  <2>1. ASSUME NEW m \in 0 .. n, i <= m, m <= j PROVE g[i] = g[m]
    <3>1. ASSUME NEW k \in (i + 1) .. m PROVE q[k].kind # "ack"
      <4>1. k \in (i + 1) .. j /\ k \in 1 .. n
        BY <1>1, <2>1
      <4> QED
        BY <1>1, <1>6, <4>1 DEF Deaf
    <3>2. Deaf(q, i, m) /\ i \in 0 .. n
      BY <1>1, <2>1, <3>1 DEF Deaf
    <3> QED
      BY <1>2, <1>3, <2>1, <3>2
  <2>2. CASE j <= n
    <3>1. j \in 0 .. n
      BY <1>1, <2>2
    <3> QED
      BY <1>6, <2>1, <3>1
  <2>3. CASE ~(j <= n) /\ i <= n
    <3>1. n \in 0 .. n /\ n <= j /\ j \in n .. Len(r) /\ n \in n .. Len(r)
      BY <1>1, <2>3
    <3>2. g[i] = g[n]
      BY <2>1, <2>3, <3>1
    <3> QED
      BY <1>3, <3>1, <3>2
  <2>4. CASE ~(j <= n) /\ ~(i <= n)
    <3>1. j \in n .. Len(r) /\ i \in n .. Len(r)
      BY <1>1, <2>4
    <3> QED
      BY <1>3, <3>1
  <2> QED
    BY <2>2, <2>3, <2>4
<1>7. Leads(p, r, d)
  BY <1>4, <1>5, <1>6 DEF Leads
<1> QED
  BY <1>7 DEF r

-----------------------------------------------------------------------------
(* Where no action is a user's, all records are of the machine's own        *)
(* appends, which reach it in the order of the log.                        *)
NoUsers == \A s \in State : Action[s] # "user"

LEMMA NobodyResponds ==
  ASSUME NoUsers, WorkInv
  PROVE  ~User /\ (Runs => \A e \in Held(buffer) : e.kind # "ack")
<1>1. ASSUME User PROVE FALSE
  <2>1. PICK g \in durable.gates, v \in Event : Respond(g, v)
    BY <1>1 DEF User
  <2>2. /\ ~durable.failed /\ Sound(durable, durable.seq)
    BY <2>1 DEF Respond, WorkInv, LogInv
  <2>3. g \in {[seq |-> durable.pending[s].gate, at |-> s] : s \in Opened(durable)}
    BY <2>1, <2>2 DEF Sound
  <2> QED
    BY <2>2, <2>3 DEF NoUsers, Sound, EntrySound, Opened
<1>2. ASSUME Runs, NEW e \in Held(buffer), e.kind = "ack" PROVE FALSE
  <2>1. buffer \in Seq(Message) /\ ~Own(e) /\ OfUser(e)
    BY <1>2 DEF WorkInv, Runs, RunningOK, AcksInOrder, LogInv, TypeInv, RuntimeInv
  <2>2. e \in Message
    BY <2>1, HeldOf
  <2>3. e.unit \in Unit /\ e.unit.type = "resolved"
    BY <1>2, <2>1, <2>2, MessageType DEF Own
  <2>4. e.unit.at \in State
    BY <2>3 DEF Unit, RetryUnit, FailureUnit
  <2> QED
    BY <1>2, <2>1, <2>3, <2>4 DEF OfUser, NoUsers
<1> QED
  BY <1>1, <1>2

Hearing == Runs => Leads(machine, queue, durable)

(* What an Advance delivers is not of the log. *)
LEMMA AdvanceLeads ==
  ASSUME NoUsers, WorkInv, Runs, loop' \in Live, NEW m, NEW asked, NEW q \in Seq(Message),
         NEW p, NEW d, Leads(p, q, d), Advance(m, asked, q)
  PROVE  Leads(p, queue', d)
<1>1. buffer \in Seq(Message) /\ ~draining
  BY DEF WorkInv, Runs, LogInv, TypeInv, RuntimeInv
<1>2. queue' = q \/ queue' = q \o buffer
  BY <1>1, AdvanceCases DEF Live, Ended
<1>3. Leads(p, q \o buffer, d)
  BY <1>1, NobodyResponds, LeadsConcat
<1> QED
  BY <1>2, <1>3

LEMMA SendLeads ==
  ASSUME WorkInv, Runs, NEW e, e.kind # "ack", Send(e), Leads(machine, queue, durable)
  PROVE  Leads(machine, queue', durable)
<1>1. queue \in Seq(Message)
  BY DEF WorkInv, LogInv, TypeInv, RuntimeInv
<1>2. Leads(machine, Append(queue, e), durable)
  BY <1>1, LeadsAppend DEF Hears
<1> QED
  BY <1>2 DEF Send

LEMMA StepHears ==
  ASSUME NoUsers, WorkInv, Hearing, [Next]_vars, loop' \in Live, ~draining'
  PROVE  Leads(machine', queue', durable')
<1>1. queue \in Seq(Message)
  BY DEF WorkInv, LogInv, TypeInv, RuntimeInv
<1>2. CASE Machine
  <2>1. loop = "ready" /\ queue # <<>> /\ draining' = draining
    BY <1>2 DEF Machine, StepStart, StepWork, StepTimer, StepVerdict, StepAck, Awaiting,
                Output, runner
  <2>2. Runs /\ Leads(Hears(machine, Head(queue)), Tail(queue), durable)
    BY <1>1, <2>1, LeadsTail DEF Runs, Live, Hearing
  <2>3. PICK u, cs : Output(Hears(machine, Head(queue)), u, cs)
    <3>1. ASSUME NEW cause PROVE ~Throw(cause)
      BY <3>1 DEF Throw, Live
    <3>2. CASE StepAck
      BY <3>1, <3>2 DEF StepAck, Awaiting, Hears
    <3>3. CASE StepStart \/ StepWork \/ StepTimer \/ StepVerdict
      <4>1. Hears(machine, Head(queue)) = machine
        BY <3>3 DEF StepStart, StepWork, StepTimer, StepVerdict, Awaiting, Hears
      <4>2. \E u, cs : Output(machine, u, cs)
        BY <3>1, <3>3 DEF StepStart, StepWork, StepTimer, StepVerdict
      <4> QED
        BY <4>1, <4>2
    <3> QED
      BY <1>2, <3>2, <3>3 DEF Machine
  <2>4. /\ machine' = Hears(machine, Head(queue)) /\ durable' = durable
        /\ \E asked : Advance(Hears(machine, Head(queue)), asked, Tail(queue))
    BY <2>3 DEF Output, log
  <2>5. Tail(queue) \in Seq(Message)
    BY <1>1, <2>1
  <2> QED
    BY <2>2, <2>4, <2>5, AdvanceLeads
<1>3. CASE Writer
  <2>1. PICK u, rest : Commit(u, rest) /\ Appendable(u)
    <3>1. /\ batch \in Batch
          /\ batch.unit # NoUnit => Appendable(batch.unit)
      BY DEF WorkInv, LogInv, TypeInv, RuntimeInv, Batch, Appendable
    <3>2. CASE CommitResponse
      BY <3>1, <3>2 DEF CommitResponse
    <3>3. CASE CommitInvokes
      <4>1. Appendable([type |-> "invoke", group |-> batch.invokes])
        BY <3>1 DEF Batch, Appendable, Unit, Sensible
      <4> QED
        BY <3>3, <4>1 DEF CommitInvokes
    <3>4. CASE CommitOpen
      <4>1. \A id \in batch.opens : Appendable([type |-> "opened", at |-> id.at, phase |-> id.seq])
        BY <3>1 DEF Batch, Id, Appendable, Unit, Sensible
      <4> QED
        BY <3>4, <4>1 DEF CommitOpen
    <3> QED
      BY <1>3, <3>2, <3>3, <3>4 DEF Writer
  <2>2. loop = "busy"
    BY <1>3 DEF Writer, CommitResponse, CommitInvokes, CommitOpen
  <2> DEFINE e == [kind |-> "ack", unit |-> u, base |-> durable.seq + 1]
  <2>3. /\ durable' = Hears(durable, e) /\ machine' = machine /\ draining' = draining
        /\ Advance(machine, rest, IF draining THEN queue ELSE Append(queue, e))
    BY <2>1 DEF Commit, Throw, Live, Hears, runner
  <2>4. Runs /\ Leads(machine, queue, durable)
    BY <2>2, <2>3 DEF Runs, Live, Hearing
  <2>5. Leads(machine, Append(queue, e), Hears(durable, e))
    BY <1>1, <2>4, LeadsAppend
  <2>6. Append(queue, e) \in Seq(Message)
    <3>1. durable.seq + 1 \in Nat \ {0}
      BY DEF WorkInv, LogInv, TypeInv, Typed, BranchProjection
    <3>2. e \in Message
      BY <2>1, <3>1, AckMessage DEF Appendable
    <3> HIDE DEF e
    <3> QED
      BY <1>1, <3>2
  <2> QED
    BY <2>3, <2>4, <2>5, <2>6, AdvanceLeads DEF Runs
<1>4. CASE Work
  <2>1. UNCHANGED <<durable, machine, loop, draining>>
    BY <1>4 DEF Work, EndDelay, Begin, Answer, Verdict, log, runner
  <2>2. Runs /\ Leads(machine, queue, durable)
    BY <2>1 DEF Runs, Hearing
  <2>3. queue' = queue \/ \E e : e.kind # "ack" /\ Send(e)
    BY <1>4 DEF Work, EndDelay, Begin, Answer, Verdict
  <2> QED
    BY <2>1, <2>2, <2>3, SendLeads
<1>5. CASE Clock
  <2>1. UNCHANGED <<durable, machine, loop, draining>>
    BY <1>5 DEF Clock, TimerFires, log, runner
  <2>2. Runs /\ Leads(machine, queue, durable)
    BY <2>1 DEF Runs, Hearing
  <2>3. \E e : e.kind # "ack" /\ Send(e)
    BY <1>5 DEF Clock, TimerFires
  <2> QED
    BY <2>1, <2>2, <2>3, SendLeads
<1>6. CASE User
  BY <1>6, NobodyResponds
<1>7. CASE BeginDrain \/ Drained \/ Crash
  BY <1>7 DEF BeginDrain, Drained, Crash, Live
<1>8. CASE Restarted
  <2> DEFINE q == <<[kind |-> "start"]>>
  <2>1. machine' = durable /\ durable' = durable /\ queue' = q
    BY <1>8 DEF Restarted, Live, log
  <2>2. q \in Seq(Message) /\ \A e \in Held(q) : e.kind # "ack"
    BY StartMessage DEF Held
  <2> HIDE DEF q
  <2> QED
    BY <2>1, <2>2, LeadsNowhere
<1>9. CASE Finished \/ UNCHANGED vars
  BY <1>9 DEF Finished, vars, Runs, Hearing
<1> QED
  BY <1>2, <1>3, <1>4, <1>5, <1>6, <1>7, <1>8, <1>9 DEF Next

(* A machine that has heard of everything agrees with the log on what is    *)
(* active and pending, for every chart without user actions: the loop       *)
(* projects its own appends alone, and in the order of the log              *)
(* (durable_records_added).  With users it does not, as their answers are   *)
(* acknowledged out of order.                                               *)
THEOREM SpecMachineCatchesUp == ASSUME NoUsers PROVE Spec => []MachineCatchesUp
<1>1. Init => Hearing
  <2> SUFFICES ASSUME Init PROVE Leads(machine, queue, durable)
    BY DEF Hearing
  <2> DEFINE q == <<[kind |-> "start"]>>
  <2>1. machine = durable /\ queue = q
    BY DEF Init
  <2>2. q \in Seq(Message) /\ \A e \in Held(q) : e.kind # "ack"
    BY StartMessage DEF Held
  <2> HIDE DEF q
  <2> QED
    BY <2>1, <2>2, LeadsNowhere
<1>2. WorkInv /\ Hearing /\ [Next]_vars => Hearing'
  BY StepHears DEF Hearing, Runs
<1>3. WorkInv /\ Hearing => MachineCatchesUp
  <2> SUFFICES ASSUME WorkInv, Hearing, loop = "ready", ~draining,
                      \A i \in DOMAIN queue : queue[i].kind # "ack"
               PROVE  machine = durable
    BY DEF MachineCatchesUp
  <2>1. Leads(machine, queue, durable) /\ queue \in Seq(Message)
    BY DEF Hearing, Runs, Live, WorkInv, LogInv, TypeInv, RuntimeInv
  <2> QED
    BY <2>1, LeadsSilent
<1> QED
  BY <1>1, <1>2, <1>3, SpecWorkInv, PTL DEF Spec

-----------------------------------------------------------------------------
(* That an action never has two sessions nobody told to stop               *)
(* (OneSessionPerAction of Execution), on every chart in which no agent    *)
(* has a deadline: an agent is retried by a unit that ends its phase and   *)
(* begins the next, and a deadline taken in between would end the wrong    *)
(* one.  The invariant keeps three things apart: what still runs for a     *)
(* phase, what answers it, and what is on its way to end or begin it.      *)
NoTimedAgents == \A s \in State : After[s] # None => Action[s] # "agent"

(* A session, a process or an import nobody told to stop. *)
Untold(t) == t.kind # "guard" /\ ~t.told

(* What a task will answer with, and who is about the same phase. *)
AnswerOf(t) == IF t.kind = "guard" THEN "verdict" ELSE "work"
Alike(t, u) == t.id = u.id /\ AnswerOf(t) = AnswerOf(u)

(* Tasks, answers and messages that are about the phase s is in. *)
OfPhase(p, t, s) == t.id = PhaseId(p, s) /\ AnswerOf(t) = Answers(p, s)
AnswersPhase(p, e, s) == e.kind = Answers(p, s) /\ e.id = PhaseId(p, s)
Concerns(p, e, s) == e.kind \in {Answers(p, s), "timer"} /\ e.id = PhaseId(p, s)

(* A unit that may begin a phase does not come behind a message about the  *)
(* one before, nor does one that ends a phase come behind its beginning:   *)
(* the machine decides on what it knows, and hears of it in that order.    *)
Crosses(p, e, u) ==
  \/ \E s \in Working(p) : Concerns(p, e, s) /\ Begins(u, s)
  \/ e.kind = "ack" /\ \E s \in State : Begins(e.unit, s) /\ Ends(u, s)

Twice(e, f) == e.kind \in {"work", "verdict"} /\ f.kind = e.kind /\ f.id = e.id
Clashes(p, e, f) == Twice(e, f) \/ (f.kind = "ack" /\ Crosses(p, e, f.unit))
Clean(p, q) == \A i, j \in DOMAIN q : i < j => ~Clashes(p, q[i], q[j])

(* Ids that are in use began before anything still to be heard of. *)
Answering == {"work", "verdict", "timer"}
Old(id, q, n) == id.seq <= n /\ \A e \in Held(q) : Own(e) => id.seq < e.base
Aged(q, sent, ts, tm, n) ==
  /\ \A t \in ts : Old(t.id, q, n)
  /\ \A id \in tm : Old(id, q, n)
  /\ \A e \in sent : e.kind \in Answering => Old(e.id, q, n)
Unused(id, sent, ts, tm) ==
  /\ \A t \in ts : t.id # id
  /\ id \notin tm
  /\ \A e \in sent : e.kind \in Answering => e.id # id

(* One task to a phase, and none that has answered already. *)
Single(sent, ts) ==
  /\ \A t, u \in ts : Alike(t, u) => t = u
  /\ \A t \in ts : \A e \in sent : ~(e.kind = AnswerOf(t) /\ e.id = t.id)

(* Who was not told to stop works for the phase its action is in. *)
AtPhase(p, ts) ==
  \A t \in ts : Untold(t) =>
    /\ t.id = PhaseId(p, t.id.at) /\ p.pending[t.id.at].phase = "running"
    /\ Action[t.id.at] # "user"

(* A phase that a unit will end has nothing left that could answer it; one *)
(* that a deadline has ended, nobody at work.                              *)
Ceased(p, sent, ts, u) ==
  \A s \in Working(p) : Ends(u, s) /\ u.type # "timer_fired" =>
    /\ \A t \in ts : ~OfPhase(p, t, s)
    /\ \A e \in sent : ~AnswersPhase(p, e, s)
Halted(ts, u) ==
  u.type = "timer_fired" => \A t \in ts : Untold(t) => t.id.at # u.at

(* What a batch still asks for is not under way. *)
Fitting(p, b, q, sent, ts, tm) ==
  /\ b.invokes \cap Working(p) = {}
  /\ b.unit.type = "timer_fired" => b.unit.at \in b.cancels
  /\ b.work # {} => b.unit = NoUnit
  /\ \A id \in b.work :
       /\ id.at \in Working(p) /\ id = PhaseId(p, id.at)
       /\ Unused(id, sent, ts, tm)
       /\ \A e \in Held(q) : e.kind = "ack" => ~Ends(e.unit, id.at)

Tidy(p, b, q, r, ts, tm, n) ==
  LET sent == Held(q) \cup Held(r) IN
  /\ Aged(q, sent, ts, tm, n)
  /\ Single(sent, ts)
  /\ AtPhase(p, ts)
  /\ Clean(p, q) /\ Clean(p, r) /\ \A e \in Held(q) : \A f \in Held(r) : ~Twice(e, f)
  /\ Ceased(p, sent, ts, b.unit) /\ \A e \in Held(q) : ~Crosses(p, e, b.unit)
  /\ \A e \in Held(q) : e.kind = "ack" => Ceased(p, sent, ts, e.unit) /\ Halted(ts, e.unit)
  /\ Fitting(p, b, q, sent, ts, tm)

-----------------------------------------------------------------------------
(* Clean queues. *)
LEMMA CleanTail ==
  ASSUME NEW p, NEW q \in Seq(Message), q # <<>>, Clean(p, q)
  PROVE  Clean(p, Tail(q)) /\ \A e \in Held(Tail(q)) : ~Clashes(p, Head(q), e)
<1> DEFINE r == Tail(q)
<1>1. /\ Len(r) = Len(q) - 1 /\ Len(q) \in Nat \ {0} /\ DOMAIN r = 1 .. Len(r)
      /\ DOMAIN q = 1 .. Len(q) /\ Head(q) = q[1]
      /\ \A i \in 1 .. Len(r) : r[i] = q[i + 1]
  OBVIOUS
<1> HIDE DEF r
<1>2. \A i \in DOMAIN r : i + 1 \in DOMAIN q /\ 1 < i + 1 /\ r[i] = q[i + 1]
  BY <1>1
<1>3. \A i, j \in DOMAIN r : i < j => i + 1 < j + 1
  BY <1>1
<1>4. Clean(p, r)
  BY <1>2, <1>3 DEF Clean
<1>5. 1 \in DOMAIN q
  BY <1>1
<1>6. \A i \in DOMAIN r : ~Clashes(p, Head(q), r[i])
  BY <1>1, <1>2, <1>5 DEF Clean
<1> QED
  BY <1>4, <1>6 DEF r, Held

LEMMA CleanAppend ==
  ASSUME NEW p, NEW q \in Seq(Message), Clean(p, q), NEW e \in Message,
         \A f \in Held(q) : ~Clashes(p, f, e)
  PROVE  Clean(p, Append(q, e))
<1> DEFINE r == Append(q, e)
           n == Len(q) + 1
<1>1. /\ DOMAIN r = 1 .. n /\ r[n] = e /\ n \in Nat /\ DOMAIN q = 1 .. (n - 1)
      /\ \A i \in 1 .. (n - 1) : r[i] = q[i]
  BY AppendProperties
<1> HIDE DEF r, n
<1>2. ASSUME NEW i \in DOMAIN r, NEW j \in DOMAIN r, i < j
      PROVE  ~Clashes(p, r[i], r[j])
  <2>1. i \in DOMAIN q /\ r[i] = q[i] /\ q[i] \in Held(q)
    BY <1>1, <1>2 DEF Held
  <2>2. CASE j = n
    BY <1>1, <2>1, <2>2
  <2>3. CASE j # n
    <3>1. j \in DOMAIN q /\ r[j] = q[j]
      BY <1>1, <2>3
    <3> QED
      BY <1>2, <2>1, <3>1 DEF Clean
  <2> QED
    BY <2>2, <2>3
<1> QED
  BY <1>2 DEF Clean, r

LEMMA CleanConcat ==
  ASSUME NEW p, NEW q \in Seq(Message), Clean(p, q), NEW r \in Seq(Message), Clean(p, r),
         \A e \in Held(q) : \A f \in Held(r) : ~Clashes(p, e, f)
  PROVE  Clean(p, q \o r)
<1> DEFINE c == q \o r
<1>1. /\ Len(q) \in Nat /\ Len(r) \in Nat /\ Len(c) = Len(q) + Len(r)
      /\ DOMAIN q = 1 .. Len(q) /\ DOMAIN r = 1 .. Len(r) /\ DOMAIN c = 1 .. Len(c)
      /\ \A i \in 1 .. Len(c) : c[i] = IF i <= Len(q) THEN q[i] ELSE r[i - Len(q)]
  BY ConcatProperties
<1> HIDE DEF c
<1>2. ASSUME NEW i \in DOMAIN c, NEW j \in DOMAIN c, i < j
      PROVE  ~Clashes(p, c[i], c[j])
  <2>1. CASE j <= Len(q)
    <3>1. i \in DOMAIN q /\ j \in DOMAIN q /\ c[i] = q[i] /\ c[j] = q[j]
      BY <1>1, <1>2, <2>1
    <3> QED
      BY <1>2, <3>1 DEF Clean
  <2>2. CASE ~(i <= Len(q))
    <3>1. /\ i - Len(q) \in DOMAIN r /\ j - Len(q) \in DOMAIN r /\ i - Len(q) < j - Len(q)
          /\ c[i] = r[i - Len(q)] /\ c[j] = r[j - Len(q)]
      BY <1>1, <1>2, <2>2
    <3> QED
      BY <3>1 DEF Clean
  <2>3. CASE i <= Len(q) /\ ~(j <= Len(q))
    <3>1. i \in DOMAIN q /\ j - Len(q) \in DOMAIN r /\ c[i] = q[i] /\ c[j] = r[j - Len(q)]
      BY <1>1, <2>3
    <3> QED
      BY <3>1 DEF Held
  <2> QED
    BY <2>1, <2>2, <2>3
<1> QED
  BY <1>2 DEF Clean, c

(* What clashes for another projection, clashed before. *)
LEMMA CleanOther ==
  ASSUME NEW p, NEW m, NEW q \in Seq(Message), Clean(p, q),
         \A e, f \in Held(q) : Clashes(m, e, f) => Clashes(p, e, f)
  PROVE  Clean(m, q)
BY DEF Clean, Held

-----------------------------------------------------------------------------
(* Tasks that come from others, each from one of its own: what is left of  *)
(* them when some answer, are told to stop or go on.                       *)
Heirs(us, ts) ==
  \E f : \A u \in us : \E t \in ts :
    u = f[t] /\ u.id = t.id /\ u.kind = t.kind /\ (t.told => u.told)

LEMMA HeirsOf ==
  ASSUME NEW ts, NEW us, Heirs(us, ts)
  PROVE  /\ \A u \in us : \E t \in ts : /\ u.id = t.id /\ u.kind = t.kind
                                        /\ AnswerOf(u) = AnswerOf(t) /\ (Untold(u) => Untold(t))
         /\ (\A t, v \in ts : Alike(t, v) => t = v) => \A t, v \in us : Alike(t, v) => t = v
<1>1. PICK f : \A u \in us : \E t \in ts :
                 u = f[t] /\ u.id = t.id /\ u.kind = t.kind /\ (t.told => u.told)
  BY DEF Heirs
<1>2. \A u \in us : \E t \in ts : /\ u.id = t.id /\ u.kind = t.kind
                                  /\ AnswerOf(u) = AnswerOf(t) /\ (Untold(u) => Untold(t))
  BY <1>1 DEF AnswerOf, Untold
<1>3. ASSUME \A t, v \in ts : Alike(t, v) => t = v, NEW t \in us, NEW v \in us, Alike(t, v)
      PROVE  t = v
  <2>1. PICK a \in ts : t = f[a] /\ t.id = a.id /\ t.kind = a.kind
    BY <1>1
  <2>2. PICK b \in ts : v = f[b] /\ v.id = b.id /\ v.kind = b.kind
    BY <1>1
  <2>3. Alike(a, b)
    BY <1>3, <2>1, <2>2 DEF Alike, AnswerOf
  <2> QED
    BY <1>3, <2>1, <2>2, <2>3
<1> QED
  BY <1>2, <1>3

(* One session to an action, of any set of tasks. *)
OneEach(ts) ==
  \A t, u \in ts : t.id.at = u.id.at /\ Untold(t) /\ Untold(u) => t = u

LEMMA OneEachMeans == OneSessionPerAction <=> OneEach(tasks)
BY DEF OneSessionPerAction, OneEach, Untold

LEMMA HeirsOneEach ==
  ASSUME NEW ts, NEW us, Heirs(us, ts), OneEach(ts)
  PROVE  OneEach(us)
<1>1. PICK f : \A u \in us : \E t \in ts :
                 u = f[t] /\ u.id = t.id /\ u.kind = t.kind /\ (t.told => u.told)
  BY DEF Heirs
<1> SUFFICES ASSUME NEW t \in us, NEW v \in us, t.id.at = v.id.at, Untold(t), Untold(v)
             PROVE  t = v
  BY DEF OneEach
<1>2. PICK a \in ts : t = f[a] /\ t.id = a.id /\ Untold(a)
  BY <1>1 DEF Untold
<1>3. PICK b \in ts : v = f[b] /\ v.id = b.id /\ Untold(b)
  BY <1>1 DEF Untold
<1> QED
  BY <1>2, <1>3 DEF OneEach

(* Tasks of one phase each, at the phases their actions are in. *)
LEMMA AtPhaseOneEach ==
  ASSUME NEW p, NEW sent, NEW ts, Single(sent, ts), AtPhase(p, ts)
  PROVE  OneEach(ts)
<1> SUFFICES ASSUME NEW t \in ts, NEW v \in ts, t.id.at = v.id.at, Untold(t), Untold(v)
             PROVE  t = v
  BY DEF OneEach
<1>1. t.id = v.id
  BY DEF AtPhase
<1>2. Alike(t, v)
  BY <1>1 DEF Alike, AnswerOf, Untold
<1> QED
  BY <1>2 DEF Single

LEMMA HeirsTidy ==
  ASSUME NEW p, NEW b, NEW q, NEW r, NEW ts, NEW tm, NEW n, Tidy(p, b, q, r, ts, tm, n),
         NEW us, Heirs(us, ts)
  PROVE  Tidy(p, b, q, r, us, tm, n)
<1> DEFINE sent == Held(q) \cup Held(r)
<1>1. /\ \A u \in us : \E t \in ts : /\ u.id = t.id /\ u.kind = t.kind
                                     /\ AnswerOf(u) = AnswerOf(t) /\ (Untold(u) => Untold(t))
      /\ (\A t, v \in ts : Alike(t, v) => t = v) => \A t, v \in us : Alike(t, v) => t = v
  BY HeirsOf
<1>2. Aged(q, sent, ts, tm, n) => Aged(q, sent, us, tm, n)
  BY <1>1 DEF Aged
<1>3. Single(sent, ts) => Single(sent, us)
  BY <1>1 DEF Single
<1>4. AtPhase(p, ts) => AtPhase(p, us)
  BY <1>1 DEF AtPhase
<1>5. \A u : Ceased(p, sent, ts, u) => Ceased(p, sent, us, u)
  BY <1>1 DEF Ceased, OfPhase
<1>6. \A u : Halted(ts, u) => Halted(us, u)
  BY <1>1 DEF Halted
<1>7. \A id : Unused(id, sent, ts, tm) => Unused(id, sent, us, tm)
  BY <1>1 DEF Unused
<1>8. Fitting(p, b, q, sent, ts, tm) => Fitting(p, b, q, sent, us, tm)
  BY <1>7 DEF Fitting
<1> QED
  BY <1>2, <1>3, <1>4, <1>5, <1>6, <1>8 DEF Tidy

LEMMA SubsetHeirs ==
  ASSUME NEW ts, NEW us, us \subseteq ts
  PROVE  Heirs(us, ts)
<1> DEFINE f == [t \in ts |-> t]
<1>1. \A u \in us : u \in ts /\ u = f[u]
  OBVIOUS
<1> HIDE DEF f
<1> QED
  BY <1>1 DEF Heirs

(* A task that goes on, *)
LEMMA StageHeirs ==
  ASSUME NEW ts \in SUBSET Task, NEW t \in ts, NEW stage
  PROVE  Heirs((ts \ {t}) \cup {[t EXCEPT !.stage = stage]}, ts)
<1> DEFINE v == [t EXCEPT !.stage = stage]
           f == [u \in ts |-> IF u = t THEN v ELSE u]
<1>1. v.id = t.id /\ v.kind = t.kind /\ v.told = t.told
  BY DEF Task
<1> HIDE DEF v
<1>2. f[t] = v /\ \A u \in ts \ {t} : f[u] = u
  OBVIOUS
<1> HIDE DEF f
<1>3. Heirs((ts \ {t}) \cup {v}, ts)
  BY <1>1, <1>2 DEF Heirs
<1> QED
  BY <1>3 DEF v

(* and tasks that are told to stop. *)
LEMMA CancelHeirs ==
  ASSUME NEW ts \in SUBSET Task, NEW at
  PROVE  /\ Heirs(AfterCancel(ts, at), ts)
         /\ \A t \in AfterCancel(ts, at) : Untold(t) => t \in ts /\ t.id.at \notin at
<1> DEFINE hit(t) == t.id.at \in at /\ t.kind # "guard"
           stopped(t) == [t EXCEPT !.told = TRUE, !.stage = IF @ = "live" THEN "stopping" ELSE @]
           f == [t \in ts |-> IF hit(t) THEN stopped(t) ELSE t]
<1>1. \A t \in ts : stopped(t).id = t.id /\ stopped(t).kind = t.kind /\ stopped(t).told
  BY DEF Task
<1>2. \A t \in AfterCancel(ts, at) :
        \E u \in ts : \/ hit(u) /\ t = stopped(u)
                      \/ ~hit(u) /\ t = u
  BY DEF AfterCancel
<1> HIDE DEF stopped
<1>3. \A t \in ts : f[t] = IF hit(t) THEN stopped(t) ELSE t
  OBVIOUS
<1> HIDE DEF f
<1>4. Heirs(AfterCancel(ts, at), ts)
  BY <1>1, <1>2, <1>3 DEF Heirs
<1>5. \A t \in AfterCancel(ts, at) : Untold(t) => t \in ts /\ t.id.at \notin at
  BY <1>1, <1>2 DEF Untold
<1> QED
  BY <1>4, <1>5

-----------------------------------------------------------------------------
(* Messages that arrive. *)

(* Units that neither end nor begin anything. *)
LEMMA Harmless ==
  ASSUME NEW u, u.type \in {"none", "opened", "resolved"}
  PROVE  /\ \A s : ~Ends(u, s) /\ ~Begins(u, s)
         /\ \A p, sent, ts : Ceased(p, sent, ts, u) /\ Halted(ts, u)
         /\ \A p, e : ~Crosses(p, e, u)
BY DEF Ends, Begins, Ceased, Halted, Crosses

LEMMA HarmlessNoUnit ==
  /\ \A s : ~Ends(NoUnit, s) /\ ~Begins(NoUnit, s)
  /\ \A p, sent, ts : Ceased(p, sent, ts, NoUnit) /\ Halted(ts, NoUnit)
  /\ \A p, e : ~Crosses(p, e, NoUnit)
<1>1. NoUnit.type \in {"none", "opened", "resolved"}
  BY DEF NoUnit
<1> QED
  BY <1>1, Harmless

(* What an acknowledgement brings that is not the machine's own. *)
LEMMA HarmlessAck ==
  ASSUME NEW e, e.kind = "ack", ~Own(e)
  PROVE  /\ \A s : ~Ends(e.unit, s) /\ ~Begins(e.unit, s)
         /\ \A p, sent, ts : Ceased(p, sent, ts, e.unit) /\ Halted(ts, e.unit)
         /\ \A p, f : ~Crosses(p, f, e.unit)
<1>1. e.unit.type \in {"none", "opened", "resolved"}
  BY DEF Own
<1> QED
  BY <1>1, Harmless

(* A message that may join: it answers nothing twice. *)
Welcome(p, b, q, sent, ts, n, e) ==
  /\ ~Own(e)
  /\ e.kind \in Answering => Old(e.id, q, n) /\ e.id \notin b.work
  /\ \A t \in ts : ~(e.kind = AnswerOf(t) /\ e.id = t.id)
  /\ \A f \in sent : ~Twice(f, e)
  /\ \A s \in Working(p) : AnswersPhase(p, e, s) =>
       /\ Ends(b.unit, s) => b.unit.type = "timer_fired"
       /\ \A f \in Held(q) : f.kind = "ack" /\ Ends(f.unit, s) => f.unit.type = "timer_fired"

LEMMA Joined ==
  ASSUME NEW p, NEW b, NEW q, NEW r, NEW ts, NEW tm, NEW n, Tidy(p, b, q, r, ts, tm, n),
         NEW e, Welcome(p, b, q, Held(q) \cup Held(r), ts, n, e), NEW q2, NEW r2,
         Held(q2) \cup Held(r2) = Held(q) \cup Held(r) \cup {e},
         Held(q2) \subseteq Held(q) \cup {e}, Clean(p, q2), Clean(p, r2),
         \A x \in Held(q2) : \A f \in Held(r2) : ~Twice(x, f),
         \A x \in Held(q2) : ~Crosses(p, x, b.unit)
  PROVE  Tidy(p, b, q2, r2, ts, tm, n)
<1> DEFINE sent == Held(q) \cup Held(r)
           sent2 == Held(q2) \cup Held(r2)
<1>1. /\ ~Own(e)
      /\ e.kind = "ack" => /\ \A s : ~Ends(e.unit, s)
                           /\ \A s2, t2 : Ceased(p, s2, t2, e.unit) /\ Halted(t2, e.unit)
  BY HarmlessAck DEF Welcome
<1>2. \A id : Old(id, q, n) => Old(id, q2, n)
  BY <1>1 DEF Old
<1>3. Aged(q2, sent2, ts, tm, n)
  <2>1. Aged(q, sent, ts, tm, n)
    BY DEF Tidy
  <2>2. e.kind \in Answering => Old(e.id, q2, n)
    BY <1>2 DEF Welcome
  <2> HIDE DEF sent2
  <2>3. sent2 = sent \cup {e}
    BY DEF sent2
  <2> HIDE DEF sent
  <2> QED
    BY <1>2, <2>1, <2>2, <2>3 DEF Aged
<1>4. Single(sent2, ts)
  <2>1. Single(sent, ts)
    BY DEF Tidy
  <2>2. \A t \in ts : ~(e.kind = AnswerOf(t) /\ e.id = t.id)
    BY DEF Welcome
  <2> QED
    BY <2>1, <2>2 DEF Single
<1>5. ASSUME NEW u, Ceased(p, sent, ts, u),
             \A s \in Working(p) : AnswersPhase(p, e, s) /\ Ends(u, s)
                => u.type = "timer_fired"
      PROVE  Ceased(p, sent2, ts, u)
  BY <1>5 DEF Ceased
<1>6. Ceased(p, sent2, ts, b.unit)
  <2>1. Ceased(p, sent, ts, b.unit)
    BY DEF Tidy
  <2> QED
    BY <1>5, <2>1 DEF Welcome
<1>7. ASSUME NEW x \in Held(q2), x.kind = "ack"
      PROVE  Ceased(p, sent2, ts, x.unit) /\ Halted(ts, x.unit)
  <2>1. CASE x = e
    BY <1>1, <1>7, <2>1
  <2>2. CASE x # e
    <3>1. x \in Held(q)
      BY <2>2
    <3>2. Ceased(p, sent, ts, x.unit) /\ Halted(ts, x.unit)
      BY <1>7, <3>1 DEF Tidy
    <3>3. \A s \in Working(p) : AnswersPhase(p, e, s) /\ Ends(x.unit, s)
                => x.unit.type = "timer_fired"
      BY <1>7, <3>1 DEF Welcome
    <3> QED
      BY <1>5, <3>2, <3>3
  <2> QED
    BY <2>1, <2>2
<1>8. Fitting(p, b, q2, sent2, ts, tm)
  <2>1. Fitting(p, b, q, sent, ts, tm)
    BY DEF Tidy
  <2>2. \A id \in b.work : Unused(id, sent, ts, tm) => Unused(id, sent2, ts, tm)
    BY DEF Unused, Welcome
  <2>3. \A id \in b.work : \A x \in Held(q2) : x.kind = "ack" => ~Ends(x.unit, id.at)
    BY <1>1, <2>1 DEF Fitting
  <2> HIDE DEF sent, sent2
  <2> QED
    BY <2>1, <2>2, <2>3 DEF Fitting
<1>9. AtPhase(p, ts)
  BY DEF Tidy
<1> QED
  BY <1>3, <1>4, <1>6, <1>7, <1>8, <1>9 DEF Tidy

(* It joins the queue between batches, *)
LEMMA QueueJoined ==
  ASSUME NEW p, NEW b, NEW q \in Seq(Message), NEW r, NEW ts, NEW tm, NEW n,
         Tidy(p, b, q, r, ts, tm, n), b.unit = NoUnit, NEW e \in Message,
         Welcome(p, b, q, Held(q) \cup Held(r), ts, n, e)
  PROVE  Tidy(p, b, Append(q, e), r, ts, tm, n)
<1> DEFINE q2 == Append(q, e)
<1>1. Held(q2) = Held(q) \cup {e}
  BY HeldAppend
<1>2. \A f \in Held(q) : ~Clashes(p, f, e)
  BY HarmlessAck DEF Clashes, Welcome
<1>3. Clean(p, q2)
  BY <1>2, CleanAppend DEF Tidy
<1>4. \A x \in Held(q2) : \A f \in Held(r) : ~Twice(x, f)
  BY <1>1 DEF Tidy, Welcome, Twice
<1>5. \A x \in Held(q2) : ~Crosses(p, x, b.unit)
  BY HarmlessNoUnit
<1>6. Clean(p, r)
  BY DEF Tidy
<1> HIDE DEF q2
<1>7. Held(q2) \cup Held(r) = Held(q) \cup Held(r) \cup {e} /\ Held(q2) \subseteq Held(q) \cup {e}
  BY <1>1
<1>8. Tidy(p, b, q2, r, ts, tm, n)
  BY <1>3, <1>4, <1>5, <1>6, <1>7, Joined
<1> QED
  BY <1>8 DEF q2

(* and what is held back while one is under way. *)
LEMMA BufferJoined ==
  ASSUME NEW p, NEW b, NEW q, NEW r \in Seq(Message), NEW ts, NEW tm, NEW n,
         Tidy(p, b, q, r, ts, tm, n), NEW e \in Message,
         Welcome(p, b, q, Held(q) \cup Held(r), ts, n, e)
  PROVE  Tidy(p, b, q, Append(r, e), ts, tm, n)
<1> DEFINE r2 == Append(r, e)
<1>1. Held(r2) = Held(r) \cup {e}
  BY HeldAppend
<1>2. \A f \in Held(r) : ~Clashes(p, f, e)
  BY HarmlessAck DEF Clashes, Welcome
<1>3. Clean(p, r2) /\ Clean(p, q)
  BY <1>2, CleanAppend DEF Tidy
<1>4. \A x \in Held(q) : \A f \in Held(r2) : ~Twice(x, f)
  BY <1>1 DEF Tidy, Welcome
<1>5. \A x \in Held(q) : ~Crosses(p, x, b.unit)
  BY DEF Tidy
<1> HIDE DEF r2
<1>6. Held(q) \cup Held(r2) = Held(q) \cup Held(r) \cup {e} /\ Held(q) \subseteq Held(q) \cup {e}
  BY <1>1
<1>7. Tidy(p, b, q, r2, ts, tm, n)
  BY <1>3, <1>4, <1>5, <1>6, Joined
<1> QED
  BY <1>7 DEF r2

-----------------------------------------------------------------------------
(* Carrying on with a batch. *)

(* What was held back is delivered. *)
LEMMA Delivered ==
  ASSUME NEW p, NEW b, NEW q \in Seq(Message), NEW r \in Seq(Message), NEW ts, NEW tm, NEW n,
         Tidy(p, b, q, r, ts, tm, n), b.unit = NoUnit, \A e \in Held(r) : ~Own(e)
  PROVE  Tidy(p, b, q \o r, <<>>, ts, tm, n)
<1> DEFINE c == q \o r
           sent == Held(q) \cup Held(r)
<1>1. Held(c) = sent
  BY HeldConcat
<1>2. \A e \in Held(q) : \A f \in Held(r) : ~Clashes(p, e, f)
  BY HarmlessAck DEF Clashes, Tidy
<1>3. Clean(p, c)
  BY <1>2, CleanConcat DEF Tidy
<1>4. Held(<<>>) = {} /\ Clean(p, <<>>)
  BY DEF Held, Clean
<1> HIDE DEF c
<1>5. \A id : Old(id, q, n) => Old(id, c, n)
  BY <1>1 DEF Old
<1>6. \A e \in Held(c) : ~Crosses(p, e, b.unit)
  BY HarmlessNoUnit
<1>7. \A e \in Held(c) : e.kind = "ack" => Ceased(p, sent, ts, e.unit) /\ Halted(ts, e.unit)
  BY <1>1, HarmlessAck DEF Tidy
<1>8. Fitting(p, b, c, sent, ts, tm)
  <2>1. Fitting(p, b, q, sent, ts, tm)
    BY DEF Tidy
  <2>2. \A id \in b.work : \A x \in Held(c) : x.kind = "ack" => ~Ends(x.unit, id.at)
    BY <1>1, <2>1, HarmlessAck DEF Fitting
  <2> HIDE DEF sent
  <2> QED
    BY <2>1, <2>2 DEF Fitting
<1>9. /\ Aged(q, sent, ts, tm, n) /\ Single(sent, ts) /\ AtPhase(p, ts)
      /\ Ceased(p, sent, ts, b.unit)
  BY DEF Tidy
<1>10. Held(c) \cup Held(<<>>) = sent
  BY <1>1, <1>4
<1>11. Aged(c, sent, ts, tm, n)
  BY <1>5, <1>9 DEF Aged
<1> HIDE DEF sent
<1>12. Tidy(p, b, c, <<>>, ts, tm, n)
  BY <1>3, <1>4, <1>6, <1>7, <1>8, <1>9, <1>10, <1>11 DEF Tidy
<1> QED
  BY <1>12 DEF c

(* The work of a batch begins. *)
Starting(p, b) == {TaskFor(p, id) : id \in {i \in b.work : HasTask(p, i)}}
LEMMA WorkBegins ==
  ASSUME NEW p, Typed(p), NEW b \in Batch, NEW q \in Seq(Message), NEW ts, NEW tm, NEW n \in Nat,
         Tidy(p, b, q, <<>>, ts, tm, n),
         Recent(p, n), \A e \in Held(q) : Own(e) => Recent(p, e.base - 1)
  PROVE  Tidy(p, NoBatch, q, <<>>, ts \cup Starting(p, b),
              tm \cup {id \in b.work : HasTimer(p, id)}, n)
<1> DEFINE new == Starting(p, b)
           tm2 == tm \cup {id \in b.work : HasTimer(p, id)}
           sent == Held(q) \cup Held(<<>>)
<1>1. ASSUME NEW id \in b.work
      PROVE  /\ id \in Id /\ id.at \in Working(p) /\ id = PhaseId(p, id.at)
             /\ Unused(id, sent, ts, tm)
             /\ \A e \in Held(q) : e.kind = "ack" => ~Ends(e.unit, id.at)
  BY DEF Tidy, Fitting, Batch
<1>2. ASSUME NEW id \in b.work PROVE Old(id, q, n)
  <2>1. id.seq = p.pending[id.at].seq /\ id.at \in State
    BY <1>1 DEF PhaseId, Working
  <2>2. id.seq \in Nat
    BY <2>1, PendingOf DEF Pending
  <2>3. ASSUME NEW e \in Held(q), Own(e) PROVE id.seq < e.base
    <3>1. e.base \in Nat
      BY <2>3, HeldOf, MessageType DEF Own
    <3>2. id.seq <= e.base - 1
      BY <2>1, <2>3 DEF Recent
    <3> QED
      BY <2>2, <3>1, <3>2
  <2> QED
    BY <2>1, <2>3 DEF Old, Recent
<1>3. ASSUME NEW t \in new
      PROVE  /\ t.id \in b.work /\ t = TaskFor(p, t.id) /\ HasTask(p, t.id)
             /\ AnswerOf(t) = Answers(p, t.id.at)
             /\ Untold(t) => /\ p.pending[t.id.at].phase = "running"
                             /\ Action[t.id.at] # "user"
  <2>1. PICK id \in b.work : t = TaskFor(p, id) /\ HasTask(p, id)
    BY <1>3 DEF Starting
  <2>2. t.id = id /\ (t.kind = "guard") = (p.pending[id.at].phase = "validating")
    BY <1>1, <2>1, StartedTask
  <2>3. p.pending[id.at].phase \in {"running", "validating"}
    BY <1>1, PendingOf DEF Working, Pending
  <2> QED
    BY <2>1, <2>2, <2>3 DEF AnswerOf, Answers, Untold, HasTask
<1> HIDE DEF new, sent
<1>4. Aged(q, sent, ts \cup new, tm2, n)
  <2>1. Aged(q, sent, ts, tm, n)
    BY DEF Tidy, sent
  <2> QED
    BY <1>2, <1>3, <2>1 DEF Aged
<1>5. Single(sent, ts \cup new)
  <2>1. Single(sent, ts)
    BY DEF Tidy, sent
  <2>2. \A t \in new : \A u \in ts : ~Alike(t, u) /\ ~Alike(u, t)
    BY <1>1, <1>3 DEF Unused, Alike
  <2>3. \A t, u \in new : Alike(t, u) => t = u
    BY <1>3 DEF Alike
  <2>4. \A t \in new : AnswerOf(t) \in Answering
    BY DEF AnswerOf, Answering
  <2>5. \A t \in new : \A e \in sent : ~(e.kind = AnswerOf(t) /\ e.id = t.id)
    BY <1>1, <1>3, <2>4 DEF Unused
  <2> QED
    BY <2>1, <2>2, <2>3, <2>5 DEF Single
<1>6. AtPhase(p, ts \cup new)
  <2>1. AtPhase(p, ts)
    BY DEF Tidy
  <2> QED
    BY <1>1, <1>3, <2>1 DEF AtPhase
<1>7. ASSUME NEW e \in Held(q), e.kind = "ack"
      PROVE  Ceased(p, sent, ts \cup new, e.unit) /\ Halted(ts \cup new, e.unit)
  <2>1. Ceased(p, sent, ts, e.unit) /\ Halted(ts, e.unit)
    BY <1>7 DEF Tidy, sent
  <2>2. \A t \in new : ~Ends(e.unit, t.id.at)
    BY <1>1, <1>3, <1>7
  <2>3. \A t, s : OfPhase(p, t, s) => t.id.at = s
    BY DEF OfPhase, PhaseId
  <2>4. Ceased(p, sent, ts \cup new, e.unit)
    BY <2>1, <2>2, <2>3 DEF Ceased
  <2>5. Halted(ts \cup new, e.unit)
    BY <2>1, <2>2 DEF Halted, Ends
  <2> QED
    BY <2>4, <2>5
<1>8. /\ NoBatch.unit = NoUnit /\ NoBatch.work = {} /\ NoBatch.invokes = {}
      /\ NoUnit.type # "timer_fired"
  BY DEF NoBatch, NoUnit
<1>9. Fitting(p, NoBatch, q, sent, ts \cup new, tm2)
  BY <1>8 DEF Fitting
<1>10. /\ Ceased(p, sent, ts \cup new, NoBatch.unit)
       /\ \A e \in Held(q) : ~Crosses(p, e, NoBatch.unit)
  BY <1>8, HarmlessNoUnit
<1>11. /\ Clean(p, q) /\ Clean(p, <<>>)
       /\ \A e \in Held(q) : \A f \in Held(<<>>) : ~Twice(e, f)
  BY DEF Tidy
<1> HIDE DEF tm2
<1>12. Tidy(p, NoBatch, q, <<>>, ts \cup new, tm2, n)
  BY <1>4, <1>5, <1>6, <1>7, <1>9, <1>10, <1>11 DEF Tidy, sent
<1> QED
  BY <1>12 DEF new, tm2

-----------------------------------------------------------------------------
(* What the machine asks for. *)
LEMMA GoingWork ==
  ASSUME NEW m, NEW u, NEW cs
  PROVE  LET b == Going(m, u, cs) IN
         /\ b.unit = u /\ b.cancels = cs
         /\ b.invokes \cap Working(m) = {}
         /\ \A id \in b.work :
              /\ id.at \in Working(m) /\ id = PhaseId(m, id.at)
              /\ id \in Desired(m) \ dispatched
<1> DEFINE fresh == Desired(m) \ dispatched
           b == Going(m, u, cs)
<1>1. /\ b.unit = u /\ b.cancels = cs
      /\ b.invokes = {id.at : id \in {i \in fresh : i.kind = "invoke"}}
      /\ b.work = {id \in fresh : id.kind = "phase"}
  BY DEF Going
<1>2. ASSUME NEW id \in Desired(m)
      PROVE  \/ id.kind = "invoke" /\ id.at \in DueInvokes(m)
             \/ id.kind = "open"
             \/ id.kind = "phase" /\ id.at \in DuePhases(m) /\ id = PhaseId(m, id.at)
  BY DEF Desired, InvokeId, OpenId, PhaseId
<1>3. DueInvokes(m) \cap Working(m) = {} /\ DuePhases(m) \subseteq Working(m)
  BY DEF DueInvokes, DuePhases, Working
<1> HIDE DEF b
<1>4. b.invokes \cap Working(m) = {}
  BY <1>1, <1>2, <1>3
<1>5. \A id \in b.work : id.at \in Working(m) /\ id = PhaseId(m, id.at) /\ id \in fresh
  BY <1>1, <1>2, <1>3
<1> QED
  BY <1>1, <1>4, <1>5 DEF b

(* Nothing that has a mark is asked for again. *)
LEMMA GoingNothing ==
  ASSUME dispatched = Desired(machine), NEW u, NEW cs
  PROVE  LET b == Going(machine, u, cs) IN b.invokes = {} /\ b.work = {}
BY DEF Going

(* The first event of an attempt finds nothing under way. *)
LEMMA StartTidy ==
  ASSUME NEW p, NEW q \in Seq(Message), NEW n,
         \A e \in Held(q) : e.kind = "ack" /\ ~Own(e)
  PROVE  Tidy(p, Going(p, NoUnit, {}), q, <<>>, {}, {}, n)
<1> DEFINE b == Going(p, NoUnit, {})
           sent == Held(q) \cup Held(<<>>)
<1>1. /\ b.unit = NoUnit /\ b.invokes \cap Working(p) = {}
      /\ \A id \in b.work : id.at \in Working(p) /\ id = PhaseId(p, id.at)
  BY GoingWork
<1> HIDE DEF b
<1>2. Held(<<>>) = {} /\ Clean(p, <<>>) /\ \A e \in sent : e.kind \notin Answering
  BY DEF Held, Clean, Answering
<1>3. Clean(p, q)
  <2>1. \A i \in DOMAIN q : q[i] \in Held(q)
    BY DEF Held
  <2> QED
    BY <2>1, HarmlessAck DEF Clean, Clashes, Twice
<1> HIDE DEF sent
<1>4. Aged(q, sent, {}, {}, n) /\ Single(sent, {}) /\ AtPhase(p, {})
  BY <1>2 DEF Aged, Single, AtPhase
<1>5. Fitting(p, b, q, sent, {}, {})
  <2>1. NoUnit.type # "timer_fired"
    BY DEF NoUnit
  <2>2. \A id : Unused(id, sent, {}, {})
    BY <1>2 DEF Unused
  <2> QED
    BY <1>1, <2>1, <2>2, HarmlessAck DEF Fitting
<1>6. Ceased(p, sent, {}, b.unit) /\ \A e \in Held(q) : ~Crosses(p, e, b.unit)
  BY <1>1, HarmlessNoUnit
<1>7. \A e \in Held(q) : e.kind = "ack" => Ceased(p, sent, {}, e.unit) /\ Halted({}, e.unit)
  BY HarmlessAck
<1>8. \A e \in Held(q) : \A f \in Held(<<>>) : ~Twice(e, f)
  BY <1>2
<1>9. Tidy(p, b, q, <<>>, {}, {}, n)
  BY <1>2, <1>3, <1>4, <1>5, <1>6, <1>7, <1>8 DEF Tidy, sent
<1> QED
  BY <1>9 DEF b

(* With fewer messages on their way, nothing new is in the way. *)
LEMMA FewerSent ==
  ASSUME NEW p, NEW q, NEW q2, Held(q2) \subseteq Held(q), NEW n,
         NEW sent, NEW sent2, sent2 \subseteq sent, NEW ts, NEW tm
  PROVE  /\ \A id : Old(id, q, n) => Old(id, q2, n)
         /\ Aged(q, sent, ts, tm, n) => Aged(q2, sent2, ts, tm, n)
         /\ Single(sent, ts) => Single(sent2, ts)
         /\ \A u : Ceased(p, sent, ts, u) => Ceased(p, sent2, ts, u)
<1>1. \A id : Old(id, q, n) => Old(id, q2, n)
  BY DEF Old
<1>2. Aged(q, sent, ts, tm, n) => Aged(q2, sent2, ts, tm, n)
  BY <1>1 DEF Aged
<1>3. Single(sent, ts) => Single(sent2, ts)
  BY DEF Single
<1>4. \A u : Ceased(p, sent, ts, u) => Ceased(p, sent2, ts, u)
  BY DEF Ceased
<1> QED
  BY <1>1, <1>2, <1>3, <1>4

(* The machine answers an outcome, a verdict or a deadline. *)
LEMMA AnswerTidy ==
  ASSUME NoTimedAgents, Typed(machine), dispatched = Desired(machine),
         NEW q \in Seq(Message), q # <<>>, Head(q).kind \in Answering,
         NEW ts, NEW tm, NEW n, Tidy(machine, NoBatch, q, <<>>, ts, tm, n),
         NEW u, NEW cs,
         \/ u = NoUnit
         \/ /\ LET phase == IF Head(q).kind = "verdict" THEN "validating" ELSE "running" IN
               Current(machine, Head(q).id, phase)
            /\ Ends(u, Head(q).id.at)
            /\ u.type = "timer_fired" => u.at \in cs
            /\ Head(q).kind = "timer" => u.type = "timer_fired"
  PROVE  Tidy(machine, Going(machine, u, cs), Tail(q), <<>>, ts, tm, n)
<1> DEFINE h == Head(q)
           s == h.id.at
           r == Tail(q)
           b == Going(machine, u, cs)
           sent == Held(q) \cup Held(<<>>)
           left == Held(r) \cup Held(<<>>)
<1>1. /\ b.unit = u /\ b.cancels = cs /\ b.invokes = {} /\ b.work = {}
  BY GoingWork, GoingNothing
<1>2. /\ h \in Message /\ Held(q) = {h} \cup Held(r) /\ Held(<<>>) = {}
      /\ r \in Seq(Message) /\ Held(r) \subseteq Message
  BY HeldTail, HeldOf
<1>3. Clean(machine, r) /\ Clean(machine, <<>>) /\ \A e \in Held(r) : ~Clashes(machine, h, e)
  BY CleanTail DEF Tidy
<1>4. left \subseteq sent /\ left = Held(r) /\ h \in sent
  BY <1>2
<1>5. /\ Aged(q, sent, ts, tm, n) /\ Single(sent, ts) /\ AtPhase(machine, ts)
      /\ \A e \in Held(q) : e.kind = "ack"
                => Ceased(machine, sent, ts, e.unit) /\ Halted(ts, e.unit)
  BY DEF Tidy
<1> HIDE DEF b
<1>6. ASSUME u # NoUnit
      PROVE  /\ s \in Working(machine) /\ h.id = PhaseId(machine, s)
             /\ h.kind \in {"work", "verdict"} => h.kind = Answers(machine, s)
             /\ \A t : Ends(u, t) => t = s
             /\ u.type # "invoke"
             /\ h.kind = "timer" => u.type = "timer_fired"
  <2>1. s \in State
    BY <1>2, MessageType DEF Id, Answering
  <2>2. /\ h.id = PhaseId(machine, s)
        /\ machine.pending[s].phase = IF h.kind = "verdict" THEN "validating" ELSE "running"
    BY <1>6 DEF Current
  <2>3. s \in Working(machine)
    BY <2>1, <2>2 DEF Working
  <2>4. h.kind \in {"work", "verdict"} => h.kind = Answers(machine, s)
    BY <2>2 DEF Answers
  <2>5. (\A t : Ends(u, t) => t = s) /\ u.type # "invoke"
    BY <1>6 DEF Ends
  <2> QED
    BY <1>6, <2>2, <2>3, <2>4, <2>5
<1> HIDE DEF h, s, r, sent, left
<1>7. Aged(r, left, ts, tm, n) /\ Single(left, ts)
      /\ \A x : Ceased(machine, sent, ts, x) => Ceased(machine, left, ts, x)
  <2>1. Held(r) \subseteq Held(q)
    BY <1>2
  <2> QED
    BY <1>4, <1>5, <2>1, FewerSent
<1>8. Ceased(machine, left, ts, u)
  <2>1. CASE u = NoUnit
    BY <2>1, HarmlessNoUnit
  <2>2. CASE u # NoUnit
    <3> SUFFICES ASSUME NEW w \in Working(machine), Ends(u, w), u.type # "timer_fired"
                 PROVE  /\ \A t \in ts : ~OfPhase(machine, t, w)
                        /\ \A e \in left : ~AnswersPhase(machine, e, w)
      BY DEF Ceased
    <3>1. w = s /\ h.kind \in {"work", "verdict"}
      BY <1>6, <2>2 DEF Answering, h
    <3>2. h.kind = Answers(machine, w) /\ h.id = PhaseId(machine, w)
      BY <1>6, <2>2, <3>1
    <3>3. \A t \in ts : ~OfPhase(machine, t, w)
      BY <1>4, <1>5, <3>2 DEF Single, OfPhase
    <3>4. \A e \in left : ~AnswersPhase(machine, e, w)
      BY <1>3, <1>4, <3>1, <3>2 DEF AnswersPhase, Clashes, Twice
    <3> QED
      BY <3>3, <3>4
  <2> QED
    BY <2>1, <2>2
<1>9. ASSUME NEW e \in Held(r) PROVE ~Crosses(machine, e, u)
  <2>1. CASE u = NoUnit
    BY <2>1, HarmlessNoUnit
  <2>2. CASE u # NoUnit
    <3>1. ASSUME NEW w \in Working(machine), Concerns(machine, e, w), Begins(u, w)
          PROVE  FALSE
      <4>1. Action[w] = "agent" /\ w = s /\ w \in State
        BY <1>6, <2>2, <3>1 DEF Begins, Working
      <4>2. After[w] = None
        BY <4>1 DEF NoTimedAgents
      <4>3. ASSUME NEW x \in Message, x.kind = "timer", x.id = PhaseId(machine, w)
            PROVE  FALSE
        BY <4>2, <4>3, MessageType DEF PhaseId
      <4>4. h.id = PhaseId(machine, w) /\ e.id = PhaseId(machine, w)
        BY <1>6, <2>2, <3>1, <4>1 DEF Concerns
      <4>5. h.kind # "timer" /\ e.kind # "timer"
        BY <1>2, <4>3, <4>4
      <4>6. h.kind \in {"work", "verdict"} /\ h.kind = Answers(machine, w)
            /\ e.kind = Answers(machine, w)
        BY <1>6, <2>2, <3>1, <4>1, <4>5 DEF Answering, Concerns, h
      <4> QED
        BY <1>3, <4>4, <4>6 DEF Clashes, Twice
    <3>2. ASSUME e.kind = "ack", NEW w \in State, Begins(e.unit, w), Ends(u, w)
          PROVE  FALSE
      <4>1. w = s /\ w \in Working(machine) /\ h.id = PhaseId(machine, w)
        BY <1>6, <2>2, <3>2
      <4>2. h.kind \in {Answers(machine, w), "timer"}
        BY <1>6, <2>2, <4>1 DEF Answering, h
      <4>3. Crosses(machine, h, e.unit)
        BY <3>2, <4>1, <4>2 DEF Crosses, Concerns
      <4> QED
        BY <1>3, <3>2, <4>3 DEF Clashes
    <3> QED
      BY <3>1, <3>2 DEF Crosses
  <2> QED
    BY <2>1, <2>2
<1>10. Fitting(machine, b, r, left, ts, tm)
  <2>1. u.type = "timer_fired" => u.at \in cs
    BY DEF NoUnit
  <2> QED
    BY <1>1, <2>1 DEF Fitting
<1>11. \A e \in Held(r) : e.kind = "ack"
          => Ceased(machine, left, ts, e.unit) /\ Halted(ts, e.unit)
  BY <1>2, <1>5, <1>7
<1>12. \A e \in Held(r) : \A f \in Held(<<>>) : ~Twice(e, f)
  BY <1>2
<1>13. Tidy(machine, b, r, <<>>, ts, tm, n)
  BY <1>1, <1>3, <1>5, <1>7, <1>8, <1>9, <1>10, <1>11, <1>12 DEF Tidy, left
<1> QED
  BY <1>13 DEF b, r

(* What an acknowledgement does to a phase: it leaves it or it begins it. *)
LEMMA AckFate ==
  ASSUME Typed(machine), Placed(machine), NEW e \in Message, e.kind = "ack",
         OfUser(e), Unheard(e), ~Rejects(machine, e.unit),
         NEW m, m = ProjectBranch(machine, e.unit, e.base), ~m.failed,
         NEW s \in Working(m)
  PROVE  \/ /\ s \in Working(machine) /\ PhaseId(machine, s) = PhaseId(m, s)
            /\ machine.pending[s].phase = m.pending[s].phase /\ ~Ends(e.unit, s)
         \/ /\ Own(e) /\ Begins(e.unit, s) /\ m.pending[s].seq >= e.base
            /\ e.unit.type = "invoke" \/ Ends(e.unit, s)
<1> DEFINE u == e.unit
<1>1. /\ u \in Unit /\ Sensible(u) /\ e.base \in Nat \ {0} /\ e.base \in Nat
      /\ u.type = "resolved" => Action[u.at] = "user"
      /\ u.type # "resolved" => Recent(machine, e.base - 1) /\ Own(e)
      /\ ~Rejects(machine, u)
  BY MessageType DEF OfUser, Unheard, Own
<1>2. Typed(m)
  BY <1>1, ProjectBranchTyped
<1>3. /\ s \in State /\ m.pending[s].phase # "none"
      /\ machine.pending[s] \in Pending /\ machine.pending[s].seq \in Nat
      /\ m.pending[s] \in Pending /\ m.pending[s].seq \in Nat
  BY <1>2, PendingOf DEF Pending, Working
<1> HIDE DEF u
<1>4. CASE Begun(m, u, e.base, s)
  <2>1. m.pending[s].seq >= e.base
    BY <1>1, <1>4, SizeType DEF Begun
  <2>2. u.type = "invoke" \/ Ends(u, s)
    BY <1>4 DEF Begun, Begins
  <2> QED
    BY <1>1, <1>4, <2>1, <2>2 DEF Begun, u
<1>5. CASE ~Begun(m, u, e.base, s)
  <2>1. m.pending[s] = machine.pending[s]
          \/ m.pending[s] = [machine.pending[s] EXCEPT !.gate = e.base]
    BY <1>1, <1>3, <1>5, ProjectedEntry, NoPendingType DEF Becomes, Untouched, u
  <2>2. /\ machine.pending[s].phase = m.pending[s].phase
        /\ machine.pending[s].seq = m.pending[s].seq
        /\ machine.pending[s].visit = m.pending[s].visit
    BY <1>3, <2>1 DEF Pending
  <2>3. s \in Working(machine) /\ PhaseId(machine, s) = PhaseId(m, s)
    BY <1>3, <2>2 DEF Working, PhaseId
  <2>4. ~Ends(u, s)
    <3> SUFFICES ASSUME Ends(u, s) PROVE FALSE
      OBVIOUS
    <3>1. s \in machine.leaves
      BY <1>3, <2>2 DEF Placed
    <3>2. m.pending[s].seq >= e.base
      BY <1>1, <1>3, <3>1, EndedPhase, NoPendingType DEF u
    <3>3. machine.pending[s].seq <= e.base - 1
      BY <1>1, <1>3 DEF Recent, Ends
    <3> QED
      BY <1>1, <1>3, <2>2, <3>2, <3>3
  <2> QED
    BY <2>2, <2>3, <2>4 DEF u
<1> QED
  BY <1>4, <1>5

(* An invocation abandons nothing. *)
LEMMA InvokeKeeps ==
  ASSUME NEW p, Typed(p), NEW u \in Unit, Sensible(u), ~Rejects(p, u), NEW base \in Nat,
         u.type = "invoke", NEW s \in Working(p)
  PROVE  ProjectBranch(p, u, base).pending[s].phase # "none"
<1>1. s \in State /\ p.pending[s].phase # "none" /\ p.pending \in [State -> Pending]
  BY DEF Working, Typed, BranchProjection
<1>2. Apply(p, u, base) = Invoke(p, u, base)
  BY DEF Apply, Effect
<1>3. ProjectBranch(p, u, base).pending = Invoke(p, u, base).pending
  BY <1>2, ProjectedFields
<1>4. Invoke(p, u, base).pending[s]
        \in {p.pending[s], Invoked(p.visits[s] + 1, InvokeSeq(u, base, s))}
  BY <1>1 DEF Invoke, Typed, BranchProjection
<1>5. \A v, n : Invoked(v, n).phase = "running"
  BY DEF Invoked
<1> QED
  BY <1>1, <1>3, <1>4, <1>5

(* Nobody who is at work is about a phase that the next acknowledgement    *)
(* ends.                                                                   *)
LEMMA HeadEndsNobody ==
  ASSUME NEW p, Typed(p), NEW b, NEW q, NEW r, NEW ts, NEW tm, NEW n, Tidy(p, b, q, r, ts, tm, n),
         ts \subseteq Task, NEW e \in Held(q), e.kind = "ack", NEW t \in ts, Untold(t)
  PROVE  ~Ends(e.unit, t.id.at)
<1> DEFINE s == t.id.at
<1>1. t.id = PhaseId(p, s) /\ p.pending[s].phase = "running" /\ s \in State
  BY DEF Tidy, AtPhase, Task, Id
<1>2. s \in Working(p) /\ AnswerOf(t) = "work" /\ Answers(p, s) = "work"
  BY <1>1 DEF Working, AnswerOf, Answers, Untold
<1>3. OfPhase(p, t, s)
  BY <1>1, <1>2 DEF OfPhase
<1>4. Ceased(p, Held(q) \cup Held(r), ts, e.unit) /\ Halted(ts, e.unit)
  BY DEF Tidy
<1> SUFFICES ASSUME Ends(e.unit, s) PROVE FALSE
  OBVIOUS
<1>5. CASE e.unit.type = "timer_fired"
  BY <1>4, <1>5 DEF Halted, Ends
<1>6. CASE e.unit.type # "timer_fired"
  BY <1>2, <1>3, <1>4, <1>6 DEF Ceased
<1> QED
  BY <1>5, <1>6

(* Who is not told to stop after an acknowledgement works on. *)
LEMMA UntoldWorksOn ==
  ASSUME Typed(machine), Placed(machine), NEW q, NEW e \in Message, e \in Held(q),
         e.kind = "ack", OfUser(e), Unheard(e), ~Rejects(machine, e.unit),
         NEW m, m = ProjectBranch(machine, e.unit, e.base), ~m.failed,
         NEW ts \in SUBSET Task, NEW tm, NEW n, Tidy(machine, NoBatch, q, <<>>, ts, tm, n),
         NEW t \in ts, Untold(t), t.id.at \notin Abandoned(machine, e.unit, e.base)
  PROVE  t.id = PhaseId(m, t.id.at) /\ m.pending[t.id.at].phase = "running"
<1> DEFINE s == t.id.at
           u == e.unit
<1>1. /\ t.id = PhaseId(machine, s) /\ machine.pending[s].phase = "running"
      /\ s \in State /\ Action[s] # "user"
  BY DEF Tidy, AtPhase, Task, Id
<1>2. s \in Working(machine) /\ ~Ends(u, s)
  BY <1>1, HeadEndsNobody DEF Working
<1>3. u \in Unit /\ Sensible(u) /\ e.base \in Nat
  BY MessageType
<1>4. m.pending[s].phase # "none"
  <2> SUFFICES ASSUME m.pending[s].phase = "none" PROVE FALSE
    OBVIOUS
  <2>1. u.type # "invoke"
    BY <1>2, <1>3, InvokeKeeps
  <2>2. s = u.at
    BY <1>1 DEF Abandoned
  <2>3. u.type \in {"opened", "resolved"}
    BY <1>2, <1>3, <2>1, <2>2, UnitType DEF Ends
  <2>4. Action[u.at] = "user"
    BY <2>3 DEF OfUser, Rejects
  <2> QED
    BY <1>1, <2>2, <2>4
<1>5. ~Begins(u, s)
  <2> SUFFICES ASSUME u.type = "invoke", s \in u.group PROVE FALSE
    BY <1>2 DEF Begins
  <2>1. s \in machine.leaves
    BY <1>1 DEF Placed
  <2> QED
    BY <1>1, <2>1 DEF Rejects
<1>6. s \in Working(m)
  BY <1>1, <1>4 DEF Working
<1>7. PhaseId(machine, s) = PhaseId(m, s) /\ machine.pending[s].phase = m.pending[s].phase
  BY <1>5, <1>6, AckFate
<1> QED
  BY <1>1, <1>7

(* The machine hears of an append. *)
LEMMA AckTidy ==
  ASSUME Typed(machine), Placed(machine), dispatched = Desired(machine),
         NEW q \in Seq(Message), q # <<>>, Head(q).kind = "ack",
         OfUser(Head(q)), Unheard(Head(q)), ~Rejects(machine, Head(q).unit),
         NEW m, m = ProjectBranch(machine, Head(q).unit, Head(q).base), ~m.failed,
         NEW ts \in SUBSET Task, NEW tm \in SUBSET Id, NEW n,
         Tidy(machine, NoBatch, q, <<>>, ts, tm, n),
         NEW cs, cs = Abandoned(machine, Head(q).unit, Head(q).base)
  PROVE  Tidy(m, Going(m, NoUnit, cs), Tail(q), <<>>, AfterCancel(ts, cs), tm, n)
<1> DEFINE h == Head(q)
           r == Tail(q)
           b == Going(m, NoUnit, cs)
           us == AfterCancel(ts, cs)
           sent == Held(q) \cup Held(<<>>)
           left == Held(r) \cup Held(<<>>)
<1>1. /\ b.unit = NoUnit /\ b.invokes \cap Working(m) = {}
      /\ \A id \in b.work : /\ id.at \in Working(m) /\ id = PhaseId(m, id.at)
                            /\ id \in Desired(m) \ dispatched
  BY GoingWork
<1>2. /\ h \in Message /\ Held(q) = {h} \cup Held(r) /\ Held(<<>>) = {}
      /\ r \in Seq(Message) /\ Held(r) \subseteq Message
  BY HeldTail, HeldOf
<1>3. Clean(machine, r) /\ \A e \in Held(r) : ~Clashes(machine, h, e)
  BY CleanTail DEF Tidy
<1>4. left \subseteq sent /\ left = Held(r) /\ sent \subseteq Message /\ Held(r) \subseteq Held(q)
  BY <1>2
<1>5. /\ Aged(q, sent, ts, tm, n) /\ Single(sent, ts)
      /\ \A e \in Held(q) : e.kind = "ack"
                => Ceased(machine, sent, ts, e.unit) /\ Halted(ts, e.unit)
  BY DEF Tidy
<1>6. /\ Heirs(us, ts)
      /\ \A t \in us : Untold(t) => t \in ts /\ t.id.at \notin cs
  BY CancelHeirs
<1>7. ASSUME NEW t \in us, Untold(t)
      PROVE  t.id = PhaseId(m, t.id.at) /\ m.pending[t.id.at].phase = "running"
  <2>1. t \in ts /\ t.id.at \notin Abandoned(machine, h.unit, h.base)
    BY <1>6, <1>7
  <2>2. h \in Held(q) /\ h.kind = "ack" /\ m = ProjectBranch(machine, h.unit, h.base)
    BY <1>2
  <2> HIDE DEF h, us
  <2> QED
    BY <1>2, <1>7, <2>1, <2>2, UntoldWorksOn DEF h
<1>8. \A t \in us : Untold(t) => Action[t.id.at] # "user"
  BY <1>6 DEF Tidy, AtPhase
<1>9. ASSUME NEW s \in Working(m)
      PROVE  \/ /\ s \in Working(machine) /\ PhaseId(machine, s) = PhaseId(m, s)
                /\ machine.pending[s].phase = m.pending[s].phase /\ ~Ends(h.unit, s)
             \/ /\ Own(h) /\ Begins(h.unit, s) /\ m.pending[s].seq >= h.base
  BY <1>2, AckFate
<1>10. Typed(m)
  BY <1>2, MessageType, ProjectBranchTyped
<1> HIDE DEF b, us
<1> DEFINE kept(s) == /\ s \in Working(machine) /\ PhaseId(machine, s) = PhaseId(m, s)
                      /\ machine.pending[s].phase = m.pending[s].phase
           new(s) == Own(h) /\ Begins(h.unit, s) /\ m.pending[s].seq >= h.base
<1>11. ASSUME NEW s \in Working(m), new(s), NEW id \in Id, Old(id, q, n)
       PROVE  id # PhaseId(m, s)
  <2>1. id.seq < h.base /\ h.base \in Nat /\ id.seq \in Nat
    BY <1>2, <1>11, MessageType DEF Old, Own, Id
  <2>2. PhaseId(m, s).seq = m.pending[s].seq /\ m.pending[s].seq \in Nat
    BY <1>10, PendingOf DEF PhaseId, Pending, Working
  <2> QED
    BY <1>11, <2>1, <2>2
<1>12. ASSUME NEW s \in Working(m), kept(s)
       PROVE  /\ Answers(m, s) = Answers(machine, s)
              /\ \A t : OfPhase(m, t, s) => OfPhase(machine, t, s)
              /\ \A e : AnswersPhase(m, e, s) => AnswersPhase(machine, e, s)
              /\ \A e : Concerns(m, e, s) => Concerns(machine, e, s)
  BY <1>12 DEF Answers, OfPhase, AnswersPhase, Concerns
<1>13. ASSUME NEW e \in sent, e.kind \in Answering PROVE e.id \in Id /\ Old(e.id, q, n)
  BY <1>4, <1>5, <1>13, MessageType DEF Aged, Answering
<1>14. \A t \in ts : t.id \in Id /\ Old(t.id, q, n)
  BY <1>5 DEF Aged, Task
<1>15. \A id \in tm : id \in Id /\ Old(id, q, n)
  BY <1>5 DEF Aged
<1> HIDE DEF h, r, sent, left
<1>16. Clean(m, r)
  <2> SUFFICES ASSUME NEW e \in Held(r), NEW f \in Held(r), f.kind = "ack",
                      Crosses(m, e, f.unit)
               PROVE  Crosses(machine, e, f.unit)
    BY <1>2, <1>3, CleanOther DEF Clashes
  <2>1. ASSUME NEW s \in Working(m), Concerns(m, e, s), Begins(f.unit, s)
        PROVE  Crosses(machine, e, f.unit)
    <3>1. CASE kept(s)
      BY <1>12, <2>1, <3>1 DEF Crosses
    <3>2. CASE new(s)
      <4>1. e.id = PhaseId(m, s) /\ e.kind \in Answering
        BY <2>1 DEF Concerns, Answers, Answering
      <4>2. e \in sent
        BY <1>4
      <4> QED
        BY <1>11, <1>13, <3>2, <4>1, <4>2
    <3> QED
      BY <1>9, <3>1, <3>2
  <2> QED
    BY <2>1 DEF Crosses
<1>17. Aged(r, left, us, tm, n) /\ Single(left, us)
  <2>1. Aged(r, left, ts, tm, n) /\ Single(left, ts)
    BY <1>4, <1>5, FewerSent
  <2>2. /\ \A u \in us : \E t \in ts : u.id = t.id /\ AnswerOf(u) = AnswerOf(t)
        /\ (\A t, v \in ts : Alike(t, v) => t = v) => \A t, v \in us : Alike(t, v) => t = v
    BY <1>6, HeirsOf
  <2>3. Aged(r, left, us, tm, n)
    BY <2>1, <2>2 DEF Aged
  <2>4. Single(left, us)
    BY <2>1, <2>2 DEF Single
  <2> QED
    BY <2>3, <2>4
<1>18. AtPhase(m, us)
  BY <1>7, <1>8 DEF AtPhase
<1>19. ASSUME NEW e \in Held(r), e.kind = "ack"
       PROVE  Ceased(m, left, us, e.unit) /\ Halted(us, e.unit)
  <2>1. Ceased(machine, sent, ts, e.unit) /\ Halted(ts, e.unit)
    BY <1>4, <1>5, <1>19
  <2>2. \A u \in us : \E t \in ts : u.id = t.id /\ AnswerOf(u) = AnswerOf(t)
                                    /\ (Untold(u) => Untold(t))
    BY <1>6, HeirsOf
  <2>3. Halted(us, e.unit)
    BY <2>1, <2>2 DEF Halted
  <2>4. ASSUME NEW s \in Working(m), Ends(e.unit, s), e.unit.type # "timer_fired"
        PROVE  /\ \A t \in us : ~OfPhase(m, t, s)
               /\ \A f \in left : ~AnswersPhase(m, f, s)
    <3>1. ~new(s)
      <4> SUFFICES ASSUME Begins(h.unit, s) PROVE FALSE
        OBVIOUS
      <4>1. Crosses(machine, h, e.unit)
        BY <2>4 DEF Crosses, Working, h
      <4> QED
        BY <1>3, <1>19, <4>1 DEF Clashes
    <3>2. kept(s)
      BY <1>9, <3>1
    <3>3. /\ \A t \in ts : ~OfPhase(machine, t, s)
          /\ \A f \in sent : ~AnswersPhase(machine, f, s)
      BY <2>1, <2>4, <3>2 DEF Ceased
    <3>4. \A t \in us : ~OfPhase(m, t, s)
      BY <1>12, <2>2, <3>2, <3>3 DEF OfPhase
    <3>5. \A f \in left : ~AnswersPhase(m, f, s)
      BY <1>4, <1>12, <3>2, <3>3
    <3> QED
      BY <3>4, <3>5
  <2> QED
    BY <2>3, <2>4 DEF Ceased
<1>20. ASSUME NEW id \in b.work
       PROVE  /\ id.at \in Working(m) /\ id = PhaseId(m, id.at)
              /\ Unused(id, left, us, tm)
              /\ \A e \in Held(r) : e.kind = "ack" => ~Ends(e.unit, id.at)
  <2> DEFINE s == id.at
  <2>1. s \in Working(m) /\ id = PhaseId(m, s) /\ id \in Desired(m) \ Desired(machine)
    BY <1>1
  <2>2. ~kept(s)
    <3> SUFFICES ASSUME kept(s) PROVE id \in Desired(machine)
      BY <2>1
    <3>1. s \in DuePhases(m)
      <4>1. PhaseId(m, s) \in Desired(m)
        BY <2>1
      <4> QED
        BY <2>1, <4>1, MarkedWasDue DEF Working
    <3>2. s \in DuePhases(machine)
      BY <3>1 DEF DuePhases
    <3> QED
      BY <2>1, <3>2 DEF Desired
  <2>3. new(s)
    BY <1>9, <2>1, <2>2
  <2>4. \A x \in Id : Old(x, q, n) => x # id
    BY <1>11, <2>1, <2>3
  <2>5. Unused(id, left, us, tm)
    <3>1. \A t \in us : t.id # id
      BY <1>6, <1>14, <2>4, HeirsOf
    <3>2. id \notin tm
      BY <1>15, <2>4
    <3>3. \A e \in left : e.kind \in Answering => e.id # id
      BY <1>4, <1>13, <2>4
    <3> QED
      BY <3>1, <3>2, <3>3 DEF Unused
  <2>6. ASSUME NEW e \in Held(r), e.kind = "ack", Ends(e.unit, s) PROVE FALSE
    <3>1. Crosses(machine, h, e.unit)
      BY <2>1, <2>3, <2>6 DEF Crosses, Working, h
    <3> QED
      BY <1>3, <2>6, <3>1 DEF Clashes
  <2> QED
    BY <2>1, <2>5, <2>6
<1>21. Fitting(m, b, r, left, us, tm)
  <2>1. NoUnit.type # "timer_fired"
    BY DEF NoUnit
  <2> QED
    BY <1>1, <1>20, <2>1 DEF Fitting
<1>22. Ceased(m, left, us, b.unit) /\ \A e \in Held(r) : ~Crosses(m, e, b.unit)
  BY <1>1, HarmlessNoUnit
<1>23. Clean(m, <<>>) /\ \A e \in Held(r) : \A f \in Held(<<>>) : ~Twice(e, f)
  BY <1>2 DEF Clean
<1>24. Tidy(m, b, r, <<>>, us, tm, n)
  BY <1>16, <1>17, <1>18, <1>19, <1>21, <1>22, <1>23 DEF Tidy, left
<1> QED
  BY <1>24 DEF b, r, us

(* An append takes over from the batch what it will settle. *)
LEMMA CommitTidy ==
  ASSUME NEW p, NEW b, NEW q \in Seq(Message), NEW r \in Seq(Message),
         NEW ts \in SUBSET Task, NEW tm \in SUBSET Id, NEW n \in Nat,
         Tidy(p, b, q, r, ts, tm, n), NEW k \in Nat, n <= k,
         NEW ack \in Message, ack.kind = "ack", ack.base = n + 1,
         NEW rest, rest.unit = NoUnit, rest.work = b.work, rest.invokes \subseteq b.invokes,
         NEW us, Heirs(us, ts), Ceased(p, Held(q) \cup Held(r), ts, ack.unit),
         Halted(us, ack.unit), \A e \in Held(q) : ~Crosses(p, e, ack.unit),
         \A id \in b.work : ~Ends(ack.unit, id.at)
  PROVE  Tidy(p, rest, Append(q, ack), r, us, tm, k)
<1> DEFINE c == Append(q, ack)
           sent == Held(q) \cup Held(r)
           all == Held(c) \cup Held(r)
<1>1. Held(c) = Held(q) \cup {ack} /\ all = sent \cup {ack} /\ sent \subseteq Message
  BY HeldAppend, HeldOf
<1>2. Tidy(p, b, q, r, us, tm, n)
  BY HeirsTidy
<1>3. /\ Aged(q, sent, ts, tm, n) /\ Aged(q, sent, us, tm, n) /\ Single(sent, us)
      /\ AtPhase(p, us) /\ Clean(p, q) /\ Clean(p, r)
      /\ \A e \in Held(q) : \A f \in Held(r) : ~Twice(e, f)
      /\ \A e \in Held(q) : e.kind = "ack"
              => Ceased(p, sent, us, e.unit) /\ Halted(us, e.unit)
      /\ Fitting(p, b, q, sent, us, tm)
  BY <1>2 DEF Tidy
<1>4. \A u \in us : \E t \in ts : u.id = t.id /\ AnswerOf(u) = AnswerOf(t)
  BY HeirsOf
<1>5. ack.kind \notin Answering /\ \A t : AnswerOf(t) # "ack"
  BY DEF Answering, AnswerOf
<1> HIDE DEF c, sent, all
<1>6. ASSUME NEW id \in Id, Old(id, q, n) PROVE Old(id, c, k)
  <2>1. id.seq \in Nat
    BY DEF Id
  <2>2. id.seq <= n
    BY <1>6 DEF Old
  <2>3. id.seq <= k /\ id.seq < ack.base
    BY <2>1, <2>2
  <2> QED
    BY <1>1, <1>6, <2>3 DEF Old
<1>7. Aged(c, all, us, tm, k)
  <2>1. \A t \in us : Old(t.id, c, k)
    BY <1>3, <1>4, <1>6 DEF Aged, Task
  <2>2. \A id \in tm : Old(id, c, k)
    BY <1>3, <1>6 DEF Aged
  <2>3. \A e \in sent : e.kind \in Answering => e.id \in Id
    BY <1>1, MessageType DEF Answering
  <2>4. \A e \in all : e.kind \in Answering => Old(e.id, c, k)
    BY <1>1, <1>3, <1>5, <1>6, <2>3 DEF Aged
  <2> QED
    BY <2>1, <2>2, <2>4 DEF Aged
<1>8. Single(all, us)
  BY <1>1, <1>3, <1>5 DEF Single
<1>9. Clean(p, c)
  <2>1. \A e \in Held(q) : ~Clashes(p, e, ack)
    BY DEF Clashes, Twice
  <2> QED
    BY <1>3, <2>1, CleanAppend DEF c
<1>10. \A e \in Held(c) : \A f \in Held(r) : ~Twice(e, f)
  BY <1>1, <1>3 DEF Twice
<1>11. ASSUME NEW u, Ceased(p, sent, us, u) PROVE Ceased(p, all, us, u)
  <2>1. \A s : ~AnswersPhase(p, ack, s)
    BY DEF AnswersPhase, Answers
  <2> QED
    BY <1>1, <1>11, <2>1 DEF Ceased
<1>12. Ceased(p, sent, us, ack.unit)
  <2>1. Ceased(p, sent, ts, ack.unit)
    BY DEF sent
  <2> QED
    BY <1>4, <2>1 DEF Ceased, OfPhase
<1>13. \A e \in Held(c) : e.kind = "ack" => Ceased(p, all, us, e.unit) /\ Halted(us, e.unit)
  BY <1>1, <1>3, <1>11, <1>12
<1>14. Fitting(p, rest, c, all, us, tm)
  <2>1. NoUnit.type # "timer_fired"
    BY DEF NoUnit
  <2>2. \A id : Unused(id, sent, us, tm) => Unused(id, all, us, tm)
    BY <1>1, <1>5 DEF Unused
  <2>3. \A id \in b.work : \A e \in Held(c) : e.kind = "ack" => ~Ends(e.unit, id.at)
    BY <1>1, <1>3 DEF Fitting
  <2> QED
    BY <1>3, <2>1, <2>2, <2>3 DEF Fitting
<1>15. Ceased(p, all, us, rest.unit) /\ \A e \in Held(c) : ~Crosses(p, e, rest.unit)
  BY HarmlessNoUnit
<1>16. Tidy(p, rest, c, r, us, tm, k)
  BY <1>3, <1>7, <1>8, <1>9, <1>10, <1>13, <1>14, <1>15 DEF Tidy, all
<1> QED
  BY <1>16 DEF c

(* The loop goes on with a batch to its next await, or to its end. *)
LEMMA AdvanceTidy ==
  ASSUME ~draining, loop' \in Live, NEW m, Typed(m), NEW asked \in Batch, ~asked.last,
         NEW q \in Seq(Message), buffer \in Seq(Message), Advance(m, asked, q),
         tasks \subseteq Task, NEW n \in Nat,
         Tidy(m, asked, q, buffer, AfterCancel(tasks, Outgoing(asked)), timers, n),
         \A e \in Held(buffer) : ~Own(e),
         Recent(m, n), \A e \in Held(q) : Own(e) => Recent(m, e.base - 1)
  PROVE  Tidy(m, batch', queue', buffer', tasks', timers', n)
<1> DEFINE ts == AfterCancel(tasks, Outgoing(asked))
<1>1. CASE /\ loop' = "busy"
           /\ batch' = [asked EXCEPT !.cancels = @ \ Outgoing(asked)]
           /\ tasks' = ts
           /\ timers' = timers /\ queue' = q /\ buffer' = buffer
  <2> DEFINE b == [asked EXCEPT !.cancels = @ \ Outgoing(asked)]
  <2>1. /\ b.unit = asked.unit /\ b.work = asked.work /\ b.invokes = asked.invokes
        /\ b.cancels = asked.cancels \ Outgoing(asked)
    BY DEF Batch
  <2>2. asked.unit.type = "timer_fired" => b.cancels = asked.cancels
    BY <2>1 DEF Outgoing, NoUnit
  <2> HIDE DEF b, ts
  <2>3. Tidy(m, asked, q, buffer, ts, timers, n)
    BY DEF ts
  <2>4. \A sent : Fitting(m, asked, q, sent, ts, timers) => Fitting(m, b, q, sent, ts, timers)
    BY <2>1, <2>2 DEF Fitting
  <2>5. Tidy(m, b, q, buffer, ts, timers, n)
    BY <2>1, <2>3, <2>4 DEF Tidy
  <2> QED
    BY <1>1, <2>5 DEF b
<1>2. CASE /\ loop' = "ready" /\ batch' = NoBatch /\ ~asked.last
           /\ asked.unit = NoUnit /\ asked.invokes = {} /\ asked.opens = {}
           /\ tasks' = ts \cup {TaskFor(m, id) : id \in {i \in asked.work : HasTask(m, i)}}
           /\ timers' = timers \cup {id \in asked.work : HasTimer(m, id)}
           /\ queue' = q \o buffer /\ buffer' = <<>>
  <2> DEFINE c == q \o buffer
  <2>1. c \in Seq(Message) /\ Held(c) = Held(q) \cup Held(buffer)
    BY HeldConcat
  <2> HIDE DEF c, ts
  <2>2. Tidy(m, asked, c, <<>>, ts, timers, n)
    BY <1>2, Delivered DEF c, ts
  <2>3. \A e \in Held(c) : Own(e) => Recent(m, e.base - 1)
    BY <2>1
  <2>4. Tidy(m, NoBatch, c, <<>>, ts \cup Starting(m, asked),
             timers \cup {id \in asked.work : HasTimer(m, id)}, n)
    BY <2>1, <2>2, <2>3, WorkBegins
  <2> QED
    BY <1>2, <2>4 DEF c, Starting
<1>3. CASE loop' \in Ended
  BY <1>3 DEF Live, Ended
<1> QED
  BY <1>1, <1>2, <1>3, AdvanceCases

-----------------------------------------------------------------------------
(* The steps of a branch that runs on. *)
Tidied == Tidy(machine, batch, queue, buffer, tasks, timers, durable.seq)

(* Before the first event of an attempt nothing is under way. *)
Unbegun ==
  Fresh(queue) =>
    /\ tasks = {} /\ timers = {}
    /\ \A e \in Held(queue) : e.kind = "start" \/ (e.kind = "ack" /\ ~Own(e))

(* The machine's output. *)
LEMMA OutputTidied ==
  ASSUME WorkInv, Runs, loop = "ready", queue # <<>>, loop' \in Live, ~batch'.last,
         NEW m, Typed(m), Recent(m, durable.seq),
         \A e \in Held(Tail(queue)) : Own(e) => Recent(m, e.base - 1),
         NEW u, u = NoUnit \/ Appendable(u), NEW cs \in SUBSET State, Output(m, u, cs),
         ~Over(m) => Tidy(m, Going(m, u, cs), Tail(queue), <<>>,
                          AfterCancel(tasks, Outgoing(Going(m, u, cs))), timers, durable.seq)
  PROVE  Tidied'
<1>1. /\ queue \in Seq(Message) /\ Tail(queue) \in Seq(Message) /\ tasks \subseteq Task
      /\ buffer = <<>> /\ buffer \in Seq(Message) /\ ~draining /\ durable.seq \in Nat
      /\ Held(buffer) = {}
  BY HeldOf DEF WorkInv, Runs, RunningOK, LogInv, TypeInv, RuntimeInv, Typed, BranchProjection
<1>2. PICK asked \in Batch :
           /\ Advance(m, asked, Tail(queue))
           /\ asked.last = Over(m)
           /\ ~Over(m) => asked = Going(m, u, cs) /\ dispatched' = Desired(m)
           /\ machine' = m /\ UNCHANGED <<log, error, runner>>
  BY OutputCases
<1>3. ~asked.last
  <2>1. CASE loop' = "busy"
    <3>1. batch' = [asked EXCEPT !.cancels = @ \ Outgoing(asked)]
      BY <1>1, <1>2, <2>1, AdvanceCases DEF Ended
    <3>2. batch'.last = asked.last
      BY <3>1 DEF Batch
    <3> QED
      BY <3>2
  <2>2. CASE loop' = "ready"
    BY <1>1, <1>2, <2>2, AdvanceCases DEF Ended
  <2> QED
    BY <2>1, <2>2 DEF Live
<1>4. asked = Going(m, u, cs)
  BY <1>2, <1>3
<1>5. Tidy(m, asked, Tail(queue), buffer, AfterCancel(tasks, Outgoing(asked)), timers,
           durable.seq)
  BY <1>1, <1>2, <1>3, <1>4
<1>6. Tidy(m, batch', queue', buffer', tasks', timers', durable.seq)
  BY <1>1, <1>2, <1>3, <1>5, AdvanceTidy
<1> QED
  BY <1>2, <1>6 DEF Tidied, log

(* An answer, a verdict or a deadline is taken. *)
LEMMA AnswerTidied ==
  ASSUME NoTimedAgents, WorkInv, Runs, Tidied, loop = "ready", queue # <<>>, loop' \in Live,
         ~batch'.last, Head(queue).kind \in Answering,
         NEW u, NEW cs \in SUBSET State, Output(machine, u, cs),
         \/ u = NoUnit
         \/ /\ LET phase == IF Head(queue).kind = "verdict" THEN "validating" ELSE "running" IN
               Current(machine, Head(queue).id, phase)
            /\ Ends(u, Head(queue).id.at) /\ Appendable(u)
            /\ u.type = "timer_fired" => u.at \in cs
            /\ Head(queue).kind = "timer" => u.type = "timer_fired"
  PROVE  Tidied'
<1>1. /\ Typed(machine) /\ Recent(machine, durable.seq) /\ dispatched = Desired(machine)
      /\ \A e \in Held(Tail(queue)) : Own(e) => Recent(machine, e.base - 1)
  BY TakingNext DEF Answering
<1>2. queue \in Seq(Message) /\ tasks \subseteq Task /\ batch = NoBatch /\ buffer = <<>>
  BY DEF WorkInv, Runs, RunningOK, LogInv, TypeInv, RuntimeInv
<1>3. Tidy(machine, NoBatch, queue, <<>>, tasks, timers, durable.seq)
  BY <1>2 DEF Tidied
<1>4. Tidy(machine, Going(machine, u, cs), Tail(queue), <<>>, tasks, timers, durable.seq)
  BY <1>1, <1>2, <1>3, AnswerTidy
<1> DEFINE us == AfterCancel(tasks, Outgoing(Going(machine, u, cs)))
<1>5. Heirs(us, tasks)
  BY <1>2, CancelHeirs
<1>6. Tidy(machine, Going(machine, u, cs), Tail(queue), <<>>, us, timers, durable.seq)
  <2> HIDE DEF us
  <2> QED
    BY <1>4, <1>5, HeirsTidy
<1> QED
  BY <1>1, <1>6, OutputTidied

(* The machine's steps. *)
LEMMA MachineTidied ==
  ASSUME NoTimedAgents, WorkInv, Runs, Unbegun, Tidied, loop' \in Live, ~batch'.last, Machine
  PROVE  Tidied'
<1> DEFINE e == Head(queue)
<1>1. loop = "ready" /\ queue # <<>>
  BY DEF Machine, StepStart, StepWork, StepTimer, StepVerdict, StepAck, Awaiting
<1>2. /\ Typed(machine) /\ Placed(machine) /\ Recent(machine, durable.seq) /\ durable.seq \in Nat
      /\ e \in Message /\ Held(queue) = {e} \cup Held(Tail(queue))
      /\ Unheard(e) /\ OfUser(e)
      /\ \A x \in Held(Tail(queue)) : Own(x) =>
           /\ Recent(machine, x.base - 1)
           /\ Own(e) => Until(e) < x.base
      /\ IF e.kind = "start" THEN dispatched = {} ELSE dispatched = Desired(machine)
  BY <1>1, TakingNext
<1>3. /\ queue \in Seq(Message) /\ Tail(queue) \in Seq(Message) /\ tasks \in SUBSET Task
      /\ timers \in SUBSET Id /\ batch = NoBatch /\ buffer = <<>>
      /\ Ordered(queue) /\ StartFirst(queue)
  BY <1>1 DEF WorkInv, Runs, RunningOK, AcksInOrder, Marks, LogInv, TypeInv, RuntimeInv
<1>4. CASE StepStart
  <2>1. e.kind = "start" /\ Fresh(queue) /\ Output(machine, NoUnit, {})
    BY <1>4 DEF StepStart, Awaiting, Fresh
  <2>2. NoStart(Tail(queue)) /\ tasks = {} /\ timers = {}
    BY <1>1, <1>3, <2>1, OrderTail DEF Unbegun
  <2>3. \A x \in Held(Tail(queue)) : x.kind = "ack" /\ ~Own(x)
    BY <1>2, <2>1, <2>2 DEF Unbegun, NoStart
  <2>4. Tidy(machine, Going(machine, NoUnit, {}), Tail(queue), <<>>, {}, {}, durable.seq)
    BY <1>3, <2>3, StartTidy
  <2> DEFINE us == AfterCancel(tasks, Outgoing(Going(machine, NoUnit, {})))
  <2>5. Heirs(us, {})
    BY <1>3, <2>2, CancelHeirs
  <2>6. Tidy(machine, Going(machine, NoUnit, {}), Tail(queue), <<>>, us, timers, durable.seq)
    <3> HIDE DEF us
    <3> QED
      BY <2>2, <2>4, <2>5, HeirsTidy
  <2> QED
    BY <1>1, <1>2, <2>1, <2>6, OutputTidied
<1>5. CASE StepWork
  <2>1. e.kind = "work" /\ e.kind \in Answering /\ e.id.at \in State
        /\ e.result \in AllowedEvents(e.id.at) \cup {"retryable", "fatal"}
    BY <1>2, <1>5, MessageType DEF StepWork, Awaiting, Id, Answering
  <2>2. CASE Current(machine, e.id, "running")
    <3> DEFINE u == OutcomeUnit(e.id.at, e.result)
    <3>1. Appendable(u) /\ Output(machine, u, {})
      BY <1>2, <1>5, <2>1, <2>2, OutcomeAppendable DEF StepWork
    <3>2. Ends(u, e.id.at) /\ u.type # "timer_fired"
      BY DEF OutcomeUnit, RecoveryDecision, Ends
    <3> HIDE DEF u
    <3> QED
      BY <1>1, <2>1, <2>2, <3>1, <3>2, AnswerTidied
  <2>3. CASE ~Current(machine, e.id, "running")
    <3>1. Output(machine, NoUnit, {})
      BY <1>5, <2>3 DEF StepWork
    <3> QED
      BY <1>1, <2>1, <3>1, AnswerTidied
  <2> QED
    BY <2>2, <2>3
<1>6. CASE StepTimer
  <2>1. e.kind = "timer" /\ e.kind \in Answering /\ e.id.at \in State /\ After[e.id.at] # None
    BY <1>2, <1>6, MessageType DEF StepTimer, Awaiting, Id, Answering
  <2>2. CASE Current(machine, e.id, "running")
    <3> DEFINE u == [type |-> "timer_fired", at |-> e.id.at]
    <3>1. Appendable(u) /\ Output(machine, u, {e.id.at})
      BY <1>6, <2>1, <2>2 DEF StepTimer, Appendable, Unit, Sensible
    <3>2. Ends(u, e.id.at) /\ u.type = "timer_fired" /\ u.at = e.id.at
      BY DEF Ends
    <3> HIDE DEF u
    <3>3. {e.id.at} \in SUBSET State /\ u.at \in {e.id.at}
      BY <2>1, <3>2
    <3> QED
      BY <1>1, <2>1, <2>2, <3>1, <3>2, <3>3, AnswerTidied
  <2>3. CASE ~Current(machine, e.id, "running")
    <3>1. Output(machine, NoUnit, {})
      BY <1>6, <2>3 DEF StepTimer
    <3> QED
      BY <1>1, <2>1, <3>1, AnswerTidied
  <2> QED
    BY <2>2, <2>3
<1>7. CASE StepVerdict
  <2>1. e.kind = "verdict" /\ e.kind \in Answering /\ e.id.at \in State /\ e.ok \in BOOLEAN
    BY <1>2, <1>7, MessageType DEF StepVerdict, Awaiting, Id, Answering
  <2> DEFINE u == VerdictUnit(e.id.at, e.ok)
  <2>2. Current(machine, e.id, "validating")
    BY <1>7 DEF StepVerdict, Throw, Live
  <2>3. Appendable(u) /\ Output(machine, u, {})
    BY <1>2, <1>7, <2>1, <2>2, VerdictAppendable DEF StepVerdict, Current
  <2>4. Ends(u, e.id.at) /\ u.type # "timer_fired"
    BY DEF VerdictUnit, Ends
  <2> HIDE DEF u
  <2> QED
    BY <1>1, <2>1, <2>2, <2>3, <2>4, AnswerTidied
<1>8. CASE StepAck
  <2> DEFINE m == ProjectBranch(machine, e.unit, e.base)
             cs == Abandoned(machine, e.unit, e.base)
  <2>1. /\ e.kind = "ack" /\ e.unit \in Unit /\ Sensible(e.unit) /\ e.base \in Nat \ {0}
    BY <1>2, <1>8, MessageType DEF StepAck, Awaiting
  <2>2. ~Rejects(machine, e.unit) /\ Output(m, NoUnit, cs)
    BY <1>8 DEF StepAck, Throw, Live
  <2>3. Typed(m) /\ cs \in SUBSET State
    BY <1>2, <2>1, <2>2, ProjectBranchTyped DEF Abandoned
  <2>4. /\ Recent(m, durable.seq)
        /\ \A x \in Held(Tail(queue)) : Own(x) => Recent(m, x.base - 1)
    BY <1>1, <2>1, <2>2, AckRecent
  <2>5. ASSUME ~Over(m)
        PROVE  Tidy(m, Going(m, NoUnit, cs), Tail(queue), <<>>,
                    AfterCancel(tasks, Outgoing(Going(m, NoUnit, cs))), timers, durable.seq)
    <3>1. ~m.failed /\ dispatched = Desired(machine)
      BY <1>2, <2>1, <2>5 DEF Over
    <3>2. Outgoing(Going(m, NoUnit, cs)) = cs
      BY DEF Outgoing, Going
    <3>3. Tidy(machine, NoBatch, queue, <<>>, tasks, timers, durable.seq)
      BY <1>3 DEF Tidied
    <3> HIDE DEF cs
    <3>4. cs = Abandoned(machine, e.unit, e.base)
      BY DEF cs
    <3> HIDE DEF m
    <3>5. m = ProjectBranch(machine, e.unit, e.base)
      BY DEF m
    <3> QED
      BY <1>1, <1>2, <1>3, <2>1, <2>2, <3>1, <3>2, <3>3, <3>4, <3>5, AckTidy
  <2> HIDE DEF m, cs
  <2> QED
    BY <1>1, <2>2, <2>3, <2>4, <2>5, OutputTidied
<1> QED
  BY <1>4, <1>5, <1>6, <1>7, <1>8 DEF Machine

(* An append of the batch becomes durable. *)
LEMMA CommitTidied ==
  ASSUME WorkInv, Runs, Tidied, loop = "busy", loop' \in Live, ~batch.last,
         NEW u, Appendable(u), NEW rest \in Batch, Commit(u, rest),
         rest.unit = NoUnit, rest.last = batch.last, rest.work = batch.work,
         rest.invokes \subseteq batch.invokes,
         Ceased(machine, Held(queue) \cup Held(buffer), tasks, u),
         Halted(AfterCancel(tasks, rest.cancels), u),
         \A e \in Held(queue) : ~Crosses(machine, e, u),
         \A id \in batch.work : ~Ends(u, id.at)
  PROVE  Tidied'
<1> DEFINE base == durable.seq + 1
           ack == [kind |-> "ack", unit |-> u, base |-> base]
           q == Append(queue, ack)
           us == AfterCancel(tasks, Outgoing(rest))
<1>1. /\ queue \in Seq(Message) /\ buffer \in Seq(Message) /\ tasks \in SUBSET Task
      /\ timers \in SUBSET Id /\ RunningOK /\ ~draining /\ durable.seq \in Nat
      /\ Typed(durable) /\ Typed(machine)
  BY DEF WorkInv, Runs, LogInv, TypeInv, RuntimeInv, Typed, BranchProjection
<1>2. u \in Unit /\ Sensible(u) /\ Size(u) \in Nat /\ base \in Nat \ {0} /\ ~Rejects(durable, u)
  BY <1>1, SizeType DEF Appendable, Commit, Throw, Live
<1>3. /\ durable' = ProjectBranch(durable, u, base)
      /\ Advance(machine, rest, q)
      /\ machine' = machine
  BY <1>1, <1>2 DEF Commit
<1>4. ack \in Message /\ ack.kind = "ack" /\ ack.unit = u /\ ack.base = durable.seq + 1
  BY <1>2, AckMessage
<1>5. durable'.seq \in Nat /\ durable.seq <= durable'.seq
  <2>1. Apply(durable, u, base) \in BranchProjection
    BY <1>1, <1>2, ApplyTyped DEF Typed
  <2>2. durable'.seq = Latest(durable.seq, base + Size(u) - 1)
    BY <1>3, <2>1 DEF ProjectBranch, BranchProjection
  <2> QED
    BY <1>1, <1>2, <2>2 DEF Latest
<1>6. Outgoing(rest) = rest.cancels /\ Heirs(us, tasks)
  BY <1>1, CancelHeirs DEF Outgoing
<1>7. Halted(us, u)
  BY <1>6
<1> HIDE DEF ack, us
<1>8. Tidy(machine, rest, q, buffer, us, timers, durable'.seq)
  BY <1>1, <1>4, <1>5, <1>6, <1>7, CommitTidy DEF Tidied
<1>9. q \in Seq(Message) /\ Held(q) = Held(queue) \cup {ack}
  BY <1>1, <1>4, HeldAppend
<1> HIDE DEF q
<1>10. \A e \in Held(q) : Own(e) => Recent(machine, e.base - 1)
  <2>1. \A e \in Held(queue) : Own(e) => Recent(machine, e.base - 1)
    BY <1>1 DEF RunningOK, AcksInOrder, Unheard
  <2>2. ack.base - 1 = durable.seq /\ Recent(machine, durable.seq)
    BY <1>1, <1>4 DEF RunningOK
  <2> QED
    BY <1>9, <2>1, <2>2
<1>11. Recent(machine, durable'.seq)
  <2>1. \A s \in State : machine.pending[s].seq \in Nat
    BY <1>1, PendingOf DEF Pending
  <2> QED
    BY <1>1, <1>5, <2>1 DEF RunningOK, Recent
<1>12. \A e \in Held(buffer) : ~Own(e)
  BY <1>1 DEF RunningOK, AcksInOrder
<1>13. Tidy(machine, batch', queue', buffer', tasks', timers', durable'.seq)
  BY <1>1, <1>3, <1>5, <1>8, <1>9, <1>10, <1>11, <1>12, AdvanceTidy DEF us
<1> QED
  BY <1>3, <1>13 DEF Tidied

(* The writer's steps. *)
LEMMA WriterTidied ==
  ASSUME WorkInv, Runs, Tidied, loop' \in Live, ~batch.last, Writer
  PROVE  Tidied'
<1> DEFINE sent == Held(queue) \cup Held(buffer)
<1>1. /\ loop = "busy" /\ batch \in Batch /\ tasks \in SUBSET Task
      /\ batch.unit # NoUnit => Appendable(batch.unit)
  BY DEF WorkInv, LogInv, TypeInv, RuntimeInv, Batch, Appendable, Writer,
         CommitResponse, CommitInvokes, CommitOpen
<1>2. /\ Ceased(machine, sent, tasks, batch.unit)
      /\ \A e \in Held(queue) : ~Crosses(machine, e, batch.unit)
      /\ Fitting(machine, batch, queue, sent, tasks, timers)
  BY DEF Tidied, Tidy
<1> HIDE DEF sent
<1>3. CASE CommitResponse
  <2> DEFINE rest == [batch EXCEPT !.unit = NoUnit]
  <2>1. /\ rest \in Batch /\ rest.unit = NoUnit /\ rest.last = batch.last
        /\ rest.work = batch.work /\ rest.invokes \subseteq batch.invokes
        /\ rest.cancels = batch.cancels
    BY <1>1 DEF Batch
  <2>2. batch.unit # NoUnit /\ Appendable(batch.unit) /\ Commit(batch.unit, rest)
    BY <1>1, <1>3 DEF CommitResponse
  <2>3. \A id \in batch.work : ~Ends(batch.unit, id.at)
    BY <1>2, <2>2 DEF Fitting
  <2>4. Halted(AfterCancel(tasks, rest.cancels), batch.unit)
    <3>1. batch.unit.type = "timer_fired" => batch.unit.at \in rest.cancels
      BY <1>2, <2>1 DEF Fitting
    <3>2. \A t \in AfterCancel(tasks, rest.cancels) : Untold(t) => t.id.at \notin rest.cancels
      BY <1>1, CancelHeirs
    <3> QED
      BY <3>1, <3>2 DEF Halted
  <2> HIDE DEF rest
  <2> QED
    BY <1>1, <1>2, <2>1, <2>2, <2>3, <2>4, CommitTidied DEF sent
<1>4. CASE CommitInvokes
  <2> DEFINE rest == [batch EXCEPT !.invokes = {}]
             u == [type |-> "invoke", group |-> batch.invokes]
  <2>1. /\ rest \in Batch /\ rest.unit = NoUnit /\ rest.last = batch.last
        /\ rest.work = batch.work /\ rest.invokes \subseteq batch.invokes
    BY <1>1, <1>4 DEF Batch, CommitInvokes
  <2>2. Appendable(u) /\ u.type = "invoke" /\ u.group = batch.invokes
    BY <1>1 DEF Batch, Appendable, Unit, Sensible
  <2>3. Commit(u, rest)
    BY <1>4 DEF CommitInvokes
  <2> HIDE DEF rest, u
  <2>4. /\ \A s : ~Ends(u, s)
        /\ \A ts, x : Ceased(machine, x, ts, u) /\ Halted(ts, u)
    BY <2>2 DEF Ends, Ceased, Halted
  <2>5. \A e \in Held(queue) : ~Crosses(machine, e, u)
    <3>1. batch.invokes \cap Working(machine) = {}
      BY <1>2 DEF Fitting
    <3> QED
      BY <2>2, <2>4, <3>1 DEF Crosses, Begins
  <2> QED
    BY <1>1, <2>1, <2>2, <2>3, <2>4, <2>5, CommitTidied
<1>5. CASE CommitOpen
  <2>1. PICK id \in batch.opens :
          Commit([type |-> "opened", at |-> id.at, phase |-> id.seq],
                 [batch EXCEPT !.opens = @ \ {id}])
    BY <1>5 DEF CommitOpen
  <2> DEFINE rest == [batch EXCEPT !.opens = @ \ {id}]
             u == [type |-> "opened", at |-> id.at, phase |-> id.seq]
  <2>2. /\ rest \in Batch /\ rest.unit = NoUnit /\ rest.last = batch.last
        /\ rest.work = batch.work /\ rest.invokes \subseteq batch.invokes
    BY <1>1, <1>5 DEF Batch, CommitOpen
  <2>3. Appendable(u) /\ u.type \in {"none", "opened", "resolved"}
    BY <1>1 DEF Batch, Id, Appendable, Unit, Sensible
  <2>4. Commit(u, rest)
    BY <2>1
  <2> HIDE DEF rest, u
  <2>5. /\ \A s : ~Ends(u, s)
        /\ \A p, x, ts : Ceased(p, x, ts, u) /\ Halted(ts, u)
        /\ \A p, e : ~Crosses(p, e, u)
    BY <2>3, Harmless
  <2> QED
    BY <1>1, <2>2, <2>3, <2>4, <2>5, CommitTidied
<1> QED
  BY <1>3, <1>4, <1>5 DEF Writer

(* What the loop does is no beginning. *)
LEMMA StaysBegun ==
  ASSUME WorkInv, Runs, loop' \in Live, Machine \/ Writer
  PROVE  ~Fresh(queue')
<1>1. /\ queue \in Seq(Message) /\ buffer \in Seq(Message) /\ ~draining /\ RunningOK
      /\ NoStart(buffer) /\ StartFirst(queue) /\ Ordered(queue)
      /\ Typed(durable) /\ durable.seq \in Nat
  BY DEF WorkInv, Runs, RunningOK, Marks, AcksInOrder, LogInv, TypeInv, RuntimeInv, Typed,
         BranchProjection
<1>2. ASSUME NEW q \in Seq(Message), NoStart(q), NEW m, NEW asked, Advance(m, asked, q)
      PROVE  ~Fresh(queue')
  <2>1. queue' = q \/ queue' = q \o buffer
    BY <1>1, <1>2, AdvanceCases DEF Live, Ended
  <2>2. NoStart(q \o buffer) /\ q \o buffer \in Seq(Message)
    BY <1>1, <1>2, HeldConcat DEF NoStart
  <2>3. \A c \in Seq(Message) : NoStart(c) => ~Fresh(c)
    <3>1. \A c \in Seq(Message) : c # <<>> => Head(c) \in Held(c)
      BY HeldTail
    <3> QED
      BY <3>1 DEF NoStart, Fresh
  <2> QED
    BY <1>2, <2>1, <2>2, <2>3
<1>3. CASE Machine
  <2>1. queue # <<>>
    BY <1>3 DEF Machine, StepStart, StepWork, StepTimer, StepVerdict, StepAck, Awaiting
  <2>2. PICK m, u, cs : Output(m, u, cs)
    BY <1>3 DEF Machine, StepStart, StepWork, StepTimer, StepVerdict, StepAck, Throw, Live
  <2>3. \E asked : Advance(m, asked, Tail(queue))
    BY <2>2 DEF Output
  <2>4. NoStart(Tail(queue)) /\ Tail(queue) \in Seq(Message)
    BY <1>1, <2>1, OrderTail
  <2> QED
    BY <1>2, <2>3, <2>4
<1>4. CASE Writer
  <2>1. loop = "busy"
    BY <1>4 DEF Writer, CommitResponse, CommitInvokes, CommitOpen
  <2>2. NoStart(queue)
    BY <1>1, <2>1, BegunQueue DEF RunningOK, Marks
  <2>3. batch \in Batch /\ (batch.unit # NoUnit => Appendable(batch.unit))
    BY DEF WorkInv, LogInv, TypeInv, RuntimeInv, Batch, Appendable
  <2>4. PICK u, rest : Appendable(u) /\ Commit(u, rest)
    <3>1. CASE CommitResponse
      BY <2>3, <3>1 DEF CommitResponse
    <3>2. CASE CommitInvokes
      <4>1. Appendable([type |-> "invoke", group |-> batch.invokes])
        BY <2>3 DEF Batch, Appendable, Unit, Sensible
      <4> QED
        BY <3>2, <4>1 DEF CommitInvokes
    <3>3. CASE CommitOpen
      <4>1. \A id \in batch.opens : Appendable([type |-> "opened", at |-> id.at, phase |-> id.seq])
        BY <2>3 DEF Batch, Id, Appendable, Unit, Sensible
      <4> QED
        BY <3>3, <4>1 DEF CommitOpen
    <3> QED
      BY <1>4, <3>1, <3>2, <3>3 DEF Writer
  <2> DEFINE ack == [kind |-> "ack", unit |-> u, base |-> durable.seq + 1]
  <2>5. ack \in Message /\ ack.kind = "ack"
    BY <1>1, <2>4, AckMessage DEF Appendable
  <2>6. Advance(machine, rest, Append(queue, ack))
    BY <1>1, <2>4 DEF Commit, Throw, Live
  <2> HIDE DEF ack
  <2>7. NoStart(Append(queue, ack)) /\ Append(queue, ack) \in Seq(Message)
    BY <1>1, <2>2, <2>5, HeldAppend DEF NoStart
  <2> QED
    BY <1>2, <2>6, <2>7
<1> QED
  BY <1>3, <1>4

(* A deadline fewer, or a longer log. *)
LEMMA LaterTidy ==
  ASSUME NEW p, NEW b, NEW q \in Seq(Message), NEW r \in Seq(Message),
         NEW ts \in SUBSET Task, NEW tm \in SUBSET Id, NEW n \in Nat,
         Tidy(p, b, q, r, ts, tm, n), NEW tm2 \in SUBSET tm, NEW k \in Nat, n <= k
  PROVE  Tidy(p, b, q, r, ts, tm2, k)
<1> DEFINE sent == Held(q) \cup Held(r)
<1>1. Held(q) \cup Held(r) \subseteq Message
  BY HeldOf
<1>2. \A id \in Id : Old(id, q, n) => Old(id, q, k)
  BY DEF Old, Id
<1>3. \A e \in sent : e.kind \in Answering => e.id \in Id
  BY <1>1, MessageType DEF Answering
<1>4. Aged(q, sent, ts, tm, n) /\ Fitting(p, b, q, sent, ts, tm)
  BY DEF Tidy
<1> HIDE DEF sent
<1>5. Aged(q, sent, ts, tm2, k)
  BY <1>2, <1>3, <1>4 DEF Aged, Task
<1>6. \A id : Unused(id, sent, ts, tm) => Unused(id, sent, ts, tm2)
  BY DEF Unused
<1>7. Fitting(p, b, q, sent, ts, tm2)
  BY <1>4, <1>6 DEF Fitting
<1> QED
  BY <1>5, <1>7 DEF Tidy, sent

(* Something is sent that may join. *)
LEMMA SentTidied ==
  ASSUME WorkInv, Runs, UNCHANGED <<machine, batch>>, NEW e \in Message, Send(e),
         Tidy(machine, batch, queue, buffer, tasks', timers', durable'.seq),
         Welcome(machine, batch, queue, Held(queue) \cup Held(buffer), tasks',
                 durable'.seq, e)
  PROVE  Tidied'
<1>1. /\ queue \in Seq(Message) /\ buffer \in Seq(Message) /\ ~draining
      /\ loop = "ready" => batch = NoBatch
  BY DEF WorkInv, Runs, RunningOK, LogInv, TypeInv, RuntimeInv
<1>2. CASE loop = "ready"
  <2>1. queue' = Append(queue, e) /\ buffer' = buffer
    BY <1>1, <1>2 DEF Send
  <2>2. batch.unit = NoUnit
    BY <1>1, <1>2 DEF NoBatch
  <2>3. Tidy(machine, batch, Append(queue, e), buffer, tasks', timers', durable'.seq)
    BY <1>1, <2>2, QueueJoined
  <2> QED
    BY <2>1, <2>3 DEF Tidied
<1>3. CASE loop = "busy"
  <2>1. queue' = queue /\ buffer' = Append(buffer, e)
    BY <1>1, <1>3 DEF Send
  <2>2. Tidy(machine, batch, queue, Append(buffer, e), tasks', timers', durable'.seq)
    BY <1>1, BufferJoined
  <2> QED
    BY <2>1, <2>2 DEF Tidied
<1> QED
  BY <1>2, <1>3 DEF Runs, Live

(* What a task answers with may join, once the task is gone. *)
LEMMA AnswerWelcome ==
  ASSUME NEW p, NEW b, NEW q, NEW r, NEW ts, NEW tm, NEW n, Tidy(p, b, q, r, ts, tm, n),
         NEW t \in ts, NEW e, e.kind = AnswerOf(t), e.id = t.id
  PROVE  /\ Tidy(p, b, q, r, ts \ {t}, tm, n)
         /\ Welcome(p, b, q, Held(q) \cup Held(r), ts \ {t}, n, e)
<1> DEFINE sent == Held(q) \cup Held(r)
           us == ts \ {t}
<1>1. Tidy(p, b, q, r, us, tm, n)
  <2>1. Heirs(us, ts)
    BY SubsetHeirs
  <2> QED
    BY <2>1, HeirsTidy
<1>2. /\ Aged(q, sent, ts, tm, n) /\ Single(sent, ts) /\ Fitting(p, b, q, sent, ts, tm)
      /\ Ceased(p, sent, ts, b.unit)
      /\ \A f \in Held(q) : f.kind = "ack" => Ceased(p, sent, ts, f.unit)
  BY DEF Tidy
<1> HIDE DEF sent
<1>3. e.kind \in {"work", "verdict"}
  BY DEF AnswerOf
<1>4. ~Own(e) /\ (e.kind \in Answering => Old(e.id, q, n) /\ e.id \notin b.work)
  BY <1>2, <1>3 DEF Own, Aged, Fitting, Unused
<1>5. \A v \in us : ~(e.kind = AnswerOf(v) /\ e.id = v.id)
  BY <1>2 DEF Single, Alike
<1>6. \A f \in sent : ~Twice(f, e)
  BY <1>2 DEF Single, Twice
<1>7. ASSUME NEW s \in Working(p), AnswersPhase(p, e, s)
      PROVE  OfPhase(p, t, s)
  BY <1>7 DEF AnswersPhase, OfPhase
<1>8. \A s \in Working(p) : AnswersPhase(p, e, s) =>
        /\ Ends(b.unit, s) => b.unit.type = "timer_fired"
        /\ \A f \in Held(q) : f.kind = "ack" /\ Ends(f.unit, s) => f.unit.type = "timer_fired"
  BY <1>2, <1>7 DEF Ceased
<1>9. Welcome(p, b, q, sent, us, n, e)
  BY <1>4, <1>5, <1>6, <1>8 DEF Welcome
<1> QED
  BY <1>1, <1>9 DEF sent

(* What is sent is no beginning. *)
LEMMA SendNoStart ==
  ASSUME WorkInv, Runs, NEW e \in Message, e.kind # "start", Send(e), Fresh(queue')
  PROVE  Fresh(queue) /\ Held(queue') \subseteq Held(queue) \cup {e}
<1>1. queue \in Seq(Message) /\ ~draining
  BY DEF WorkInv, Runs, LogInv, TypeInv, RuntimeInv
<1>2. CASE queue' = queue
  BY <1>2
<1>3. CASE queue' = Append(queue, e)
  <2>1. Held(queue') = Held(queue) \cup {e}
    BY <1>1, <1>3, HeldAppend
  <2>2. queue = <<>> => Head(queue') = e
    BY <1>1, <1>3
  <2>3. queue # <<>> => Head(queue') = Head(queue)
    BY <1>1, <1>3
  <2> QED
    BY <2>1, <2>2, <2>3 DEF Fresh
<1> QED
  BY <1>2, <1>3 DEF Send

(* Executors and validators. *)
LEMMA WorkTidied ==
  ASSUME WorkInv, Runs, Unbegun, ~batch.last => Tidied, Work
  PROVE  Unbegun' /\ (~batch'.last => Tidied')
<1>1. PICK t \in tasks : EndDelay(t) \/ Begin(t) \/ Answer(t) \/ Verdict(t)
  BY DEF Work
<1>2. /\ tasks \in SUBSET Task /\ t.id \in Id /\ queue \in Seq(Message)
  BY DEF WorkInv, LogInv, TypeInv, RuntimeInv, Task
<1>3. UNCHANGED <<durable, machine, batch, timers>>
  BY <1>1 DEF EndDelay, Begin, Answer, Verdict, log
<1>4. ~Fresh(queue)
  BY DEF Unbegun
<1>5. ASSUME Heirs(tasks', tasks), UNCHANGED <<queue, buffer>>
      PROVE  Unbegun' /\ (~batch'.last => Tidied')
  <2>1. ~Fresh(queue')
    BY <1>4, <1>5
  <2>2. ASSUME Tidied PROVE Tidied'
    <3>1. Tidy(machine, batch, queue, buffer, tasks', timers, durable.seq)
      BY <1>5, <2>2, HeirsTidy DEF Tidied
    <3> QED
      BY <1>3, <1>5, <3>1 DEF Tidied
  <2> QED
    BY <1>3, <2>1, <2>2 DEF Unbegun
<1>6. ASSUME tasks' = tasks \ {t}, NEW e \in Message, e.kind = AnswerOf(t), e.id = t.id, Send(e)
      PROVE  Unbegun' /\ (~batch'.last => Tidied')
  <2>1. ~Fresh(queue')
    <3>1. e.kind # "start"
      BY <1>6 DEF AnswerOf
    <3> QED
      BY <1>4, <1>6, <3>1, SendNoStart
  <2>2. ASSUME Tidied PROVE Tidied'
    <3>1. /\ Tidy(machine, batch, queue, buffer, tasks \ {t}, timers, durable.seq)
          /\ Welcome(machine, batch, queue, Held(queue) \cup Held(buffer), tasks \ {t},
                     durable.seq, e)
      BY <1>6, <2>2, AnswerWelcome DEF Tidied
    <3>2. /\ Tidy(machine, batch, queue, buffer, tasks', timers', durable'.seq)
          /\ Welcome(machine, batch, queue, Held(queue) \cup Held(buffer), tasks',
                     durable'.seq, e)
      BY <1>3, <1>6, <3>1
    <3> QED
      BY <1>3, <1>6, <3>2, SentTidied
  <2> QED
    BY <1>3, <2>1, <2>2 DEF Unbegun
<1>7. CASE EndDelay(t)
  <2>1. /\ tasks' = (tasks \ {t}) \cup {[t EXCEPT !.stage = "preparing"]}
        /\ UNCHANGED <<queue, buffer>>
    BY <1>7 DEF EndDelay
  <2>2. Heirs(tasks', tasks)
    BY <1>2, <2>1, StageHeirs
  <2> QED
    BY <1>5, <2>1, <2>2
<1>8. CASE Begin(t)
  <2> DEFINE e == [kind |-> "work", id |-> t.id, result |-> "fatal"]
  <2>1. e \in Message /\ e.kind = "work" /\ e.id = t.id
    BY <1>2, WorkMessage
  <2> HIDE DEF e
  <2>2. CASE tasks' = tasks \ {t} /\ Send(e)
    <3>1. AnswerOf(t) = "work"
      BY <1>8 DEF Begin, AnswerOf, WorkInv, Runs, RunningOK, Stops
    <3> QED
      BY <1>6, <2>1, <2>2, <3>1
  <2>3. CASE tasks' = (tasks \ {t}) \cup {[t EXCEPT !.stage = "live"]}
             /\ UNCHANGED <<queue, buffer>>
    <3>1. Heirs(tasks', tasks)
      BY <1>2, <2>3, StageHeirs
    <3> QED
      BY <1>5, <2>3, <3>1
  <2> QED
    BY <1>8, <2>2, <2>3 DEF Begin, e
<1>9. CASE Answer(t)
  <2>1. tasks' = tasks \ {t} /\ AnswerOf(t) = "work"
    BY <1>9 DEF Answer, AnswerOf
  <2>2. CASE UNCHANGED <<queue, buffer>>
    <3>1. Heirs(tasks', tasks)
      BY <2>1, SubsetHeirs
    <3> QED
      BY <1>5, <2>2, <3>1
  <2>3. CASE \E r \in {"fatal"} \cup Outcomes(t) :
               Send([kind |-> "work", id |-> t.id, result |-> r])
    <3>1. PICK r \in {"fatal"} \cup Outcomes(t) :
            Send([kind |-> "work", id |-> t.id, result |-> r])
      BY <2>3
    <3> DEFINE e == [kind |-> "work", id |-> t.id, result |-> r]
    <3>2. r \in AllowedEvents(t.id.at) \cup {"retryable", "fatal"}
      BY ExecutionAssumption DEF Outcomes
    <3>3. e \in Message /\ e.kind = "work" /\ e.id = t.id
      BY <1>2, <3>2, WorkMessage
    <3> HIDE DEF e
    <3>4. Send(e)
      BY <3>1 DEF e
    <3> QED
      BY <1>6, <2>1, <3>3, <3>4
  <2> QED
    BY <1>9, <2>2, <2>3 DEF Answer
<1>10. CASE Verdict(t)
  <2>1. PICK ok \in BOOLEAN : Send([kind |-> "verdict", id |-> t.id, ok |-> ok])
    BY <1>10 DEF Verdict
  <2> DEFINE e == [kind |-> "verdict", id |-> t.id, ok |-> ok]
  <2>2. e \in Message /\ e.kind = "verdict" /\ e.id = t.id
    BY <1>2, VerdictMessage
  <2>3. tasks' = tasks \ {t} /\ AnswerOf(t) = "verdict"
    BY <1>10 DEF Verdict, AnswerOf
  <2> HIDE DEF e
  <2>4. Send(e)
    BY <2>1 DEF e
  <2> QED
    BY <1>6, <2>2, <2>3, <2>4
<1> QED
  BY <1>1, <1>7, <1>8, <1>9, <1>10

(* Deadlines. *)
LEMMA ClockTidied ==
  ASSUME WorkInv, Runs, Unbegun, ~batch.last => Tidied, Clock
  PROVE  Unbegun' /\ (~batch'.last => Tidied')
<1>1. PICK id \in timers : TimerFires(id)
  BY DEF Clock
<1> DEFINE e == [kind |-> "timer", id |-> id]
<1>2. e \in Message /\ e.kind = "timer" /\ e.id = id /\ Send(e)
  BY <1>1, TimerMessage DEF WorkInv, LogInv, TypeInv, RuntimeInv, TimerFires
<1>3. /\ timers' = timers \ {id} /\ UNCHANGED <<durable, machine, batch, tasks>>
      /\ tasks \in SUBSET Task /\ timers \in SUBSET Id /\ durable.seq \in Nat
      /\ queue \in Seq(Message) /\ buffer \in Seq(Message)
  BY <1>1 DEF TimerFires, log, WorkInv, LogInv, TypeInv, RuntimeInv, Typed, BranchProjection
<1> HIDE DEF e
<1>4. ~Fresh(queue')
  BY <1>1, <1>2, SendNoStart DEF Unbegun
<1>5. ASSUME Tidied PROVE Tidied'
  <2>1. timers' \in SUBSET timers
    BY <1>3
  <2>2. Tidy(machine, batch, queue, buffer, tasks, timers', durable.seq)
    BY <1>3, <1>5, <2>1, LaterTidy DEF Tidied
  <2> DEFINE sent == Held(queue) \cup Held(buffer)
  <2>3. Aged(queue, sent, tasks, timers, durable.seq)
        /\ Fitting(machine, batch, queue, sent, tasks, timers)
    BY <1>5 DEF Tidied, Tidy
  <2> HIDE DEF sent
  <2>4. Welcome(machine, batch, queue, sent, tasks, durable.seq, e)
    <3>1. ~Own(e) /\ (e.kind \in Answering => Old(e.id, queue, durable.seq) /\ e.id \notin batch.work)
      BY <1>1, <1>2, <2>3 DEF Own, Aged, Fitting, Unused
    <3>2. /\ \A t : AnswerOf(t) # "timer"
          /\ \A f : ~Twice(f, e)
          /\ \A s : ~AnswersPhase(machine, e, s)
      BY <1>2 DEF AnswerOf, Twice, AnswersPhase, Answers
    <3> QED
      BY <1>2, <3>1, <3>2 DEF Welcome
  <2> QED
    BY <1>2, <1>3, <2>2, <2>4, SentTidied DEF sent
<1> QED
  BY <1>3, <1>4, <1>5 DEF Unbegun

(* Users and hosts. *)
LEMMA UserTidied ==
  ASSUME WorkInv, Runs, Unbegun, ~batch.last => Tidied, User
  PROVE  Unbegun' /\ (~batch'.last => Tidied')
<1>1. PICK g \in durable.gates, v \in Event : Respond(g, v)
  BY DEF User
<1> DEFINE u == [type |-> "resolved", at |-> g.at, gate |-> g.seq, event |-> v]
           base == durable.seq + 1
           e == [kind |-> "ack", unit |-> u, base |-> base]
<1>2. /\ Typed(durable) /\ durable.seq \in Nat /\ base \in Nat \ {0}
      /\ g.at \in State /\ g.seq \in Nat
      /\ tasks \in SUBSET Task /\ timers \in SUBSET Id
      /\ queue \in Seq(Message) /\ buffer \in Seq(Message)
  BY DEF WorkInv, LogInv, TypeInv, RuntimeInv, Typed, BranchProjection
<1>3. u \in Unit /\ u.type = "resolved" /\ u.event = v
  BY <1>2 DEF Unit
<1>4. ~Rejects(durable, u) /\ durable' = ProjectBranch(durable, u, base)
      /\ UNCHANGED <<machine, batch, tasks, timers>>
      /\ Send(e)
  BY <1>1 DEF Respond, Runs
<1>5. Sensible(u)
  BY <1>3, <1>4 DEF Rejects, Sensible
<1> HIDE DEF u
<1>6. e \in Message /\ e.kind = "ack" /\ e.unit = u /\ ~Own(e)
  BY <1>2, <1>3, <1>5, AckMessage DEF Own
<1>7. durable'.seq \in Nat /\ durable.seq <= durable'.seq
  <2>1. Apply(durable, u, base) \in BranchProjection
    BY <1>2, <1>3, <1>4, <1>5, ApplyTyped DEF Typed
  <2>2. durable'.seq = Latest(durable.seq, base + Size(u) - 1) /\ Size(u) \in Nat
    BY <1>3, <1>4, <2>1, SizeType DEF ProjectBranch, BranchProjection
  <2> QED
    BY <1>2, <2>2 DEF Latest
<1> HIDE DEF e
<1>8. Unbegun'
  <2> SUFFICES ASSUME Fresh(queue')
               PROVE  /\ tasks' = {} /\ timers' = {}
                      /\ \A x \in Held(queue') : x.kind = "start" \/ (x.kind = "ack" /\ ~Own(x))
    BY DEF Unbegun
  <2>1. Fresh(queue) /\ Held(queue') \subseteq Held(queue) \cup {e}
    BY <1>4, <1>6, SendNoStart
  <2> QED
    BY <1>4, <1>6, <2>1 DEF Unbegun
<1>9. ASSUME Tidied PROVE Tidied'
  <2>1. Tidy(machine, batch, queue, buffer, tasks, timers, durable'.seq)
    BY <1>2, <1>7, <1>9, LaterTidy DEF Tidied
  <2>2. ASSUME NEW sent
        PROVE  Welcome(machine, batch, queue, sent, tasks, durable'.seq, e)
    <3>1. /\ \A t : AnswerOf(t) # "ack"
          /\ \A f : ~Twice(f, e)
          /\ \A s : ~AnswersPhase(machine, e, s)
          /\ "ack" \notin Answering
      BY <1>6 DEF AnswerOf, Twice, AnswersPhase, Answers, Answering
    <3> QED
      BY <1>6, <3>1 DEF Welcome
  <2> QED
    BY <1>4, <1>6, <2>1, <2>2, SentTidied
<1> QED
  BY <1>4, <1>8, <1>9

-----------------------------------------------------------------------------
(* An attempt as it begins. *)
Fledgling == Started /\ timers = {}

LEMMA StartedTidied == Fledgling => Unbegun /\ Tidied
<1> SUFFICES ASSUME Started, timers = {} PROVE Unbegun /\ Tidied
  BY DEF Fledgling
<1> DEFINE q == <<[kind |-> "start"]>>
           sent == Held(q) \cup Held(<<>>)
<1>1. queue = q /\ buffer = <<>> /\ tasks = {} /\ batch = NoBatch
  BY DEF Started
<1>2. /\ q \in Seq(Message) /\ Held(<<>>) = {}
      /\ \A e \in Held(q) : e.kind = "start"
      /\ DOMAIN q = {1}
  BY StartMessage DEF Held
<1> HIDE DEF q
<1>3. Unbegun
  BY <1>1, <1>2 DEF Unbegun
<1>4. \A e \in sent : e.kind = "start"
  BY <1>2
<1> HIDE DEF sent
<1>5. Aged(q, sent, {}, {}, durable.seq) /\ Single(sent, {}) /\ AtPhase(machine, {})
  BY <1>4 DEF Aged, Single, AtPhase, Answering
<1>6. Clean(machine, q) /\ Clean(machine, <<>>)
  BY <1>2 DEF Clean
<1>7. /\ NoBatch.unit = NoUnit /\ NoBatch.work = {} /\ NoBatch.invokes = {}
      /\ NoUnit.type # "timer_fired"
  BY DEF NoBatch, NoUnit
<1>8. Fitting(machine, NoBatch, q, sent, {}, {})
  BY <1>7 DEF Fitting
<1>9. /\ Ceased(machine, sent, {}, NoBatch.unit)
      /\ \A e \in Held(q) : ~Crosses(machine, e, NoBatch.unit)
  BY <1>7, HarmlessNoUnit
<1>10. /\ \A e \in Held(q) : e.kind # "ack"
       /\ \A e \in Held(q) : \A f \in Held(<<>>) : ~Twice(e, f)
  BY <1>2
<1>11. Tidy(machine, NoBatch, q, <<>>, {}, {}, durable.seq)
  BY <1>5, <1>6, <1>8, <1>9, <1>10 DEF Tidy, sent
<1> QED
  BY <1>1, <1>3, <1>11 DEF Tidied

SessInv ==
  /\ OneSessionPerAction
  /\ loop \in {"down", "threw"} => timers = {}
  /\ Runs => Unbegun /\ (~batch.last => Tidied)

(* A last batch that goes on is still the last. *)
LEMMA LastStays ==
  ASSUME WorkInv, Runs, loop' \in Live, batch.last, Writer
  PROVE  batch'.last
<1>1. batch \in Batch /\ ~draining
  BY DEF WorkInv, Runs, LogInv, TypeInv, RuntimeInv
<1>2. ASSUME NEW u, NEW rest \in Batch, rest.last, Commit(u, rest)
      PROVE  batch'.last
  <2>1. \E q : Advance(machine, rest, q)
    BY <1>2 DEF Commit, Throw, Live
  <2>2. CASE batch' = [rest EXCEPT !.cancels = @ \ Outgoing(rest)]
    BY <1>2, <2>2 DEF Batch
  <2> QED
    BY <1>1, <1>2, <2>1, <2>2, AdvanceCases DEF Live, Ended
<1>3. CASE CommitResponse
  <2>1. [batch EXCEPT !.unit = NoUnit] \in Batch /\ [batch EXCEPT !.unit = NoUnit].last
    BY <1>1 DEF Batch
  <2> QED
    BY <1>2, <1>3, <2>1 DEF CommitResponse
<1>4. CASE CommitInvokes
  <2>1. [batch EXCEPT !.invokes = {}] \in Batch /\ [batch EXCEPT !.invokes = {}].last
    BY <1>1 DEF Batch
  <2> QED
    BY <1>2, <1>4, <2>1 DEF CommitInvokes
<1>5. CASE CommitOpen
  <2>1. \A id : /\ [batch EXCEPT !.opens = @ \ {id}] \in Batch
                /\ [batch EXCEPT !.opens = @ \ {id}].last
    BY <1>1 DEF Batch
  <2> QED
    BY <1>2, <1>5, <2>1 DEF CommitOpen
<1> QED
  BY <1>3, <1>4, <1>5 DEF Writer

(* A branch that runs after a step is as it should be. *)
LEMMA StepTidied ==
  ASSUME NoTimedAgents, WorkInv, SessInv, [Next]_vars, loop' \in Live, ~draining'
  PROVE  Unbegun' /\ (~batch'.last => Tidied')
<1>1. CASE Machine
  <2>1. loop = "ready" /\ draining' = draining
    BY <1>1 DEF Machine, StepStart, StepWork, StepTimer, StepVerdict, StepAck, Awaiting,
                Output, runner
  <2>2. Runs /\ batch = NoBatch
    BY <2>1 DEF Runs, Live, WorkInv, RunningOK
  <2>3. Unbegun /\ Tidied
    BY <2>2 DEF SessInv, NoBatch
  <2>4. ~Fresh(queue')
    BY <1>1, <2>2, StaysBegun
  <2> QED
    BY <1>1, <2>2, <2>3, <2>4, MachineTidied DEF Unbegun
<1>2. CASE Writer
  <2>1. loop = "busy" /\ draining' = draining
    BY <1>2 DEF Writer, CommitResponse, CommitInvokes, CommitOpen, Commit, runner
  <2>2. Runs
    BY <2>1 DEF Runs, Live
  <2>3. ~Fresh(queue')
    BY <1>2, <2>2, StaysBegun
  <2>4. ~batch'.last => ~batch.last /\ Tidied
    BY <1>2, <2>2, LastStays DEF SessInv
  <2> QED
    BY <1>2, <2>2, <2>3, <2>4, WriterTidied DEF Unbegun
<1>3. CASE Work
  <2>1. loop' = loop /\ draining' = draining
    BY <1>3 DEF Work, EndDelay, Begin, Answer, Verdict, runner
  <2> QED
    BY <1>3, <2>1, WorkTidied DEF Runs, SessInv
<1>4. CASE Clock
  BY <1>4, ClockTidied DEF Clock, TimerFires, Runs, runner, SessInv
<1>5. CASE User
  BY <1>5, UserTidied DEF User, Respond, Runs, runner, SessInv
<1>6. CASE BeginDrain \/ Drained \/ Crash
  BY <1>6 DEF BeginDrain, Drained, Crash, Live
<1>7. CASE Restarted
  <2>1. batch = NoBatch /\ buffer = <<>> /\ tasks = {} /\ timers = {}
    BY <1>7 DEF Restarted, WorkInv, SessInv
  <2>2. /\ loop' = "ready" /\ machine' = durable /\ dispatched' = {}
        /\ queue' = <<[kind |-> "start"]>>
        /\ UNCHANGED <<durable, buffer, batch, tasks, timers>>
    BY <1>7 DEF Restarted, Live, log
  <2>3. Placed(durable) /\ Recent(durable, durable.seq)
    BY DEF WorkInv, LogInv, Sound, EntrySound, Placed
  <2>4. Fledgling'
    BY <2>1, <2>2, <2>3 DEF Started, Fledgling
  <2>5. Fledgling' => Unbegun' /\ Tidied'
    BY StartedTidied, PTL
  <2> QED
    BY <2>4, <2>5
<1>8. CASE Finished \/ UNCHANGED vars
  <2>1. UNCHANGED vars
    BY <1>8 DEF Finished
  <2>2. Unbegun /\ (~batch.last => Tidied)
    BY <2>1 DEF SessInv, Runs, vars
  <2>3. Tidied => Tidied'
    BY <2>1 DEF Tidied, vars
  <2> QED
    BY <2>1, <2>2, <2>3 DEF vars, Unbegun
<1> QED
  BY <1>1, <1>2, <1>3, <1>4, <1>5, <1>6, <1>7, <1>8 DEF Next

(* Tasks come of tasks, but for the work of a batch that is not the last. *)
LEMMA AdvanceHeirs ==
  ASSUME tasks \in SUBSET Task, NEW m, NEW asked, NEW q, Advance(m, asked, q)
  PROVE  Heirs(tasks', tasks) \/ (~draining /\ loop' = "ready" /\ batch' = NoBatch)
<1>1. \A at : Heirs(AfterCancel(tasks, at), tasks)
  BY CancelHeirs
<1>2. Heirs({}, tasks)
  BY SubsetHeirs
<1>3. CASE draining
  <2>1. \E at : tasks' = {} \/ tasks' = AfterCancel(tasks, at)
    BY <1>3 DEF Advance, NoBatch
  <2> QED
    BY <1>1, <1>2, <2>1
<1>4. CASE ~draining
  <2>1. \/ \E at : tasks' = {} \/ tasks' = AfterCancel(tasks, at)
        \/ loop' = "ready" /\ batch' = NoBatch
    BY <1>4, AdvanceCases
  <2> QED
    BY <1>1, <1>2, <1>4, <2>1
<1> QED
  BY <1>3, <1>4

LEMMA StepHeirs ==
  ASSUME WorkInv, [Next]_vars
  PROVE  Heirs(tasks', tasks) \/ (loop' \in Live /\ ~draining' /\ ~batch'.last)
<1>1. tasks \in SUBSET Task /\ ~NoBatch.last /\ Heirs({}, tasks) /\ Heirs(tasks, tasks)
  BY SubsetHeirs DEF WorkInv, LogInv, TypeInv, RuntimeInv, NoBatch
<1>2. CASE Machine
  <2>1. ASSUME NEW m, NEW u, NEW cs, Output(m, u, cs)
        PROVE  Heirs(tasks', tasks) \/ (loop' \in Live /\ ~draining' /\ ~batch'.last)
    <3>1. (\E asked : Advance(m, asked, Tail(queue))) /\ draining' = draining
      BY <2>1 DEF Output, runner
    <3> QED
      BY <1>1, <3>1, AdvanceHeirs DEF Live
  <2>2. \A cause : Throw(cause) => tasks' = {}
    BY DEF Throw, Disposed
  <2> QED
    BY <1>1, <1>2, <2>1, <2>2 DEF Machine, StepStart, StepWork, StepTimer, StepVerdict, StepAck
<1>3. CASE Writer
  <2>1. ASSUME NEW u, NEW rest, Commit(u, rest)
        PROVE  Heirs(tasks', tasks) \/ (loop' \in Live /\ ~draining' /\ ~batch'.last)
    <3>1. CASE Rejects(durable, u)
      BY <1>1, <2>1, <3>1 DEF Commit, Throw, Disposed
    <3>2. CASE ~Rejects(durable, u)
      <4>1. (\E q : Advance(machine, rest, q)) /\ draining' = draining
        BY <2>1, <3>2 DEF Commit, runner
      <4> QED
        BY <1>1, <4>1, AdvanceHeirs DEF Live
    <3> QED
      BY <3>1, <3>2
  <2> QED
    BY <1>3, <2>1 DEF Writer, CommitResponse, CommitInvokes, CommitOpen
<1>4. CASE Work
  <2>1. PICK t \in tasks : EndDelay(t) \/ Begin(t) \/ Answer(t) \/ Verdict(t)
    BY <1>4 DEF Work
  <2>2. \/ tasks' \subseteq tasks
        \/ \E stage : tasks' = (tasks \ {t}) \cup {[t EXCEPT !.stage = stage]}
    BY <2>1 DEF EndDelay, Begin, Answer, Verdict
  <2> QED
    <3>1. tasks' \subseteq tasks => Heirs(tasks', tasks)
      BY SubsetHeirs
    <3>2. \A stage : Heirs((tasks \ {t}) \cup {[t EXCEPT !.stage = stage]}, tasks)
      BY <1>1, StageHeirs
    <3> QED
      BY <2>2, <3>1, <3>2
<1>5. CASE Clock \/ User \/ Restarted \/ Finished \/ UNCHANGED vars
  BY <1>1, <1>5 DEF Clock, TimerFires, User, Respond, Restarted, Finished, vars
<1>6. CASE BeginDrain \/ Drained \/ Crash
  <2>1. tasks' \subseteq tasks
    BY <1>6 DEF BeginDrain, Drained, Crash, Disposed
  <2> QED
    BY <2>1, SubsetHeirs
<1> QED
  BY <1>2, <1>3, <1>4, <1>5, <1>6 DEF Next

(* A loop that is down or threw has no deadline armed. *)
LEMMA StepLeavesNoDeadline ==
  ASSUME SessInv, [Next]_vars, loop' \in {"down", "threw"}
  PROVE  timers' = {}
<1>1. CASE Machine
  <2>1. ASSUME NEW m, NEW u, NEW cs, Output(m, u, cs) PROVE FALSE
    BY <2>1 DEF Output, Advance
  <2>2. ASSUME NEW cause, Throw(cause) PROVE timers' = {}
    BY <2>2 DEF Throw, Disposed
  <2> QED
    BY <1>1, <2>1, <2>2 DEF Machine, StepStart, StepWork, StepTimer, StepVerdict, StepAck
<1>2. CASE Writer
  <2>1. ASSUME NEW u, NEW rest, Commit(u, rest) PROVE timers' = {}
    <3>1. CASE Rejects(durable, u)
      BY <2>1, <3>1 DEF Commit, Throw, Disposed
    <3>2. CASE ~Rejects(durable, u)
      BY <2>1, <3>2 DEF Commit, Advance
    <3> QED
      BY <3>1, <3>2
  <2> QED
    BY <1>2, <2>1 DEF Writer, CommitResponse, CommitInvokes, CommitOpen
<1>3. CASE Work \/ User \/ Finished \/ UNCHANGED vars
  BY <1>3 DEF Work, EndDelay, Begin, Answer, Verdict, User, Respond, Finished, vars, SessInv
<1>4. CASE Clock
  BY <1>4 DEF Clock, TimerFires, SessInv
<1>5. CASE BeginDrain \/ Drained \/ Crash \/ Restarted
  BY <1>5 DEF BeginDrain, Drained, Crash, Restarted, Disposed, Live
<1> QED
  BY <1>1, <1>2, <1>3, <1>4, <1>5 DEF Next

(* An action never has two sessions that nobody told to stop: not when a   *)
(* session is retried, when a join or an exit abandons it, when a deadline *)
(* ends it, or when what it answered is still on its way                   *)
(* (createMachineOutput, handleDurableRecords, performRunEffects).  What   *)
(* it assumes is that no agent's state has a deadline.                     *)
THEOREM SpecOneSession == ASSUME NoTimedAgents PROVE Spec => []OneSessionPerAction
<1>1. Init => SessInv
  <2> SUFFICES ASSUME Init PROVE SessInv
    OBVIOUS
  <2>1. \A s \in State : machine.pending[s] = NoPending
    BY DEF Init, EmptyProjection
  <2>2. durable.seq = 0 /\ NoPending.seq = 0 /\ NoPending.phase = "none"
    BY DEF Init, EmptyProjection, NoPending
  <2>3. Started /\ timers = {}
    BY <2>1, <2>2 DEF Init, Started, Placed, Recent
  <2>4. OneSessionPerAction
    BY <2>3 DEF Started, OneSessionPerAction
  <2> QED
    BY <2>3, <2>4, StartedTidied DEF SessInv, Fledgling
<1>2. WorkInv /\ SessInv /\ [Next]_vars => SessInv'
  <2> SUFFICES ASSUME WorkInv, SessInv, [Next]_vars PROVE SessInv'
    OBVIOUS
  <2>1. loop' \in Live /\ ~draining' => Unbegun' /\ (~batch'.last => Tidied')
    BY StepTidied
  <2>2. OneEach(tasks')
    <3>1. CASE Heirs(tasks', tasks)
      BY <3>1, HeirsOneEach, OneEachMeans DEF SessInv
    <3>2. CASE loop' \in Live /\ ~draining' /\ ~batch'.last
      <4>1. /\ Single(Held(queue') \cup Held(buffer'), tasks')
            /\ AtPhase(machine', tasks')
        BY <2>1, <3>2 DEF Tidied, Tidy
      <4> QED
        BY <4>1, AtPhaseOneEach
    <3> QED
      BY <3>1, <3>2, StepHeirs
  <2>3. OneSessionPerAction'
    BY <2>2 DEF OneEach, OneSessionPerAction, Untold
  <2> QED
    BY <2>1, <2>3, StepLeavesNoDeadline DEF SessInv, Runs
<1>3. SessInv => OneSessionPerAction
  BY DEF SessInv
<1> QED
  BY <1>1, <1>2, <1>3, SpecWorkInv, PTL DEF Spec
=============================================================================
