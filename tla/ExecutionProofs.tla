--------------------------- MODULE ExecutionProofs ---------------------------
(***************************************************************************)
(* Theorems about Execution, for every chart, every recovery policy and    *)
(* every bound.  The invariant that carries type correctness says more     *)
(* than the types: whatever is on its way to the machine or to the log     *)
(* names an event its action can take or a deadline its state declares,    *)
(* and a claim waiting for its verdict can be accepted.                    *)
(***************************************************************************)
EXTENDS Execution, ChartProofs

-----------------------------------------------------------------------------
(* What projecting a unit preserves: the shape of the projection, and what *)
(* relates its fields to each other.                                       *)

(* What a unit says beyond its type: an event its action can take          *)
(* somewhere, a deadline its state declares, a decision about itself.      *)
Sensible(u) ==
  /\ u.type \in {"complete", "resolved"} => u.event \in AllowedEvents(u.at)
  /\ u.type = "timer_fired" => After[u.at] # None
  /\ u.type = "rejected" => u.decision.at = u.at

(* A claim under validation can be accepted. *)
ClaimsFit(p) ==
  \A s \in State : p.pending[s].phase = "validating" =>
    s \in Guarded /\ p.pending[s].event \in AllowedEvents(s)

Typed(p) == p \in BranchProjection /\ ClaimsFit(p)

-----------------------------------------------------------------------------
(* A state is a node, and Node is finite. *)
LEMMA StateFinite == State \subseteq Node /\ IsFiniteSet(State)
BY ChartAssumption, FS_Subset DEF State

(* NoPending is a pending entry like any other. *)
LEMMA NoPendingType ==
  NoPending \in Pending /\ NoPending.phase = "none" /\ NoPending.gate = 0
BY DEF NoPending, Pending

(* The records of a group of invocations get natural numbers. *)
LEMMA InvokeSeqType ==
  ASSUME NEW u, u.group \subseteq State, NEW base \in Nat, NEW s \in State
  PROVE  InvokeSeq(u, base, s) \in Nat /\ InvokeSeq(u, base, s) >= base
<1>1. IsFiniteSet(u.group)
  BY StateFinite, FS_Subset
<1>2. IsFiniteSet({t \in u.group : Rank[t] < Rank[s]})
  BY <1>1, FS_Subset
<1> QED
  BY <1>2, FS_CardinalityType DEF InvokeSeq

(* Removing a pending action keeps the shape of the projection. *)
LEMMA RemovePendingType ==
  ASSUME NEW p \in BranchProjection, NEW s \in State
  PROVE  /\ RemovePending(p, s) \in BranchProjection
         /\ RemovePending(p, s).pending = [p.pending EXCEPT ![s] = NoPending]
         /\ \A t \in State : RemovePending(p, s).pending[t] \in {p.pending[t], NoPending}
BY NoPendingType DEF RemovePending, BranchProjection

(* So does moving the leaves, which at most drops pending actions. *)
LEMMA MoveType ==
  ASSUME NEW p \in BranchProjection, NEW scope, NEW target \in Node
  PROVE  /\ Move(p, scope, target) \in BranchProjection
         /\ \A s \in State :
              Move(p, scope, target).pending[s] \in {p.pending[s], NoPending}
<1> DEFINE next == ExitAndEnter(p.leaves, scope, target)
<1>1. next \in SUBSET Node
  BY EnterType DEF ExitAndEnter, BranchProjection
<1>2. CompleteParallels[next] \subseteq Node
  BY <1>1, JoinsTakeFinals
<1> QED
  BY <1>2, NoPendingType DEF Move, BranchProjection

(* An allowed event has a handler, and the handler a target. *)
LEMMA HandlerTarget ==
  ASSUME NEW s \in State, NEW e \in AllowedEvents(s)
  PROVE  On[FindHandler[s][e]][e] \in Node
BY StateFinite, HandlerLeads DEF AllowedEvents, Beside

(* A transition on an allowed event keeps the shape as well. *)
LEMMA TransitionType ==
  ASSUME NEW p \in BranchProjection, NEW s \in State, NEW e \in AllowedEvents(s)
  PROVE  /\ Transition(p, s, e) \in BranchProjection
         /\ \A t \in State : Transition(p, s, e).pending[t] \in {p.pending[t], NoPending}
BY HandlerTarget, MoveType DEF Transition

-----------------------------------------------------------------------------
(* Typed is kept by each of the operations a unit is made of. *)

(* Settling a pending action keeps a projection well-typed. *)
LEMMA RemovePendingTyped ==
  ASSUME NEW p, Typed(p), NEW s \in State
  PROVE  Typed(RemovePending(p, s))
<1>1. p \in BranchProjection /\ ClaimsFit(p)
  BY DEF Typed
<1>2. /\ RemovePending(p, s) \in BranchProjection
      /\ \A t \in State : RemovePending(p, s).pending[t] \in {p.pending[t], NoPending}
  BY <1>1, RemovePendingType
<1> QED
  BY <1>1, <1>2, NoPendingType DEF Typed, ClaimsFit

(* So does an exit with the entry that follows it. *)
LEMMA MoveTyped ==
  ASSUME NEW p, Typed(p), NEW scope, NEW target \in Node
  PROVE  Typed(Move(p, scope, target))
BY MoveType, NoPendingType DEF Typed, ClaimsFit

(* So does the transition an event takes. *)
LEMMA TransitionTyped ==
  ASSUME NEW p, Typed(p), NEW s \in State, NEW e \in AllowedEvents(s)
  PROVE  Typed(Transition(p, s, e))
BY HandlerTarget, MoveTyped DEF Transition

(* Replacing one pending entry by a sound one. *)
LEMMA ReplaceTyped ==
  ASSUME NEW p, Typed(p), NEW s \in State, NEW q \in Pending,
         q.phase = "validating" => s \in Guarded /\ q.event \in AllowedEvents(s)
  PROVE  Typed([p EXCEPT !.pending[s] = q])
BY DEF Typed, ClaimsFit, BranchProjection

(* A state's entry in a typed projection is a pending action. *)
LEMMA PendingOf ==
  ASSUME NEW p, Typed(p), NEW s \in State
  PROVE  p.pending[s] \in Pending
BY DEF Typed, BranchProjection

(* A claim is a pending action. *)
LEMMA ClaimedType ==
  ASSUME NEW q \in Pending, NEW e \in Event, NEW base \in Nat
  PROVE  /\ Claimed(q, e, base) \in Pending
         /\ Claimed(q, e, base).phase = "validating"
         /\ Claimed(q, e, base).event = e
BY DEF Claimed, Pending

(* A completion, guarded or not, keeps a projection well-typed. *)
LEMMA CompleteTyped ==
  ASSUME NEW p, Typed(p), NEW s \in State, NEW e \in AllowedEvents(s),
         NEW base \in Nat
  PROVE  Typed(Complete(p, s, e, base))
<1>1. CASE s \in Guarded
  <2>1. e \in Event
    BY DEF AllowedEvents
  <2> DEFINE q == Claimed(p.pending[s], e, base)
  <2>2. q \in Pending /\ q.phase = "validating" /\ q.event = e
    BY <2>1, PendingOf, ClaimedType
  <2> HIDE DEF q
  <2>3. Typed([p EXCEPT !.pending[s] = q])
    BY <1>1, <2>2, ReplaceTyped
  <2> QED
    BY <1>1, <2>3 DEF Complete, q
<1>2. CASE s \notin Guarded
  BY <1>2, RemovePendingTyped, TransitionTyped DEF Complete
<1> QED
  BY <1>1, <1>2

(* A retry unit by its fields. *)
LEMMA RetryUnitType ==
  ASSUME NEW u \in RetryUnit
  PROVE  /\ u.at \in State /\ u.scope \in Scope /\ u.mode \in {"nudge", "restart"}
         /\ u.prev \in Nat /\ u.nudge \in Nat /\ u.restart \in Nat
         /\ u.type = "retry"
BY DEF RetryUnit

(* A retried action is a pending action. *)
LEMMA RetriedType ==
  ASSUME NEW q \in Pending, NEW u \in RetryUnit, NEW base \in Nat
  PROVE  /\ Retried(q, u, base) \in Pending
         /\ Retried(q, u, base).phase = "running"
<1>1. NudgesAfter(q, u) \in [Scope -> Nat]
  BY RetryUnitType DEF NudgesAfter, Pending
<1>2. RestartsAfter(q, u) \in [Scope -> Nat]
  BY RetryUnitType DEF RestartsAfter, Pending
<1> QED
  BY <1>1, <1>2 DEF Retried, Pending

(* A retry keeps a projection well-typed. *)
LEMMA RetryTyped ==
  ASSUME NEW p, Typed(p), NEW u \in RetryUnit, NEW base \in Nat
  PROVE  Typed(Retry(p, u, base))
<1> DEFINE q == Retried(p.pending[u.at], u, base)
<1>1. q \in Pending /\ q.phase = "running" /\ u.at \in State
  BY PendingOf, RetriedType, RetryUnitType
<1> HIDE DEF q
<1>2. Typed([p EXCEPT !.pending[u.at] = q])
  BY <1>1, ReplaceTyped
<1> QED
  BY <1>2 DEF Retry, q

(* The failure intent keeps a projection well-typed. *)
LEMMA FailTyped ==
  ASSUME NEW p, Typed(p)
  PROVE  Typed(Fail(p))
BY DEF Typed, ClaimsFit, Fail, BranchProjection

(* Either recovery decision keeps a projection well-typed. *)
LEMMA DecideTyped ==
  ASSUME NEW p, Typed(p), NEW u \in RetryUnit \cup FailureUnit, NEW base \in Nat
  PROVE  Typed(Decide(p, u, base))
<1>1. CASE u.type = "retry"
  BY <1>1, RetryTyped DEF Decide, FailureUnit
<1>2. CASE u.type # "retry"
  BY <1>2, FailTyped DEF Decide
<1> QED
  BY <1>1, <1>2

(* A fresh visit is a pending action. *)
LEMMA InvokedType ==
  ASSUME NEW visit \in Nat, NEW base \in Nat
  PROVE  Invoked(visit, base) \in Pending /\ Invoked(visit, base).phase = "running"
BY DEF Invoked, NoPending, Pending

(* A group of invocations keeps a projection well-typed. *)
LEMMA InvokeTyped ==
  ASSUME NEW p, Typed(p), NEW u, u.group \subseteq State, NEW base \in Nat
  PROVE  Typed(Invoke(p, u, base))
<1> DEFINE q(s) == Invoked(p.visits[s] + 1, InvokeSeq(u, base, s))
<1>1. p \in BranchProjection /\ ClaimsFit(p)
  BY DEF Typed
<1>2. ASSUME NEW s \in State PROVE q(s) \in Pending /\ q(s).phase = "running"
  <2>1. p.visits[s] + 1 \in Nat
    BY <1>1 DEF BranchProjection
  <2> QED
    BY <2>1, InvokeSeqType, InvokedType
<1> HIDE DEF q
<1> DEFINE visits == [s \in State |-> IF s \in u.group \cap p.leaves
                                      THEN p.visits[s] + 1 ELSE p.visits[s]]
           pending == [s \in State |-> IF s \in u.group \cap p.leaves
                                       THEN q(s) ELSE p.pending[s]]
           r == [p EXCEPT !.visits = visits, !.pending = pending]
<1>3. visits \in [State -> Nat]
  BY <1>1 DEF BranchProjection
<1>4. pending \in [State -> Pending]
  BY <1>1, <1>2 DEF BranchProjection
<1>5. \A s \in State : pending[s] = p.pending[s] \/ pending[s].phase = "running"
  BY <1>2
<1>6. Invoke(p, u, base) = r
  BY DEF Invoke, q
<1> HIDE DEF visits, pending
<1>7. r \in BranchProjection /\ r.pending = pending
  BY <1>1, <1>3, <1>4 DEF BranchProjection
<1> QED
  BY <1>1, <1>5, <1>6, <1>7 DEF Typed, ClaimsFit

-----------------------------------------------------------------------------
(* A unit by its fields. *)
LEMMA UnitType ==
  ASSUME NEW u \in Unit
  PROVE  /\ u.type \in {"invoke", "complete", "accepted", "rejected", "timer_fired",
                        "opened", "resolved", "retry", "failure_intent"}
         /\ u.type = "invoke" => u.group \subseteq State
         /\ u.type # "invoke" => u.at \in State
         /\ u.type \in {"complete", "accepted", "rejected", "resolved"} => u.event \in Event
         /\ u.type = "rejected" => u.decision \in RetryUnit \cup FailureUnit
         /\ u.type \in {"retry", "failure_intent"} => u \in RetryUnit \cup FailureUnit
         /\ u.type = "resolved" => u.gate \in Nat
         /\ u.type = "opened" => u.phase \in Nat
BY DEF Unit, RetryUnit, FailureUnit

(* A unit appends some number of records. *)
LEMMA SizeType ==
  ASSUME NEW u \in Unit
  PROVE  Size(u) \in Nat
<1>1. CASE u.type = "invoke"
  <2>1. IsFiniteSet(u.group)
    BY <1>1, UnitType, StateFinite, FS_Subset
  <2> QED
    BY <1>1, <2>1, FS_CardinalityType DEF Size
<1>2. CASE u.type # "invoke"
  BY <1>2 DEF Size
<1> QED
  BY <1>1, <1>2

(* Opening an interaction keeps a projection well-typed. *)
LEMMA OpenTyped ==
  ASSUME NEW p, Typed(p), NEW s \in State, NEW base \in Nat
  PROVE  Typed(Open(p, s, base))
<1>1. p \in BranchProjection /\ ClaimsFit(p) /\ p.pending[s] \in Pending
  BY PendingOf DEF Typed
<1> DEFINE q == [p.pending[s] EXCEPT !.gate = base]
<1>2. q \in Pending /\ q.phase = p.pending[s].phase /\ q.event = p.pending[s].event
  BY <1>1 DEF Pending
<1> HIDE DEF q
<1>3. [p.pending EXCEPT ![s] = q] \in [State -> Pending]
  BY <1>1, <1>2 DEF BranchProjection
<1>4. p.gates \cup {[seq |-> base, at |-> s]} \in SUBSET [seq : Nat, at : State]
  BY <1>1 DEF BranchProjection
<1> DEFINE r == [p EXCEPT !.pending = [@ EXCEPT ![s] = q],
                          !.gates = @ \cup {[seq |-> base, at |-> s]}]
<1>5. r \in BranchProjection /\ r.pending = [p.pending EXCEPT ![s] = q]
  BY <1>1, <1>3, <1>4 DEF BranchProjection
<1>6. Typed(r)
  BY <1>1, <1>2, <1>5 DEF Typed, ClaimsFit, BranchProjection
<1>7. Open(p, s, base) = r
  BY DEF Open, q
<1> QED
  BY <1>6, <1>7

(* A rejected claim that only takes its verdict's number stays typed. *)
LEMMA ResequenceTyped ==
  ASSUME NEW p, Typed(p), NEW s \in State, NEW base \in Nat
  PROVE  Typed([p EXCEPT !.pending[s].seq = base])
<1>1. p \in BranchProjection /\ ClaimsFit(p) /\ p.pending[s] \in Pending
  BY PendingOf DEF Typed
<1> DEFINE q == [p.pending[s] EXCEPT !.seq = base]
<1>2. q \in Pending /\ q.phase = p.pending[s].phase /\ q.event = p.pending[s].event
  BY <1>1 DEF Pending
<1>3. [p EXCEPT !.pending[s].seq = base] = [p EXCEPT !.pending[s] = q]
  OBVIOUS
<1> HIDE DEF q
<1> QED
  BY <1>1, <1>2, <1>3, ReplaceTyped DEF ClaimsFit

(* What a sensible unit does to a projection, unless it is refused. *)
LEMMA EffectTyped ==
  ASSUME NEW p, Typed(p), NEW u \in Unit, Sensible(u), ~Rejects(p, u),
         NEW base \in Nat
  PROVE  Typed(Effect(p, u, base))
<1>1. CASE u.type = "invoke"
  BY <1>1, UnitType, InvokeTyped DEF Effect
<1>2. CASE u.type \in {"complete", "resolved"}
  BY <1>2, UnitType, CompleteTyped DEF Effect, Sensible
<1>3. CASE u.type = "accepted"
  <2>1. u.event \in AllowedEvents(u.at) /\ u.at \in State
    BY <1>3, UnitType DEF Rejects, Typed, ClaimsFit
  <2> QED
    BY <1>3, <2>1, RemovePendingTyped, TransitionTyped DEF Effect
<1>4. CASE u.type = "rejected"
  <2>1. u.at \in State /\ u.decision \in RetryUnit \cup FailureUnit /\ base + 1 \in Nat
    BY <1>4, UnitType
  <2>2. Typed(Decide([p EXCEPT !.pending[u.at].seq = base], u.decision, base + 1))
    BY <2>1, ResequenceTyped, DecideTyped
  <2> QED
    BY <1>4, <2>2 DEF Effect
<1>5. CASE u.type = "timer_fired"
  <2>1. u.at \in State /\ After[u.at] \in Node
    BY <1>5, UnitType, ChartAssumption DEF Sensible
  <2> QED
    BY <1>5, <2>1, RemovePendingTyped, MoveTyped DEF Effect
<1>6. CASE u.type = "opened"
  BY <1>6, UnitType, OpenTyped DEF Effect
<1>7. CASE u.type \in {"retry", "failure_intent"}
  <2>1. u \in RetryUnit \cup FailureUnit
    BY <1>7, UnitType
  <2> QED
    BY <1>7, <2>1, DecideTyped DEF Effect
<1> QED
  BY <1>1, <1>2, <1>3, <1>4, <1>5, <1>6, <1>7, UnitType

(* Skipped or not, a unit keeps a projection well-typed. *)
LEMMA ApplyTyped ==
  ASSUME NEW p, Typed(p), NEW u \in Unit, Sensible(u), ~Rejects(p, u),
         NEW base \in Nat
  PROVE  Typed(Apply(p, u, base))
BY EffectTyped DEF Apply

(* projectBranch keeps a projection well-typed. *)
LEMMA ProjectBranchTyped ==
  ASSUME NEW p, Typed(p), NEW u \in Unit, Sensible(u), ~Rejects(p, u),
         NEW base \in Nat \ {0}
  PROVE  Typed(ProjectBranch(p, u, base))
<1>1. Typed(Apply(p, u, base))
  BY ApplyTyped
<1>2. Latest(p.seq, base + Size(u) - 1) \in Nat
  BY SizeType DEF Latest, Typed, BranchProjection
<1> QED
  BY <1>1, <1>2 DEF ProjectBranch, Typed, ClaimsFit, BranchProjection

-----------------------------------------------------------------------------
(* Messages, and the runtime that holds them. *)
Fits(e) ==
  CASE e.kind = "ack" -> Sensible(e.unit) /\ e.base # 0
    [] e.kind = "work" -> e.result \in AllowedEvents(e.id.at) \cup {"retryable", "fatal"}
    [] e.kind = "timer" -> After[e.id.at] # None
    [] OTHER -> TRUE

Message == {e \in MachineEvent : Fits(e)}

(* The runtime's half of the invariant: what it holds back, carries out,   *)
(* runs and arms.                                                          *)
RuntimeInv ==
  /\ loop \in Live \cup Ended \cup {"down"}
  /\ queue \in Seq(Message) /\ buffer \in Seq(Message)
  /\ batch \in Batch
  /\ batch.unit # NoUnit => Sensible(batch.unit) /\ batch.unit.type # "resolved"
  /\ tasks \subseteq Task
  /\ timers \subseteq {id \in Id : After[id.at] # None}

TypeInv ==
  /\ Typed(durable) /\ lost \in BOOLEAN
  /\ Typed(machine) /\ dispatched \subseteq Id
  /\ error \in Cause /\ draining \in BOOLEAN /\ crashes \in Nat
  /\ RuntimeInv

-----------------------------------------------------------------------------
(* Sequences of messages are sequences of machine events. *)
LEMMA MessagesAreEvents ==
  ASSUME NEW q \in Seq(Message)
  PROVE  q \in Seq(MachineEvent)
BY DEF Message

(* The shape of the messages that are sent. *)
LEMMA AckMessage ==
  ASSUME NEW u \in Unit, Sensible(u), NEW base \in Nat \ {0}
  PROVE  [kind |-> "ack", unit |-> u, base |-> base] \in Message
BY DEF Message, MachineEvent, Fits

(* The outcome of a piece of work is an event of the machine. *)
LEMMA WorkMessage ==
  ASSUME NEW id \in Id, NEW r \in AllowedEvents(id.at) \cup {"retryable", "fatal"}
  PROVE  [kind |-> "work", id |-> id, result |-> r] \in Message
BY DEF Message, MachineEvent, Fits, Result, AllowedEvents

(* So is a verdict, *)
LEMMA VerdictMessage ==
  ASSUME NEW id \in Id, NEW ok \in BOOLEAN
  PROVE  [kind |-> "verdict", id |-> id, ok |-> ok] \in Message
BY DEF Message, MachineEvent, Fits

(* a deadline, *)
LEMMA TimerMessage ==
  ASSUME NEW id \in Id, After[id.at] # None
  PROVE  [kind |-> "timer", id |-> id] \in Message
BY DEF Message, MachineEvent, Fits

(* and the start of an attempt. *)
LEMMA StartMessage == [kind |-> "start"] \in Message
BY DEF Message, MachineEvent, Fits

(* And the shape of those that arrive. *)
LEMMA MessageType ==
  ASSUME NEW e \in Message
  PROVE  /\ e.kind = "ack" => e.unit \in Unit /\ Sensible(e.unit) /\ e.base \in Nat \ {0}
         /\ e.kind = "work" =>
              /\ e.id \in Id
              /\ e.result \in AllowedEvents(e.id.at) \cup {"retryable", "fatal"}
         /\ e.kind = "verdict" => e.id \in Id /\ e.ok \in BOOLEAN
         /\ e.kind = "timer" => e.id \in Id /\ After[e.id.at] # None
BY DEF Message, MachineEvent, Fits

(* The three kinds of ids are ids. *)
LEMMA IdType ==
  ASSUME NEW p, Typed(p)
  PROVE  /\ \A s \in State : InvokeId(s) \in Id
         /\ \A s \in State : OpenId(p, s) \in Id /\ PhaseId(p, s) \in Id
         /\ Desired(p) \subseteq Id
<1>1. \A s \in State : p.pending[s].visit \in Nat /\ p.pending[s].seq \in Nat
  BY DEF Typed, BranchProjection, Pending
<1>2. \A s \in State : InvokeId(s) \in Id
  BY DEF InvokeId, Id
<1>3. \A s \in State : OpenId(p, s) \in Id /\ PhaseId(p, s) \in Id
  BY <1>1 DEF OpenId, PhaseId, Id
<1> QED
  BY <1>2, <1>3 DEF Desired, DueInvokes, DueOpens, DuePhases

(* What a chart starts with. *)
LEMMA EmptyTyped == Typed(EmptyProjection)
<1>1. EnterState[Top] \subseteq Node
  BY ChartAssumption, EnterType
<1>2. CompleteParallels[EnterState[Top]] \subseteq Node
  BY <1>1, JoinsTakeFinals
<1>3. EmptyProjection \in BranchProjection
  BY <1>2, NoPendingType DEF EmptyProjection, BranchProjection
<1>4. ClaimsFit(EmptyProjection)
  BY NoPendingType DEF EmptyProjection, ClaimsFit
<1> QED
  BY <1>3, <1>4 DEF Typed

(* The empty batch is a batch with nothing to append. *)
LEMMA NoBatchType == NoBatch \in Batch /\ NoBatch.unit = NoUnit
BY DEF NoBatch, Batch

-----------------------------------------------------------------------------
(* The invariant is at least as strong as the type invariant. *)
LEMMA TypeInvImplies == TypeInv => TypeOK
BY MessagesAreEvents DEF TypeInv, RuntimeInv, TypeOK, Typed

(* It holds in the initial states. *)
LEMMA InitTypeInv == Init => TypeInv
<1> SUFFICES ASSUME Init PROVE TypeInv
  OBVIOUS
<1>1. <<[kind |-> "start"]>> \in Seq(Message) /\ <<>> \in Seq(Message)
  BY StartMessage
<1> QED
  BY <1>1, EmptyTyped, NoBatchType DEF Init, TypeInv, RuntimeInv, Live, Cause

(* Sending keeps the messages well-formed, wherever they go. *)
LEMMA SendType ==
  ASSUME queue \in Seq(Message), buffer \in Seq(Message),
         NEW e \in Message, Send(e)
  PROVE  queue' \in Seq(Message) /\ buffer' \in Seq(Message)
<1>1. Append(queue, e) \in Seq(Message) /\ Append(buffer, e) \in Seq(Message)
  OBVIOUS
<1>2. queue' \in {queue, Append(queue, e)} /\ buffer' \in {buffer, Append(buffer, e)}
  BY DEF Send
<1> QED
  BY <1>1, <1>2

(* A disposed runtime is an empty one. *)
LEMMA DisposedType ==
  ASSUME Disposed, loop' \in Live \cup Ended \cup {"down"}
  PROVE  RuntimeInv'
<1>1. <<>> \in Seq(Message)
  OBVIOUS
<1> QED
  BY <1>1, NoBatchType DEF Disposed, RuntimeInv

(* A cancel changes how far work has come, never what it is. *)
LEMMA AfterCancelType ==
  ASSUME NEW ts \in SUBSET Task, NEW at
  PROVE  AfterCancel(ts, at) \subseteq Task
<1>1. ASSUME NEW t \in Task
      PROVE  [t EXCEPT !.told = TRUE,
                       !.stage = IF @ = "live" THEN "stopping" ELSE @] \in Task
  BY DEF Task
<1> QED
  BY <1>1 DEF AfterCancel

(* The work a phase stands for. *)
LEMMA TaskForType ==
  ASSUME NEW p, NEW id \in Id, HasTask(p, id)
  PROVE  TaskFor(p, id) \in Task
BY ActionAssumption DEF HasTask, TaskFor, Task, Id

(* Carrying on with a well-formed batch leaves a well-formed runtime. *)
LEMMA AdvanceType ==
  ASSUME RuntimeInv, NEW m, NEW asked \in Batch,
         asked.unit # NoUnit => Sensible(asked.unit) /\ asked.unit.type # "resolved",
         NEW q \in Seq(Message), Advance(m, asked, q)
  PROVE  RuntimeInv'
<1> DEFINE b == IF draining THEN [NoBatch EXCEPT !.last = asked.last] ELSE asked
           at == IF b.unit = NoUnit THEN b.cancels ELSE {}
           rest == [b EXCEPT !.cancels = @ \ at]
           started == {TaskFor(m, id) : id \in {i \in b.work : HasTask(m, i)}}
           armed == {id \in b.work : HasTimer(m, id)}
<1>0. b \in Batch /\ b.unit \in {asked.unit, NoUnit}
  BY DEF NoBatch, Batch
<1>1. rest \in Batch /\ rest.unit = b.unit
  <2> HIDE DEF b
  <2> QED
    BY <1>0 DEF Batch
<1>2. batch' \in {rest, NoBatch}
  BY DEF Advance
<1>3. b.work \subseteq Id
  BY <1>0 DEF Batch
<1>4. started \subseteq Task
  BY <1>3, TaskForType
<1>5. armed \subseteq {id \in Id : After[id.at] # None}
  BY <1>3 DEF HasTimer
<1>6. AfterCancel(tasks, at) \subseteq Task
  BY AfterCancelType DEF RuntimeInv
<1>7. tasks' \subseteq AfterCancel(tasks, at) \cup started
  BY DEF Advance
<1>8. timers' \subseteq timers \cup armed
  BY DEF Advance
<1>9. queue' \in Seq(Message) /\ buffer' \in Seq(Message)
  BY DEF Advance, RuntimeInv
<1>10. loop' \in Live \cup Ended \cup {"down"}
  BY DEF Advance, Live, Ended
<1>11. batch' \in Batch
       /\ (batch'.unit # NoUnit => Sensible(batch'.unit) /\ batch'.unit.type # "resolved")
  <2> HIDE DEF rest, at
  <2>1. CASE batch' = rest
    BY <1>0, <1>1, <2>1
  <2>2. CASE batch' = NoBatch
    BY NoBatchType, <2>2
  <2> QED
    BY <1>2, <2>1, <2>2
<1> QED
  BY <1>4, <1>5, <1>6, <1>7, <1>8, <1>9, <1>10, <1>11 DEF RuntimeInv

-----------------------------------------------------------------------------
(* What the machine asks the log to take: a unit of its type, sensible,    *)
(* and never a user's response.                                            *)
Appendable(u) == u \in Unit /\ Sensible(u) /\ u.type # "resolved"

(* A recovery decision is a retry or a failure intent. *)
LEMMA RecoveryDecisionType ==
  ASSUME Typed(machine), NEW s \in State, NEW r, NEW scope \in Scope
  PROVE  /\ RecoveryDecision(s, r, scope) \in RetryUnit \cup FailureUnit
         /\ RecoveryDecision(s, r, scope).at = s
<1> DEFINE q == machine.pending[s]
<1>1. q \in Pending
  BY DEF Typed, BranchProjection
<1>2. /\ q.session \in Nat
      /\ q.nudges[scope] \in Nat /\ q.nudges[scope] + 1 \in Nat
      /\ q.restarts[scope] \in Nat /\ q.restarts[scope] + 1 \in Nat
  BY <1>1 DEF Pending
<1> HIDE DEF q
<1>3. RecoveryDecision(s, r, scope) =
        LET retry(mode) ==
              [type |-> "retry", at |-> s, scope |-> scope, mode |-> mode,
               prev |-> q.session,
               nudge |-> IF mode = "nudge" THEN q.nudges[scope] + 1 ELSE 0,
               restart |-> IF mode = "nudge" THEN q.restarts[scope]
                           ELSE q.restarts[scope] + 1]
        IN IF r /\ q.nudges[scope] < Nudge[scope] THEN retry("nudge")
           ELSE IF r /\ q.restarts[scope] < Restart[scope] THEN retry("restart")
           ELSE [type |-> "failure_intent", at |-> s]
  BY DEF RecoveryDecision, q
<1> QED
  BY <1>2, <1>3 DEF RetryUnit, FailureUnit

(* A recovery decision can be appended on its own. *)
LEMMA DecisionAppendable ==
  ASSUME NEW u \in RetryUnit \cup FailureUnit
  PROVE  Appendable(u)
BY DEF Appendable, Sensible, Unit, RetryUnit, FailureUnit

(* What an outcome is answered with can be appended. *)
LEMMA OutcomeAppendable ==
  ASSUME Typed(machine), NEW s \in State,
         NEW r \in AllowedEvents(s) \cup {"retryable", "fatal"}
  PROVE  Appendable(OutcomeUnit(s, r))
<1>1. CASE r \in Event
  <2>1. r \in AllowedEvents(s)
    BY <1>1, ExecutionAssumption
  <2> QED
    BY <1>1, <2>1 DEF OutcomeUnit, Appendable, Sensible, Unit
<1>2. CASE r \notin Event
  <2>1. RecoveryDecision(s, r = "retryable" /\ Action[s] = "agent", "general")
          \in RetryUnit \cup FailureUnit
    BY RecoveryDecisionType DEF Scope
  <2> QED
    BY <1>2, <2>1, DecisionAppendable DEF OutcomeUnit
<1> QED
  BY <1>1, <1>2

(* What a verdict is answered with can be appended. *)
LEMMA VerdictAppendable ==
  ASSUME Typed(machine), NEW s \in State, machine.pending[s].phase = "validating",
         NEW ok \in BOOLEAN
  PROVE  Appendable(VerdictUnit(s, ok))
<1>1. machine.pending[s].event \in Event
  BY DEF Typed, ClaimsFit, AllowedEvents
<1>2. /\ RecoveryDecision(s, TRUE, "validation") \in RetryUnit \cup FailureUnit
      /\ RecoveryDecision(s, TRUE, "validation").at = s
  BY RecoveryDecisionType DEF Scope
<1> QED
  BY <1>1, <1>2 DEF VerdictUnit, Appendable, Sensible, Unit

(* Every output of the machine preserves the invariant. *)
LEMMA OutputType ==
  ASSUME TypeInv, queue # <<>>, NEW m, Typed(m), NEW u, u = NoUnit \/ Appendable(u),
         NEW cs \in SUBSET State, Output(m, u, cs)
  PROVE  TypeInv'
<1> DEFINE fresh == Desired(m) \ dispatched
           last == m.failed \/ IsFinal(m.leaves)
           final == [NoBatch EXCEPT !.unit = u, !.last = TRUE,
                       !.cancels = cs \cup
                         {s \in State : m.failed /\ m.pending[s].phase # "none"}]
           going == [unit |-> u, cancels |-> cs, last |-> FALSE,
                     invokes |-> {id.at : id \in {i \in fresh : i.kind = "invoke"}},
                     opens |-> {id \in fresh : id.kind = "open"},
                     work |-> {id \in fresh : id.kind = "phase"}]
           out == IF last THEN final ELSE going
<1>1. fresh \subseteq Id
  BY IdType
<1>2. u \in Unit \cup {NoUnit}
  BY DEF Appendable
<1>3. final \in Batch /\ final.unit = u
  BY <1>2 DEF NoBatch, Batch
<1>4. {id.at : id \in {i \in fresh : i.kind = "invoke"}} \subseteq State
  BY <1>1 DEF Id
<1>5. going \in Batch /\ going.unit = u
  BY <1>1, <1>2, <1>4 DEF Batch
<1>6. out \in Batch /\ out.unit = u
  BY <1>3, <1>5
<1>7. Tail(queue) \in Seq(Message)
  BY DEF TypeInv, RuntimeInv
<1>8. Advance(m, out, Tail(queue))
  BY DEF Output
<1>9. RuntimeInv'
  <2> HIDE DEF out
  <2> QED
    BY <1>6, <1>7, <1>8, AdvanceType DEF TypeInv, Appendable
<1>10. Typed(machine') /\ dispatched' \subseteq Id
  BY IdType DEF Output, Marked, TypeInv
<1>11. UNCHANGED <<log, error, runner>>
  BY DEF Output
<1> QED
  BY <1>9, <1>10, <1>11 DEF TypeInv, log, runner

-----------------------------------------------------------------------------
(* The machine's steps. *)
LEMMA MachineTypeInv == TypeInv /\ Machine => TypeInv'
<1> SUFFICES ASSUME TypeInv, Machine PROVE TypeInv'
  OBVIOUS
<1> DEFINE e == Head(queue)
<1>1. queue # <<>> /\ e \in Message /\ Typed(machine)
  BY DEF TypeInv, RuntimeInv, Machine, StepStart, StepWork, StepTimer, StepVerdict,
         StepAck, Awaiting
<1>2. ASSUME NEW cause \in Cause, Throw(cause), UNCHANGED <<log, machine, dispatched, runner>>
      PROVE  TypeInv'
  <2>1. RuntimeInv'
    BY <1>2, DisposedType DEF Throw, Ended
  <2> QED
    BY <1>2, <2>1 DEF TypeInv, Throw, log, runner
<1>3. CASE StepStart
  BY <1>1, <1>3, OutputType DEF StepStart
<1>4. CASE StepWork
  <2>1. e.id.at \in State /\ e.result \in AllowedEvents(e.id.at) \cup {"retryable", "fatal"}
    BY <1>1, <1>4, MessageType DEF StepWork, Awaiting, Id
  <2>2. Appendable(OutcomeUnit(e.id.at, e.result))
    BY <1>1, <2>1, OutcomeAppendable
  <2> QED
    BY <1>1, <1>4, <2>2, OutputType DEF StepWork
<1>5. CASE StepTimer
  <2>1. e.id.at \in State /\ After[e.id.at] # None
    BY <1>1, <1>5, MessageType DEF StepTimer, Awaiting, Id
  <2>2. Appendable([type |-> "timer_fired", at |-> e.id.at])
    BY <2>1 DEF Appendable, Unit, Sensible
  <2> QED
    BY <1>1, <1>5, <2>1, <2>2, OutputType DEF StepTimer
<1>6. CASE StepVerdict
  <2>1. e.id.at \in State /\ e.ok \in BOOLEAN
    BY <1>1, <1>6, MessageType DEF StepVerdict, Awaiting, Id
  <2>2. CASE Current(machine, e.id, "validating")
    <3>1. Appendable(VerdictUnit(e.id.at, e.ok))
      BY <1>1, <2>1, <2>2, VerdictAppendable DEF Current
    <3> QED
      BY <1>1, <1>6, <2>2, <3>1, OutputType DEF StepVerdict
  <2>3. CASE ~Current(machine, e.id, "validating")
    BY <1>2, <1>6, <2>3 DEF StepVerdict, Cause
  <2> QED
    BY <2>2, <2>3
<1>7. CASE StepAck
  <2>1. e.unit \in Unit /\ Sensible(e.unit) /\ e.base \in Nat \ {0}
    BY <1>1, <1>7, MessageType DEF StepAck, Awaiting
  <2>2. CASE Rejects(machine, e.unit)
    BY <1>2, <1>7, <2>2 DEF StepAck, Cause
  <2>3. CASE ~Rejects(machine, e.unit)
    <3>1. Typed(ProjectBranch(machine, e.unit, e.base))
      BY <1>1, <2>1, <2>3, ProjectBranchTyped
    <3>2. Abandoned(machine, e.unit, e.base) \subseteq State
      BY DEF Abandoned
    <3> QED
      BY <1>1, <1>7, <2>3, <3>1, <3>2, OutputType DEF StepAck
  <2> QED
    BY <2>2, <2>3
<1> QED
  BY <1>3, <1>4, <1>5, <1>6, <1>7 DEF Machine

(* A commit of something the machine asked for. *)
LEMMA CommitTypeInv ==
  ASSUME TypeInv, NEW u, Appendable(u), NEW rest \in Batch,
         rest.unit # NoUnit => Appendable(rest.unit), Commit(u, rest)
  PROVE  TypeInv'
<1>1. CASE Rejects(durable, u)
  <2>1. u.type \in Cause
    BY <1>1, UnitType DEF Appendable, Cause, Rejects
  <2>2. loop' \in Live \cup Ended \cup {"down"} /\ error' = u.type /\ Disposed
        /\ UNCHANGED <<log, machine, dispatched, runner>>
    BY <1>1 DEF Commit, Throw, Ended
  <2> QED
    BY <2>1, <2>2, DisposedType DEF TypeInv, log, runner
<1>2. CASE ~Rejects(durable, u)
  <2> DEFINE base == durable.seq + 1
             ack == [kind |-> "ack", unit |-> u, base |-> base]
  <2>1. base \in Nat \ {0} /\ u \in Unit /\ Sensible(u) /\ Typed(durable)
    BY DEF TypeInv, Typed, BranchProjection, Appendable
  <2>2. Typed(ProjectBranch(durable, u, base))
    BY <1>2, <2>1, ProjectBranchTyped
  <2>3. ack \in Message
    BY <2>1, AckMessage
  <2>4. queue \in Seq(Message) /\ Append(queue, ack) \in Seq(Message)
    BY <2>3 DEF TypeInv, RuntimeInv
  <2>5. Skips(durable, u) \in BOOLEAN
    BY <2>1, UnitType DEF Skips
  <2>6. /\ durable' = ProjectBranch(durable, u, base)
        /\ lost' = (lost \/ Skips(durable, u))
        /\ Advance(machine, rest, IF draining THEN queue ELSE Append(queue, ack))
        /\ UNCHANGED <<machine, dispatched, error, runner>>
    BY <1>2 DEF Commit
  <2>7. RuntimeInv'
    <3> HIDE DEF ack
    <3> QED
      BY <2>4, <2>6, AdvanceType DEF TypeInv, Appendable
  <2> QED
    BY <2>2, <2>5, <2>6, <2>7 DEF TypeInv, runner
<1> QED
  BY <1>1, <1>2

(* The writer's steps. *)
LEMMA WriterTypeInv == TypeInv /\ Writer => TypeInv'
<1> SUFFICES ASSUME TypeInv, Writer PROVE TypeInv'
  OBVIOUS
<1>1. batch \in Batch /\ (batch.unit # NoUnit => Appendable(batch.unit))
  BY DEF TypeInv, RuntimeInv, Batch, Appendable
<1>2. CASE CommitResponse
  <2>1. [batch EXCEPT !.unit = NoUnit] \in Batch
        /\ [batch EXCEPT !.unit = NoUnit].unit = NoUnit
    BY <1>1 DEF Batch
  <2> QED
    BY <1>1, <1>2, <2>1, CommitTypeInv DEF CommitResponse
<1>3. CASE CommitInvokes
  <2>1. [batch EXCEPT !.invokes = {}] \in Batch
        /\ [batch EXCEPT !.invokes = {}].unit = batch.unit
    BY <1>1 DEF Batch
  <2>2. Appendable([type |-> "invoke", group |-> batch.invokes])
    BY <1>1 DEF Batch, Appendable, Unit, Sensible
  <2> QED
    BY <1>1, <1>3, <2>1, <2>2, CommitTypeInv DEF CommitInvokes
<1>4. CASE CommitOpen
  <2>1. PICK id \in batch.opens :
          Commit([type |-> "opened", at |-> id.at, phase |-> id.seq],
                 [batch EXCEPT !.opens = @ \ {id}])
    BY <1>4 DEF CommitOpen
  <2>2. [batch EXCEPT !.opens = @ \ {id}] \in Batch
        /\ [batch EXCEPT !.opens = @ \ {id}].unit = batch.unit
    BY <1>1 DEF Batch
  <2>3. id \in Id
    BY <1>1 DEF Batch
  <2>4. Appendable([type |-> "opened", at |-> id.at, phase |-> id.seq])
    BY <2>3 DEF Id, Appendable, Unit, Sensible
  <2> QED
    BY <1>1, <2>1, <2>2, <2>4, CommitTypeInv
<1> QED
  BY <1>2, <1>3, <1>4 DEF Writer

(* What sends a message and changes, beside that, only the work and the    *)
(* armed deadlines. *)
LEMMA SendTypeInv ==
  ASSUME TypeInv, NEW e \in Message, Send(e),
         tasks' \subseteq Task, timers' \subseteq timers,
         UNCHANGED <<log, machine, dispatched, loop, error, batch, runner>>
  PROVE  TypeInv'
<1>1. queue' \in Seq(Message) /\ buffer' \in Seq(Message)
  BY SendType DEF TypeInv, RuntimeInv
<1> QED
  BY <1>1 DEF TypeInv, RuntimeInv, log, runner

(* A step that changes no variable preserves the invariant. *)
LEMMA QuietTypeInv ==
  ASSUME TypeInv, tasks' \subseteq Task,
         UNCHANGED <<log, machine, dispatched, loop, error, queue, buffer, batch,
                     timers, runner>>
  PROVE  TypeInv'
BY DEF TypeInv, RuntimeInv, log, runner

(* A step of an agent, script, import or validator preserves it. *)
LEMMA WorkTypeInv == TypeInv /\ Work => TypeInv'
<1> SUFFICES ASSUME TypeInv, Work PROVE TypeInv'
  OBVIOUS
<1>1. PICK t \in tasks : EndDelay(t) \/ Begin(t) \/ Answer(t) \/ Verdict(t)
  BY DEF Work
<1>2. tasks \subseteq Task /\ t \in Task /\ t.id \in Id /\ t.id.at \in State
  BY DEF TypeInv, RuntimeInv, Task, Id
<1>3. tasks \ {t} \subseteq Task
  BY <1>2
<1>4. CASE EndDelay(t)
  <2>1. [t EXCEPT !.stage = "preparing"] \in Task
    BY <1>2 DEF Task
  <2> QED
    BY <1>2, <1>4, <2>1, QuietTypeInv DEF EndDelay
<1>5. CASE Begin(t)
  <2>1. [t EXCEPT !.stage = "live"] \in Task
    BY <1>2 DEF Task
  <2>2. UNCHANGED <<log, machine, dispatched, loop, error, batch, timers, runner>>
    BY <1>5 DEF Begin
  <2>3. CASE tasks' = tasks \ {t} /\ Send([kind |-> "work", id |-> t.id, result |-> "fatal"])
    BY <1>2, <2>2, <2>3, SendTypeInv, WorkMessage
  <2>4. CASE tasks' = (tasks \ {t}) \cup {[t EXCEPT !.stage = "live"]}
             /\ UNCHANGED <<queue, buffer>>
    BY <1>2, <2>1, <2>2, <2>4, QuietTypeInv
  <2> QED
    BY <1>5, <2>3, <2>4 DEF Begin
<1>6. CASE Answer(t)
  <2>1. /\ tasks' = tasks \ {t}
        /\ UNCHANGED <<log, machine, dispatched, loop, error, batch, timers, runner>>
    BY <1>6 DEF Answer
  <2>2. CASE UNCHANGED <<queue, buffer>>
    BY <1>2, <2>1, <2>2, QuietTypeInv
  <2>3. ASSUME NEW r \in {"fatal"} \cup Outcomes(t),
               Send([kind |-> "work", id |-> t.id, result |-> r])
        PROVE  TypeInv'
    <3>1. r \in AllowedEvents(t.id.at) \cup {"retryable", "fatal"}
      BY ExecutionAssumption DEF Outcomes
    <3>2. [kind |-> "work", id |-> t.id, result |-> r] \in Message
      BY <1>2, <3>1, WorkMessage
    <3> QED
      BY <1>2, <2>1, <2>3, <3>2, SendTypeInv
  <2> QED
    BY <1>6, <2>2, <2>3 DEF Answer
<1>7. CASE Verdict(t)
  <2>1. PICK ok \in BOOLEAN : Send([kind |-> "verdict", id |-> t.id, ok |-> ok])
    BY <1>7 DEF Verdict
  <2>2. [kind |-> "verdict", id |-> t.id, ok |-> ok] \in Message
    BY <1>2, VerdictMessage
  <2> QED
    BY <1>3, <1>7, <2>1, <2>2, SendTypeInv DEF Verdict
<1> QED
  BY <1>1, <1>4, <1>5, <1>6, <1>7

(* A deadline that fires preserves it. *)
LEMMA ClockTypeInv == TypeInv /\ Clock => TypeInv'
<1> SUFFICES ASSUME TypeInv, NEW id \in timers, TimerFires(id) PROVE TypeInv'
  BY DEF Clock
<1>1. [kind |-> "timer", id |-> id] \in Message
  BY TimerMessage DEF TypeInv, RuntimeInv
<1> QED
  BY <1>1, SendTypeInv DEF TimerFires, TypeInv, RuntimeInv

(* A user's response is sensible because it was checked against the log. *)
LEMMA UserTypeInv == TypeInv /\ User => TypeInv'
<1> SUFFICES ASSUME TypeInv, NEW g \in durable.gates, NEW e \in Event, Respond(g, e)
             PROVE  TypeInv'
  BY DEF User
<1> DEFINE unit == [type |-> "resolved", at |-> g.at, gate |-> g.seq, event |-> e]
           base == durable.seq + 1
<1>1. /\ Typed(durable) /\ base \in Nat \ {0}
      /\ g.at \in State /\ g.seq \in Nat
  BY DEF TypeInv, Typed, BranchProjection
<1>2. unit \in Unit
  BY <1>1 DEF Unit
<1>3. ~Rejects(durable, unit)
  BY DEF Respond
<1>4. Sensible(unit)
  BY <1>3 DEF Rejects, Sensible
<1>5. Typed(durable') /\ lost' \in BOOLEAN
  <2>1. durable' = ProjectBranch(durable, unit, base)
    BY DEF Respond
  <2>2. Skips(durable, unit) = FALSE
    BY DEF Skips
  <2>3. lost' = (lost \/ Skips(durable, unit))
    BY DEF Respond
  <2> HIDE DEF unit
  <2>4. Typed(ProjectBranch(durable, unit, base))
    BY <1>1, <1>2, <1>3, <1>4, ProjectBranchTyped
  <2> QED
    BY <2>1, <2>2, <2>3, <2>4 DEF TypeInv
<1>6. UNCHANGED <<machine, dispatched, loop, error, batch, tasks, timers, runner>>
  BY DEF Respond
<1>7. queue' \in Seq(Message) /\ buffer' \in Seq(Message)
  <2>1. CASE Send([kind |-> "ack", unit |-> unit, base |-> base])
    <3>1. [kind |-> "ack", unit |-> unit, base |-> base] \in Message
      BY <1>1, <1>2, <1>4, AckMessage
    <3> QED
      BY <2>1, <3>1, SendType DEF TypeInv, RuntimeInv
  <2>2. CASE UNCHANGED <<queue, buffer>>
    BY <2>2 DEF TypeInv, RuntimeInv
  <2> QED
    BY <2>1, <2>2 DEF Respond
<1> QED
  BY <1>5, <1>6, <1>7 DEF TypeInv, RuntimeInv, runner

(* The runner's steps. *)
LEMMA RunnerTypeInv ==
  TypeInv /\ (BeginDrain \/ Drained \/ Crash \/ Restarted) => TypeInv'
<1> SUFFICES ASSUME TypeInv, BeginDrain \/ Drained \/ Crash \/ Restarted PROVE TypeInv'
  OBVIOUS
<1>1. CASE Crash
  <2>1. RuntimeInv'
    BY <1>1, DisposedType DEF Crash
  <2>2. crashes' \in Nat
    BY <1>1 DEF TypeInv, Crash
  <2>3. draining' \in BOOLEAN /\ UNCHANGED <<durable, lost, machine, dispatched, error>>
    BY <1>1 DEF Crash, log
  <2> QED
    BY <2>1, <2>2, <2>3 DEF TypeInv
<1>2. CASE Restarted
  <2>1. <<[kind |-> "start"]>> \in Seq(Message)
    BY StartMessage
  <2>2. queue' \in Seq(Message) /\ loop' \in Live \cup Ended
    BY <1>2, <2>1 DEF Restarted, TypeInv, RuntimeInv, Live, Ended
  <2>3. UNCHANGED <<durable, lost, buffer, batch, tasks, timers, draining>>
    BY <1>2 DEF Restarted, log
  <2>4. RuntimeInv'
    BY <2>2, <2>3 DEF TypeInv, RuntimeInv
  <2>5. Typed(machine') /\ dispatched' \subseteq Id /\ error' \in Cause /\ crashes' \in Nat
    BY <1>2 DEF Restarted, TypeInv, Cause
  <2> QED
    BY <2>3, <2>4, <2>5 DEF TypeInv
<1>3. CASE BeginDrain
  <2>1. /\ tasks' \subseteq tasks /\ timers' = {} /\ buffer' = <<>>
        /\ UNCHANGED <<loop, queue, batch>>
    BY <1>3 DEF BeginDrain
  <2>2. RuntimeInv'
    BY <2>1 DEF TypeInv, RuntimeInv
  <2>3. crashes' \in Nat
    BY <1>3 DEF TypeInv, BeginDrain
  <2>4. draining' \in BOOLEAN /\ UNCHANGED <<durable, lost, machine, dispatched, error>>
    BY <1>3 DEF BeginDrain, log
  <2> QED
    BY <2>2, <2>3, <2>4 DEF TypeInv
<1>4. CASE Drained
  <2>1. RuntimeInv'
    BY <1>4, DisposedType DEF Drained
  <2> QED
    BY <1>4, <2>1 DEF TypeInv, Drained, log
<1> QED
  BY <1>1, <1>2, <1>3, <1>4

(* Every step preserves it. *)
LEMMA NextTypeInv == TypeInv /\ [Next]_vars => TypeInv'
<1> SUFFICES ASSUME TypeInv, [Next]_vars PROVE TypeInv'
  OBVIOUS
<1>1. CASE UNCHANGED vars
  BY <1>1 DEF TypeInv, RuntimeInv, vars
<1>2. CASE Finished
  BY <1>1, <1>2 DEF Finished
<1> QED
  BY <1>1, <1>2, MachineTypeInv, WriterTypeInv, WorkTypeInv, ClockTypeInv, UserTypeInv,
     RunnerTypeInv DEF Next

(* Type correctness: whatever the chart, the recovery policy and the       *)
(* interleaving, projections, events, batches, work and deadlines keep     *)
(* their shape, every deadline that is armed belongs to a state that       *)
(* declares one, and every event that reaches a projection is one its      *)
(* action can take (execution_loop.ts with everything it calls).           *)
THEOREM SpecTypeOK == Spec => []TypeOK
<1>1. Spec => []TypeInv
  BY InitTypeInv, NextTypeInv, PTL DEF Spec
<1> QED
  BY <1>1, TypeInvImplies, PTL

-----------------------------------------------------------------------------
(* Draining a branch: whatever executors, deadlines, users, the append in   *)
(* flight and crashes do meanwhile.                                         *)

(* A branch that drains is not down, holds nothing back and has no armed   *)
(* deadline: beginDrain saw to it, and nobody else adds any.               *)
DrainInv ==
  /\ TypeInv
  /\ draining => loop # "down" /\ buffer = <<>> /\ timers = {}

(* What a step of a draining runtime may do to the runtime. *)
Quiet ==
  /\ \A t \in tasks' : \E u \in tasks :
       u.id = t.id /\ u.kind = t.kind /\ (t.stage = "live" => u.stage = "live")
  /\ timers' = {}
  /\ Len(queue') <= Len(queue) /\ buffer' = <<>>
  /\ loop' = "busy" => loop = "busy"

(* Less work is quiet. *)
LEMMA FewerTasks ==
  ASSUME tasks' \subseteq tasks, timers' = {}, Len(queue') <= Len(queue),
         buffer' = <<>>, loop' = "busy" => loop = "busy"
  PROVE  Quiet
BY DEF Quiet

(* A disposed runtime is quiet. *)
LEMMA DisposedQuiet ==
  ASSUME TypeInv, Disposed, loop' # "busy"
  PROVE  Quiet /\ buffer' = <<>> /\ timers' = {}
<1>1. Len(queue') <= Len(queue)
  <2>1. queue \in Seq(Message) /\ queue' = <<>>
    BY DEF TypeInv, RuntimeInv, Disposed
  <2>2. Len(queue) \in Nat
    BY <2>1
  <2> QED
    BY <2>1, <2>2
<1>2. tasks' = {} /\ timers' = {} /\ buffer' = <<>>
  BY DEF Disposed
<1> QED
  BY <1>1, <1>2, FewerTasks

(* What carries on with a batch while the branch drains, does nothing. *)
LEMMA AdvanceQuiet ==
  ASSUME DrainInv, draining, NEW m, NEW asked,
         NEW q \in Seq(Message), Len(q) <= Len(queue), Advance(m, asked, q)
  PROVE  Quiet /\ loop' # "down" /\ buffer' = <<>> /\ timers' = {}
<1> DEFINE b == [NoBatch EXCEPT !.last = asked.last]
<1>1. /\ b.unit = NoUnit /\ b.cancels = {} /\ b.invokes = {} /\ b.opens = {}
      /\ b.work = {} /\ b.last = asked.last
  BY DEF NoBatch
<1>2. AfterCancel(tasks, {}) = tasks
  BY DEF AfterCancel
<1>3. buffer = <<>> /\ timers = {}
  BY DEF DrainInv
<1>4. /\ loop' = IF ~b.last THEN "ready" ELSE IF m.failed THEN "failed" ELSE "final"
      /\ tasks' = IF b.last THEN {} ELSE tasks
      /\ timers' = {}
      /\ queue' = IF b.last THEN <<>> ELSE q \o buffer
      /\ buffer' = <<>>
  <2> HIDE DEF b
  <2>1. b = IF draining THEN [NoBatch EXCEPT !.last = asked.last] ELSE asked
    BY DEF b
  <2>2. ~(b.unit # NoUnit \/ b.invokes # {} \/ b.opens # {})
    BY <1>1
  <2> QED
    BY <1>1, <1>2, <1>3, <2>1, <2>2 DEF Advance
<1>5. Len(queue') <= Len(queue)
  <2>1. q \o buffer = q
    BY <1>3
  <2>2. queue \in Seq(Message)
    BY DEF DrainInv, TypeInv, RuntimeInv
  <2>3. Len(queue) \in Nat /\ Len(<<>>) = 0
    BY <2>2
  <2> HIDE DEF b
  <2> QED
    BY <1>4, <2>1, <2>3
<1>6. loop' \in {"ready", "failed", "final"} /\ tasks' \subseteq tasks
  <2> HIDE DEF b
  <2> QED
    BY <1>4
<1> QED
  BY <1>4, <1>5, <1>6, FewerTasks

-----------------------------------------------------------------------------
(* Quiet, and ready for the next step. *)
StaysQuiet ==
  Quiet /\ (draining' => loop' # "down" /\ buffer' = <<>> /\ timers' = {})

(* An event taken from the queue leaves a shorter one. *)
LEMMA TailShorter ==
  ASSUME TypeInv, queue # <<>>
  PROVE  Tail(queue) \in Seq(Message) /\ Len(Tail(queue)) <= Len(queue)
<1>1. queue \in Seq(Message)
  BY DEF TypeInv, RuntimeInv
<1>2. Len(Tail(queue)) = Len(queue) - 1 /\ Len(queue) \in Nat
  BY <1>1
<1> QED
  BY <1>1, <1>2

(* The machine may still take what was queued before, to no effect. *)
LEMMA OutputQuiet ==
  ASSUME DrainInv, draining, queue # <<>>, NEW m, NEW u, NEW cs, Output(m, u, cs)
  PROVE  StaysQuiet
<1>1. PICK asked : Advance(m, asked, Tail(queue))
  BY DEF Output
<1>2. Tail(queue) \in Seq(Message) /\ Len(Tail(queue)) <= Len(queue)
  BY TailShorter DEF DrainInv
<1> QED
  BY <1>1, <1>2, AdvanceQuiet DEF StaysQuiet

(* A loop that throws is over. *)
LEMMA ThrowQuiet ==
  ASSUME DrainInv, NEW cause, Throw(cause)
  PROVE  StaysQuiet
<1>1. TypeInv /\ Disposed /\ loop' = "threw"
  BY DEF Throw, DrainInv
<1> QED
  BY <1>1, DisposedQuiet DEF StaysQuiet

(* The machine's steps. *)
LEMMA MachineQuiet == DrainInv /\ draining /\ Machine => StaysQuiet
<1> SUFFICES ASSUME DrainInv, draining, Machine PROVE StaysQuiet
  OBVIOUS
<1>1. queue # <<>>
  BY DEF Machine, StepStart, StepWork, StepTimer, StepVerdict, StepAck, Awaiting
<1>2. CASE StepStart
  BY <1>1, <1>2, OutputQuiet DEF StepStart
<1>3. CASE StepWork
  BY <1>1, <1>3, OutputQuiet DEF StepWork
<1>4. CASE StepTimer
  BY <1>1, <1>4, OutputQuiet DEF StepTimer
<1>5. CASE StepVerdict
  BY <1>1, <1>5, OutputQuiet, ThrowQuiet DEF StepVerdict
<1>6. CASE StepAck
  BY <1>1, <1>6, OutputQuiet, ThrowQuiet DEF StepAck
<1> QED
  BY <1>2, <1>3, <1>4, <1>5, <1>6 DEF Machine

(* The append in flight is not acknowledged, and nothing follows it. *)
LEMMA CommitQuiet ==
  ASSUME DrainInv, draining, NEW u, NEW rest, Commit(u, rest)
  PROVE  StaysQuiet
<1>1. CASE Rejects(durable, u)
  BY <1>1, ThrowQuiet DEF Commit
<1>2. CASE ~Rejects(durable, u)
  <2>1. Advance(machine, rest, queue)
    BY <1>2 DEF Commit
  <2>2. queue \in Seq(Message) /\ Len(queue) <= Len(queue)
    <3>1. queue \in Seq(Message)
      BY DEF DrainInv, TypeInv, RuntimeInv
    <3>2. Len(queue) \in Nat
      BY <3>1
    <3> QED
      BY <3>1, <3>2
  <2> QED
    BY <2>1, <2>2, AdvanceQuiet DEF StaysQuiet
<1> QED
  BY <1>1, <1>2

(* The writer's steps. *)
LEMMA WriterQuiet == DrainInv /\ draining /\ Writer => StaysQuiet
BY CommitQuiet DEF Writer, CommitResponse, CommitInvokes, CommitOpen

(* What sends while the branch drains sends nothing. *)
LEMMA SendQuiet ==
  ASSUME draining, NEW e, Send(e)
  PROVE  UNCHANGED <<queue, buffer>>
BY DEF Send

(* A step that ends work, or none, and leaves the rest alone. *)
LEMMA EndingQuiet ==
  ASSUME DrainInv, draining,
         \A t \in tasks' : \E u \in tasks :
           u.id = t.id /\ u.kind = t.kind /\ (t.stage = "live" => u.stage = "live"),
         UNCHANGED <<loop, queue, buffer, timers>>
  PROVE  StaysQuiet
<1>1. queue \in Seq(Message) /\ timers = {} /\ buffer = <<>> /\ loop # "down"
  BY DEF DrainInv, TypeInv, RuntimeInv
<1>2. Len(queue) <= Len(queue)
  <2>1. Len(queue) \in Nat
    BY <1>1
  <2> QED
    BY <2>1
<1> QED
  BY <1>1, <1>2 DEF StaysQuiet, Quiet

(* A step of an agent, script, import or validator. *)
LEMMA WorkQuiet == DrainInv /\ draining /\ Work => StaysQuiet
<1> SUFFICES ASSUME DrainInv, draining, Work PROVE StaysQuiet
  OBVIOUS
<1>1. PICK t \in tasks : EndDelay(t) \/ Begin(t) \/ Answer(t) \/ Verdict(t)
  BY DEF Work
<1>2. t \in Task
  BY DEF DrainInv, TypeInv, RuntimeInv
<1>3. UNCHANGED <<loop, queue, buffer, timers>>
  BY <1>1, SendQuiet DEF EndDelay, Begin, Answer, Verdict
<1>4. CASE tasks' \subseteq tasks
  BY <1>3, <1>4, EndingQuiet
<1>5. CASE tasks' = (tasks \ {t}) \cup {[t EXCEPT !.stage = "preparing"]}
  <2> DEFINE late == [t EXCEPT !.stage = "preparing"]
  <2>1. late.id = t.id /\ late.kind = t.kind /\ late.stage # "live"
    BY <1>2 DEF Task
  <2> HIDE DEF late
  <2> QED
    BY <1>3, <1>5, <2>1, EndingQuiet DEF late
<1>6. tasks' \subseteq tasks \/ tasks' = (tasks \ {t}) \cup {[t EXCEPT !.stage = "preparing"]}
  BY <1>1 DEF EndDelay, Begin, Answer, Verdict
<1> QED
  BY <1>4, <1>5, <1>6

(* Every step of a draining branch is quiet, or the drain is over. *)
LEMMA StepQuiet ==
  DrainInv /\ draining /\ [Next]_vars => ~draining' \/ StaysQuiet
<1> SUFFICES ASSUME DrainInv, draining, [Next]_vars PROVE ~draining' \/ StaysQuiet
  OBVIOUS
<1>1. CASE Clock
  BY <1>1 DEF Clock, DrainInv
<1>2. CASE User
  <2>1. UNCHANGED <<loop, tasks, timers, queue, buffer>>
    BY <1>2, SendQuiet DEF User, Respond
  <2> QED
    BY <2>1, EndingQuiet
<1>3. CASE BeginDrain
  BY <1>3 DEF BeginDrain
<1>4. CASE Drained \/ Crash
  BY <1>4 DEF Drained, Crash
<1>5. CASE Restarted
  BY <1>5 DEF Restarted, DrainInv
<1>6. CASE Finished \/ UNCHANGED vars
  <2>1. UNCHANGED <<loop, tasks, timers, queue, buffer>>
    BY <1>6 DEF Finished, vars
  <2> QED
    BY <2>1, EndingQuiet
<1> QED
  BY <1>1, <1>2, <1>3, <1>4, <1>5, <1>6, MachineQuiet, WriterQuiet, WorkQuiet DEF Next

(* A drain begins without deadlines and with nothing held back. *)
LEMMA DrainBegins ==
  TypeInv /\ ~draining /\ [Next]_vars =>
    (draining' => loop' # "down" /\ buffer' = <<>> /\ timers' = {})
<1> SUFFICES ASSUME TypeInv, ~draining, [Next]_vars, draining'
             PROVE  loop' # "down" /\ buffer' = <<>> /\ timers' = {}
  OBVIOUS
<1>1. CASE BeginDrain
  BY <1>1 DEF BeginDrain, Live
<1>2. CASE Machine
  BY <1>2 DEF Machine, StepStart, StepWork, StepTimer, StepVerdict, StepAck, Output, runner
<1>3. CASE Writer
  BY <1>3 DEF Writer, CommitResponse, CommitInvokes, CommitOpen, Commit, runner
<1>4. CASE Work
  BY <1>4 DEF Work, EndDelay, Begin, Answer, Verdict, runner
<1>5. CASE Clock \/ User
  BY <1>5 DEF Clock, TimerFires, User, Respond, runner
<1>6. CASE Drained \/ Crash \/ Restarted
  BY <1>6 DEF Drained, Crash, Restarted
<1>7. CASE Finished \/ UNCHANGED vars
  BY <1>7 DEF Finished, vars
<1> QED
  BY <1>1, <1>2, <1>3, <1>4, <1>5, <1>6, <1>7 DEF Next

(* The invariant holds throughout. *)
LEMMA SpecDrainInv == Spec => []DrainInv
<1>1. Init => DrainInv
  BY InitTypeInv DEF Init, DrainInv
<1>2. DrainInv /\ [Next]_vars => DrainInv'
  BY NextTypeInv, StepQuiet, DrainBegins DEF DrainInv, StaysQuiet
<1> QED
  BY <1>1, <1>2, PTL DEF Spec

(* From beginDrain on nothing starts and nothing is reported: no session,  *)
(* process or deadline, no batch, no event and no acknowledgement, until   *)
(* the branch is disposed (ChartRuntime.beginDrain and the checks of       *)
(* quiescing in runEffects, performRunEffects and send).                   *)
THEOREM SpecQuietAfterDrain == Spec => QuietAfterDrain
<1>1. DrainInv /\ [Next]_vars
        => [draining /\ draining' =>
              /\ \A t \in tasks' : \E u \in tasks :
                   u.id = t.id /\ u.kind = t.kind /\ (t.stage = "live" => u.stage = "live")
              /\ timers' = {}
              /\ Len(queue') <= Len(queue) /\ buffer' = <<>>
              /\ loop' = "busy" => loop = "busy"]_vars
  BY StepQuiet DEF StaysQuiet, Quiet
<1> QED
  BY <1>1, SpecDrainInv, PTL DEF Spec, QuietAfterDrain
-----------------------------------------------------------------------------
(***************************************************************************)
(* What a branch's log says, for every interleaving of the machine's       *)
(* appends with user responses, crashes and restarts.  Every append is     *)
(* projected at the commit boundary and refused if it does not fit, so the *)
(* argument is about one unit at a time: a unit that is not refused keeps  *)
(* the projection sound.                                                   *)
(***************************************************************************)

Within(q) ==
  \A c \in Scope : q.nudges[c] <= Nudge[c] /\ q.restarts[c] <= Restart[c]

(* A pending entry is of an active leaf, in that leaf's latest visit, and  *)
(* within its recovery policy; only a user action opens an interaction.    *)
EntrySound(p, s) ==
  LET q == p.pending[s] IN
  /\ q.phase = "none" => q = NoPending
  /\ q.phase # "none" => s \in p.leaves /\ q.visit = p.visits[s]
  /\ q.gate # 0 => Action[s] = "user"
  /\ Within(q)

Opened(p) == {s \in State : p.pending[s].gate # 0}

(* No two open interactions share a record, all records are at most n, and *)
(* a host sees exactly those that are open, until the run fails.           *)
Sound(p, n) ==
  /\ \A s \in State : EntrySound(p, s)
  /\ \A s \in State : p.pending[s].gate <= n
  /\ \A s, t \in Opened(p) : p.pending[s].gate = p.pending[t].gate => s = t
  /\ ~p.failed => p.gates = {[seq |-> p.pending[s].gate, at |-> s] : s \in Opened(p)}

-----------------------------------------------------------------------------
(* An empty entry is sound wherever it stands. *)
LEMMA NoPendingSound ==
  ASSUME NEW p, NEW s \in State, p.pending[s] = NoPending
  PROVE  EntrySound(p, s)
BY NoPendingType, ActionAssumption DEF EntrySound, Within, NoPending, Scope

(* Dropping a set of entries together with their open interactions, while  *)
(* the leaves of those that stay remain active. *)
LEMMA DropSound ==
  ASSUME NEW p, Typed(p), NEW n \in Nat, Sound(p, n),
         NEW gone \in SUBSET State, NEW r, r \in BranchProjection,
         r.pending = [s \in State |-> IF s \in gone THEN NoPending ELSE p.pending[s]],
         r.gates = {g \in p.gates : \A s \in gone : g.seq # p.pending[s].gate},
         r.visits = p.visits, r.failed = p.failed,
         \A s \in State \ gone : p.pending[s].phase # "none" => s \in r.leaves
  PROVE  Sound(r, n)
<1>1. ASSUME NEW s \in State
      PROVE  EntrySound(r, s) /\ r.pending[s].gate <= n
  <2>1. CASE s \in gone
    BY <2>1, NoPendingSound, NoPendingType
  <2>2. CASE s \notin gone
    BY <2>2 DEF Sound, EntrySound
  <2> QED
    BY <2>1, <2>2
<1>2. \A s \in State : r.pending[s].gate = IF s \in gone THEN 0 ELSE p.pending[s].gate
  BY NoPendingType
<1>3. Opened(r) = Opened(p) \ gone
  BY <1>2 DEF Opened
<1>4. \A s, t \in Opened(r) : r.pending[s].gate = r.pending[t].gate => s = t
  BY <1>2, <1>3 DEF Sound, Opened
<1>5. ASSUME ~r.failed
      PROVE  r.gates = {[seq |-> r.pending[s].gate, at |-> s] : s \in Opened(r)}
  <2>1. p.gates = {[seq |-> p.pending[s].gate, at |-> s] : s \in Opened(p)}
    BY <1>5 DEF Sound
  <2>2. ASSUME NEW s \in Opened(p)
        PROVE  (\A t \in gone : p.pending[s].gate # p.pending[t].gate) <=> s \notin gone
    BY <2>2 DEF Sound, Opened
  <2> DEFINE gate(s) == [seq |-> p.pending[s].gate, at |-> s]
  <2>3. r.gates = {gate(s) : s \in Opened(p) \ gone}
    <3>1. \A s \in Opened(p) : gate(s).seq = p.pending[s].gate
      OBVIOUS
    <3> HIDE DEF gate
    <3>2. p.gates = {gate(s) : s \in Opened(p)}
      BY <2>1 DEF gate
    <3> QED
      BY <2>2, <3>1, <3>2
  <2> DEFINE now(s) == [seq |-> r.pending[s].gate, at |-> s]
  <2>4. \A s \in Opened(r) : gate(s) = now(s)
    BY <1>2, <1>3 DEF Opened
  <2>5. {gate(s) : s \in Opened(r)} = {now(s) : s \in Opened(r)}
    <3> HIDE DEF gate, now
    <3> QED
      BY <2>4
  <2> QED
    BY <1>3, <2>3, <2>5
<1> QED
  BY <1>1, <1>4, <1>5 DEF Sound

(* Removing a pending action. *)
LEMMA RemovePendingSound ==
  ASSUME NEW p, Typed(p), NEW n \in Nat, Sound(p, n), NEW s \in State
  PROVE  Sound(RemovePending(p, s), n)
<1> DEFINE r == RemovePending(p, s)
           gone == {s}
<1>1. p \in BranchProjection /\ r \in BranchProjection
  BY RemovePendingType DEF Typed
<1>2. r.pending = [t \in State |-> IF t \in gone THEN NoPending ELSE p.pending[t]]
  <2>1. p.pending \in [State -> Pending]
    BY <1>1 DEF BranchProjection
  <2>2. r.pending = [p.pending EXCEPT ![s] = NoPending]
    BY <1>1, RemovePendingType
  <2> HIDE DEF r
  <2> QED
    BY <2>1, <2>2
<1>3. /\ r.gates = {g \in p.gates : \A t \in gone : g.seq # p.pending[t].gate}
      /\ r.visits = p.visits /\ r.failed = p.failed /\ r.leaves = p.leaves
  BY <1>1 DEF RemovePending, BranchProjection
<1>4. \A t \in State \ gone : p.pending[t].phase # "none" => t \in r.leaves
  BY <1>3 DEF Sound, EntrySound
<1>5. gone \in SUBSET State
  OBVIOUS
<1> HIDE DEF r, gone
<1>6. Sound(r, n)
  BY <1>1, <1>2, <1>3, <1>4, <1>5, DropSound
<1> QED
  BY <1>6 DEF r

(* Exiting a scope and entering a target, joins included. *)
LEMMA MoveSound ==
  ASSUME NEW p, Typed(p), NEW n \in Nat, Sound(p, n), NEW scope, NEW target \in Node
  PROVE  Sound(Move(p, scope, target), n)
<1> DEFINE next == ExitAndEnter(p.leaves, scope, target)
           gone == {s \in State \ next : p.pending[s].phase # "none"}
           r == Move(p, scope, target)
<1>1. p \in BranchProjection /\ r \in BranchProjection
  BY MoveType DEF Typed
<1>2. next \in SUBSET Node
  BY <1>1, EnterType DEF ExitAndEnter, BranchProjection
<1>3. next \cap State \subseteq CompleteParallels[next]
  BY <1>2, JoinsTakeFinals DEF State
<1>4. /\ r.leaves = CompleteParallels[next]
      /\ r.pending = [s \in State |-> IF s \in gone THEN NoPending ELSE p.pending[s]]
      /\ r.gates = {g \in p.gates : \A s \in gone : g.seq # p.pending[s].gate}
      /\ r.visits = p.visits /\ r.failed = p.failed
  BY <1>1 DEF Move, BranchProjection
<1>5. \A s \in State \ gone : p.pending[s].phase # "none" => s \in r.leaves
  BY <1>3, <1>4
<1>6. gone \in SUBSET State
  OBVIOUS
<1> HIDE DEF r, gone, next
<1>7. Sound(r, n)
  BY <1>1, <1>4, <1>5, <1>6, DropSound, ZenonT(40)
<1> QED
  BY <1>7 DEF r

(* A transition goes where a handler leads. *)
LEMMA TransitionSound ==
  ASSUME NEW p, Typed(p), NEW n \in Nat, Sound(p, n), NEW s \in State,
         NEW e \in AllowedEvents(s)
  PROVE  Sound(Transition(p, s, e), n)
BY HandlerTarget, MoveSound DEF Transition

(* Another phase of the same visit, without an interaction. *)
LEMMA ReplaceSound ==
  ASSUME NEW p, Typed(p), NEW n \in Nat, Sound(p, n), NEW s \in State,
         Action[s] # "user", p.pending[s].phase # "none",
         NEW q \in Pending, q.phase # "none", q.visit = p.pending[s].visit,
         q.gate = 0, Within(q)
  PROVE  Sound([p EXCEPT !.pending[s] = q], n)
<1> DEFINE r == [p EXCEPT !.pending[s] = q]
<1>1. /\ p.pending \in [State -> Pending]
      /\ r.pending = [p.pending EXCEPT ![s] = q]
      /\ r.leaves = p.leaves /\ r.visits = p.visits
      /\ r.gates = p.gates /\ r.failed = p.failed
  BY DEF Typed, BranchProjection
<1>2. r.pending[s] = q /\ \A t \in State \ {s} : r.pending[t] = p.pending[t]
  BY <1>1
<1>3. p.pending[s].gate = 0
  BY DEF Sound, EntrySound
<1> HIDE DEF r
<1>4. \A t \in State : r.pending[t].gate = p.pending[t].gate
  BY <1>2, <1>3
<1>5. Opened(r) = Opened(p)
  BY <1>4 DEF Opened
<1>6. \A t \in State : EntrySound(r, t)
  BY <1>1, <1>2 DEF Sound, EntrySound
<1>7. {[seq |-> r.pending[t].gate, at |-> t] : t \in Opened(r)}
        = {[seq |-> p.pending[t].gate, at |-> t] : t \in Opened(p)}
  BY <1>4, <1>5 DEF Opened
<1>8. \A t, v \in Opened(r) : r.pending[t].gate = r.pending[v].gate => t = v
  BY <1>4, <1>5 DEF Sound, Opened
<1>9. Sound(r, n)
  BY <1>1, <1>4, <1>6, <1>7, <1>8 DEF Sound
<1> QED
  BY <1>9 DEF r

(* A completion of running work. *)
LEMMA CompleteSound ==
  ASSUME NEW p, Typed(p), NEW n \in Nat, Sound(p, n), NEW s \in State,
         NEW e \in AllowedEvents(s), NEW base \in Nat, p.pending[s].phase = "running"
  PROVE  Sound(Complete(p, s, e, base), n)
<1>1. CASE s \in Guarded
  <2> DEFINE q == Claimed(p.pending[s], e, base)
  <2>1. Action[s] # "user"
    BY <1>1, ActionAssumption
  <2>2. p.pending[s] \in Pending /\ e \in Event
    BY PendingOf DEF AllowedEvents
  <2>3. q \in Pending /\ q.phase = "validating"
    BY <2>2, ClaimedType
  <2>4. q.visit = p.pending[s].visit /\ q.gate = 0 /\ Within(q)
    BY DEF Claimed, Sound, EntrySound, Within
  <2>5. Complete(p, s, e, base) = [p EXCEPT !.pending[s] = q]
    BY <1>1 DEF Complete
  <2> HIDE DEF q
  <2> QED
    BY <2>1, <2>3, <2>4, <2>5, ReplaceSound
<1>2. CASE s \notin Guarded
  <2>1. Typed(RemovePending(p, s)) /\ Sound(RemovePending(p, s), n)
    BY RemovePendingTyped, RemovePendingSound
  <2> QED
    BY <1>2, <2>1, TransitionSound DEF Complete
<1> QED
  BY <1>1, <1>2

(* A retry within the policy. *)
LEMMA RetrySound ==
  ASSUME NEW p, Typed(p), NEW n \in Nat, Sound(p, n), NEW u \in RetryUnit,
         RetryFits(p, u), NEW base \in Nat
  PROVE  Sound(Retry(p, u, base), n)
<1> DEFINE old == p.pending[u.at]
           q == Retried(old, u, base)
<1>1. /\ u.at \in State /\ u.scope \in Scope /\ u.mode \in {"nudge", "restart"}
      /\ u.nudge \in Nat /\ u.restart \in Nat
  BY RetryUnitType
<1>2. old \in Pending /\ Within(old)
  BY <1>1, PendingOf DEF Sound, EntrySound
<1>3. old.phase # "none" /\ Action[u.at] # "user"
  BY DEF RetryFits
<1>4. q \in Pending /\ q.phase = "running"
  BY <1>2, RetriedType
<1>5. q.visit = old.visit /\ q.gate = 0
  BY DEF Retried
<1>6. u.nudge <= Nudge[u.scope] /\ u.restart <= Restart[u.scope]
  <2>1. old.nudges[u.scope] \in Nat /\ old.restarts[u.scope] \in Nat
    BY <1>1, <1>2 DEF Pending
  <2>2. Nudge[u.scope] \in Nat /\ Restart[u.scope] \in Nat
    BY <1>1, ActionAssumption
  <2>3. old.restarts[u.scope] <= Restart[u.scope]
    BY <1>1, <1>2 DEF Within
  <2> HIDE DEF old
  <2>4. CASE u.mode = "nudge"
    <3>1. old.nudges[u.scope] < Nudge[u.scope] /\ u.nudge = old.nudges[u.scope] + 1
          /\ u.restart = old.restarts[u.scope]
      BY <2>4 DEF RetryFits, old
    <3> QED
      BY <2>1, <2>2, <2>3, <3>1
  <2>5. CASE u.mode = "restart"
    <3>1. old.restarts[u.scope] < Restart[u.scope] /\ u.nudge = 0
          /\ u.restart = old.restarts[u.scope] + 1
      BY <2>5 DEF RetryFits, old
    <3> QED
      BY <2>1, <2>2, <3>1
  <2> QED
    BY <1>1, <2>4, <2>5
<1>7. Within(q)
  <2> SUFFICES ASSUME NEW c \in Scope
               PROVE  q.nudges[c] <= Nudge[c] /\ q.restarts[c] <= Restart[c]
    BY DEF Within
  <2>1. old.nudges[c] <= Nudge[c] /\ old.restarts[c] <= Restart[c] /\ 0 <= Nudge[c]
    BY <1>2, ActionAssumption DEF Within
  <2>2. q.nudges[c] = NudgesAfter(old, u)[c] /\ q.restarts[c] = RestartsAfter(old, u)[c]
    BY DEF Retried
  <2>3. \/ q.nudges[c] = u.nudge /\ c = u.scope
        \/ q.nudges[c] \in {0, old.nudges[c]}
    BY <2>2 DEF NudgesAfter
  <2>4. \/ q.restarts[c] = u.restart /\ c = u.scope
        \/ q.restarts[c] = old.restarts[c]
    BY <2>2 DEF RestartsAfter
  <2> QED
    BY <1>6, <2>1, <2>3, <2>4
<1>8. Retry(p, u, base) = [p EXCEPT !.pending[u.at] = q]
  BY DEF Retry
<1> HIDE DEF q
<1> QED
  BY <1>1, <1>3, <1>4, <1>5, <1>7, <1>8, ReplaceSound

(* A recovery decision that fits; a failure closes every interaction. *)
LEMMA DecideSound ==
  ASSUME NEW p, Typed(p), NEW n \in Nat, Sound(p, n),
         NEW u \in RetryUnit \cup FailureUnit, DecisionFits(p, u), NEW base \in Nat
  PROVE  Sound(Decide(p, u, base), n)
<1>1. CASE u.type = "retry"
  BY <1>1, RetrySound DEF Decide, DecisionFits, FailureUnit
<1>2. CASE u.type # "retry"
  <2>1. /\ Fail(p).failed = TRUE /\ Fail(p).pending = p.pending
        /\ Fail(p).leaves = p.leaves /\ Fail(p).visits = p.visits
    BY DEF Fail, Typed, BranchProjection
  <2>2. Sound(Fail(p), n)
    BY <2>1 DEF Sound, EntrySound, Opened
  <2> QED
    BY <1>2, <2>2 DEF Decide
<1> QED
  BY <1>1, <1>2

(* A group of invocations, none of them of a state already at work. *)
LEMMA InvokeSound ==
  ASSUME NEW p, Typed(p), NEW n \in Nat, Sound(p, n), NEW u \in Unit,
         u.type = "invoke", ~Rejects(p, u), NEW base \in Nat
  PROVE  Sound(Invoke(p, u, base), n)
<1> DEFINE started == u.group \cap p.leaves
           q(s) == Invoked(p.visits[s] + 1, InvokeSeq(u, base, s))
           r == Invoke(p, u, base)
<1>1. p \in BranchProjection /\ u.group \subseteq State
  BY UnitType DEF Typed
<1>2. /\ r.pending = [s \in State |-> IF s \in started THEN q(s) ELSE p.pending[s]]
      /\ r.visits = [s \in State |-> IF s \in started THEN p.visits[s] + 1 ELSE p.visits[s]]
      /\ r.leaves = p.leaves /\ r.gates = p.gates /\ r.failed = p.failed
  BY <1>1 DEF Invoke, BranchProjection
<1>3. \A s \in started : p.pending[s] = NoPending
  BY <1>1 DEF Rejects, Sound, EntrySound
<1>4. ASSUME NEW s \in State
      PROVE  /\ q(s).phase = "running" /\ q(s).visit = p.visits[s] + 1
             /\ q(s).gate = 0 /\ Within(q(s))
  BY ActionAssumption DEF Invoked, Within, NoPending, Scope
<1> HIDE DEF r, q
<1>5. \A s \in State : EntrySound(r, s)
  <2> SUFFICES ASSUME NEW s \in State PROVE EntrySound(r, s)
    OBVIOUS
  <2>1. CASE s \in started
    BY <1>2, <1>4, <2>1 DEF EntrySound
  <2>2. CASE s \notin started
    BY <1>2, <2>2 DEF Sound, EntrySound
  <2> QED
    BY <2>1, <2>2
<1>6. \A s \in State : r.pending[s].gate = p.pending[s].gate
  BY <1>2, <1>3, <1>4, NoPendingType
<1>7. Opened(r) = Opened(p)
  BY <1>6 DEF Opened
<1>8. {[seq |-> r.pending[t].gate, at |-> t] : t \in Opened(r)}
        = {[seq |-> p.pending[t].gate, at |-> t] : t \in Opened(p)}
  BY <1>6, <1>7 DEF Opened
<1>9. \A t, v \in Opened(r) : r.pending[t].gate = r.pending[v].gate => t = v
  BY <1>6, <1>7 DEF Sound, Opened
<1>10. Sound(r, n)
  BY <1>2, <1>5, <1>6, <1>8, <1>9 DEF Sound
<1> QED
  BY <1>10 DEF r

(* An interaction opens, named by a record later than all before. *)
LEMMA OpenSound ==
  ASSUME NEW p, Typed(p), NEW n \in Nat, Sound(p, n), NEW u \in Unit,
         u.type = "opened", ~Rejects(p, u), NEW base \in Nat, base > n
  PROVE  Sound(Open(p, u.at, base), base)
<1> DEFINE s == u.at
           r == Open(p, s, base)
<1>1. /\ p \in BranchProjection /\ s \in State /\ p.pending[s] \in Pending
      /\ p.pending[s].phase = "running" /\ p.pending[s].gate = 0 /\ Action[s] = "user"
  BY UnitType, PendingOf DEF Typed, Rejects
<1>2. /\ p.pending \in [State -> Pending]
      /\ r.pending = [p.pending EXCEPT ![s].gate = base]
      /\ r.gates = p.gates \cup {[seq |-> base, at |-> s]}
      /\ r.leaves = p.leaves /\ r.visits = p.visits /\ r.failed = p.failed
  BY <1>1 DEF Open, BranchProjection
<1>3. /\ r.pending[s] = [p.pending[s] EXCEPT !.gate = base]
      /\ \A t \in State \ {s} : r.pending[t] = p.pending[t]
  BY <1>1, <1>2
<1>4. /\ r.pending[s].phase = "running" /\ r.pending[s].visit = p.pending[s].visit
      /\ r.pending[s].gate = base
      /\ r.pending[s].nudges = p.pending[s].nudges
      /\ r.pending[s].restarts = p.pending[s].restarts
  BY <1>1, <1>3 DEF Pending
<1> HIDE DEF r, s
<1>5. \A t \in State : EntrySound(r, t)
  <2> SUFFICES ASSUME NEW t \in State PROVE EntrySound(r, t)
    OBVIOUS
  <2>1. CASE t = s
    BY <1>1, <1>2, <1>4, <2>1 DEF Sound, EntrySound, Within
  <2>2. CASE t # s
    BY <1>2, <1>3, <2>2 DEF Sound, EntrySound
  <2> QED
    BY <2>1, <2>2
<1>6. ASSUME NEW t \in State
      PROVE  p.pending[t].gate \in Nat /\ p.pending[t].gate <= n
  <2>1. p.pending[t] \in Pending
    BY <1>2
  <2> QED
    BY <2>1 DEF Sound, Pending
<1>7. ASSUME NEW t \in State
      PROVE  r.pending[t].gate <= base
  <2>1. CASE t = s
    BY <1>4, <2>1
  <2>2. CASE t # s
    BY <1>3, <1>6, <2>2
  <2> QED
    BY <2>1, <2>2
<1>8. Opened(r) = Opened(p) \cup {s}
  <2>1. r.pending[s].gate # 0
    BY <1>4
  <2>2. \A t \in State : t # s => r.pending[t].gate = p.pending[t].gate
    BY <1>3
  <2> QED
    BY <1>1, <2>1, <2>2 DEF Opened
<1>9. \A t, v \in Opened(r) : r.pending[t].gate = r.pending[v].gate => t = v
  <2>1. s \notin Opened(p)
    BY <1>1 DEF Opened
  <2>2. \A t \in Opened(p) : t \in State /\ t # s /\ r.pending[t].gate = p.pending[t].gate
    BY <1>3, <2>1 DEF Opened
  <2>3. \A t \in Opened(p) : r.pending[t].gate # r.pending[s].gate
    BY <1>4, <1>6, <2>2
  <2> QED
    BY <1>8, <2>2, <2>3 DEF Sound
<1>10. ASSUME ~r.failed
       PROVE  r.gates = {[seq |-> r.pending[t].gate, at |-> t] : t \in Opened(r)}
  <2> DEFINE before(t) == [seq |-> p.pending[t].gate, at |-> t]
             now(t) == [seq |-> r.pending[t].gate, at |-> t]
  <2>1. \A t \in Opened(p) : before(t) = now(t)
    BY <1>1, <1>3 DEF Opened
  <2>2. p.gates = {before(t) : t \in Opened(p)}
    BY <1>2, <1>10 DEF Sound
  <2>3. now(s) = [seq |-> base, at |-> s]
    BY <1>4
  <2> HIDE DEF before, now
  <2>4. r.gates = {now(t) : t \in Opened(p) \cup {s}}
    BY <1>2, <2>1, <2>2, <2>3
  <2> QED
    BY <1>8, <2>4 DEF now
<1>11. Sound(r, base)
  BY <1>5, <1>7, <1>9, <1>10 DEF Sound
<1> QED
  BY <1>11 DEF r, s

(* A rejection renames the phase it rejects. *)
LEMMA ResequenceSound ==
  ASSUME NEW p, Typed(p), NEW n \in Nat, Sound(p, n), NEW s \in State,
         p.pending[s].phase = "validating", NEW base \in Nat
  PROVE  /\ Sound([p EXCEPT !.pending[s].seq = base], n)
         /\ \A u \in RetryUnit \cup FailureUnit :
              DecisionFits(p, u) => DecisionFits([p EXCEPT !.pending[s].seq = base], u)
<1> DEFINE q == [p.pending[s] EXCEPT !.seq = base]
           r == [p EXCEPT !.pending[s] = q]
<1>1. p.pending[s] \in Pending /\ p.pending \in [State -> Pending] /\ p \in BranchProjection
  BY PendingOf DEF Typed, BranchProjection
<1>2. Action[s] # "user"
  BY ActionAssumption DEF Typed, ClaimsFit
<1>3. /\ q \in Pending /\ q.phase = p.pending[s].phase /\ q.visit = p.pending[s].visit
      /\ q.gate = p.pending[s].gate /\ q.session = p.pending[s].session
      /\ q.nudges = p.pending[s].nudges /\ q.restarts = p.pending[s].restarts
  BY <1>1 DEF Pending
<1>4. q.gate = 0 /\ Within(q)
  BY <1>2, <1>3 DEF Sound, EntrySound, Within
<1>5. [p EXCEPT !.pending[s].seq = base] = r
  OBVIOUS
<1>6. Sound(r, n)
  <2> HIDE DEF q
  <2> QED
    BY <1>2, <1>3, <1>4, ReplaceSound
<1>7. ASSUME NEW u \in RetryUnit \cup FailureUnit, DecisionFits(p, u)
      PROVE  DecisionFits(r, u)
  <2>1. u.at \in State /\ r.failed = p.failed
    BY <1>1 DEF RetryUnit, FailureUnit, BranchProjection
  <2>2. /\ r.pending[u.at].phase = p.pending[u.at].phase
        /\ r.pending[u.at].session = p.pending[u.at].session
        /\ r.pending[u.at].nudges = p.pending[u.at].nudges
        /\ r.pending[u.at].restarts = p.pending[u.at].restarts
    <3> HIDE DEF q
    <3>1. r.pending = [p.pending EXCEPT ![s] = q]
      BY <1>1 DEF BranchProjection
    <3> HIDE DEF r
    <3> QED
      BY <1>1, <1>3, <2>1, <3>1
  <2> HIDE DEF r
  <2> QED
    BY <1>7, <2>1, <2>2 DEF DecisionFits, RetryFits
<1> QED
  BY <1>5, <1>6, <1>7

(* A sound log stays sound under a larger bound on its numbers. *)
LEMMA SoundWeaken ==
  ASSUME NEW p, Typed(p), NEW m \in Nat, NEW n \in Nat, m <= n, Sound(p, m)
  PROVE  Sound(p, n)
<1>1. \A s \in State : p.pending[s].gate \in Nat
  BY DEF Typed, BranchProjection, Pending
<1> QED
  BY <1>1 DEF Sound

(* A unit that is not refused keeps the projection sound. *)
LEMMA EffectSound ==
  ASSUME NEW p, Typed(p), NEW n \in Nat, Sound(p, n), NEW u \in Unit, Sensible(u),
         ~Rejects(p, u), ~Skips(p, u) \/ u.type = "invoke",
         NEW base \in Nat, base > n
  PROVE  Sound(Effect(p, u, base), IF u.type = "opened" THEN base ELSE n)
<1>1. CASE u.type = "invoke"
  BY <1>1, InvokeSound DEF Effect
<1>2. CASE u.type \in {"complete", "resolved"}
  <2>1. u.at \in State /\ u.event \in AllowedEvents(u.at) /\ p.pending[u.at].phase = "running"
    BY <1>2, UnitType DEF Sensible, Rejects, Skips
  <2> QED
    BY <1>2, <2>1, CompleteSound DEF Effect
<1>3. CASE u.type = "accepted"
  <2>1. u.at \in State /\ u.event \in AllowedEvents(u.at)
    BY <1>3, UnitType DEF Rejects, Typed, ClaimsFit
  <2>2. Typed(RemovePending(p, u.at)) /\ Sound(RemovePending(p, u.at), n)
    BY <2>1, RemovePendingTyped, RemovePendingSound
  <2> QED
    BY <1>3, <2>1, <2>2, TransitionSound DEF Effect
<1>4. CASE u.type = "rejected"
  <2> DEFINE r == [p EXCEPT !.pending[u.at].seq = base]
  <2>1. /\ u.at \in State /\ u.decision \in RetryUnit \cup FailureUnit /\ base + 1 \in Nat
        /\ p.pending[u.at].phase = "validating" /\ DecisionFits(p, u.decision)
    BY <1>4, UnitType DEF Rejects
  <2>2. Typed(r) /\ Sound(r, n) /\ DecisionFits(r, u.decision)
    BY <2>1, ResequenceTyped, ResequenceSound
  <2>3. Effect(p, u, base) = Decide(r, u.decision, base + 1)
    BY <1>4 DEF Effect
  <2> HIDE DEF r
  <2> QED
    BY <1>4, <2>1, <2>2, <2>3, DecideSound
<1>5. CASE u.type = "timer_fired"
  <2>1. u.at \in State /\ After[u.at] \in Node
    BY <1>5, UnitType, ChartAssumption DEF Sensible
  <2>2. Typed(RemovePending(p, u.at)) /\ Sound(RemovePending(p, u.at), n)
    BY <2>1, RemovePendingTyped, RemovePendingSound
  <2> QED
    BY <1>5, <2>1, <2>2, MoveSound DEF Effect
<1>6. CASE u.type = "opened"
  BY <1>6, OpenSound DEF Effect
<1>7. CASE u.type \in {"retry", "failure_intent"}
  <2>1. u \in RetryUnit \cup FailureUnit /\ DecisionFits(p, u)
    BY <1>7, UnitType DEF Rejects
  <2> QED
    BY <1>7, <2>1, DecideSound DEF Effect
<1> QED
  BY <1>1, <1>2, <1>3, <1>4, <1>5, <1>6, <1>7, UnitType

(* Every unit that projectBranch accepts keeps a log sound. *)
LEMMA ProjectBranchSound ==
  ASSUME NEW p, Typed(p), Sound(p, p.seq), NEW u \in Unit, Sensible(u), ~Rejects(p, u)
  PROVE  LET r == ProjectBranch(p, u, p.seq + 1) IN Sound(r, r.seq)
<1> DEFINE base == p.seq + 1
           a == Apply(p, u, base)
           n == IF u.type = "opened" THEN base ELSE p.seq
           r == ProjectBranch(p, u, base)
<1>1. p.seq \in Nat /\ base \in Nat /\ base > p.seq /\ n \in Nat
  BY DEF Typed, BranchProjection
<1>2. Typed(a)
  BY <1>1, ApplyTyped
<1>3. Sound(a, n)
  <2>1. CASE Skips(p, u) /\ u.type # "invoke"
    BY <1>1, <2>1 DEF Apply, Skips
  <2>2. CASE ~Skips(p, u) \/ u.type = "invoke"
    BY <1>1, <2>2, EffectSound DEF Apply
  <2> QED
    BY <2>1, <2>2
<1>4. r.seq = Latest(p.seq, base + Size(u) - 1)
  BY <1>2 DEF ProjectBranch, Typed, BranchProjection
<1>5. n <= r.seq /\ r.seq \in Nat
  <2>1. u.type = "opened" => Size(u) = 1
    BY DEF Size
  <2> QED
    BY <1>1, <1>4, <2>1, SizeType DEF Latest
<1>6. Sound(a, r.seq)
  <2> HIDE DEF a, n, r
  <2> QED
    BY <1>1, <1>2, <1>3, <1>5, SoundWeaken
<1>7. /\ r.pending = a.pending /\ r.leaves = a.leaves /\ r.visits = a.visits
      /\ r.gates = a.gates /\ r.failed = a.failed
  BY <1>2 DEF ProjectBranch, Typed, BranchProjection
<1> HIDE DEF a, r
<1>8. Sound(r, r.seq)
  BY <1>6, <1>7 DEF Sound, EntrySound, Opened
<1> QED
  BY <1>8 DEF r

(* The log of a fresh branch is sound. *)
LEMMA EmptySound == Sound(EmptyProjection, 0)
<1>1. \A s \in State : EmptyProjection.pending[s] = NoPending
  BY DEF EmptyProjection
<1>2. Opened(EmptyProjection) = {} /\ EmptyProjection.gates = {}
  BY <1>1, NoPendingType DEF Opened, EmptyProjection
<1> QED
  BY <1>1, <1>2, NoPendingType, NoPendingSound DEF Sound

-----------------------------------------------------------------------------
(* The log changes in no other way than by a unit that fits it; a branch   *)
(* that has failed takes no response.                                      *)
Appends(u) ==
  /\ Sensible(u)
  /\ u.type = "resolved" => ~durable.failed
  /\ ~Rejects(durable, u)
  /\ durable' = ProjectBranch(durable, u, durable.seq + 1)

(* A commit of the loop appends a unit the log accepts, or nothing. *)
LEMMA CommitAppends ==
  ASSUME NEW u, Appendable(u), NEW rest, Commit(u, rest)
  PROVE  durable' = durable \/ (u \in Unit /\ Appends(u))
BY DEF Commit, Appends, Appendable, Throw, log

(* A step appends one accepted unit to the log or leaves it alone. *)
LEMMA StepAppends ==
  ASSUME TypeInv, [Next]_vars
  PROVE  durable' = durable \/ \E u \in Unit : Appends(u)
<1>1. CASE Machine
  BY <1>1 DEF Machine, StepStart, StepWork, StepTimer, StepVerdict, StepAck, Output,
              Throw, log
<1>2. CASE Writer
  <2>1. batch \in Batch /\ (batch.unit # NoUnit => Appendable(batch.unit))
    BY DEF TypeInv, RuntimeInv, Batch, Appendable
  <2>2. CASE CommitResponse
    BY <2>1, <2>2, CommitAppends DEF CommitResponse
  <2>3. CASE CommitInvokes
    <3>1. Appendable([type |-> "invoke", group |-> batch.invokes])
      BY <2>1 DEF Batch, Appendable, Unit, Sensible
    <3> QED
      BY <2>3, <3>1, CommitAppends DEF CommitInvokes
  <2>4. CASE CommitOpen
    <3>1. PICK id \in batch.opens :
            Commit([type |-> "opened", at |-> id.at, phase |-> id.seq],
                   [batch EXCEPT !.opens = @ \ {id}])
      BY <2>4 DEF CommitOpen
    <3>2. Appendable([type |-> "opened", at |-> id.at, phase |-> id.seq])
      BY <2>1 DEF Batch, Id, Appendable, Unit, Sensible
    <3> QED
      BY <3>1, <3>2, CommitAppends
  <2> QED
    BY <1>2, <2>2, <2>3, <2>4 DEF Writer
<1>3. CASE Work
  BY <1>3 DEF Work, EndDelay, Begin, Answer, Verdict, log
<1>4. CASE Clock
  BY <1>4 DEF Clock, TimerFires, log
<1>5. CASE User
  <2>1. PICK g \in durable.gates, e \in Event : Respond(g, e)
    BY <1>5 DEF User
  <2> DEFINE unit == [type |-> "resolved", at |-> g.at, gate |-> g.seq, event |-> e]
  <2>2. unit \in Unit
    BY DEF TypeInv, Typed, BranchProjection, Unit
  <2>3. Sensible(unit)
    BY <2>1 DEF Respond, Rejects, Sensible
  <2>4. Appends(unit)
    BY <2>1, <2>3 DEF Respond, Appends
  <2> QED
    BY <2>2, <2>4
<1>6. CASE BeginDrain \/ Drained \/ Crash \/ Restarted
  BY <1>6 DEF BeginDrain, Drained, Crash, Restarted, log
<1>7. CASE Finished \/ UNCHANGED vars
  BY <1>7 DEF Finished, vars
<1> QED
  BY <1>1, <1>2, <1>3, <1>4, <1>5, <1>6, <1>7 DEF Next

(* The inductive invariant behind the theorems below. *)
LogInv == TypeInv /\ Sound(durable, durable.seq)

(* It holds in the initial states, *)
LEMMA InitLogInv == Init => LogInv
<1> SUFFICES ASSUME Init PROVE LogInv
  OBVIOUS
<1>1. durable = EmptyProjection /\ EmptyProjection.seq = 0
  BY DEF Init, EmptyProjection
<1> QED
  BY <1>1, InitTypeInv, EmptySound DEF LogInv

(* every step preserves it, *)
LEMMA NextLogInv == LogInv /\ [Next]_vars => LogInv'
<1> SUFFICES ASSUME LogInv, [Next]_vars PROVE LogInv'
  OBVIOUS
<1>1. TypeInv'
  BY NextTypeInv DEF LogInv
<1>2. Sound(durable', durable'.seq)
  <2>1. CASE durable' = durable
    BY <2>1 DEF LogInv
  <2>2. ASSUME NEW u \in Unit, Appends(u)
        PROVE  Sound(durable', durable'.seq)
    BY <2>2, ProjectBranchSound DEF LogInv, TypeInv, Appends
  <2> QED
    BY <2>1, <2>2, StepAppends DEF LogInv
<1> QED
  BY <1>1, <1>2 DEF LogInv

(* and so it holds throughout. *)
LEMMA SpecLogInv == Spec => []LogInv
BY InitLogInv, NextLogInv, PTL DEF Spec

(* No exit, join, deadline or late record leaves work behind: whatever the *)
(* log has pending is at an active leaf, in that leaf's latest visit       *)
(* (exitAndEnter, completeParallels, removePendingAction).                 *)
THEOREM SpecPendingIsActive == Spec => []PendingIsActive
<1>1. LogInv => PendingIsActive
  BY DEF LogInv, PendingIsActive, Sound, EntrySound, Working
<1> QED
  BY <1>1, SpecLogInv, PTL

(* Until the run fails, the interactions a host may answer are exactly the *)
(* opened ones of pending user actions.  That removing one by its record   *)
(* removes no other needs every open interaction to have a record of its   *)
(* own, which the invariant carries.                                       *)
THEOREM SpecGatesArePending == Spec => []GatesArePending
<1>1. LogInv => GatesArePending
  BY DEF LogInv, GatesArePending, Sound, Opened
<1> QED
  BY <1>1, SpecLogInv, PTL

-----------------------------------------------------------------------------
(* Is q a new phase of running work in the visit that old was of? *)
Again(old, q) == q.phase = "running" /\ q.visit = old.visit /\ q.seq # old.seq

(* What a retry d within its policy leaves of the counters of old. *)
Spent(old, q, d) ==
  /\ q.nudges = NudgesAfter(old, d)
  /\ q.restarts = RestartsAfter(old, d)

(* Dropping or keeping an entry is no new phase of it. *)
LEMMA KeptIsNotAgain ==
  ASSUME NEW old, NEW q \in {old, NoPending}
  PROVE  ~Again(old, q)
BY NoPendingType DEF Again

(* What a retry does to the entry of its action. *)
LEMMA RetriedEntry ==
  ASSUME NEW p, Typed(p), NEW d \in RetryUnit, NEW base \in Nat, NEW s \in State
  PROVE  Retry(p, d, base).pending[s]
           = IF d.at = s THEN Retried(p.pending[s], d, base) ELSE p.pending[s]
BY RetryUnitType DEF Retry, Typed, BranchProjection

(* Only a retry that fits starts a phase again within a visit. *)
LEMMA AgainIsRetry ==
  ASSUME NEW p, Typed(p), Sound(p, p.seq), NEW u \in Unit, Sensible(u), ~Rejects(p, u),
         ~Skips(p, u) \/ u.type = "invoke", NEW base \in Nat, NEW s \in State,
         Again(p.pending[s], Effect(p, u, base).pending[s])
  PROVE  \E d \in RetryUnit :
           /\ d.at = s /\ RetryFits(p, d)
           /\ Spent(p.pending[s], Effect(p, u, base).pending[s], d)
<1> DEFINE old == p.pending[s]
           r == Effect(p, u, base)
<1>1. p \in BranchProjection /\ p.pending \in [State -> Pending] /\ old \in Pending
      /\ p.visits \in [State -> Nat]
  BY DEF Typed, BranchProjection
<1>2. CASE u.type = "invoke"
  <2>1. CASE s \in u.group \cap p.leaves
    <3>1. old = NoPending
      BY <1>2, <2>1 DEF Rejects, Sound, EntrySound
    <3>2. old.visit = 0
      BY <3>1 DEF NoPending
    <3>3. r.pending[s].visit = p.visits[s] + 1
      BY <1>1, <1>2, <2>1 DEF Effect, Invoke, Invoked, BranchProjection
    <3> QED
      BY <1>1, <3>2, <3>3 DEF Again
  <2>2. CASE s \notin u.group \cap p.leaves
    <3>1. r.pending[s] = old
      BY <1>1, <1>2, <2>2 DEF Effect, Invoke, BranchProjection
    <3> QED
      BY <3>1, KeptIsNotAgain
  <2> QED
    BY <2>1, <2>2
<1>3. ASSUME NEW at \in State, NEW scope, NEW target \in Node
      PROVE  Move(RemovePending(p, at), scope, target).pending[s] \in {old, NoPending}
  <2> DEFINE v == RemovePending(p, at)
  <2>1. v \in BranchProjection /\ v.pending[s] \in {old, NoPending}
    BY <1>1, RemovePendingType
  <2> HIDE DEF v
  <2>2. Move(v, scope, target).pending[s] \in {v.pending[s], NoPending}
    BY <2>1, MoveType
  <2> QED
    BY <2>1, <2>2 DEF v
<1>4. ASSUME NEW at \in State, NEW e \in AllowedEvents(at)
      PROVE  Transition(RemovePending(p, at), at, e).pending[s] \in {old, NoPending}
  BY <1>3, HandlerTarget DEF Transition
<1>5. CASE u.type \in {"complete", "resolved"}
  <2>1. u.at \in State /\ u.event \in AllowedEvents(u.at)
    BY <1>5, UnitType DEF Sensible
  <2>2. CASE u.at \in Guarded
    <3>1. r.pending[s] = old \/ r.pending[s].phase = "validating"
      BY <1>1, <1>5, <2>1, <2>2 DEF Effect, Complete, Claimed, BranchProjection
    <3> QED
      BY <3>1, KeptIsNotAgain DEF Again
  <2>3. CASE u.at \notin Guarded
    <3>1. r.pending[s] \in {old, NoPending}
      BY <1>4, <1>5, <2>1, <2>3 DEF Effect, Complete
    <3> QED
      BY <3>1, KeptIsNotAgain
  <2> QED
    BY <2>2, <2>3
<1>6. CASE u.type = "accepted"
  <2>1. u.at \in State /\ u.event \in AllowedEvents(u.at)
    BY <1>6, UnitType DEF Rejects, Typed, ClaimsFit
  <2>2. r.pending[s] \in {old, NoPending}
    BY <1>4, <1>6, <2>1 DEF Effect
  <2> QED
    BY <2>2, KeptIsNotAgain
<1>7. CASE u.type = "timer_fired"
  <2>1. u.at \in State /\ After[u.at] \in Node
    BY <1>7, UnitType, ChartAssumption DEF Sensible
  <2>2. r.pending[s] \in {old, NoPending}
    BY <1>3, <1>7, <2>1 DEF Effect
  <2> QED
    BY <2>2, KeptIsNotAgain
<1>8. CASE u.type = "opened"
  <2>1. r.pending[s].seq = old.seq
    BY <1>1, <1>8, UnitType DEF Effect, Open, BranchProjection, Pending
  <2> QED
    BY <2>1 DEF Again
<1>9. CASE u.type \in {"retry", "failure_intent"}
  <2>1. u \in RetryUnit \cup FailureUnit /\ DecisionFits(p, u)
    BY <1>9, UnitType DEF Rejects
  <2>2. CASE u.type = "retry"
    <3>1. u \in RetryUnit /\ RetryFits(p, u) /\ r = Retry(p, u, base)
      BY <2>1, <2>2 DEF FailureUnit, DecisionFits, Effect, Decide
    <3>2. u.at = s
      BY <3>1, RetriedEntry, KeptIsNotAgain
    <3>3. r.pending[s] = Retried(old, u, base)
      BY <3>1, <3>2, RetriedEntry
    <3>4. Spent(old, r.pending[s], u)
      BY <3>3 DEF Retried, Spent
    <3> QED
      BY <3>1, <3>2, <3>4
  <2>3. CASE u.type = "failure_intent"
    <3>1. r.pending[s] = old
      BY <1>1, <2>3 DEF Effect, Decide, Fail, BranchProjection
    <3> QED
      BY <3>1, KeptIsNotAgain
  <2> QED
    BY <1>9, <2>2, <2>3
<1>10. CASE u.type = "rejected"
  <2> DEFINE v == [p EXCEPT !.pending[u.at].seq = base]
             d == u.decision
  <2>1. /\ u.at \in State /\ d \in RetryUnit \cup FailureUnit /\ base + 1 \in Nat
        /\ p.pending[u.at].phase = "validating" /\ DecisionFits(p, d)
    BY <1>10, UnitType DEF Rejects
  <2>2. Typed(v)
    BY <2>1, ResequenceTyped
  <2>3. /\ v.pending[s].nudges = old.nudges /\ v.pending[s].restarts = old.restarts
        /\ v.pending[s] = old \/ v.pending[s].phase # "running"
    BY <1>1, <2>1 DEF BranchProjection, Pending
  <2>4. r = Decide(v, d, base + 1)
    BY <1>10 DEF Effect
  <2> HIDE DEF v
  <2>5. CASE d.type = "retry"
    <3>1. d \in RetryUnit /\ RetryFits(p, d) /\ r = Retry(v, d, base + 1)
      BY <2>1, <2>4, <2>5 DEF FailureUnit, DecisionFits, Decide
    <3>2. r.pending[s] = IF d.at = s THEN Retried(v.pending[s], d, base + 1) ELSE v.pending[s]
      BY <2>1, <2>2, <3>1, RetriedEntry
    <3>3. d.at = s
      BY <2>3, <3>2, KeptIsNotAgain DEF Again
    <3>4. Spent(old, r.pending[s], d)
      BY <2>3, <3>2, <3>3 DEF Retried, Spent, NudgesAfter, RestartsAfter
    <3> QED
      BY <3>1, <3>3, <3>4
  <2>6. CASE d.type # "retry"
    <3>1. r.pending[s] = v.pending[s]
      BY <2>2, <2>4, <2>6 DEF Decide, Fail, Typed, BranchProjection
    <3> QED
      BY <2>3, <3>1, KeptIsNotAgain DEF Again
  <2> QED
    BY <2>5, <2>6
<1> QED
  BY <1>2, <1>5, <1>6, <1>7, <1>8, <1>9, <1>10, UnitType

(* A budget of rest restarts, each worth K, and left nudges falls. *)
LEMMA BudgetArithmetic ==
  ASSUME NEW K \in Nat \ {0}, NEW rest \in Nat, NEW left \in Nat,
         NEW rest2 \in Nat, NEW left2 \in Nat,
         \/ rest2 = rest /\ left2 + 1 = left
         \/ rest2 + 1 = rest /\ left2 + 1 = K
  PROVE  rest2 * K + left2 \in 0 .. (rest * K + left - 1)
<1>1. rest * K \in Nat /\ rest2 * K \in Nat
  OBVIOUS
<1>2. CASE rest2 = rest /\ left2 + 1 = left
  BY <1>1, <1>2
<1>3. CASE rest2 + 1 = rest /\ left2 + 1 = K
  <2>1. rest * K = rest2 * K + K
    BY <1>3
  <2> QED
    BY <1>1, <1>3, <2>1
<1> QED
  BY <1>2, <1>3

(* A retry that fits uses up budget. *)
LEMMA RetrySpends ==
  ASSUME NEW p, Typed(p), NEW r, Typed(r), NEW s \in State,
         Within(p.pending[s]), Within(r.pending[s]),
         NEW d \in RetryUnit, d.at = s, RetryFits(p, d),
         Spent(p.pending[s], r.pending[s], d)
  PROVE  Budget(r, s) \in 0 .. (Budget(p, s) - 1)
<1> DEFINE old == p.pending[s]
           new == r.pending[s]
           K == Nudge["general"] + Nudge["validation"] + 1
           rest(q) == (Restart["general"] - q.restarts["general"])
                        + (Restart["validation"] - q.restarts["validation"])
           left(q) == (Nudge["general"] - q.nudges["general"])
                        + (Nudge["validation"] - q.nudges["validation"])
<1>1. \A c \in Scope : Nudge[c] \in Nat /\ Restart[c] \in Nat
  BY ActionAssumption
<1>2. ASSUME NEW q \in Pending, Within(q)
      PROVE  rest(q) \in Nat /\ left(q) \in Nat
  <2>1. \A c \in Scope : /\ q.nudges[c] \in Nat /\ q.nudges[c] <= Nudge[c]
                         /\ q.restarts[c] \in Nat /\ q.restarts[c] <= Restart[c]
    BY <1>2 DEF Pending, Within
  <2> QED
    BY <1>1, <2>1 DEF Scope
<1>3. old \in Pending /\ new \in Pending
  BY PendingOf
<1>4. \A c \in Scope : /\ old.nudges[c] \in Nat /\ old.restarts[c] \in Nat
                       /\ new.nudges[c] = NudgesAfter(old, d)[c]
                       /\ new.restarts[c] = RestartsAfter(old, d)[c]
  BY <1>3 DEF Pending, Spent
<1>5. /\ d.scope \in Scope /\ d.mode \in {"nudge", "restart"}
      /\ d.nudge \in Nat /\ d.restart \in Nat
  BY RetryUnitType
<1>6. \/ rest(new) = rest(old) /\ left(new) + 1 = left(old)
      \/ rest(new) + 1 = rest(old) /\ left(new) + 1 = K
  <2>1. CASE d.mode = "nudge"
    <3>1. d.nudge = old.nudges[d.scope] + 1 /\ d.restart = old.restarts[d.scope]
      BY <2>1 DEF RetryFits
    <3>2. \A c \in Scope : /\ new.restarts[c] = old.restarts[c]
                           /\ new.nudges[c] = old.nudges[c] + (IF c = d.scope THEN 1 ELSE 0)
      BY <1>4, <2>1, <3>1 DEF NudgesAfter, RestartsAfter
    <3> HIDE DEF old, new
    <3> QED
      BY <1>1, <1>4, <1>5, <3>2 DEF Scope
  <2>2. CASE d.mode = "restart"
    <3>1. d.restart = old.restarts[d.scope] + 1
      BY <2>2 DEF RetryFits
    <3>2. \A c \in Scope : /\ new.nudges[c] = 0
                           /\ new.restarts[c] = old.restarts[c] + (IF c = d.scope THEN 1 ELSE 0)
      BY <1>4, <2>2, <3>1 DEF NudgesAfter, RestartsAfter
    <3> HIDE DEF old, new
    <3> QED
      BY <1>1, <1>4, <1>5, <3>2 DEF Scope
  <2> QED
    BY <1>5, <2>1, <2>2
<1>7. K \in Nat \ {0}
  BY <1>1 DEF Scope
<1>8. Budget(p, s) = rest(old) * K + left(old) /\ Budget(r, s) = rest(new) * K + left(new)
  <2>1. \A c \in Scope : /\ new.nudges[c] \in Nat /\ new.restarts[c] \in Nat
    BY <1>3 DEF Pending
  <2> QED
    BY <1>1, <1>4, <2>1 DEF Budget, Scope
<1> HIDE DEF K, rest, left, old, new
<1>9. rest(old) \in Nat /\ left(old) \in Nat /\ rest(new) \in Nat /\ left(new) \in Nat
  BY <1>2, <1>3 DEF old, new
<1> QED
  BY <1>6, <1>7, <1>8, <1>9, BudgetArithmetic

(* A step in which an action is retried spends some of its budget. *)
LEMMA StepSpends ==
  ASSUME LogInv, LogInv', [Next]_vars, NEW s \in State, RetriedIn(s)
  PROVE  Budget(durable', s) \in 0 .. (Budget(durable, s) - 1)
<1> DEFINE old == durable.pending[s]
           base == durable.seq + 1
<1>1. Again(old, durable'.pending[s])
  BY DEF RetriedIn, Again
<1>2. durable' # durable
  BY <1>1 DEF Again
<1>3. PICK u \in Unit : Appends(u)
  BY <1>2, StepAppends DEF LogInv
<1>4. /\ Typed(durable) /\ Sound(durable, durable.seq) /\ base \in Nat
      /\ Typed(durable') /\ Sound(durable', durable'.seq)
  BY DEF LogInv, TypeInv, Typed, BranchProjection
<1>5. Typed(Apply(durable, u, base))
  BY <1>3, <1>4, ApplyTyped DEF Appends
<1>6. durable'.pending = Apply(durable, u, base).pending
  BY <1>3, <1>5 DEF Appends, ProjectBranch, Typed, BranchProjection
<1>7. ~Skips(durable, u) \/ u.type = "invoke"
  BY <1>1, <1>6 DEF Apply, Again
<1>8. durable'.pending = Effect(durable, u, base).pending
  BY <1>6, <1>7 DEF Apply
<1>9. PICK d \in RetryUnit : /\ d.at = s /\ RetryFits(durable, d)
                            /\ Spent(old, durable'.pending[s], d)
  BY <1>1, <1>3, <1>4, <1>7, <1>8, AgainIsRetry DEF Appends
<1>10. Within(old) /\ Within(durable'.pending[s])
  BY <1>4 DEF Sound, EntrySound
<1> QED
  BY <1>4, <1>9, <1>10, RetrySpends

(* No visit is retried forever: every new phase of a visit is a retry that *)
(* fits its policy, and each uses up some of the budget of the two scopes, *)
(* whatever restarts give back (applyActionRetry, validateRetryAttempt,    *)
(* recoveryCountersForScope).                                              *)
THEOREM SpecRecoveryRunsOut == Spec => RecoveryRunsOut
<1>1. LogInv /\ LogInv' /\ [Next]_vars
        => [\A s \in State : RetriedIn(s) =>
              Budget(durable', s) \in 0 .. (Budget(durable, s) - 1)]_vars
  BY StepSpends
<1> QED
  BY <1>1, SpecLogInv, PTL DEF Spec, RecoveryRunsOut

-----------------------------------------------------------------------------
(***************************************************************************)
(* The log is a run of the chart: each append keeps, begins, leaves or     *)
(* fails what ChartRun says may be kept, begun, left or failed.            *)
(***************************************************************************)

(* The four things a unit can do to the leaves, to the states at work and  *)
(* to the outcome.                                                         *)
Same(p, r) == r.leaves = p.leaves /\ Working(r) = Working(p) /\ r.failed = p.failed

StartsWork(p, r) ==
  /\ r.leaves = p.leaves /\ r.failed = p.failed
  /\ \E fresh \in SUBSET ((p.leaves \cap State) \ Working(p)) :
       Working(r) = Working(p) \cup fresh

Left(p, r, s, scope) ==
  /\ s \in p.leaves /\ scope \in Up[s]
  /\ \/ scope = s /\ After[s] # None
     \/ \E e \in Event : Declares(scope, e)
  /\ \A l \in p.leaves \ r.leaves : l \in Under(scope) \/ Kind[l] = "final"
  /\ Working(p) \ Under(scope) \subseteq Working(r)
  /\ Working(r) \subseteq (Working(p) \ {s}) \cap r.leaves
  /\ r.failed = p.failed

Failing(p, r) ==
  r.leaves = p.leaves /\ Working(r) = Working(p) /\ ~p.failed /\ r.failed

Moves(p, r) ==
  /\ Legal(r.leaves)
  /\ \/ Same(p, r) \/ StartsWork(p, r) \/ Failing(p, r)
     \/ \E s \in State : \E scope \in Node : Left(p, r, s, scope)

(* Phases alone say who is at work. *)
LEMMA SameWork ==
  ASSUME NEW p, NEW r, \A s \in State : p.pending[s].phase = "none" <=> r.pending[s].phase = "none"
  PROVE  Working(r) = Working(p)
BY DEF Working

(* A state's action over, the state or a container of it is left for a     *)
(* sibling.                                                                *)
LEMMA MoveMoves ==
  ASSUME NEW p, Typed(p), NEW n \in Nat, Sound(p, n), Legal(p.leaves),
         NEW s \in State, s \in p.leaves, NEW scope \in Up[s], NEW target \in Node,
         Beside(target, scope), Kind[scope] = "region" => target = scope,
         \/ scope = s /\ After[s] # None
         \/ \E e \in Event : Declares(scope, e)
  PROVE  Moves(p, Move(RemovePending(p, s), scope, target))
<1> DEFINE v == RemovePending(p, s)
           next == ExitAndEnter(v.leaves, scope, target)
           r == Move(v, scope, target)
<1>1. /\ p \in BranchProjection /\ v \in BranchProjection
      /\ v.leaves = p.leaves /\ v.failed = p.failed
      /\ v.pending = [p.pending EXCEPT ![s] = NoPending]
  <2>1. p \in BranchProjection
    BY DEF Typed
  <2> QED
    BY <2>1, RemovePendingType DEF RemovePending, BranchProjection
<1>2. p.leaves \in SUBSET Node /\ scope \in Node
  BY <1>1, StateFinite, UpType DEF BranchProjection
<1> HIDE DEF v
<1>3. /\ r.leaves = CompleteParallels[next] /\ r.failed = v.failed
      /\ r.pending = [t \in State |-> IF t \in State \ next /\ v.pending[t].phase # "none"
                                      THEN NoPending ELSE v.pending[t]]
  BY <1>1 DEF Move, BranchProjection
<1>4. next = (p.leaves \ Under(scope)) \cup EnterState[target] /\ next \in SUBSET Node
  BY <1>1, <1>2, EnterType DEF ExitAndEnter
<1>5. Legal(r.leaves)
  BY <1>1, <1>2, <1>3, ConfigurationsStayComplete
<1>6. r.leaves \in SUBSET Node /\ \A l \in next : Kind[l] # "final" => l \in r.leaves
  BY <1>3, <1>4, JoinsTakeFinals
<1> HIDE DEF r, next
<1>7. \A l \in p.leaves \ r.leaves : l \in Under(scope) \/ Kind[l] = "final"
  BY <1>4, <1>6
<1>8. p.pending \in [State -> Pending]
  BY <1>1 DEF BranchProjection
<1>9. v.pending[s] = NoPending /\ \A t \in State \ {s} : v.pending[t] = p.pending[t]
  BY <1>1, <1>8
<1>10. \A t \in State : r.pending[t].phase # "none" <=> t \in next /\ t # s /\ p.pending[t].phase # "none"
  BY <1>3, <1>9, NoPendingType
<1>11. s \in Under(scope)
  BY StateFinite DEF Under
<1>12. \A t \in Working(p) : t \in p.leaves
  BY DEF Sound, EntrySound, Working
<1>13. Working(p) \ Under(scope) \subseteq Working(r)
  BY <1>4, <1>10, <1>11, <1>12 DEF Working
<1>14. Working(r) \subseteq (Working(p) \ {s}) \cap r.leaves
  BY <1>6, <1>10 DEF Working, State
<1>15. Left(p, r, s, scope)
  BY <1>1, <1>3, <1>7, <1>13, <1>14 DEF Left
<1>16. Moves(p, r)
  BY <1>2, <1>5, <1>15 DEF Moves
<1> QED
  BY <1>16 DEF r, v

(* So it is when an event finds its handler. *)
LEMMA TransitionMoves ==
  ASSUME NEW p, Typed(p), NEW n \in Nat, Sound(p, n), Legal(p.leaves),
         NEW s \in State, s \in p.leaves, NEW e \in AllowedEvents(s)
  PROVE  Moves(p, Transition(RemovePending(p, s), s, e))
<1> DEFINE h == FindHandler[s][e]
<1>1. s \in Node /\ e \in Event /\ h # None
  BY StateFinite DEF AllowedEvents
<1>2. /\ h \in Up[s] /\ Declares(h, e) /\ On[h][e] \in Node
      /\ Beside(On[h][e], h) /\ (Kind[h] = "region" => On[h][e] = h)
  BY <1>1, HandlerFound, HandlerLeads DEF Beside
<1> HIDE DEF h
<1>3. Moves(p, Move(RemovePending(p, s), h, On[h][e]))
  BY <1>1, <1>2, MoveMoves
<1> QED
  BY <1>3 DEF Transition, h

(* A unit the log takes, on the projection it is decided on. *)
LEMMA EffectMoves ==
  ASSUME NEW p, Typed(p), NEW n \in Nat, Sound(p, n), Legal(p.leaves),
         NEW u \in Unit, Sensible(u), ~Rejects(p, u),
         ~Skips(p, u) \/ u.type = "invoke", NEW base \in Nat
  PROVE  Moves(p, Effect(p, u, base))
<1> DEFINE r == Effect(p, u, base)
<1>1. /\ p \in BranchProjection /\ p.pending \in [State -> Pending]
      /\ p.leaves \in SUBSET Node /\ p.visits \in [State -> Nat]
  BY DEF Typed, BranchProjection
<1>2. \A s \in State : p.pending[s].phase # "none" => s \in p.leaves
  BY DEF Sound, EntrySound
<1>3. CASE u.type = "invoke"
  <2> DEFINE fresh == u.group \cap p.leaves
  <2>1. u.group \in SUBSET State /\ \A s \in fresh : p.pending[s].phase = "none"
    BY <1>3, UnitType DEF Rejects
  <2>2. /\ r.leaves = p.leaves /\ r.failed = p.failed
        /\ r.pending = [s \in State |-> IF s \in fresh
                          THEN Invoked(p.visits[s] + 1, InvokeSeq(u, base, s)) ELSE p.pending[s]]
    BY <1>1, <1>3 DEF Effect, Invoke, BranchProjection
  <2> HIDE DEF r
  <2>3. \A s \in State : r.pending[s].phase # "none" <=> s \in fresh \/ p.pending[s].phase # "none"
    BY <2>2 DEF Invoked
  <2>4. Working(r) = Working(p) \cup fresh
    BY <2>1, <2>3 DEF Working
  <2>5. fresh \in SUBSET ((p.leaves \cap State) \ Working(p))
    BY <2>1 DEF Working
  <2>6. StartsWork(p, r)
    BY <2>2, <2>4, <2>5 DEF StartsWork
  <2>7. Moves(p, r)
    BY <2>2, <2>6 DEF Moves
  <2> QED
    BY <2>7 DEF r
<1>4. CASE u.type \in {"complete", "resolved"}
  <2>1. u.at \in State /\ u.event \in AllowedEvents(u.at)
    BY <1>4, UnitType DEF Sensible
  <2>2. u.at \in p.leaves /\ p.pending[u.at].phase = "running"
    BY <1>4 DEF Skips, Rejects
  <2>3. CASE u.at \in Guarded
    <3>1. /\ r.leaves = p.leaves /\ r.failed = p.failed
          /\ r.pending = [p.pending EXCEPT ![u.at] = Claimed(p.pending[u.at], u.event, base)]
      BY <1>1, <1>4, <2>1, <2>3 DEF Effect, Complete, BranchProjection
    <3> HIDE DEF r
    <3>2. \A s \in State : p.pending[s].phase = "none" <=> r.pending[s].phase = "none"
      BY <1>1, <2>1, <2>2, <3>1 DEF Claimed
    <3>3. Same(p, r)
      BY <3>1, <3>2, SameWork DEF Same
    <3>4. Moves(p, r)
      BY <3>1, <3>3 DEF Moves
    <3> QED
      BY <3>4 DEF r
  <2>4. CASE u.at \notin Guarded
    BY <1>4, <2>1, <2>2, <2>4, TransitionMoves DEF Effect, Complete
  <2> QED
    BY <2>3, <2>4
<1>5. CASE u.type = "accepted"
  <2>1. u.event \in AllowedEvents(u.at) /\ u.at \in State /\ p.pending[u.at].phase = "validating"
    BY <1>5, UnitType DEF Rejects, Typed, ClaimsFit
  <2>2. u.at \in p.leaves
    BY <1>2, <2>1
  <2> QED
    BY <1>5, <2>1, <2>2, TransitionMoves DEF Effect
<1>6. CASE u.type = "timer_fired"
  <2>1. u.at \in State /\ u.at \in p.leaves /\ After[u.at] # None
    BY <1>6, UnitType DEF Skips, Sensible
  <2>2. Beside(After[u.at], u.at) /\ After[u.at] \in Node
    BY <2>1, ChartAssumption DEF HandlersResolve, Beside
  <2>3. u.at \in Up[u.at] /\ Kind[u.at] # "region"
    BY <2>1, StateFinite, UpType DEF State
  <2>4. Moves(p, Move(RemovePending(p, u.at), u.at, After[u.at]))
    BY <2>1, <2>2, <2>3, MoveMoves
  <2> QED
    BY <1>6, <2>4 DEF Effect
<1>7. CASE u.type = "opened"
  <2>1. u.at \in State
    BY <1>7, UnitType
  <2>2. /\ r.leaves = p.leaves /\ r.failed = p.failed
        /\ r.pending = [p.pending EXCEPT ![u.at].gate = base]
    BY <1>1, <1>7, <2>1 DEF Effect, Open, BranchProjection
  <2> HIDE DEF r
  <2>3. \A s \in State : r.pending[s].phase = p.pending[s].phase
    BY <1>1, <2>1, <2>2 DEF Pending
  <2>4. Same(p, r)
    BY <2>2, <2>3, SameWork DEF Same
  <2>5. Moves(p, r)
    BY <2>2, <2>4 DEF Moves
  <2> QED
    BY <2>5 DEF r
<1>8. ASSUME NEW v, Typed(v), v.leaves = p.leaves, v.failed = p.failed, Working(v) = Working(p),
             NEW d \in RetryUnit \cup FailureUnit, p.pending[d.at].phase # "none" \/ d.type # "retry",
             d.type # "retry" => ~p.failed, NEW m \in Nat
      PROVE  Moves(p, Decide(v, d, m))
  <2> DEFINE w == Decide(v, d, m)
  <2>1. v \in BranchProjection /\ v.pending \in [State -> Pending]
    BY <1>8 DEF Typed, BranchProjection
  <2>2. CASE d.type = "retry"
    <3>1. d \in RetryUnit /\ d.at \in State
      BY <1>8, <2>2, RetryUnitType DEF FailureUnit
    <3>2. /\ w.leaves = p.leaves /\ w.failed = p.failed
          /\ w.pending = [v.pending EXCEPT ![d.at] = Retried(v.pending[d.at], d, m)]
      BY <1>8, <2>1, <2>2, <3>1 DEF Decide, Retry, BranchProjection
    <3>3. d.at \in Working(v)
      BY <1>8, <2>2, <3>1 DEF Working
    <3> HIDE DEF w
    <3>4. \A s \in State : v.pending[s].phase = "none" <=> w.pending[s].phase = "none"
      BY <2>1, <3>1, <3>2, <3>3 DEF Retried, Working
    <3>5. Same(p, w)
      BY <1>8, <3>2, <3>4, SameWork DEF Same
    <3>6. Moves(p, w)
      BY <3>2, <3>5 DEF Moves
    <3> QED
      BY <3>6 DEF w
  <2>3. CASE d.type # "retry"
    <3>1. w.leaves = p.leaves /\ w.failed /\ w.pending = v.pending
      BY <1>8, <2>1, <2>3 DEF Decide, Fail, BranchProjection
    <3> HIDE DEF w
    <3>2. Failing(p, w)
      BY <1>8, <2>3, <3>1 DEF Failing, Working
    <3>3. Moves(p, w)
      BY <3>1, <3>2 DEF Moves
    <3> QED
      BY <3>3 DEF w
  <2> QED
    BY <2>2, <2>3
<1>9. CASE u.type \in {"retry", "failure_intent"}
  <2>1. u \in RetryUnit \cup FailureUnit /\ DecisionFits(p, u) /\ r = Decide(p, u, base)
    BY <1>9, UnitType DEF Rejects, Effect
  <2>2. p.pending[u.at].phase # "none" \/ u.type # "retry"
    BY <2>1 DEF DecisionFits, RetryFits
  <2>3. u.type # "retry" => ~p.failed
    BY <2>1 DEF DecisionFits
  <2> QED
    BY <1>8, <2>1, <2>2, <2>3
<1>10. CASE u.type = "rejected"
  <2> DEFINE v == [p EXCEPT !.pending[u.at].seq = base]
             d == u.decision
  <2>1. /\ u.at \in State /\ d \in RetryUnit \cup FailureUnit /\ base + 1 \in Nat
        /\ DecisionFits(p, d) /\ r = Decide(v, d, base + 1)
    BY <1>10, UnitType DEF Rejects, Effect
  <2>2. Typed(v)
    BY <2>1, ResequenceTyped
  <2>3. /\ v.leaves = p.leaves /\ v.failed = p.failed
        /\ \A s \in State : v.pending[s].phase = p.pending[s].phase
    BY <1>1, <2>1 DEF BranchProjection, Pending
  <2> HIDE DEF v
  <2>4. Working(v) = Working(p)
    BY <2>3, SameWork
  <2>5. p.pending[d.at].phase # "none" \/ d.type # "retry"
    BY <2>1 DEF DecisionFits, RetryFits
  <2>6. d.type # "retry" => ~p.failed
    BY <2>1 DEF DecisionFits
  <2> HIDE DEF d
  <2> QED
    BY <1>8, <2>1, <2>2, <2>3, <2>4, <2>5, <2>6
<1> QED
  BY <1>3, <1>4, <1>5, <1>6, <1>7, <1>9, <1>10, UnitType

(* The number a projection ends with says nothing of its leaves. *)
LEMMA ProjectBranchMoves ==
  ASSUME NEW p, Typed(p), Sound(p, p.seq), Legal(p.leaves),
         NEW u \in Unit, Sensible(u), ~Rejects(p, u), NEW base \in Nat
  PROVE  Moves(p, ProjectBranch(p, u, base))
<1> DEFINE v == Apply(p, u, base)
           r == ProjectBranch(p, u, base)
<1>1. v \in BranchProjection /\ p.seq \in Nat
  BY ApplyTyped DEF Typed, BranchProjection
<1>2. Moves(p, v)
  <2>1. CASE Skips(p, u) /\ u.type # "invoke"
    BY <2>1 DEF Apply, Moves, Same
  <2>2. CASE ~Skips(p, u) \/ u.type = "invoke"
    <3>1. Moves(p, Effect(p, u, base))
      BY <1>1, <2>2, EffectMoves
    <3> QED
      BY <2>2, <3>1 DEF Apply
  <2> QED
    BY <2>1, <2>2
<1> HIDE DEF v
<1>3. r.leaves = v.leaves /\ r.pending = v.pending /\ r.failed = v.failed
  BY <1>1 DEF ProjectBranch, BranchProjection, v
<1>4. Working(r) = Working(v)
  BY <1>3 DEF Working
<1> HIDE DEF r
<1>5. Moves(p, r)
  BY <1>2, <1>3, <1>4 DEF Moves, Same, StartsWork, Failing, Left
<1> QED
  BY <1>5 DEF r

-----------------------------------------------------------------------------
(* ChartRun reads the chart as ChartTree does. *)
LEMMA RunReadsTheChart ==
  /\ Run!State = State /\ Run!Up = Up
  /\ \A scope : Run!Under(scope) = Under(scope)
  /\ \A leaves : Run!Legal(leaves) <=> Legal(leaves)
<1>1. Run!State = State
  BY DEF Run!State, State
<1>2. Run!Up = Up
  BY DEF Run!Up, Up
<1>3. \A scope : Run!Under(scope) = Under(scope)
  BY <1>2 DEF Run!Under, Under
<1>4. \A leaves : Run!CompletedParallels(leaves) = CompletedParallels(leaves)
  BY <1>2, <1>3 DEF Run!CompletedParallels, CompletedParallels
<1>5. \A s : Run!Cardinality(s) = Cardinality(s)
  BY DEF Run!Cardinality, Cardinality
<1>6. ASSUME NEW leaves PROVE Run!Legal(leaves) <=> Legal(leaves)
  <2> DEFINE active == UNION {Up[l] : l \in leaves}
             runActive == UNION {Run!Up[l] : l \in leaves}
             top == {n \in active : Parent[n] = None}
             fits(n) ==
               CASE Kind[n] \in {"compound", "region"} -> Cardinality(Children(n) \cap active) = 1
                 [] Kind[n] = "parallel" -> Children(n) \subseteq active
                 [] OTHER -> n \in leaves
             runFits(n) ==
               CASE Kind[n] \in {"compound", "region"} ->
                      Run!Cardinality(Run!Children(n) \cap runActive) = 1
                 [] Kind[n] = "parallel" -> Run!Children(n) \subseteq runActive
                 [] OTHER -> n \in leaves
             rest == /\ \A l \in leaves : Kind[l] \in {"state", "final"}
                     /\ \A l \in leaves :
                          Kind[l] = "final" /\ Parent[l] # None => Kind[Parent[l]] # "compound"
  <2>1. runActive = active
    BY <1>2
  <2>2. \A n : runFits(n) <=> fits(n)
    <3>1. \A n : Run!Children(n) = Children(n)
      BY DEF Run!Children, Children
    <3> HIDE DEF active, runActive
    <3> QED
      BY <1>5, <2>1, <3>1
  <2>3. Legal(leaves) <=> /\ Cardinality(top) = 1 /\ rest /\ CompletedParallels(leaves) = {}
                          /\ \A n \in active : fits(n)
    BY DEF Legal
  <2>4. Run!Legal(leaves) <=>
          /\ Run!Cardinality({n \in runActive : Parent[n] = None}) = 1
          /\ rest /\ Run!CompletedParallels(leaves) = {}
          /\ \A n \in runActive : runFits(n)
    BY DEF Run!Legal
  <2> HIDE DEF active, runActive, fits, runFits, rest
  <2> QED
    BY <1>4, <1>5, <2>1, <2>2, <2>3, <2>4
<1> QED
  BY <1>1, <1>2, <1>3, <1>6

(* The invariant of the refinement. *)
RunInv == LogInv /\ Legal(durable.leaves)

LEMMA InitRunInv == Init => RunInv /\ Run!Init
<1> SUFFICES ASSUME Init PROVE RunInv /\ Run!Init
  OBVIOUS
<1>1. LogInv
  BY InitLogInv
<1>2. /\ durable.leaves = CompleteParallels[EnterState[Top]] /\ durable.failed = FALSE
      /\ durable.pending = [s \in State |-> NoPending]
  BY DEF Init, EmptyProjection
<1>3. Legal(durable.leaves)
  BY <1>2, ConfigurationsStayComplete
<1>4. Working(durable) = {}
  BY <1>2, NoPendingType DEF Working
<1> QED
  BY <1>1, <1>2, <1>3, <1>4, RunReadsTheChart DEF RunInv, Run!Init

LEMMA NextRunInv == RunInv /\ [Next]_vars => RunInv' /\ [Run!Next]_Run!vars
<1> SUFFICES ASSUME RunInv, [Next]_vars PROVE RunInv' /\ [Run!Next]_Run!vars
  OBVIOUS
<1>1. LogInv'
  BY NextLogInv DEF RunInv
<1>2. CASE durable' = durable
  BY <1>1, <1>2 DEF RunInv, Run!vars, Working
<1>3. ASSUME NEW u \in Unit, Appends(u)
      PROVE  RunInv' /\ [Run!Next]_Run!vars
  <2>1. Typed(durable) /\ Sound(durable, durable.seq) /\ durable.seq + 1 \in Nat
    BY DEF RunInv, LogInv, TypeInv, Typed, BranchProjection
  <2>2. Moves(durable, durable')
    BY <1>3, <2>1, ProjectBranchMoves DEF Appends, RunInv
  <2>3. RunInv'
    BY <1>1, <2>2 DEF RunInv, Moves
  <2>4. CASE Same(durable, durable')
    BY <2>3, <2>4 DEF Same, Run!vars, Working
  <2>5. CASE StartsWork(durable, durable')
    BY <2>3, <2>5, RunReadsTheChart DEF StartsWork, Run!Next, Run!Begin, Working
  <2>6. CASE Failing(durable, durable')
    BY <1>1, <2>3, <2>6 DEF Failing, Run!Next, Run!Fail, Working, LogInv, TypeInv, Typed,
                            BranchProjection
  <2>7. ASSUME NEW s \in State, NEW scope \in Node, Left(durable, durable', s, scope)
        PROVE  Run!Next
    <3>1. Run!Handles(s, scope)
      BY <2>7 DEF Left, Declares, Run!Handles
    <3>2. Run!Leave(s)
      BY <2>2, <2>7, <3>1, RunReadsTheChart DEF Left, Moves, Run!Leave
    <3> QED
      BY <3>2, RunReadsTheChart DEF Run!Next
  <2> QED
    BY <2>2, <2>3, <2>4, <2>5, <2>6, <2>7 DEF Moves
<1> QED
  BY <1>2, <1>3, StepAppends DEF RunInv, LogInv

(* However completions, deadlines, verdicts, answers, retries, drains and  *)
(* crashes interleave, the log goes from one complete configuration of the *)
(* chart to another, and each step leaves only what its own transition or  *)
(* a finished join lets it leave: the branch implements ChartRun.          *)
THEOREM SpecLogIsARun == Spec => LogIsARun
<1>1. Spec => Run!Init /\ [][Run!Next]_Run!vars
  BY InitRunInv, NextRunInv, PTL DEF Spec
<1> QED
  BY <1>1 DEF LogIsARun, Run!Spec
=============================================================================
