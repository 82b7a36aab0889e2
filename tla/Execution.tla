------------------------------ MODULE Execution ------------------------------
(***************************************************************************)
(* One branch of a run, executing: the durable log and its projection      *)
(* (execution/branch_execution.ts), the machine that decides what to do    *)
(* from its own, possibly older, projection (core/machine.ts), the loop    *)
(* that feeds it one event at a time (execution/execution_loop.ts) and the *)
(* runtime that carries out its effects and reports back                   *)
(* (runtime/generic/chart_runtime.ts).                                     *)
(*                                                                         *)
(* An action is a stretch of code that runs without awaiting.  The loop    *)
(* waits in two places: for the next event, and, inside runEffects, for    *)
(* each append to become durable; the other actions run in between.  While *)
(* a batch of effects is being carried out, everything sent to the machine *)
(* is held back in `buffer', except the acknowledgement of the batch's own *)
(* appends.                                                                *)
(*                                                                         *)
(* The runner may drain the branch at any time, to unload it or to move    *)
(* its head (runner/runner_main.ts): from beginDrain on the runtime takes  *)
(* no effect and reports nothing, while executors, the loop and the append *)
(* in flight still come to their ends; then the branch is gone until it is *)
(* admitted again on what its log holds.                                   *)
(***************************************************************************)
EXTENDS Projection, Sequences

CONSTANTS
  IgnoreReplayWarnings,  \* the runner option of that name
  Failures,    \* the ways an agent may fail: a subset of {"retryable", "fatal"}
  MaxSeq,      \* bound: log length after which work only fails, users and timers rest
  MaxCrashes   \* bound: how often the runner dies, drains the branch or resumes a run that threw

ASSUME ExecutionAssumption ==
  /\ IgnoreReplayWarnings \in BOOLEAN
  /\ Failures \subseteq {"retryable", "fatal"}
  /\ Event \cap {"retryable", "fatal"} = {}
  /\ MaxSeq \in Nat
  /\ MaxCrashes \in Nat

VARIABLES
  durable,     \* the projection of the branch's log, as of its last commit
  lost,        \* the log holds a record its projection skipped
  machine,     \* the machine's projection
  dispatched,  \* ids of the effects the machine has asked for
  loop,        \* what the loop is doing, or how it ended
  error,       \* why it threw: a unit refused at commit, "ack" or "verdict"
  queue,       \* the runtime's event queue
  buffer,      \* sends held back while a batch runs
  batch,       \* what is left of the batch of effects being carried out
  tasks,       \* agents, scripts, imports and validators at work
  timers,      \* armed deadlines
  draining,    \* quiescing: beginDrain was called on the runtime
  crashes

vars == <<durable, lost, machine, dispatched, loop, error, queue, buffer,
          batch, tasks, timers, draining, crashes>>

log == <<durable, lost>>
runtime == <<queue, buffer, batch, tasks, timers>>
runner == <<draining, crashes>>

-----------------------------------------------------------------------------
(* Effect ids.  A phase id is shared by the work of the phase and by its   *)
(* deadline (pendingEffectId, timerEffectId).                              *)
Id == [kind : {"invoke", "open", "phase"}, at : State, visit : Nat, seq : Nat]

InvokeId(s) == [kind |-> "invoke", at |-> s, visit |-> 0, seq |-> 0]
OpenId(p, s) ==
  [kind |-> "open", at |-> s, visit |-> p.pending[s].visit, seq |-> p.pending[s].seq]
PhaseId(p, s) ==
  [kind |-> "phase", at |-> s, visit |-> p.pending[s].visit, seq |-> p.pending[s].seq]

(* Is id the current phase of its action? *)
Current(p, id, phase) ==
  p.pending[id.at].phase = phase /\ PhaseId(p, id.at) = id

(* dueInvokes, dueUserInteractionOpens, pendingEffects *)
DueInvokes(p) == {s \in State \cap p.leaves : p.pending[s].phase = "none"}
DueOpens(p) ==
  {s \in State : /\ Action[s] = "user" /\ p.pending[s].phase = "running"
                 /\ p.pending[s].gate = 0}
DuePhases(p) ==
  {s \in State : /\ p.pending[s].phase # "none"
                 /\ \/ p.pending[s].phase = "validating"
                    \/ Action[s] # "user"
                    \/ After[s] # None}

Desired(p) ==
  {InvokeId(s) : s \in DueInvokes(p)} \cup {OpenId(p, s) : s \in DueOpens(p)}
    \cup {PhaseId(p, s) : s \in DuePhases(p)}

-----------------------------------------------------------------------------
(* A batch, in the order the runtime carries it out: the response's append *)
(* and cancellations, the invocation group, the interactions to open, and  *)
(* the phases to start.  last marks the batch of a final output.           *)
NoUnit == [type |-> "none"]
Batch ==
  [unit : Unit \cup {NoUnit}, cancels : SUBSET State, invokes : SUBSET State,
   opens : SUBSET Id, work : SUBSET Id, last : BOOLEAN]
NoBatch ==
  [unit |-> NoUnit, cancels |-> {}, invokes |-> {}, opens |-> {}, work |-> {},
   last |-> FALSE]

(* An event for the machine.  A work event answers one phase. *)
Result == Event \cup {"retryable", "fatal"}
MachineEvent ==
  [kind : {"start"}]
    \cup [kind : {"work"}, id : Id, result : Result]
    \cup [kind : {"verdict"}, id : Id, ok : BOOLEAN]
    \cup [kind : {"timer"}, id : Id]
    \cup [kind : {"ack"}, unit : Unit, base : Nat]

(* The runtime's record of a piece of work.  told: a cancel for its action *)
(* was carried out since it was dispatched.                                *)
Task ==
  [id : Id, kind : {"agent", "script", "import", "guard"},
   stage : {"delayed", "preparing", "live", "stopping"}, told : BOOLEAN]

Idle == loop = "ready" /\ queue = <<>> /\ ~draining
Live == {"ready", "busy"}
Ended == {"final", "failed", "threw", "blocked"}
Cause == {"none", "ack", "verdict", "invoke", "complete", "accepted", "rejected",
          "opened", "retry", "failure_intent"}

TypeOK ==
  /\ durable \in BranchProjection
  /\ lost \in BOOLEAN
  /\ machine \in BranchProjection
  /\ dispatched \subseteq Id
  /\ loop \in Live \cup Ended \cup {"down"}
  /\ error \in Cause
  /\ queue \in Seq(MachineEvent)
  /\ buffer \in Seq(MachineEvent)
  /\ batch \in Batch
  /\ tasks \subseteq Task
  /\ timers \subseteq Id
  /\ draining \in BOOLEAN
  /\ crashes \in Nat

Init ==
  /\ durable = EmptyProjection
  /\ lost = FALSE
  /\ machine = EmptyProjection
  /\ dispatched = {}
  /\ loop = "ready"
  /\ error = "none"
  /\ queue = <<[kind |-> "start"]>>
  /\ buffer = <<>>
  /\ batch = NoBatch
  /\ tasks = {}
  /\ timers = {}
  /\ draining = FALSE
  /\ crashes = 0

-----------------------------------------------------------------------------
(* Mutant: what is sent while a batch runs is not held back but lost. *)
SendOrLose(event) ==
  /\ queue' = IF draining \/ loop = "busy" THEN queue ELSE Append(queue, event)
  /\ UNCHANGED buffer

(* Mutant: a drain does not stop what executors report. *)
SendAnyway(event) ==
  /\ queue' = IF loop = "busy" THEN queue ELSE Append(queue, event)
  /\ buffer' = IF loop = "busy" THEN Append(buffer, event) ELSE buffer

(* send: straight to the queue, held back while a batch runs, or dropped   *)
(* once the branch drains.                                                 *)
Send(event) ==
  /\ queue' = IF draining \/ loop = "busy" THEN queue ELSE Append(queue, event)
  /\ buffer' = IF ~draining /\ loop = "busy" THEN Append(buffer, event) ELSE buffer

(* dispose: the runtime of a run that is over does nothing more. *)
Disposed ==
  /\ queue' = <<>> /\ buffer' = <<>> /\ batch' = NoBatch
  /\ tasks' = {} /\ timers' = {}

Throw(cause) ==
  /\ loop' = "threw"
  /\ error' = cause
  /\ Disposed

(* What a cancel effect reaches: a delayed start is dropped, an import is  *)
(* settled at once, a live agent or script is told to stop; work that is   *)
(* still restoring its reads is in none of the maps the cancel looks at,   *)
(* and a validator's verdict is reported all the same.                     *)
AfterCancel(ts, at) ==
  LET hit(t) == t.id.at \in at /\ t.kind # "guard" IN
  {t \in ts : ~hit(t)}
    \cup {[t EXCEPT !.told = TRUE,
                    !.stage = IF @ = "live" THEN "stopping" ELSE @] :
           t \in {u \in ts : hit(u) /\ u.stage # "delayed"
                                    /\ ~(u.kind = "import" /\ u.stage = "live")}}

(* The work a phase id of the machine's projection stands for. *)
TaskFor(p, id) ==
  LET q == p.pending[id.at] IN
  [id |-> id, told |-> FALSE,
   kind |-> IF q.phase = "validating" THEN "guard" ELSE Action[id.at],
   stage |-> IF q.phase = "validating" \/ Action[id.at] = "import" THEN "live"
             ELSE IF q.retried THEN "delayed" ELSE "preparing"]

HasTask(p, id) ==
  p.pending[id.at].phase = "validating" \/ Action[id.at] # "user"
HasTimer(p, id) ==
  p.pending[id.at].phase = "running" /\ After[id.at] # None

(* performRunEffects, from where it stands to its next await or its end:   *)
(* cancellations go out before the next append, the phases start after the *)
(* last one, and then the held-back sends are delivered.  Once the branch  *)
(* drains, whatever is left of the batch is dropped.                       *)
Advance(m, asked, q) ==
  LET b == IF draining THEN [NoBatch EXCEPT !.last = asked.last] ELSE asked
      appending == b.unit # NoUnit \/ b.invokes # {} \/ b.opens # {}
      at == IF b.unit = NoUnit THEN b.cancels ELSE {}
      over == ~appending /\ b.last
      cancelled == AfterCancel(tasks, at)
  IN /\ batch' = IF appending THEN [b EXCEPT !.cancels = @ \ at] ELSE NoBatch
     /\ loop' = IF appending THEN "busy"
                ELSE IF ~b.last THEN "ready"
                ELSE IF m.failed THEN "failed" ELSE "final"
     /\ tasks' = IF over THEN {}
                 ELSE IF appending THEN cancelled
                 ELSE cancelled \cup {TaskFor(m, id) : id \in {i \in b.work : HasTask(m, i)}}
     /\ timers' = IF over THEN {}
                  ELSE IF appending THEN timers
                  ELSE timers \cup {id \in b.work : HasTimer(m, id)}
     /\ queue' = IF over THEN <<>> ELSE IF appending THEN q ELSE q \o buffer
     /\ buffer' = IF appending THEN buffer ELSE <<>>

-----------------------------------------------------------------------------
(* Mutant: the marker of an entry stays when the entry is no longer due. *)
MarkedForever(m) == dispatched \cup Desired(m)

(* Each entry is dispatched once; markers of entries no longer desired are *)
(* dropped, so that entering a state again dispatches again.               *)
Marked(m) == Desired(m)

(* createMachineOutput: the responses to the event, then whatever the      *)
(* projection calls for and was not asked for before.                      *)
Output(m, unit, cancels) ==
  LET fresh == Desired(m) \ dispatched
      last == m.failed \/ IsFinal(m.leaves)
      out == IF last
             THEN [NoBatch EXCEPT !.unit = unit, !.last = TRUE,
                     !.cancels = cancels \cup
                       {s \in State : m.failed /\ m.pending[s].phase # "none"}]
             ELSE [unit |-> unit, cancels |-> cancels, last |-> FALSE,
                   invokes |-> {id.at : id \in {i \in fresh : i.kind = "invoke"}},
                   opens |-> {id \in fresh : id.kind = "open"},
                   work |-> {id \in fresh : id.kind = "phase"}]
  IN /\ machine' = m
     /\ dispatched' = IF last THEN dispatched ELSE Marked(m)
     /\ Advance(m, out, Tail(queue))
     /\ UNCHANGED <<log, error, runner>>

(* recoveryDecisionRecords *)
RecoveryDecision(s, retryable, scope) ==
  LET q == machine.pending[s]
      retry(mode) ==
        [type |-> "retry", at |-> s, scope |-> scope, mode |-> mode, prev |-> q.session,
         nudge |-> IF mode = "nudge" THEN q.nudges[scope] + 1 ELSE 0,
         restart |-> IF mode = "nudge" THEN q.restarts[scope] ELSE q.restarts[scope] + 1]
  IN IF retryable /\ q.nudges[scope] < Nudge[scope] THEN retry("nudge")
     ELSE IF retryable /\ q.restarts[scope] < Restart[scope] THEN retry("restart")
     ELSE [type |-> "failure_intent", at |-> s]

(* The response to an agent's, a script's or an import's outcome. *)
OutcomeUnit(s, result) ==
  IF result \in Event THEN [type |-> "complete", at |-> s, event |-> result]
  ELSE RecoveryDecision(s, result = "retryable" /\ Action[s] = "agent", "general")

(* Mutant: a verdict does not say which completion it is about. *)
VerdictWithoutEvent(s, ok) ==
  IF ok THEN [type |-> "accepted", at |-> s, event |-> None]
  ELSE [type |-> "rejected", at |-> s, event |-> None,
        decision |-> RecoveryDecision(s, TRUE, "validation")]

VerdictUnit(s, ok) ==
  LET e == machine.pending[s].event IN
  IF ok THEN [type |-> "accepted", at |-> s, event |-> e]
  ELSE [type |-> "rejected", at |-> s, event |-> e,
        decision |-> RecoveryDecision(s, TRUE, "validation")]

(* The loop takes the next event to stepMachine. *)
Awaiting(kind) == loop = "ready" /\ queue # <<>> /\ Head(queue).kind = kind

StepStart == Awaiting("start") /\ Output(machine, NoUnit, {})

(* An outcome whose phase is over lost a race and changes nothing. *)
StepWork ==
  /\ Awaiting("work")
  /\ LET id == Head(queue).id IN
     IF Current(machine, id, "running")
     THEN Output(machine, OutcomeUnit(id.at, Head(queue).result), {})
     ELSE Output(machine, NoUnit, {})

(* Mutant: a deadline moves on and leaves its work running. *)
StepTimerOnly ==
  /\ Awaiting("timer")
  /\ LET id == Head(queue).id IN
     IF Current(machine, id, "running")
     THEN Output(machine, [type |-> "timer_fired", at |-> id.at], {})
     ELSE Output(machine, NoUnit, {})

StepTimer ==
  /\ Awaiting("timer")
  /\ LET id == Head(queue).id IN
     IF Current(machine, id, "running")
     THEN Output(machine, [type |-> "timer_fired", at |-> id.at], {id.at})
     ELSE Output(machine, NoUnit, {})

(* A verdict nothing waits for is not a lost race but an error. *)
StepVerdict ==
  /\ Awaiting("verdict")
  /\ LET id == Head(queue).id IN
     IF Current(machine, id, "validating")
     THEN Output(machine, VerdictUnit(id.at, Head(queue).ok), {})
     ELSE /\ Throw("verdict")
          /\ UNCHANGED <<log, machine, dispatched, runner>>

(* durable_records_added: the machine projects what the log now holds. *)
StepAck ==
  /\ Awaiting("ack")
  /\ LET ack == Head(queue) IN
     IF Rejects(machine, ack.unit)
     THEN Throw("ack") /\ UNCHANGED <<log, machine, dispatched, runner>>
     ELSE Output(ProjectBranch(machine, ack.unit, ack.base), NoUnit,
                 Abandoned(machine, ack.unit, ack.base))

-----------------------------------------------------------------------------
(* appendDrafts under the writer boundary: prepareStampedCommit projects   *)
(* the unit on the log as it is now; a throw refuses the append, and with  *)
(* it the run.  The acknowledgement goes straight to the queue.            *)
Commit(unit, rest) ==
  IF Rejects(durable, unit)
  THEN Throw(unit.type) /\ UNCHANGED <<log, machine, dispatched, runner>>
  ELSE LET base == durable.seq + 1 IN
       /\ durable' = ProjectBranch(durable, unit, base)
       /\ lost' = (lost \/ Skips(durable, unit))
       /\ Advance(machine, rest,
                  IF draining THEN queue
                  ELSE Append(queue, [kind |-> "ack", unit |-> unit, base |-> base]))
       /\ UNCHANGED <<machine, dispatched, error, runner>>

CommitResponse ==
  /\ loop = "busy" /\ batch.unit # NoUnit
  /\ Commit(batch.unit, [batch EXCEPT !.unit = NoUnit])

CommitInvokes ==
  /\ loop = "busy" /\ batch.unit = NoUnit /\ batch.invokes # {}
  /\ Commit([type |-> "invoke", group |-> batch.invokes], [batch EXCEPT !.invokes = {}])

CommitOpen ==
  /\ loop = "busy" /\ batch.unit = NoUnit /\ batch.invokes = {}
  /\ \E id \in batch.opens :
       Commit([type |-> "opened", at |-> id.at, phase |-> id.seq],
              [batch EXCEPT !.opens = @ \ {id}])

-----------------------------------------------------------------------------
(* waitForAgentRetry: the backoff of a recovered session ends. *)
EndDelay(t) ==
  /\ t.stage = "delayed"
  /\ tasks' = (tasks \ {t}) \cup {[t EXCEPT !.stage = "preparing"]}
  /\ UNCHANGED <<log, machine, dispatched, loop, error, queue, buffer, batch,
                 timers, runner>>

(* restorePinnedReads is done: the session or process starts, unless the   *)
(* branch drains.  A script whose predecessor is still running or dying is *)
(* refused, which its promise reports as FAILED.                           *)
Begin(t) ==
  /\ t.stage = "preparing"
  /\ IF \/ draining
        \/ t.kind = "script"
             /\ \E u \in tasks : u # t /\ u.kind = "script" /\ u.id.at = t.id.at
                                       /\ u.stage \in {"live", "stopping"}
     THEN /\ tasks' = tasks \ {t}
          /\ Send([kind |-> "work", id |-> t.id, result |-> "fatal"])
     ELSE /\ tasks' = (tasks \ {t}) \cup {[t EXCEPT !.stage = "live"]}
          /\ UNCHANGED <<queue, buffer>>
  /\ UNCHANGED <<log, machine, dispatched, loop, error, batch, timers, runner>>

(* What live work may answer. *)
Outcomes(t) ==
  (IF durable.seq < MaxSeq THEN AllowedEvents(t.id.at) ELSE {})
    \cup (IF t.kind = "agent" THEN Failures \cup (IF durable.seq < MaxSeq THEN {} ELSE {"fatal"})
          ELSE {"fatal"})

(* An action answers once.  A stopped agent is silent; a stopped script    *)
(* still reports how its process ended.                                    *)
Answer(t) ==
  /\ t.stage \in {"live", "stopping"} /\ t.kind # "guard"
  /\ tasks' = tasks \ {t}
  /\ IF t.stage = "stopping" /\ t.kind = "agent"
     THEN UNCHANGED <<queue, buffer>>
     ELSE \E r \in IF t.stage = "stopping" THEN {"fatal"} ELSE Outcomes(t) :
            Send([kind |-> "work", id |-> t.id, result |-> r])
  /\ UNCHANGED <<log, machine, dispatched, loop, error, batch, timers, runner>>

Verdict(t) ==
  /\ t.kind = "guard"
  /\ tasks' = tasks \ {t}
  /\ \E ok \in BOOLEAN : Send([kind |-> "verdict", id |-> t.id, ok |-> ok])
  /\ UNCHANGED <<log, machine, dispatched, loop, error, batch, timers, runner>>

TimerFires(id) ==
  /\ durable.seq < MaxSeq
  /\ timers' = timers \ {id}
  /\ Send([kind |-> "timer", id |-> id])
  /\ UNCHANGED <<log, machine, dispatched, loop, error, batch, tasks, runner>>

-----------------------------------------------------------------------------
(* A user or host answers an open interaction: checked and committed       *)
(* against the log, under the same writer boundary as the loop's appends,  *)
(* then acknowledged to the runtime if the branch is live.                 *)
Respond(g, e) ==
  LET unit == [type |-> "resolved", at |-> g.at, gate |-> g.seq, event |-> e]
      base == durable.seq + 1
  IN /\ loop \in Live \cup {"down", "threw"}
     /\ ~durable.failed
     /\ durable.seq < MaxSeq
     /\ ~Rejects(durable, unit)
     /\ durable' = ProjectBranch(durable, unit, base)
     /\ lost' = (lost \/ Skips(durable, unit))
     /\ IF loop \in Live
        THEN Send([kind |-> "ack", unit |-> unit, base |-> base])
        ELSE UNCHANGED <<queue, buffer>>
     /\ UNCHANGED <<machine, dispatched, loop, error, batch, tasks, timers, runner>>

(* beginDrain: delayed starts and deadlines go, and what is held back has   *)
(* nowhere to be delivered; everything else runs to its end.               *)
BeginDrain ==
  /\ loop \in Live /\ ~draining
  /\ crashes < MaxCrashes
  /\ crashes' = crashes + 1
  /\ draining' = TRUE
  /\ tasks' = {t \in tasks : t.stage # "delayed"}
  /\ timers' = {}
  /\ buffer' = <<>>
  /\ UNCHANGED <<log, machine, dispatched, loop, error, queue, batch>>

(* drainEntry: behind the append in flight the branch is sealed, and its    *)
(* runtime and executors are disposed.  How the loop ended, if it did, is   *)
(* of no account.  The runner may lift the seal before the next admission   *)
(* or leave it; users may answer meanwhile, as if it were lifted.           *)
Drained ==
  /\ draining /\ loop # "busy"
  /\ draining' = FALSE
  /\ loop' = "down"
  /\ Disposed
  /\ UNCHANGED <<log, machine, dispatched, error, crashes>>

(* The runner process dies: only the log is left. *)
Crash ==
  /\ loop \in Live \/ draining
  /\ crashes < MaxCrashes
  /\ crashes' = crashes + 1
  /\ draining' = FALSE
  /\ loop' = "down"
  /\ Disposed
  /\ UNCHANGED <<log, machine, dispatched, error>>

(* Mutant: a new attempt goes on from the projection of the old one. *)
RestartedStale ==
  /\ loop = "down" \/ (loop = "threw" /\ ~draining /\ crashes < MaxCrashes)
  /\ crashes' = IF loop = "threw" THEN crashes + 1 ELSE crashes
  /\ loop' = "ready"
  /\ dispatched' = {}
  /\ error' = "none"
  /\ queue' = <<[kind |-> "start"]>>
  /\ UNCHANGED <<log, machine, buffer, batch, tasks, timers, draining>>

(* A new runner attempt: the replay gate, then a fresh machine on the      *)
(* projection of the log.  A run that threw is resumed and a branch that   *)
(* was drained is admitted again the same way.                             *)
Restarted ==
  /\ loop = "down" \/ (loop = "threw" /\ ~draining /\ crashes < MaxCrashes)
  /\ crashes' = IF loop = "threw" THEN crashes + 1 ELSE crashes
  /\ IF lost /\ ~IgnoreReplayWarnings
     THEN /\ loop' = "blocked"
          /\ UNCHANGED <<machine, dispatched, error, queue>>
     ELSE /\ loop' = "ready"
          /\ machine' = durable
          /\ dispatched' = {}
          /\ error' = "none"
          /\ queue' = <<[kind |-> "start"]>>
  /\ UNCHANGED <<log, buffer, batch, tasks, timers, draining>>

(* Nothing more happens, or nothing more within the bound. *)
Finished ==
  /\ (loop \in Ended /\ ~draining) \/ (Idle /\ durable.seq >= MaxSeq)
  /\ UNCHANGED vars

Machine == StepStart \/ StepWork \/ StepTimer \/ StepVerdict \/ StepAck
Writer == CommitResponse \/ CommitInvokes \/ CommitOpen
Work == \E t \in tasks : EndDelay(t) \/ Begin(t) \/ Answer(t) \/ Verdict(t)
Clock == \E id \in timers : TimerFires(id)
User == \E g \in durable.gates : \E e \in Event : Respond(g, e)

Next ==
  \/ Machine \/ Writer \/ Work \/ Clock \/ User
  \/ BeginDrain \/ Drained \/ Crash \/ Restarted \/ Finished

Spec == Init /\ [][Next]_vars

(* Weak fairness, with what enables each action spelled out.  The event     *)
(* loop turns and appends complete; every executor answers each piece of    *)
(* work it was given, and a drain waits for nothing but the append in       *)
(* flight and executors that are told to stop.  Users, deadlines and        *)
(* whoever drains a branch, admits it again or restarts a dead runner are   *)
(* under no obligation.                                                     *)
Fairness ==
  /\ []<>~(loop = "ready" /\ queue # <<>>) \/ []<><<Machine>>_vars
  /\ []<>~(loop = "busy") \/ []<><<Writer>>_vars
  /\ []<>(tasks = {}) \/ []<><<Work>>_vars
  /\ []<>~(draining /\ loop # "busy") \/ []<><<Drained>>_vars

FairSpec == Spec /\ Fairness

-----------------------------------------------------------------------------
(***************************************************************************)
(* Properties.                                                             *)
(***************************************************************************)
Working(p) == {s \in State : p.pending[s].phase # "none"}

Run == INSTANCE ChartRun
  WITH leaves <- durable.leaves, working <- Working(durable), failed <- durable.failed

(* However completions, deadlines, verdicts, answers and crashes interleave, *)
(* the log tells of one complete configuration after another, and of work    *)
(* only in active states (projectBranch over everything the writers commit). *)
LogIsARun == Run!Spec

(* When the loop has nothing left to do, everything the chart calls for is  *)
(* under way: nothing waits to be invoked, every phase has its agent,       *)
(* script, import, validator or open interaction, and every deadline is     *)
(* armed.  The machine dispatches each id once per lifetime, so an id kept  *)
(* or dropped wrongly (createMachineOutput) leaves the branch hanging.      *)
NoWorkIsLost ==
  Idle =>
    /\ DueInvokes(machine) = {}
    /\ DueOpens(machine) = {}
    /\ \A s \in Working(machine) :
         LET id == PhaseId(machine, s) IN
         /\ HasTask(machine, id) => \E t \in tasks : t.id = id
         /\ HasTimer(machine, id) => id \in timers

(* An action never has two sessions that nobody told to stop: a phase is    *)
(* dispatched once, and a new visit only begins after the exit that ended   *)
(* the last one was cancelled (performRunEffects, case "cancel").           *)
OneSessionPerAction ==
  \A t, u \in tasks :
    t.id.at = u.id.at /\ t.kind # "guard" /\ u.kind # "guard" /\ ~t.told /\ ~u.told
      => t = u

(* A machine that has heard of every append agrees with the log on what is  *)
(* active and what is pending, whichever of its own appends and of the user *)
(* responses it heard of first.                                             *)
MachineCatchesUp ==
  loop = "ready" /\ ~draining /\ (\A i \in DOMAIN queue : queue[i].kind # "ack") =>
    /\ machine.leaves = durable.leaves
    /\ machine.gates = durable.gates
    /\ \A s \in State : machine.pending[s] = durable.pending[s]

(* Whatever is pending in the log is at an active leaf and belongs to that  *)
(* leaf's latest visit: no exit, join or late record leaves work behind.    *)
PendingIsActive ==
  \A s \in Working(durable) :
    s \in durable.leaves /\ durable.pending[s].visit = durable.visits[s]

(* The interactions a host may answer are exactly the opened ones of        *)
(* pending user actions: none outlives its visit (exitAndEnter,             *)
(* removePendingAction), none is lost, until the run fails.                 *)
GatesArePending ==
  ~durable.failed =>
    durable.gates =
      {[seq |-> durable.pending[s].gate, at |-> s] :
         s \in {t \in State : durable.pending[t].gate # 0}}

(* From beginDrain on nothing starts: no session, no process and no new      *)
(* piece of work, no deadline, no batch; and the machine is told nothing,   *)
(* whatever executors report and whatever append is still to be             *)
(* acknowledged (runEffects, send, performRunEffects after its append).     *)
QuietAfterDrain ==
  [][draining /\ draining' =>
       /\ \A t \in tasks' : \E u \in tasks :
            u.id = t.id /\ u.kind = t.kind /\ (t.stage = "live" => u.stage = "live")
       /\ timers' = {}
       /\ Len(queue') <= Len(queue) /\ buffer' = <<>>
       /\ loop' = "busy" => loop = "busy"]_vars

(* A visit cannot be retried forever: each retry the log takes uses up some *)
(* of the budget of its two policies, although a restart in either scope    *)
(* grants the nudges of both again (applyActionRetry).                      *)
Budget(p, s) ==
  LET q == p.pending[s] IN
  ((Restart["general"] - q.restarts["general"])
     + (Restart["validation"] - q.restarts["validation"]))
       * (Nudge["general"] + Nudge["validation"] + 1)
  + (Nudge["general"] - q.nudges["general"])
  + (Nudge["validation"] - q.nudges["validation"])

RetriedIn(s) ==
  /\ durable'.pending[s].phase = "running"
  /\ durable'.pending[s].visit = durable.pending[s].visit
  /\ durable'.pending[s].seq # durable.pending[s].seq

RecoveryRunsOut ==
  [][\A s \in State : RetriedIn(s) =>
       Budget(durable', s) \in 0 .. (Budget(durable, s) - 1)]_vars

(* A run comes to rest: it ends, its runner is gone, or an interaction      *)
(* waits for its user.                                                      *)
Settles ==
  <>[](loop \in Ended \cup {"down"} \/ (Idle /\ durable.gates # {}))

-----------------------------------------------------------------------------
(***************************************************************************)
(* What the repository says of itself, and the code does not do.           *)
(***************************************************************************)

(* "First durable fact of global fail-fast. No successor state may start    *)
(* after this record." (core/durable_events.ts, FailureIntentLog)           *)
NoStartAfterFailure ==
  [][durable.failed => durable'.visits = durable.visits]_vars

(* "Hyperchart cancels running actions in every abandoned region."          *)
(* (docs/composition.md): when the loop is idle, no agent or script of a    *)
(* phase that is over runs on.                                              *)
ExitedWorkIsCancelled ==
  Idle => \A t \in tasks :
    t.kind \in {"agent", "script"} /\ t.stage = "live" => Current(machine, t.id, "running")
=============================================================================
