------------------------------ MODULE Branches ------------------------------
(***************************************************************************)
(* The runner controller (runner/runner_main.ts): it admits branches of a  *)
(* run, drains, unloads, settles and moves them, and closes the run.       *)
(*                                                                         *)
(* Everything durable goes through one FIFO of writer steps.  A reserved   *)
(* branch is an entry; an entry keeps its identity after it left `live',   *)
(* because its promises go on running.  An action is a stretch of code     *)
(* without an await, or one writer step.                                   *)
(***************************************************************************)
EXTENDS Naturals, Sequences, FiniteSets

CONSTANTS
  Branch,     \* branches of the journal, durable or still to be forked
  Launch,     \* sequence of the branches the run starts with
  Durable,    \* sets of branches the journal may hold at the start
  Heirs,      \* Heirs[b]: b and the branches forked from it, once they exist
  Entry,      \* the reservations one run may make, 1..n
  Op,         \* operations hosts may ask for: responses and forks
  MaxCalls,   \* bound: calls of hosts, start() not counted, and failures together
  MaxFails    \* bound: replays, builds, operations and disposals that fail

ASSUME BranchesAssumption ==
  /\ Launch \in Seq(Branch) /\ Len(Launch) > 0
  /\ \A i, j \in 1 .. Len(Launch) : Launch[i] = Launch[j] => i = j
  /\ \A D \in Durable : D \subseteq Branch /\ {Launch[i] : i \in 1 .. Len(Launch)} \subseteq D
  /\ Heirs \in [Branch -> SUBSET Branch]
  /\ \A b \in Branch : b \in Heirs[b]
  /\ Entry \subseteq Nat \ {0} /\ 1 .. Len(Launch) \subseteq Entry
  /\ MaxCalls \in Nat /\ MaxFails \in Nat

VARIABLES
  phase,      \* accepting, closing, closed
  started,    \* start() was called
  held,       \* unused, held, released: the one hold a host may take
  known,      \* knownDurableBranches
  live,       \* live[b]: the entry that reserves b, or 0
  admitted,   \* absent, taken, claimed (for a retry), failed (may be retried), broken
  readmit,    \* readmissionRequired
  sealed,     \* sealedBranches
  moving,     \* movingBranches
  entry,      \* entry[e]: the reservation e
  writer,     \* the writer chain: steps still to run
  op,         \* op[o]: where operation o stands
  move,       \* the move at the front of the move chain
  moves,      \* head moves committed
  calls,      \* bounds only
  fails,
  outcomes,   \* some branch has an outcome
  closing     \* how far close() got: no, setups, disposals

host == <<started, held, closing>>
gates == <<known, admitted, readmit, sealed>>
bounds == <<moves, calls, fails>>
vars == <<phase, host, live, gates, moving, entry, writer, op, move, bounds, outcomes>>

Drains == {"stop", "unload"}
SetupStage == {"none", "barrier", "reseal", "replaying", "turn", "building", "activate", "settling", "over"}
DrainStage == {"no", "ready", "check", "setup", "ops", "seal", "dispose", "run", "unseal", "over"}

(* What the controller keeps per reservation (BranchEntry), and how far the *)
(* asynchronous functions that work on it have come.                        *)
Reserved ==
  [branch : Branch, mode : {"unused", "initial", "dynamic", "readmit"},
   setup : SetupStage,                       \* entry.setup, the promise of setting it up
   gate : {"none", "good", "bad"},           \* what replayGate returned
   view : {"none", "current", "behind"},     \* its replay against the log
   ready : BOOLEAN, shut : BOOLEAN,          \* ready.promise, admissionClosed
   draining : BOOLEAN,
   runtime : {"none", "up", "gone", "stuck"},
   run : {"none", "on", "settling", "over"}, \* runEntry
   settle : {"no", "ops", "dispose", "aggregate", "over"},
   outcome : {"none", "complete", "failed"},
   drain : Drains \cup {"no"},               \* whose promise entry.drain is
   at : [Drains -> DrainStage],              \* stopAndDrain and unloadBranch
   spoilt : SUBSET Drains,                   \* drains that saw a rejection
   disposal : {"no", "asked", "done", "failed"}]

Reservation(b, mode) ==
  [branch |-> b, mode |-> mode, setup |-> IF mode = "initial" THEN "none" ELSE "barrier",
   gate |-> "none", view |-> "none", ready |-> FALSE, shut |-> FALSE, draining |-> FALSE,
   runtime |-> "none", run |-> "none", settle |-> "no", outcome |-> "none", drain |-> "no",
   at |-> [d \in Drains |-> "no"], spoilt |-> {}, disposal |-> "no"]

IdleOp == [stage |-> "idle", kind |-> "none", branch |-> Launch[1], target |-> Launch[1], entry |-> 0, awaits |-> 0]
IdleMove == [stage |-> "idle", branch |-> Launch[1], affected |-> {}, kept |-> {}, drains |-> {}]

Used == {e \in Entry : entry[e].mode # "unused"}
LiveEntries == {e \in Used : live[entry[e].branch] = e}
Runnable(e) == phase = "accepting" /\ live[entry[e].branch] = e /\ ~entry[e].draining
Accepting == phase = "accepting"
Pending(o) == op[o].stage \in {"get", "ready", "queued"}
OpsOf(e) == {o \in Op : Pending(o) /\ op[o].entry = e}
Step(kind, who) == [kind |-> kind, who |-> who]
Enqueue(kind, who) == writer' = Append(writer, Step(kind, who))
MayFail == fails < MaxFails /\ calls + fails < MaxCalls /\ fails' = fails + 1 /\ UNCHANGED <<moves, calls>>
Call == calls + fails < MaxCalls /\ calls' = calls + 1 /\ UNCHANGED <<moves, fails>>

(* The initial replay barrier is resolved by the last initial replay, or by *)
(* close().                                                                 *)
Initials == {e \in Used : entry[e].mode = "initial"}
BarrierOpen == closing # "no" \/ \A e \in Initials : entry[e].gate # "none"

(* A function whose promise has settled goes on within microtasks, before a *)
(* replay, the construction of an executor or its disposal can end, and     *)
(* before a call from outside: a request of the control mailbox or a signal. *)
(* A scheduler that waits for an outcome may call startBranch earlier.      *)
IsDue(r, e) ==
  \/ r.setup = "barrier" /\ BarrierOpen
  \/ r.setup = "turn" /\ BarrierOpen /\ \A f \in Initials : f < e => entry[f].setup = "over"
  \/ "settling" \in {r.setup, r.run} /\ r.settle = "over"
  \/ "ops" \in {r.settle, r.at["stop"], r.at["unload"]} /\ OpsOf(e) = {}
  \/ "dispose" \in {r.settle, r.at["stop"], r.at["unload"]} /\ r.disposal \in {"done", "failed"}
  \/ r.disposal = "asked" /\ r.ready /\ r.runtime = "none"
  \/ r.at["unload"] = "ready" /\ r.ready
  \/ \E d \in Drains : r.at[d] = "setup" /\ r.setup \in {"none", "over"}
  \/ \E d \in Drains : r.at[d] = "run" /\ r.run \in {"none", "over"}
NothingDue ==
  /\ \A e \in Used : ~IsDue(entry[e], e)
  /\ \A o \in Op : ~(op[o].stage = "ready" /\ entry[op[o].awaits].ready)
  /\ ~(move.stage = "draining" /\ \A x \in move.drains : entry[x[1]].at[x[2]] = "over")

Launched == {Launch[i] : i \in 1 .. Len(Launch)}

Init ==
  /\ phase = "accepting" /\ started = FALSE /\ held = "unused" /\ closing = "no"
  /\ known \in Durable
  /\ live = [b \in Branch |-> IF b \in Launched THEN CHOOSE i \in 1 .. Len(Launch) : Launch[i] = b ELSE 0]
  /\ admitted = [b \in Branch |-> IF b \in Launched THEN "taken" ELSE "absent"]
  /\ readmit = {} /\ sealed = {} /\ moving = {}
  /\ entry = [e \in Entry |-> IF e <= Len(Launch) THEN Reservation(Launch[e], "initial") ELSE Reservation(Launch[1], "unused")]
  /\ writer = <<>> /\ op = [o \in Op |-> IdleOp] /\ move = IdleMove
  /\ moves = 0 /\ calls = 0 /\ fails = 0 /\ outcomes = FALSE

-----------------------------------------------------------------------------
(* Setting a reservation up. *)

(* settle(): the record of an entry whose outcome is being published.  It  *)
(* returns at once when the entry is not runnable or is being drained.     *)
Settling(r, runnable, outcome) ==
  IF runnable /\ r.drain = "no"
  THEN [r EXCEPT !.shut = TRUE, !.draining = TRUE, !.settle = "ops", !.outcome = outcome]
  ELSE [r EXCEPT !.settle = IF @ = "no" THEN "over" ELSE @]

(* A setup that gives up: readiness is published, then settle(). *)
GivesUp(r, runnable) == [Settling([r EXCEPT !.ready = TRUE], runnable, "failed") EXCEPT !.setup = "settling"]
(* Mutant: a setup that stops does not publish readiness. *)
LeavesUnready(r) == [r EXCEPT !.setup = "over"]
Leaves(r) == [r EXCEPT !.ready = TRUE, !.setup = "over"]
Runs(r) == [r EXCEPT !.runtime = "up", !.run = "on", !.ready = TRUE, !.setup = "over"]

(* start(); a host that asked for a move before waits for it. *)
Start ==
  /\ ~started /\ move.stage = "idle" /\ started' = TRUE
  /\ entry' = IF Accepting THEN [e \in Entry |-> IF e \in Initials THEN [entry[e] EXCEPT !.setup = "replaying"] ELSE entry[e]]
              ELSE entry
  /\ UNCHANGED <<phase, held, closing, live, gates, moving, writer, op, move, bounds, outcomes>>

PassBarrier(e) ==
  /\ entry[e].setup = "barrier" /\ BarrierOpen
  /\ IF entry[e].mode = "readmit"
     THEN entry' = [entry EXCEPT ![e].setup = "reseal"] /\ Enqueue("reseal", e)
     ELSE /\ entry' = [entry EXCEPT ![e] = IF Runnable(e) THEN [@ EXCEPT !.setup = "replaying"] ELSE Leaves(@)]
          /\ UNCHANGED writer
  /\ UNCHANGED <<phase, host, live, gates, moving, op, move, bounds, outcomes>>

(* replayGate takes its snapshot of the branch first. *)
Snapshot(e) ==
  /\ entry[e].setup = "replaying" /\ entry[e].view = "none" /\ NothingDue
  /\ entry' = [entry EXCEPT ![e].view = "current"]
  /\ UNCHANGED <<phase, host, live, gates, moving, writer, op, move, bounds, outcomes>>

Gated(r, runnable) ==
  IF r.mode # "readmit" /\ ~runnable THEN Leaves(r)
  ELSE IF r.gate = "bad" THEN GivesUp(r, runnable)
  ELSE [r EXCEPT !.setup = "building"]

Replayed(e) ==
  /\ entry[e].setup = "replaying" /\ entry[e].view # "none" /\ NothingDue
  /\ \E g \in {"good", "bad"} :
       /\ IF g = "bad" THEN MayFail ELSE UNCHANGED bounds
       /\ entry' = [entry EXCEPT ![e] =
            LET r == [@ EXCEPT !.gate = g] IN
            IF r.mode = "initial" THEN [r EXCEPT !.setup = "turn"] ELSE Gated(r, Runnable(e))]
  /\ UNCHANGED <<phase, host, live, gates, moving, writer, op, move, outcomes>>

(* Initial branches are set up one after the other. *)
TakeTurn(e) ==
  /\ entry[e].setup = "turn" /\ BarrierOpen
  /\ \A f \in Initials : f < e => entry[f].setup = "over"
  /\ entry' = [entry EXCEPT ![e] = Gated(@, Runnable(e))]
  /\ UNCHANGED <<phase, host, live, gates, moving, writer, op, move, bounds, outcomes>>

(* The workspace is materialized and the executor built; an executor built *)
(* for an entry that is no longer runnable is disposed of at once.         *)
Built(e) ==
  /\ entry[e].setup = "building" /\ NothingDue
  /\ \/ /\ MayFail
        /\ entry' = [entry EXCEPT ![e] = IF Runnable(e) THEN GivesUp(@, TRUE) ELSE Leaves(@)]
        /\ UNCHANGED writer
     \/ /\ ~Runnable(e)
        /\ entry' = [entry EXCEPT ![e] = Leaves(@)]
        /\ UNCHANGED <<bounds, writer>>
     \/ /\ Runnable(e) /\ entry[e].mode # "readmit"
        /\ entry' = [entry EXCEPT ![e] = Runs(@)]
        /\ UNCHANGED <<bounds, writer>>
     \/ /\ Runnable(e) /\ entry[e].mode = "readmit"
        /\ entry' = [entry EXCEPT ![e].setup = "activate"] /\ Enqueue("activate", e)
        /\ UNCHANGED bounds
  /\ UNCHANGED <<phase, host, live, gates, moving, op, move, outcomes>>

(* The setup promise settles when the settle() it called returns. *)
SetupReturns(e) ==
  /\ entry[e].setup = "settling" /\ entry[e].settle = "over"
  /\ entry' = [entry EXCEPT ![e].setup = "over"]
  /\ UNCHANGED <<phase, host, live, gates, moving, writer, op, move, bounds, outcomes>>

-----------------------------------------------------------------------------
(* The run of a branch, its settlement and its disposal. *)

(* runEntry: the loop ended, was told to quiesce, or threw (an append that *)
(* met a seal throws too).                                                 *)
RunEnds(e) ==
  /\ entry[e].run = "on"
  /\ \E outcome \in {"complete", "failed"} :
       entry' = [entry EXCEPT ![e] = [Settling(@, Runnable(e), outcome) EXCEPT !.run = "settling"]]
  /\ UNCHANGED <<phase, host, live, gates, moving, writer, op, move, bounds, outcomes>>

RunReturns(e) ==
  /\ entry[e].run = "settling" /\ entry[e].settle = "over"
  /\ entry' = [entry EXCEPT ![e].run = "over"]
  /\ UNCHANGED <<phase, host, live, gates, moving, writer, op, move, bounds, outcomes>>

Asked(r) == [r EXCEPT !.disposal = IF @ = "no" THEN "asked" ELSE @]

SettleOps(e) ==
  /\ entry[e].settle = "ops" /\ OpsOf(e) = {}
  /\ entry' = [entry EXCEPT ![e] = [Asked(@) EXCEPT !.settle = "dispose"]]
  /\ UNCHANGED <<phase, host, live, gates, moving, writer, op, move, bounds, outcomes>>

(* disposeEntry waits for readiness and disposes once, whoever asks. *)
Dispose(e) ==
  /\ entry[e].disposal = "asked" /\ entry[e].ready /\ (entry[e].runtime = "up" => NothingDue)
  /\ \E failed \in BOOLEAN :
       /\ IF failed THEN entry[e].runtime = "up" /\ MayFail ELSE UNCHANGED bounds
       /\ entry' = [entry EXCEPT ![e].disposal = IF failed THEN "failed" ELSE "done",
                                 ![e].runtime = CASE failed -> "stuck" [] ~failed /\ @ = "up" -> "gone" [] OTHER -> @]
  /\ UNCHANGED <<phase, host, live, gates, moving, writer, op, move, outcomes>>

(* finishIfDrained(), with the values its caller has just set. *)
ClosesWhenDrained(newLive, newHeld, some) ==
  phase' = IF /\ Accepting /\ some /\ moving = {} /\ newHeld # "held"
              /\ \A b \in Branch : newLive[b] = 0
           THEN "closing" ELSE phase

(* The outcome of a settled entry: a disposal that failed makes it failed, *)
(* without a cause.  The last live branch closes the run.                  *)
Settled(e) ==
  LET b == entry[e].branch
      outcome == IF entry[e].disposal = "failed" THEN "failed" ELSE entry[e].outcome
      newLive == [live EXCEPT ![b] = 0]
      last == held # "held" /\ \A c \in Branch : newLive[c] = 0
  IN
  /\ entry[e].settle = "dispose" /\ entry[e].disposal \in {"done", "failed"}
  /\ IF ~Accepting \/ live[b] # e
     THEN /\ entry' = [entry EXCEPT ![e].settle = "over"]
          /\ UNCHANGED <<phase, live, admitted, outcomes>>
     ELSE /\ entry' = [entry EXCEPT ![e].settle = IF last THEN "aggregate" ELSE "over", ![e].outcome = outcome]
          /\ live' = newLive /\ outcomes' = TRUE
          /\ admitted' = [admitted EXCEPT ![b] = IF outcome = "failed" THEN "failed" ELSE @]
          /\ phase' = IF last THEN "closing" ELSE phase
  /\ UNCHANGED <<host, known, readmit, sealed, moving, writer, op, move, bounds>>

-----------------------------------------------------------------------------
(* Draining: stopAndDrain, unloadBranch and drainEntry. *)

Draining(r, d) ==
  [r EXCEPT !.shut = TRUE, !.drain = d, !.at[d] = "setup", !.draining = @ \/ r.runtime # "none"]

(* stopAndDrain(): entry[e] is live; a drain already under way is shared. *)
Stopped(r) == IF r.drain = "no" THEN Draining(r, "stop") ELSE r
DrainOf(r) == IF r.drain = "no" THEN "stop" ELSE r.drain

StopAndDrain(b) ==
  /\ Call /\ NothingDue
  /\ Accepting /\ started /\ live[b] # 0 /\ entry[live[b]].drain = "no"
  /\ entry' = [entry EXCEPT ![live[b]] = Stopped(@)]
  /\ UNCHANGED <<phase, host, live, gates, moving, writer, op, move, outcomes>>

(* unloadBranch(): the drain is stored only after the idle check, whatever *)
(* was stored in between.                                                  *)
Unload(b) ==
  /\ Call /\ NothingDue
  /\ Accepting /\ started /\ live[b] # 0
  /\ entry[live[b]].drain = "no" /\ entry[live[b]].at["unload"] = "no"
  /\ entry' = [entry EXCEPT ![live[b]].shut = TRUE, ![live[b]].at["unload"] = "ready"]
  /\ UNCHANGED <<phase, host, live, gates, moving, writer, op, move, outcomes>>

UnloadReady(e) ==
  /\ entry[e].at["unload"] = "ready" /\ entry[e].ready
  /\ entry' = [entry EXCEPT ![e].at["unload"] = "check"] /\ Enqueue("idle", e)
  /\ UNCHANGED <<phase, host, live, gates, moving, op, move, bounds, outcomes>>

DrainsSetup(e, d) ==
  /\ entry[e].at[d] = "setup" /\ entry[e].setup \in {"none", "over"}
  /\ entry' = [entry EXCEPT ![e].at[d] = "ops", ![e].draining = TRUE]
  /\ UNCHANGED <<phase, host, live, gates, moving, writer, op, move, bounds, outcomes>>

DrainsOps(e, d) ==
  /\ entry[e].at[d] = "ops" /\ OpsOf(e) = {}
  /\ entry' = [entry EXCEPT ![e].at[d] = "seal"] /\ Enqueue(d, e)
  /\ UNCHANGED <<phase, host, live, gates, moving, op, move, bounds, outcomes>>

(* Mutant: the drain does not wait for the disposal it asked for. *)
DrainsOverRuntime(e, d) ==
  /\ entry[e].at[d] = "dispose"
  /\ entry' = [entry EXCEPT ![e].at[d] = "run"]
  /\ UNCHANGED <<phase, host, live, gates, moving, writer, op, move, bounds, outcomes>>

DrainsRuntime(e, d) ==
  /\ entry[e].at[d] = "dispose" /\ entry[e].disposal \in {"done", "failed"}
  /\ entry' = [entry EXCEPT ![e].at[d] = "run", ![e].spoilt = IF entry[e].disposal = "failed" THEN @ \cup {d} ELSE @]
  /\ UNCHANGED <<phase, host, live, gates, moving, writer, op, move, bounds, outcomes>>

(* Mutant: a drained branch is not marked for readmission. *)
DrainOverForgets(e, d) ==
  LET b == entry[e].branch
      newLive == [live EXCEPT ![b] = 0]
  IN
  /\ entry' = [entry EXCEPT ![e].at[d] = "over"] /\ UNCHANGED readmit
  /\ IF live[b] = e
     THEN /\ live' = newLive /\ outcomes' = TRUE
          /\ admitted' = [admitted EXCEPT ![b] = IF d \in entry[e].spoilt THEN "broken" ELSE "absent"]
          /\ ClosesWhenDrained(newLive, held, TRUE)
     ELSE UNCHANGED <<phase, live, outcomes, admitted>>

(* What is left of drainEntry once the drain has an outcome. *)
DrainOver(e, d) ==
  LET b == entry[e].branch
      newLive == [live EXCEPT ![b] = 0]
  IN
  /\ entry' = [entry EXCEPT ![e].at[d] = "over"]
  /\ IF live[b] = e
     THEN /\ live' = newLive /\ outcomes' = TRUE
          /\ IF d \in entry[e].spoilt
             THEN admitted' = [admitted EXCEPT ![b] = "broken"] /\ UNCHANGED readmit
             ELSE admitted' = [admitted EXCEPT ![b] = "absent"] /\ readmit' = readmit \cup {b}
          /\ ClosesWhenDrained(newLive, held, TRUE)
     ELSE UNCHANGED <<phase, live, outcomes, admitted, readmit>>

DrainsRun(e, d) ==
  /\ entry[e].at[d] = "run" /\ entry[e].run \in {"none", "over"}
  /\ IF d = "unload" /\ d \notin entry[e].spoilt
     THEN /\ entry' = [entry EXCEPT ![e].at[d] = "unseal"] /\ Enqueue("unseal", e)
          /\ UNCHANGED <<phase, live, admitted, readmit, outcomes>>
     ELSE DrainOver(e, d) /\ UNCHANGED writer
  /\ UNCHANGED <<host, known, sealed, moving, op, move, bounds>>

-----------------------------------------------------------------------------
(* Admission of a durable branch. *)

(* Mutant: the branch is live under an entry that was never made. *)
ReserveNothing(b, mode) ==
  /\ \E e \in Entry :
       /\ e \notin Used /\ \A f \in Entry : f < e => f \in Used
       /\ live' = [live EXCEPT ![b] = e]
  /\ admitted' = [admitted EXCEPT ![b] = "taken"] /\ UNCHANGED entry

Reserve(b, mode) ==
  /\ \E e \in Entry :
       /\ e \notin Used /\ \A f \in Entry : f < e => f \in Used
       /\ entry' = [entry EXCEPT ![e] = Reservation(b, mode)]
       /\ live' = [live EXCEPT ![b] = e]
  /\ admitted' = [admitted EXCEPT ![b] = "taken"]

StartBranch(b) ==
  /\ Call
  /\ Accepting /\ started /\ admitted[b] = "absent" /\ b \in known
  /\ b \notin moving /\ (b \in sealed => b \in readmit)
  /\ Reserve(b, IF b \in readmit THEN "readmit" ELSE "dynamic")
  /\ UNCHANGED <<phase, host, known, readmit, sealed, moving, writer, op, move, outcomes>>

(* A failed admission is claimed before its log is read for a failure ... *)
ClaimFailed(b) ==
  /\ Call
  /\ Accepting /\ started /\ admitted[b] = "failed" /\ b \in known
  /\ admitted' = [admitted EXCEPT ![b] = "claimed"]
  /\ UNCHANGED <<phase, host, live, known, readmit, sealed, moving, entry, writer, op, move, outcomes>>

(* ... which either gives it back or readmits it. *)
Reconsider(b) ==
  /\ admitted[b] = "claimed" /\ NothingDue
  /\ \/ /\ admitted' = [admitted EXCEPT ![b] = "failed"]
        /\ UNCHANGED <<live, entry, readmit>>
     \/ /\ Accepting /\ readmit' = readmit \cup {b}
        /\ IF b \in moving
           THEN admitted' = [admitted EXCEPT ![b] = "absent"] /\ UNCHANGED <<live, entry>>
           ELSE Reserve(b, "readmit")
  /\ UNCHANGED <<phase, host, known, sealed, moving, writer, op, move, bounds, outcomes>>

-----------------------------------------------------------------------------
(* Operations of hosts. *)

Admits(b) == b \notin sealed /\ (live[b] # 0 => ~entry[live[b]].shut)

Respond(o, b) ==
  /\ Call /\ NothingDue
  /\ op[o].stage = "idle" /\ Accepting /\ b \in known /\ Admits(b)
  /\ op' = [op EXCEPT ![o] = [@ EXCEPT !.stage = "get", !.kind = "respond", !.branch = b, !.entry = live[b]]]
  /\ UNCHANGED <<phase, host, live, gates, moving, entry, writer, move, outcomes>>

Fork(o, b, new) ==
  /\ Call /\ NothingDue
  /\ op[o].stage = "idle" /\ Accepting /\ b \in known /\ Admits(b) /\ new \in Heirs[b] \ {b}
  /\ op' = [op EXCEPT ![o] = [@ EXCEPT !.stage = "queued", !.kind = "fork", !.branch = b, !.target = new, !.entry = live[b]]]
  /\ Enqueue("op", o)
  /\ UNCHANGED <<phase, host, live, gates, moving, entry, move, outcomes>>

(* An operation that rejects spoils the drains and the settlement that are *)
(* waiting for it.                                                         *)
Rejected(r) ==
  [r EXCEPT !.spoilt = @ \cup {d \in Drains : r.at[d] = "ops"},
            !.outcome = IF r.settle = "ops" THEN "failed" ELSE @]
OpFails(o) ==
  /\ op' = [op EXCEPT ![o].stage = "over"]
  /\ entry' = [e \in Entry |-> IF e = op[o].entry THEN Rejected(entry[e]) ELSE entry[e]]

(* awaitLiveBranchReadiness, once getBranch has answered *)
SetupReserved(r) == r.setup \in {"none", "barrier", "reseal"}
OpLooks(o) ==
  LET l == live[op[o].branch] IN
  /\ op[o].stage = "get"
  /\ IF l = 0 \/ SetupReserved(entry[l])
     THEN op' = [op EXCEPT ![o].stage = "queued"] /\ Enqueue("op", o)
     ELSE op' = [op EXCEPT ![o].stage = "ready", ![o].awaits = l] /\ UNCHANGED writer
  /\ UNCHANGED <<phase, host, live, gates, moving, entry, move, bounds, outcomes>>

OpReady(o) ==
  LET l == op[o].awaits IN
  /\ op[o].stage = "ready" /\ entry[l].ready
  /\ IF live[op[o].branch] = l /\ entry[l].runtime # "none"
     THEN op' = [op EXCEPT ![o].stage = "queued"] /\ Enqueue("op", o) /\ UNCHANGED entry
     ELSE OpFails(o) /\ UNCHANGED writer
  /\ UNCHANGED <<phase, host, live, gates, moving, move, bounds, outcomes>>

-----------------------------------------------------------------------------
(* Moving a branch head. *)

Subtree(b) == Heirs[b] \cap known

Move(b) ==
  /\ Call /\ NothingDue
  /\ Accepting /\ move.stage = "idle" /\ b \in known
  /\ move' = [IdleMove EXCEPT !.stage = "sealing", !.branch = b] /\ Enqueue("moveSeal", 0)
  /\ UNCHANGED <<phase, host, live, gates, moving, entry, op, outcomes>>

Drained(x) == entry[x[1]].at[x[2]] = "over"
(* Mutant: the first drain that ends lets the move go on. *)
MoveHurried ==
  /\ move.stage = "draining" /\ \E x \in move.drains : Drained(x)
  /\ move' = [move EXCEPT !.stage = "committing"] /\ Enqueue("moveHead", 0)
  /\ UNCHANGED <<phase, host, live, gates, moving, entry, op, bounds, outcomes>>

MoveDrained ==
  /\ move.stage = "draining" /\ \A x \in move.drains : Drained(x)
  /\ IF \E x \in move.drains : x[2] \in entry[x[1]].spoilt
     THEN move' = [move EXCEPT !.stage = "ending"] /\ Enqueue("moveEnd", 0)
     ELSE move' = [move EXCEPT !.stage = "committing"] /\ Enqueue("moveHead", 0)
  /\ UNCHANGED <<phase, host, live, gates, moving, entry, op, bounds, outcomes>>

-----------------------------------------------------------------------------
(* The writer chain runs its steps one at a time, in order. *)

First == Head(writer)
Takes(kind) == writer # <<>> /\ First.kind = kind /\ writer' = Tail(writer)

DrainSeals ==
  \E d \in Drains :
    /\ Takes(d) /\ sealed' = sealed \cup {entry[First.who].branch}
    /\ entry' = [entry EXCEPT ![First.who] = [Asked(@) EXCEPT !.at[d] = "dispose"]]
    /\ UNCHANGED <<phase, host, live, known, admitted, readmit, moving, op, move, bounds, outcomes>>

UnloadUnseals ==
  /\ Takes("unseal") /\ sealed' = sealed \ {entry[First.who].branch}
  /\ DrainOver(First.who, "unload")
  /\ UNCHANGED <<host, known, moving, op, move, bounds>>

Reseal ==
  /\ Takes("reseal") /\ sealed' = sealed \cup {entry[First.who].branch}
  /\ entry' = [entry EXCEPT ![First.who] =
       IF Runnable(First.who) THEN [@ EXCEPT !.setup = "replaying"] ELSE Leaves(@)]
  /\ UNCHANGED <<phase, host, live, known, admitted, readmit, moving, op, move, bounds, outcomes>>

(* Mutant: a readmitted branch runs under its seal. *)
ActivateSealed ==
  /\ Takes("activate") /\ Runnable(First.who) /\ entry[First.who].branch \notin moving
  /\ entry' = [entry EXCEPT ![First.who] = Runs(@)]
  /\ readmit' = readmit \ {entry[First.who].branch}
  /\ UNCHANGED <<phase, host, live, known, admitted, sealed, moving, op, move, bounds, outcomes>>

(* The runtime of a readmitted branch is installed and the seal removed in *)
(* one step, unless the branch was moved meanwhile.                        *)
Activate ==
  LET e == First.who
      b == entry[e].branch
  IN
  /\ Takes("activate")
  /\ CASE ~Runnable(e) \/ b \in moving ->
            entry' = [entry EXCEPT ![e] = Leaves(@)] /\ UNCHANGED <<readmit, sealed>>
       [] Runnable(e) /\ b \notin moving /\ entry[e].view = "behind" ->
            entry' = [entry EXCEPT ![e] = GivesUp(@, TRUE)] /\ UNCHANGED <<readmit, sealed>>
       [] OTHER ->
            /\ entry' = [entry EXCEPT ![e] = Runs(@)]
            /\ readmit' = readmit \ {b} /\ sealed' = sealed \ {b}
  /\ UNCHANGED <<phase, host, live, known, admitted, moving, op, move, bounds, outcomes>>

(* A branch can be unloaded while it waits for a user. *)
UnloadChecks ==
  LET e == First.who IN
  /\ Takes("idle")
  /\ \/ entry' = [entry EXCEPT ![e].shut = FALSE, ![e].at["unload"] = "no"]
     \/ /\ live[entry[e].branch] = e /\ entry[e].setup \in {"building", "activate", "settling", "over"}
        /\ entry[e].gate = "good"
        /\ entry' = [entry EXCEPT ![e] = [Draining(@, "unload") EXCEPT !.draining = TRUE, !.shut = entry[e].shut]]
  /\ UNCHANGED <<phase, host, live, gates, moving, op, move, bounds, outcomes>>

(* A response misses the replay of an entry that has taken its snapshot but *)
(* not yet kept the restored execution; one that has is brought up to date, *)
(* and a runtime is told.                                                   *)
Missed(r) == IF r.setup \in {"replaying", "turn"} /\ r.view = "current" THEN [r EXCEPT !.view = "behind"] ELSE r

OpRuns ==
  LET o == First.who
      b == op[o].branch
      touched == IF op[o].kind = "fork" THEN {b, op[o].target} ELSE {b}
  IN
  /\ Takes("op")
  /\ \/ /\ \/ touched \cap sealed # {} /\ UNCHANGED bounds
           \/ op[o].kind = "fork" /\ op[o].target \in known /\ UNCHANGED bounds
           \/ MayFail
        /\ OpFails(o) /\ UNCHANGED known
     \/ /\ touched \cap sealed = {} /\ op' = [op EXCEPT ![o].stage = "over"]
        /\ \/ /\ op[o].kind = "respond" /\ UNCHANGED known
              /\ entry' = [e \in Entry |-> IF e = live[b] THEN Missed(entry[e]) ELSE entry[e]]
           \/ /\ op[o].kind = "fork" /\ op[o].target \notin known
              /\ known' = known \cup {op[o].target} /\ UNCHANGED entry
        /\ UNCHANGED bounds
  /\ UNCHANGED <<phase, host, live, admitted, readmit, sealed, moving, move, outcomes>>

(* performBranchMove: the subtree is sealed in one step and its live       *)
(* branches are stopped before the next.                                   *)
MoveSeals ==
  LET subtree == Subtree(move.branch)
      stopped == {live[b] : b \in {c \in subtree : live[c] # 0}}
      sealing == [move EXCEPT !.affected = subtree, !.kept = subtree \cap sealed]
  IN
  /\ writer # <<>> /\ First.kind = "moveSeal"
  /\ sealed' = sealed \cup subtree /\ moving' = moving \cup subtree
  /\ CASE started /\ stopped # {} /\ Accepting ->
            /\ entry' = [e \in Entry |-> IF e \in stopped THEN Stopped(entry[e]) ELSE entry[e]]
            /\ move' = [sealing EXCEPT !.stage = "draining", !.drains = {<<e, DrainOf(entry[e])>> : e \in stopped}]
            /\ writer' = Tail(writer)
       [] started /\ stopped # {} /\ ~Accepting ->
            /\ move' = [sealing EXCEPT !.stage = "ending"]
            /\ writer' = Append(Tail(writer), Step("moveEnd", 0)) /\ UNCHANGED entry
       [] OTHER ->
            /\ move' = [sealing EXCEPT !.stage = "committing"]
            /\ writer' = Append(Tail(writer), Step("moveHead", 0)) /\ UNCHANGED entry
  /\ UNCHANGED <<phase, host, live, known, admitted, readmit, op, bounds, outcomes>>

MoveHead ==
  /\ writer # <<>> /\ First.kind = "moveHead"
  /\ \/ /\ moves' = moves + 1 /\ UNCHANGED <<calls, fails>>
        /\ entry' = [e \in Entry |-> IF e = live[move.branch] /\ entry[e].view = "current"
                                     THEN [entry[e] EXCEPT !.view = "behind"] ELSE entry[e]]
     \/ MayFail /\ UNCHANGED entry
  /\ move' = [move EXCEPT !.stage = "ending"]
  /\ writer' = Append(Tail(writer), Step("moveEnd", 0))
  /\ UNCHANGED <<phase, host, live, gates, moving, op, outcomes>>

MoveEnds ==
  /\ Takes("moveEnd")
  /\ moving' = moving \ move.affected /\ sealed' = sealed \ (move.affected \ move.kept)
  /\ move' = IdleMove
  /\ UNCHANGED <<phase, host, live, known, admitted, readmit, entry, op, bounds, outcomes>>

-----------------------------------------------------------------------------
(* The end of the run. *)

(* acquireHold(); hosts that hold a run do so before they start it. *)
AcquireHold ==
  /\ Call
  /\ Accepting /\ ~started /\ held = "unused" /\ held' = "held"
  /\ UNCHANGED <<phase, started, closing, live, gates, moving, entry, writer, op, move, outcomes>>

ReleaseHold ==
  /\ held = "held" /\ held' = "released"
  /\ ClosesWhenDrained(live, "released", outcomes)
  /\ UNCHANGED <<started, closing, live, gates, moving, entry, writer, op, move, bounds, outcomes>>

(* finishAggregate publishes the outcome of the run. *)
FinishAggregate ==
  /\ phase = "closing" /\ closing = "no" /\ phase' = "closed"
  /\ entry' = [e \in Entry |-> IF entry[e].settle = "aggregate"
                               THEN [entry[e] EXCEPT !.settle = "over"] ELSE entry[e]]
  /\ UNCHANGED <<host, live, gates, moving, writer, op, move, bounds, outcomes>>

(* close(): on SIGTERM, SIGINT or stop(). *)
Close ==
  /\ Call /\ NothingDue
  /\ Accepting /\ phase' = "closing" /\ closing' = "setups" /\ held' = "released"
  /\ entry' = [e \in Entry |-> IF e \in LiveEntries
       THEN [entry[e] EXCEPT !.shut = TRUE, !.draining = TRUE, !.ready = @ \/ SetupReserved(entry[e])] ELSE entry[e]]
  /\ UNCHANGED <<started, live, gates, moving, writer, op, move, outcomes>>

CloseSettles ==
  /\ closing = "setups"
  /\ \A e \in LiveEntries : entry[e].setup \in {"none", "over"} /\ OpsOf(e) = {}
  /\ closing' = "disposals"
  /\ entry' = [e \in Entry |-> IF e \in LiveEntries THEN Asked(entry[e]) ELSE entry[e]]
  /\ UNCHANGED <<phase, started, held, live, gates, moving, writer, op, move, bounds, outcomes>>

Closed ==
  /\ closing = "disposals" /\ phase = "closing"
  /\ \A e \in LiveEntries : entry[e].disposal \in {"done", "failed"}
  /\ phase' = "closed" /\ live' = [b \in Branch |-> 0]
  /\ UNCHANGED <<host, gates, moving, entry, writer, op, move, bounds, outcomes>>

-----------------------------------------------------------------------------
WriterStep == DrainSeals \/ UnloadUnseals \/ Reseal \/ Activate \/ UnloadChecks \/ OpRuns \/ MoveSeals \/ MoveHead \/ MoveEnds

(* What the functions of an entry go on with once their await is over. *)
Continue(e) ==
  \/ PassBarrier(e) \/ Snapshot(e) \/ Replayed(e) \/ TakeTurn(e) \/ Built(e) \/ SetupReturns(e)
  \/ RunReturns(e) \/ SettleOps(e) \/ Dispose(e) \/ Settled(e) \/ UnloadReady(e)
  \/ \E d \in Drains : DrainsSetup(e, d) \/ DrainsOps(e, d) \/ DrainsRuntime(e, d) \/ DrainsRun(e, d)

HostCalls ==
  \/ Start \/ AcquireHold \/ ReleaseHold \/ Close
  \/ \E b \in Branch :
       \/ StopAndDrain(b) \/ Unload(b) \/ StartBranch(b) \/ ClaimFailed(b) \/ Move(b)
       \/ \E o \in Op : Respond(o, b) \/ \E new \in Branch : Fork(o, b, new)

Next ==
  \/ HostCalls \/ WriterStep \/ MoveDrained \/ FinishAggregate \/ CloseSettles \/ Closed
  \/ \E b \in Branch : Reconsider(b)
  \/ \E o \in Op : OpLooks(o) \/ OpReady(o)
  \/ \E e \in Used : RunEnds(e) \/ Continue(e)

Spec == Init /\ [][Next]_vars

Typed ==
  /\ phase \in {"accepting", "closing", "closed"} /\ started \in BOOLEAN
  /\ held \in {"unused", "held", "released"} /\ closing \in {"no", "setups", "disposals"}
  /\ known \subseteq Branch /\ readmit \subseteq Branch /\ sealed \subseteq Branch /\ moving \subseteq Branch
  /\ live \in [Branch -> Entry \cup {0}]
  /\ admitted \in [Branch -> {"absent", "taken", "claimed", "failed", "broken"}]
  /\ entry \in [Entry -> Reserved]
  /\ moves \in Nat /\ calls \in Nat /\ fails \in Nat /\ outcomes \in BOOLEAN

(* Types, and every reservation that is live is one of that branch. *)
TypeOK == Typed /\ \A b \in Branch : live[b] # 0 => live[b] \in Used /\ entry[live[b]].branch = b

-----------------------------------------------------------------------------
(* A runtime has one owner, and heads move under nobody: the controller     *)
(* implements BranchOwnership, through drains, unloads, settlements and     *)
(* moves that overlap.  (startBranch, setupReadmittedEntry,                 *)
(* performBranchMove, drainEntry)                                           *)
Ownership == INSTANCE BranchOwnership WITH
  working <- {<<e, entry[e].branch>> : e \in {f \in Used : entry[f].runtime = "up"}},
  fenced <- moving, moved <- moves
BranchesAreOwned == Ownership!Spec

(* A branch leaves the run only when its runtime has been disposed of, and  *)
(* a closed run has no branch left: whoever gets an outcome, from a drain,  *)
(* a settlement or close(), may start the branch elsewhere.                 *)
LeavesDisposed ==
  /\ \A e \in Used \ LiveEntries : entry[e].runtime # "up"
  /\ phase = "closed" => LiveEntries = {}

(* A branch whose promises have all settled is not left sealed without the  *)
(* mark that lets startBranch lift the seal: seals are set and removed by   *)
(* drains, unloads, readmissions and moves that overlap.                    *)
AtRest(b) ==
  /\ live[b] = 0 /\ b \notin moving
  /\ \A e \in Used : entry[e].branch = b => \A d \in Drains : entry[e].at[d] \in {"no", "over"}
SealsCanBeLifted ==
  \A b \in Branch : AtRest(b) /\ Accepting /\ b \in sealed /\ admitted[b] = "absent" => b \in readmit

(* A runtime is told to drain before its branch is sealed, and a readmitted *)
(* one is installed as the seal goes (docs/api/runtime.md): one nobody      *)
(* drains is never refused an append.                                       *)
Sealed(e) ==
  /\ Accepting /\ entry[e].runtime = "up" /\ entry[e].drain = "no"
  /\ entry[e].branch \in sealed
RunningMayAppend == \A e \in LiveEntries : entry[e].settle = "no" => ~Sealed(e)

(* It is refused one at most where an earlier reservation of the branch was *)
(* settled while a drain of it was under way, and its drain seals the       *)
(* branch after the reservation has been replaced (settle, drainEntry).     *)
Kindred(e, f) == f # e /\ entry[f].branch = entry[e].branch
Overtaken(f) == entry[f].outcome # "none" /\ entry[f].drain # "no"
SealedOnlyByOvertaken ==
  \A e \in LiveEntries : Sealed(e) => \E f \in Used : Kindred(e, f) /\ Overtaken(f)

(* The promises of the controller settle: writer steps and continuations    *)
(* run, executors are built and disposed of, and a loop that was told to    *)
(* quiesce ends.  Nothing is assumed of hosts and of loops at work.         *)
Promises ==
  \/ WriterStep \/ MoveDrained \/ FinishAggregate \/ CloseSettles \/ Closed
  \/ \E b \in Branch : Reconsider(b)
  \/ \E o \in Op : OpLooks(o) \/ OpReady(o)
  \/ \E e \in Used : Continue(e) \/ (~Runnable(e) /\ RunEnds(e))
FairSpec == Spec /\ WF_vars(Promises)

(* Drains wait for setups, operations, disposals and runs, moves wait for   *)
(* drains, operations for readiness, close() for all of them: none of them  *)
(* waits for ever.                                                          *)
Answered ==
  /\ \A e \in Entry, d \in Drains : entry[e].at[d] \in {"no", "over"}
  /\ \A o \in Op : ~Pending(o)
  /\ move.stage = "idle" /\ phase # "closing"
CallsReturn == []<>Answered

=============================================================================
