------------------------------- MODULE Outbox -------------------------------
(***************************************************************************)
(* The terminal notice of a run: the request a runner or a recovering host *)
(* writes to the outbox (runtime/generic/terminal_notifications.ts), the   *)
(* run status that makes it deliverable (run_status_model.ts), and the     *)
(* leases by which the processes of one Claude session share its delivery  *)
(* (claude-hyperchart/src/monitor.ts, mcp/tools.ts).                       *)
(*                                                                         *)
(* The processes share files.  An action is what a process does between    *)
(* two awaits, and in a claim between two system calls on the receipt.     *)
(* Reading or patching run status is one action.                           *)
(***************************************************************************)
EXTENDS Naturals, FiniteSets

CONSTANTS
  Host,         \* processes of the session that owns the run
  Waiter,       \* those of them that run a waited call, not the monitor
  None,         \* no receipt
  Confirmed,    \* the receipt of a delivered request
  MaxAttempts,  \* bound: attempts (starts and resumes) of the run
  MaxDeaths,    \* bound: processes that die
  Overlap       \* may an attempt be opened while a host repairs the run?

ASSUME OutboxAssumption ==
  /\ MaxAttempts \in Nat /\ MaxDeaths \in Nat /\ Overlap \in BOOLEAN
  /\ None \notin Host /\ Confirmed \notin Host /\ None # Confirmed
  /\ Host \cap Nat = {} /\ Waiter \subseteq Host

VARIABLES
  status,     \* the run status: state, attempt, pid, and whether the heartbeat is fresh
  starter,    \* the host that starts or resumes the run
  runner,     \* runner[a]: how far the runner of attempt a has come
  verdict,    \* verdict[a]: the outcome it has to publish
  outbox,     \* request.json
  path,       \* whose claim lies at the receipt path of the request in the outbox
  claim,      \* claim[h]: what is left of the claim file h created for it
  host,       \* host[h]: where h stands in its scan
  published,  \* history: <<attempt, outcome>> pairs the status has shown
  notified,   \* history: requests whose notice was sent
  deaths      \* bound only

run == <<status, starter, runner, verdict>>
receipts == <<path, claim>>
history == <<published, notified>>
vars == <<run, outbox, receipts, host, history, deaths>>

Attempt == 1 .. MaxAttempts
Outcome == {"complete", "failed"}
Active == {"starting", "running"}
Status == [state : {"none"} \cup Active \cup Outcome, attempt : 0 .. MaxAttempts,
           pid : 0 .. MaxAttempts, fresh : BOOLEAN]
(* A request names who wrote it: no attempt is written for twice by one process. *)
Request == [by : Host \cup Attempt, attempt : Attempt, outcome : Outcome]
NoRequest == [by |-> 0, attempt |-> 0, outcome |-> "none"]
RunnerStage == {"none", "spawned", "opened", "gating", "running", "persisting", "stamping",
                "publishing", "over", "dead"}
ClaimStage == {"none", "torn", "fresh", "old"}
HostStage == {"idle", "stale", "stamping", "repairing", "claiming", "retrying", "filling",
              "displacing", "comparing", "recreating", "rechecking", "reading", "marking"}
NothingRead == <<None, "none">>
IdleHost == [at |-> "idle", request |-> NoRequest, seen |-> 0,
             prior |-> NothingRead, displaced |-> None]

-----------------------------------------------------------------------------
(* Run status. *)

(* The process of attempt a is up: isPidAlive. *)
Alive(a) == a # 0 /\ runner[a] \notin {"none", "over", "dead"}
(* isRunLive: only ever asked about a starting or running state here. *)
IsLive == Alive(status.pid) \/ status.fresh
Stale == status.state \in Active /\ ~IsLive

(* patchRunStatus with a terminal state. *)
Publish(outcome, pid) ==
  /\ status' = [status EXCEPT !.state = outcome, !.pid = pid, !.fresh = FALSE]
  /\ published' = published \cup {<<status.attempt, outcome>>}

(* Mutant: the request counts as soon as it is in the outbox. *)
DeliverableAtOnce(r) == status.attempt = r.attempt

(* readDeliverableTerminalNotificationRequest: the request counts once the  *)
(* status shows its outcome for its attempt.                                *)
Deliverable(r) == status.state = r.outcome /\ status.attempt = r.attempt

(* Fifteen seconds without a heartbeat.  A host goes from its patch to the  *)
(* pid of the runner, and the runner to its own patch, well within them.    *)
HeartbeatAges ==
  /\ status.fresh /\ status.state \in Active
  /\ starter = "idle" /\ runner[status.attempt] # "spawned"
  /\ status' = [status EXCEPT !.fresh = FALSE]
  /\ UNCHANGED <<starter, runner, verdict, outbox, receipts, host, history, deaths>>

-----------------------------------------------------------------------------
(* Starting and resuming: hyperchart_run, and the runner process. *)

Repairing(h) == host[h].at \in {"stale", "stamping", "repairing"}

(* The host opens an attempt in the status, keeping the pid of the last one. *)
StartOpens ==
  /\ starter = "idle" /\ status.attempt < MaxAttempts
  /\ ~(status.state \in Active /\ IsLive)
  /\ Overlap \/ \A h \in Host : ~Repairing(h)
  /\ status' = [status EXCEPT !.state = "starting", !.attempt = @ + 1, !.fresh = TRUE]
  /\ starter' = "spawning"
  /\ UNCHANGED <<runner, verdict, outbox, receipts, host, history, deaths>>

StartSpawns ==
  /\ starter = "spawning"
  /\ starter' = "recording"
  /\ runner' = [runner EXCEPT ![status.attempt] = "spawned"]
  /\ UNCHANGED <<status, verdict, outbox, receipts, host, history, deaths>>

(* The pid goes into the status whatever the runner wrote there meanwhile. *)
StartRecordsPid ==
  /\ starter = "recording"
  /\ starter' = "idle"
  /\ status' = [status EXCEPT !.pid = status.attempt, !.fresh = TRUE]
  /\ UNCHANGED <<runner, verdict, outbox, receipts, host, history, deaths>>

StarterDies ==
  /\ starter # "idle" /\ deaths < MaxDeaths
  /\ starter' = "idle" /\ deaths' = deaths + 1
  /\ UNCHANGED <<status, runner, verdict, outbox, receipts, host, history>>

(* Moving runner a from one stage to the next. *)
Goes(a, from, to) == runner[a] = from /\ runner' = [runner EXCEPT ![a] = to]

(* A new request starts without receipts. *)
Writes(request) == outbox' = request /\ path' = None /\ claim' = [h \in Host |-> "none"]

(* prepareRunnerController: its first patch, then the old outbox retires. *)
RunnerOpens(a) ==
  /\ Goes(a, "spawned", "opened")
  /\ status' = [status EXCEPT !.state = "starting", !.attempt = a, !.pid = a, !.fresh = TRUE]
  /\ UNCHANGED <<starter, verdict, outbox, receipts, host, history, deaths>>

RunnerArchives(a) ==
  /\ Goes(a, "opened", "gating")
  /\ Writes(NoRequest)
  /\ UNCHANGED <<status, starter, verdict, host, history, deaths>>

(* launchInitialBranches, after every replay gate. *)
RunnerRuns(a) ==
  /\ Goes(a, "gating", "running")
  /\ status' = [status EXCEPT !.state = "running", !.pid = a, !.fresh = TRUE]
  /\ UNCHANGED <<starter, verdict, outbox, receipts, host, history, deaths>>

(* The chart does not load, or finishAggregate has the outcome. *)
RunnerDecides(a) ==
  /\ \/ Goes(a, "gating", "persisting") /\ verdict' = [verdict EXCEPT ![a] = "failed"]
     \/ Goes(a, "running", "persisting") /\ \E o \in Outcome : verdict' = [verdict EXCEPT ![a] = o]
  /\ UNCHANGED <<status, starter, outbox, receipts, host, history, deaths>>

(* persistTerminalNotificationRequest: a request that is there is another   *)
(* one's, its text differs, and finishAggregate's catch clause publishes a  *)
(* failure; otherwise the request takes the attempt the status names by now.*)
RunnerPersists(a) ==
  /\ Goes(a, "persisting", IF outbox = NoRequest THEN "stamping" ELSE "over")
  /\ IF outbox = NoRequest THEN UNCHANGED <<status, published>> ELSE Publish("failed", status.pid)
  /\ UNCHANGED <<starter, verdict, outbox, receipts, host, notified, deaths>>

(* Mutant: the attempt is the one before the start. *)
StampedBehind(by, outcome) == [by |-> by, attempt |-> status.attempt - 1, outcome |-> outcome]

Stamped(by, outcome) == [by |-> by, attempt |-> status.attempt, outcome |-> outcome]

RunnerStamps(a) ==
  /\ Goes(a, "stamping", "publishing")
  /\ Writes(Stamped(a, verdict[a]))
  /\ UNCHANGED <<status, starter, verdict, host, history, deaths>>

RunnerPublishes(a) ==
  /\ Goes(a, "publishing", "over")
  /\ Publish(verdict[a], a)
  /\ UNCHANGED <<starter, verdict, outbox, receipts, host, notified, deaths>>

RunnerDies(a) ==
  /\ Alive(a) /\ deaths < MaxDeaths
  /\ runner' = [runner EXCEPT ![a] = "dead"] /\ deaths' = deaths + 1
  /\ UNCHANGED <<status, starter, verdict, outbox, receipts, host, history>>

-----------------------------------------------------------------------------
(* A scan of the monitor, or a call that waits for the run: it repairs a    *)
(* dead run (recoverStaleRunTerminalNotification) and looks for a request   *)
(* that this session has no receipt for.                                    *)

Moves(h, from, record) == host[h].at = from /\ host' = [host EXCEPT ![h] = record]
At(h, stage) == [host[h] EXCEPT !.at = stage]

ScanFindsStale(h) ==
  /\ Stale
  /\ Moves(h, "idle", [At(h, "stale") EXCEPT !.seen = status.attempt])
  /\ UNCHANGED <<run, outbox, receipts, history, deaths>>

(* Mutant: whatever lies in the outbox wins. *)
BelongsAnyway(r, attempt) == r # NoRequest

(* An outbox of the attempt the status named wins over a failure. *)
Belongs(r, attempt) == r # NoRequest /\ r.attempt = attempt

RepairDecides(h) ==
  /\ IF Belongs(outbox, host[h].seen)
     THEN Moves(h, "stale", [At(h, "repairing") EXCEPT !.request = outbox]) /\ UNCHANGED <<outbox, receipts>>
     ELSE Moves(h, "stale", At(h, "stamping")) /\ Writes(NoRequest)
  /\ UNCHANGED <<run, history, deaths>>

RepairStamps(h) ==
  /\ Writes(Stamped(h, "failed"))
  /\ Moves(h, "stamping", [At(h, "repairing") EXCEPT !.request = Stamped(h, "failed")])
  /\ UNCHANGED <<run, history, deaths>>

RepairPublishes(h) ==
  /\ Moves(h, "repairing", IdleHost)
  /\ Publish(host[h].request.outcome, 0)
  /\ UNCHANGED <<starter, runner, verdict, outbox, receipts, notified, deaths>>

ScanFindsRequest(h) ==
  /\ ~Stale /\ outbox # NoRequest /\ Deliverable(outbox) /\ path # Confirmed
  /\ Moves(h, "idle", [At(h, "claiming") EXCEPT !.request = outbox])
  /\ UNCHANGED <<run, outbox, receipts, history, deaths>>

-----------------------------------------------------------------------------
(* claimTerminalNotificationReceipt.  A claim file is created empty and     *)
(* filled by a second system call; readReceipt takes an empty one for none. *)

Req(h) == host[h].request
Contents(x) == IF x \in Host THEN IF claim[x] = "torn" THEN <<None, "torn">> ELSE <<x, claim[x]>>
               ELSE <<x, "none">>

(* Receipts lie under the name of the request.  A claim on a request that   *)
(* left the outbox succeeds or not, and nothing reads its files again.      *)
InForce(h) == outbox = Req(h)
ClaimIsMoot(h) ==
  /\ ~InForce(h) /\ host[h].at \in {"retrying", "displacing", "comparing", "recreating"}
  /\ \/ host' = [host EXCEPT ![h] = IdleHost]
     \/ host' = [host EXCEPT ![h] = [At(h, "filling") EXCEPT !.prior = NothingRead, !.displaced = None]]
  /\ UNCHANGED <<run, outbox, receipts, history, deaths>>

(* The exclusive create. *)
Creates(h, from) ==
  /\ host[h].at = from /\ path = None
  /\ path' = h /\ claim' = [claim EXCEPT ![h] = "torn"]
  /\ Moves(h, from, [At(h, "filling") EXCEPT !.prior = NothingRead, !.displaced = None])
GivesUp(h, from) == Moves(h, from, IdleHost) /\ UNCHANGED receipts

(* Mutant: any claim is, however old. *)
HeldForGood == path # None

(* A fresh claim, and a confirmed receipt, are left alone. *)
Held == path = Confirmed \/ (path \in Host /\ claim[path] = "fresh")

(* Only the first try looks at the outbox. *)
ClaimIsLate(h) ==
  /\ ~InForce(h) /\ GivesUp(h, "claiming")
  /\ UNCHANGED <<run, outbox, history, deaths>>

ClaimTries(h) ==
  /\ InForce(h)
  /\ \E from \in {"claiming", "retrying"} :
       \/ Creates(h, from)
       \/ path # None /\ Held /\ GivesUp(h, from)
       \/ /\ path # None /\ ~Held
          /\ Moves(h, from, [At(h, "displacing") EXCEPT !.prior = Contents(path)])
          /\ UNCHANGED receipts
  /\ UNCHANGED <<run, outbox, history, deaths>>

(* The old claim is renamed away.  When it is gone already the claim is     *)
(* tried again, up to the third time.                                       *)
ClaimDisplaces(h) ==
  /\ InForce(h)
  /\ \/ /\ path # None
        /\ Moves(h, "displacing", [At(h, "comparing") EXCEPT !.displaced = path])
        /\ path' = None /\ UNCHANGED claim
     \/ path = None /\ Moves(h, "displacing", At(h, "retrying")) /\ UNCHANGED receipts
     \/ path = None /\ GivesUp(h, "displacing")
  /\ UNCHANGED <<run, outbox, history, deaths>>

(* A receipt that changed since it was read goes back where it was, unless  *)
(* another process has put one there.                                       *)
ClaimCompares(h) ==
  /\ InForce(h)
  /\ LET changed == Contents(host[h].displaced) # host[h].prior
         back == changed /\ path = None
     IN /\ Moves(h, "comparing", IF changed THEN IdleHost ELSE At(h, "recreating"))
        /\ path' = IF back THEN host[h].displaced ELSE path
        /\ claim' = IF ~back /\ host[h].displaced \in Host /\ host[h].displaced # path
                    THEN [claim EXCEPT ![host[h].displaced] = "none"] ELSE claim
  /\ UNCHANGED <<run, outbox, history, deaths>>

ClaimRecreates(h) ==
  /\ InForce(h)
  /\ \/ Creates(h, "recreating")
     \/ path # None /\ GivesUp(h, "recreating")
  /\ UNCHANGED <<run, outbox, history, deaths>>

(* Thirty seconds after a claim it may be taken over. *)
ClaimAges(h) ==
  /\ path = h /\ claim[h] = "fresh"
  /\ claim' = [claim EXCEPT ![h] = "old"]
  /\ UNCHANGED <<run, outbox, path, host, history, deaths>>

-----------------------------------------------------------------------------
(* Delivery. *)

(* The claim holds.  A waited call returns the outcome and leaves it at     *)
(* that; the monitor looks at the request again.                            *)
ClaimFills(h) ==
  /\ IF h \in Waiter
     THEN Moves(h, "filling", IdleHost) /\ notified' = notified \cup {Req(h)}
     ELSE Moves(h, "filling", At(h, "rechecking")) /\ UNCHANGED notified
  /\ claim' = IF InForce(h) /\ claim[h] = "torn" THEN [claim EXCEPT ![h] = "fresh"] ELSE claim
  /\ UNCHANGED <<run, outbox, path, published, deaths>>

RechecksRequest(h) ==
  /\ Moves(h, "rechecking", IF InForce(h) THEN At(h, "reading") ELSE IdleHost)
  /\ UNCHANGED <<run, outbox, receipts, history, deaths>>

(* Mutant: the request is no longer deliverable, and is confirmed. *)
SendsNothing(h) ==
  /\ host[h].at = "reading"
  /\ Moves(h, "reading", At(h, "marking"))
  /\ notified' = IF Deliverable(Req(h)) THEN notified \cup {Req(h)} ELSE notified
  /\ UNCHANGED <<run, outbox, receipts, published, deaths>>

Sends(h) ==
  /\ host[h].at = "reading"
  /\ IF Deliverable(Req(h))
     THEN Moves(h, "reading", At(h, "marking")) /\ notified' = notified \cup {Req(h)}
     ELSE Moves(h, "reading", IdleHost) /\ UNCHANGED notified
  /\ UNCHANGED <<run, outbox, receipts, published, deaths>>

(* markTerminalNotificationReceipt throws when the request was archived. *)
Marks(h) ==
  /\ Moves(h, "marking", IdleHost)
  /\ IF InForce(h)
     THEN path' = Confirmed /\ claim' = IF path \in Host THEN [claim EXCEPT ![path] = "none"] ELSE claim
     ELSE UNCHANGED receipts
  /\ UNCHANGED <<run, outbox, history, deaths>>

(* The process dies and another one of the session takes its place. *)
HostDies(h) ==
  /\ host[h].at # "idle" /\ deaths < MaxDeaths
  /\ host' = [host EXCEPT ![h] = IdleHost] /\ deaths' = deaths + 1
  /\ UNCHANGED <<run, outbox, receipts, history>>

-----------------------------------------------------------------------------
Init ==
  /\ status = [state |-> "none", attempt |-> 0, pid |-> 0, fresh |-> FALSE]
  /\ starter = "idle"
  /\ runner = [a \in Attempt |-> "none"] /\ verdict = [a \in Attempt |-> "none"]
  /\ outbox = NoRequest
  /\ path = None /\ claim = [h \in Host |-> "none"]
  /\ host = [h \in Host |-> IdleHost]
  /\ published = {} /\ notified = {} /\ deaths = 0

Starts == StartOpens \/ StartSpawns \/ StartRecordsPid \/ StarterDies
Publishes(a) == RunnerPersists(a) \/ RunnerStamps(a) \/ RunnerPublishes(a)
Runs(a) == RunnerOpens(a) \/ RunnerArchives(a) \/ RunnerRuns(a) \/ RunnerDecides(a) \/ Publishes(a) \/ RunnerDies(a)
Repairs(h) == ScanFindsStale(h) \/ RepairDecides(h) \/ RepairStamps(h) \/ RepairPublishes(h)
Claims(h) == ClaimIsMoot(h) \/ ClaimIsLate(h) \/ ClaimTries(h) \/ ClaimDisplaces(h) \/ ClaimCompares(h) \/ ClaimRecreates(h)
Delivers(h) == ScanFindsRequest(h) \/ ClaimFills(h) \/ RechecksRequest(h) \/ Sends(h) \/ Marks(h)

Next ==
  \/ HeartbeatAges \/ Starts
  \/ \E a \in Attempt : Runs(a)
  \/ \E h \in Host : Repairs(h) \/ Claims(h) \/ Delivers(h) \/ ClaimAges(h) \/ HostDies(h)

Spec == Init /\ [][Next]_vars

(* A host that spawned a runner goes on, a runner publishes what it has     *)
(* decided, the monitors go on scanning and time passes.  A chart may run,  *)
(* or a runner wait, for ever, and nothing ever has to be started.          *)
FairSpec ==
  /\ Spec
  /\ WF_vars(HeartbeatAges) /\ WF_vars(StartSpawns \/ StartRecordsPid)
  /\ \A a \in Attempt : WF_vars(RunnerOpens(a) \/ RunnerArchives(a) \/ Publishes(a))
  /\ \A h \in Host : WF_vars(Repairs(h) \/ Claims(h) \/ Delivers(h)) /\ WF_vars(ClaimAges(h))

-----------------------------------------------------------------------------
(* Properties. *)

(* The variables hold what the code keeps in them: the status file, the     *)
(* request, one receipt per request and the locals of the host functions.   *)
TypeOK ==
  /\ status \in Status
  /\ starter \in {"idle", "spawning", "recording"}
  /\ runner \in [Attempt -> RunnerStage] /\ verdict \in [Attempt -> Outcome \cup {"none"}]
  /\ outbox \in Request \cup {NoRequest}
  /\ path \in Host \cup {None, Confirmed} /\ claim \in [Host -> ClaimStage]
  /\ host \in [Host -> [at : HostStage, request : Request \cup {NoRequest}, seen : 0 .. MaxAttempts,
                        prior : (Host \cup {None, Confirmed}) \X ClaimStage,
                        displaced : Host \cup {None, Confirmed}]]
  /\ published \in SUBSET (Attempt \X Outcome) /\ notified \in SUBSET Request
  /\ deaths \in 0 .. MaxDeaths

(* A host, the monitor or a waited call, tells the user only of an outcome  *)
(* that the run status has shown for that very attempt: neither one still   *)
(* unpublished nor one of an earlier attempt.                               *)
NoticeMatchesStatus == \A r \in notified : <<r.attempt, r.outcome>> \in published

(* A confirmed receipt stops every process of the session for good, so it   *)
(* only ever stands for a notice that was sent.                             *)
ConfirmedWasNotified == path = Confirmed => outbox \in notified

(* The status reports what became of the attempt: complete only if its      *)
(* runner came to that outcome, and failed never after it wrote complete to *)
(* the outbox, whoever publishes it in the end.                             *)
OutcomeIsTrue ==
  \A a \in Attempt :
    /\ <<a, "complete">> \in published => verdict[a] = "complete"
    /\ <<a, "failed">> \in published => verdict[a] # "complete" \/ (runner[a] = "dead" /\ outbox.by # a)

(* The user hears of every attempt that ended or whose runner died, unless  *)
(* the next attempt was opened first: through the runner, a repairing host, *)
(* and a lease taken over from a process that died with it.                 *)
Ended(a) == status.attempt = a /\ starter = "idle" /\ ~Alive(a)
Heard(a) == \E r \in notified : r.attempt = a
EveryEndIsHeardOf == \A a \in Attempt : Ended(a) ~> Heard(a) \/ status.attempt > a

=============================================================================
