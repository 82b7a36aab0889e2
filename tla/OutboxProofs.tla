---------------------------- MODULE OutboxProofs ----------------------------
(***************************************************************************)
(* Safety of Outbox for every set of hosts, every number of attempts and   *)
(* deaths, and with or without attempts that are opened during a repair.   *)
(*                                                                         *)
(* What the user is told rests on what a process read earlier: the request *)
(* it claims was deliverable once, and the status only ever adds to what   *)
(* it has shown.  A confirmed receipt can come back from a process that    *)
(* had renamed it away, so the invariant follows it there.                 *)
(*                                                                         *)
(* That the status tells the truth needs more, and is proved for hosts     *)
(* that open no attempt while one of them repairs the run: then a live     *)
(* runner's status is never stale, and a repair is of a runner that is     *)
(* gone.                                                                   *)
(***************************************************************************)
EXTENDS Outbox, TLAPS

(* TypeOK by its parts. *)
HostRecord ==
  [at : HostStage, request : Request \cup {NoRequest}, seen : 0 .. MaxAttempts,
   prior : (Host \cup {None, Confirmed}) \X ClaimStage, displaced : Host \cup {None, Confirmed}]
RunOK ==
  /\ status \in Status /\ starter \in {"idle", "spawning", "recording"}
  /\ runner \in [Attempt -> RunnerStage] /\ verdict \in [Attempt -> Outcome \cup {"none"}]
  /\ deaths \in 0 .. MaxDeaths
FilesOK ==
  /\ outbox \in Request \cup {NoRequest}
  /\ path \in Host \cup {None, Confirmed} /\ claim \in [Host -> ClaimStage]
HostsOK == host \in [Host -> HostRecord]
HistoryOK == published \in SUBSET (Attempt \X Outcome) /\ notified \in SUBSET Request

(* Before the first attempt is opened nothing is under way. *)
Opened ==
  status.attempt = 0 =>
    /\ status.state = "none" /\ starter = "idle"
    /\ \A a \in Attempt : runner[a] = "none"
    /\ \A h \in Host : host[h].at = "idle"

(* A runner that publishes has a verdict, *)
Decided ==
  \A a \in Attempt : runner[a] \in {"persisting", "stamping", "publishing"} => verdict[a] \in Outcome

(* and the status has shown what it shows. *)
Shown == status.state \in Outcome => <<status.attempt, status.state>> \in published

(* A host that claims, or publishes a repair, holds a request; the status   *)
(* has shown what it found deliverable; and when it is about to confirm, or *)
(* has renamed a confirmed receipt away, the notice was sent.               *)
Claiming == {"claiming", "retrying", "filling", "displacing", "comparing", "recreating",
             "rechecking", "reading", "marking"}
Honest(r) ==
  /\ r.at \in Claiming \cup {"repairing"} => r.request \in Request
  /\ r.at \in Claiming => <<r.request.attempt, r.request.outcome>> \in published
  /\ r.at = "marking" \/ (r.at = "comparing" /\ r.displaced = Confirmed) => r.request \in notified

Inv ==
  /\ RunOK /\ FilesOK /\ HostsOK /\ HistoryOK
  /\ Opened /\ Decided /\ Shown
  /\ \A h \in Host : Honest(host[h])
  /\ NoticeMatchesStatus /\ ConfirmedWasNotified

-----------------------------------------------------------------------------
LEMMA TypeParts == RunOK /\ FilesOK /\ HostsOK /\ HistoryOK => TypeOK
  BY DEF TypeOK, RunOK, FilesOK, HostsOK, HistoryOK, HostRecord

LEMMA IdleIsFine == IdleHost \in HostRecord /\ Honest(IdleHost)
  BY OutboxAssumption DEF IdleHost, HostRecord, HostStage, Request, NoRequest, NothingRead, ClaimStage, Honest, Claiming

(* patchRunStatus, field by field. *)
LEMMA StatusFields ==
  ASSUME NEW s \in Status
  PROVE  /\ \A x \in {"none"} \cup Active \cup Outcome : [s EXCEPT !.state = x] \in Status
         /\ \A x \in 0 .. MaxAttempts : [s EXCEPT !.attempt = x] \in Status /\ [s EXCEPT !.pid = x] \in Status
         /\ \A x \in BOOLEAN : [s EXCEPT !.fresh = x] \in Status
  BY DEF Status

LEMMA StatusPatched ==
  ASSUME NEW s \in Status, NEW x \in Active \cup Outcome, NEW a \in 0 .. MaxAttempts,
         NEW p \in 0 .. MaxAttempts, NEW f \in BOOLEAN
  PROVE  /\ [s EXCEPT !.state = x, !.attempt = a, !.fresh = f] \in Status
         /\ [s EXCEPT !.state = x, !.pid = p, !.fresh = f] \in Status
         /\ [s EXCEPT !.state = x, !.attempt = a, !.pid = p, !.fresh = f] \in Status
<1>1. [s EXCEPT !.state = x] \in Status
  BY StatusFields
<1>2. [[s EXCEPT !.state = x] EXCEPT !.attempt = a] \in Status /\ [[s EXCEPT !.state = x] EXCEPT !.pid = p] \in Status
  BY <1>1, StatusFields, Zenon
<1>3. [[[s EXCEPT !.state = x] EXCEPT !.attempt = a] EXCEPT !.pid = p] \in Status
  BY <1>2, StatusFields, Zenon
<1>4. /\ [[[s EXCEPT !.state = x] EXCEPT !.attempt = a] EXCEPT !.fresh = f] \in Status
      /\ [[[s EXCEPT !.state = x] EXCEPT !.pid = p] EXCEPT !.fresh = f] \in Status
  BY <1>2, StatusFields, Zenon
<1>5. [[[[s EXCEPT !.state = x] EXCEPT !.attempt = a] EXCEPT !.pid = p] EXCEPT !.fresh = f] \in Status
  BY <1>3, StatusFields, Zenon
<1> QED
  BY <1>4, <1>5, Zenon

LEMMA InitInv == Init => Inv
<1> SUFFICES ASSUME Init PROVE Inv
  OBVIOUS
<1>1. RunOK /\ FilesOK /\ HistoryOK
  BY OutboxAssumption DEF Init, RunOK, FilesOK, HistoryOK, Status, RunnerStage, ClaimStage, Outcome
<1>2. HostsOK /\ \A h \in Host : Honest(host[h])
  BY IdleIsFine DEF Init, HostsOK
<1>3. Opened /\ Decided /\ Shown
  BY DEF Init, Opened, Decided, Shown, Outcome, IdleHost
<1>4. NoticeMatchesStatus /\ ConfirmedWasNotified
  BY OutboxAssumption DEF Init, NoticeMatchesStatus, ConfirmedWasNotified
<1> QED
  BY <1>1, <1>2, <1>3, <1>4 DEF Inv

(* A step of the starter, the clock or a runner that leaves the files and   *)
(* the hosts alone.                                                         *)
LEMMA RunStep ==
  ASSUME Inv, UNCHANGED <<outbox, receipts, host, notified>>, published \subseteq published',
         published' \subseteq Attempt \X Outcome, RunOK', Opened', Decided', Shown'
  PROVE  Inv'
<1>1. FilesOK' /\ HostsOK' /\ HistoryOK'
  BY DEF Inv, FilesOK, HostsOK, HistoryOK, receipts
<1>2. \A h \in Host : Honest(host[h])'
  BY DEF Inv, Honest
<1>3. NoticeMatchesStatus' /\ ConfirmedWasNotified'
  BY DEF Inv, NoticeMatchesStatus, ConfirmedWasNotified, receipts
<1> QED
  BY <1>1, <1>2, <1>3 DEF Inv

(* A step of a host that leaves the run alone. *)
LEMMA HostStep ==
  ASSUME Inv, NEW h \in Host, NEW record \in HostRecord,
         UNCHANGED <<run, published>>, deaths' \in 0 .. MaxDeaths, status.attempt # 0,
         host' = [host EXCEPT ![h] = record], Honest(record)',
         notified \subseteq notified', FilesOK', notified' \subseteq Request,
         NoticeMatchesStatus', ConfirmedWasNotified'
  PROVE  Inv'
<1>1. RunOK' /\ HistoryOK'
  BY DEF Inv, RunOK, HistoryOK, run
<1>2. HostsOK'
  BY DEF Inv, HostsOK
<1>3. Opened' /\ Decided' /\ Shown'
  BY DEF Inv, Opened, Decided, Shown, run
<1>4. \A g \in Host : Honest(host[g])'
  <2> SUFFICES ASSUME NEW g \in Host PROVE Honest(host[g])'
    OBVIOUS
  <2>1. CASE g = h
    BY <2>1 DEF Inv, HostsOK, Honest
  <2>2. CASE g # h
    BY <2>2 DEF Inv, HostsOK, Honest
  <2> QED
    BY <2>1, <2>2
<1> QED
  BY <1>1, <1>2, <1>3, <1>4 DEF Inv

-----------------------------------------------------------------------------
(* The clock, the starter and the runners. *)
LEMMA ClockAndStarter == ASSUME Inv, HeartbeatAges \/ Starts PROVE Inv'
<1>1. CASE HeartbeatAges
  <2>1. UNCHANGED <<outbox, receipts, host, notified>> /\ published \subseteq published'
    BY <1>1 DEF HeartbeatAges, run, receipts, history
  <2>2. RunOK' /\ published' \subseteq Attempt \X Outcome
    BY <1>1, OutboxAssumption DEF HeartbeatAges, Inv, RunOK, HistoryOK, Status, Active, Outcome, Attempt, RunnerStage, run, history
  <2>3. Opened' /\ Decided' /\ Shown'
    BY <1>1, <2>1, <2>2 DEF HeartbeatAges, Inv, RunOK, Status, Opened, Decided, Shown, Active, Outcome, Attempt, run
  <2> QED
    BY <1>1, <2>1, <2>2, <2>3, RunStep
<1>2. CASE StartOpens
  <2>1. UNCHANGED <<outbox, receipts, host, notified>> /\ published \subseteq published'
    BY <1>2 DEF StartOpens, run, receipts, history
  <2>2. RunOK' /\ published' \subseteq Attempt \X Outcome
    <3>1. status' \in Status
      <4>1. status \in Status /\ "starting" \in Active \cup Outcome /\ status.attempt + 1 \in 0 .. MaxAttempts /\ TRUE \in BOOLEAN /\ 0 \in 0 .. MaxAttempts
        BY <1>2, OutboxAssumption DEF StartOpens, Inv, RunOK, Status, Active, Outcome, Attempt
      <4>2. status' = [status EXCEPT !.state = "starting", !.attempt = status.attempt + 1, !.fresh = TRUE]
        BY <1>2 DEF StartOpens
      <4> QED
        BY <4>1, <4>2, StatusPatched, Zenon
    <3>2. runner' \in [Attempt -> RunnerStage]
      BY <1>2 DEF StartOpens, Inv, RunOK, RunnerStage
    <3>3. published' \subseteq Attempt \X Outcome
      BY <1>2 DEF StartOpens, Inv, RunOK, HistoryOK, Status, Attempt, Outcome, history, Opened, Decided
    <3> QED
      BY <1>2, <3>1, <3>2, <3>3 DEF StartOpens, Inv, RunOK
  <2>3. Opened' /\ Decided' /\ Shown'
    BY <1>2, <2>1, <2>2 DEF StartOpens, Inv, RunOK, Status, Opened, Decided, Shown, Active, Outcome, Attempt, run
  <2> QED
    BY <1>2, <2>1, <2>2, <2>3, RunStep
<1>3. CASE StartSpawns
  <2>1. UNCHANGED <<outbox, receipts, host, notified>> /\ published \subseteq published'
    BY <1>3 DEF StartSpawns, run, receipts, history
  <2>2. RunOK' /\ published' \subseteq Attempt \X Outcome
    BY <1>3, OutboxAssumption DEF StartSpawns, Inv, RunOK, HistoryOK, Status, Active, Outcome, Attempt, RunnerStage, run, history, Opened
  <2>3. Opened' /\ Decided' /\ Shown'
    BY <1>3, <2>1, <2>2 DEF StartSpawns, Inv, RunOK, Status, Opened, Decided, Shown, Active, Outcome, Attempt, run
  <2> QED
    BY <1>3, <2>1, <2>2, <2>3, RunStep
<1>4. CASE StartRecordsPid
  <2>1. UNCHANGED <<outbox, receipts, host, notified>> /\ published \subseteq published'
    BY <1>4 DEF StartRecordsPid, run, receipts, history
  <2>2. RunOK' /\ published' \subseteq Attempt \X Outcome
    BY <1>4, OutboxAssumption DEF StartRecordsPid, Inv, RunOK, HistoryOK, Status, Active, Outcome, Attempt, RunnerStage, run, history, Opened
  <2>3. Opened' /\ Decided' /\ Shown'
    BY <1>4, <2>1, <2>2 DEF StartRecordsPid, Inv, RunOK, Status, Opened, Decided, Shown, Active, Outcome, Attempt, run
  <2> QED
    BY <1>4, <2>1, <2>2, <2>3, RunStep
<1>5. CASE StarterDies
  <2>1. UNCHANGED <<outbox, receipts, host, notified>> /\ published \subseteq published'
    BY <1>5 DEF StarterDies, run, receipts, history
  <2>2. RunOK' /\ published' \subseteq Attempt \X Outcome
    BY <1>5, OutboxAssumption DEF StarterDies, Inv, RunOK, HistoryOK, Status, Active, Outcome, Attempt, RunnerStage, run, history
  <2>3. Opened' /\ Decided' /\ Shown'
    BY <1>5, <2>1, <2>2 DEF StarterDies, Inv, RunOK, Status, Opened, Decided, Shown, Active, Outcome, Attempt, run
  <2> QED
    BY <1>5, <2>1, <2>2, <2>3, RunStep
<1> QED
  BY <1>1, <1>2, <1>3, <1>4, <1>5 DEF Starts

LEMMA RunnerSteps == ASSUME Inv, NEW a \in Attempt, Runs(a) PROVE Inv'
<1>1. CASE RunnerOpens(a)
  <2>1. UNCHANGED <<outbox, receipts, host, notified>> /\ published \subseteq published'
    BY <1>1 DEF RunnerOpens, Goes, run, receipts, history
  <2>2. RunOK' /\ published' \subseteq Attempt \X Outcome
    <3>1. status' \in Status
      <4>1. status \in Status /\ "starting" \in Active \cup Outcome /\ a \in 0 .. MaxAttempts /\ TRUE \in BOOLEAN
        BY <1>1, OutboxAssumption DEF RunnerOpens, Goes, Inv, RunOK, Status, Active, Outcome, Attempt
      <4>2. status' = [status EXCEPT !.state = "starting", !.attempt = a, !.pid = a, !.fresh = TRUE]
        BY <1>1 DEF RunnerOpens, Goes
      <4> QED
        BY <4>1, <4>2, StatusPatched, Zenon
    <3>2. runner' \in [Attempt -> RunnerStage]
      BY <1>1 DEF RunnerOpens, Goes, Inv, RunOK, RunnerStage
    <3>3. published' \subseteq Attempt \X Outcome
      BY <1>1 DEF RunnerOpens, Goes, Inv, RunOK, HistoryOK, Status, Attempt, Outcome, history, Opened, Decided
    <3> QED
      BY <1>1, <3>1, <3>2, <3>3 DEF RunnerOpens, Goes, Inv, RunOK
  <2>3. Opened' /\ Decided' /\ Shown'
    BY <1>1, <2>1, <2>2 DEF RunnerOpens, Goes, Inv, RunOK, Status, Opened, Decided, Shown, Active, Outcome, Attempt, run
  <2> QED
    BY <1>1, <2>1, <2>2, <2>3, RunStep
<1>2. CASE RunnerRuns(a)
  <2>1. UNCHANGED <<outbox, receipts, host, notified>> /\ published \subseteq published'
    BY <1>2 DEF RunnerRuns, Goes, run, receipts, history
  <2>2. RunOK' /\ published' \subseteq Attempt \X Outcome
    <3>1. status' \in Status
      <4>1. status \in Status /\ "running" \in Active \cup Outcome /\ a \in 0 .. MaxAttempts /\ TRUE \in BOOLEAN
        BY <1>2, OutboxAssumption DEF RunnerRuns, Goes, Inv, RunOK, Status, Active, Outcome, Attempt
      <4>2. status' = [status EXCEPT !.state = "running", !.pid = a, !.fresh = TRUE]
        BY <1>2 DEF RunnerRuns, Goes
      <4> QED
        BY <4>1, <4>2, StatusPatched, Zenon
    <3>2. runner' \in [Attempt -> RunnerStage]
      BY <1>2 DEF RunnerRuns, Goes, Inv, RunOK, RunnerStage
    <3>3. published' \subseteq Attempt \X Outcome
      BY <1>2 DEF RunnerRuns, Goes, Inv, RunOK, HistoryOK, Status, Attempt, Outcome, history, Opened, Decided
    <3> QED
      BY <1>2, <3>1, <3>2, <3>3 DEF RunnerRuns, Goes, Inv, RunOK
  <2>3. Opened' /\ Decided' /\ Shown'
    BY <1>2, <2>1, <2>2 DEF RunnerRuns, Goes, Inv, RunOK, Status, Opened, Decided, Shown, Active, Outcome, Attempt, run
  <2> QED
    BY <1>2, <2>1, <2>2, <2>3, RunStep
<1>3. CASE RunnerDecides(a)
  <2>1. UNCHANGED <<outbox, receipts, host, notified>> /\ published \subseteq published'
    BY <1>3 DEF RunnerDecides, Goes, run, receipts, history
  <2>2. RunOK' /\ published' \subseteq Attempt \X Outcome
    BY <1>3, OutboxAssumption DEF RunnerDecides, Goes, Inv, RunOK, HistoryOK, Status, Active, Outcome, Attempt, RunnerStage, run, history
  <2>3. Opened' /\ Decided' /\ Shown'
    BY <1>3, <2>1, <2>2 DEF RunnerDecides, Goes, Inv, RunOK, Status, Opened, Decided, Shown, Active, Outcome, Attempt, run
  <2> QED
    BY <1>3, <2>1, <2>2, <2>3, RunStep
<1>4. CASE RunnerPersists(a) /\ outbox = NoRequest
  <2>1. UNCHANGED <<outbox, receipts, host, notified>> /\ published \subseteq published'
    BY <1>4 DEF RunnerPersists, Goes, run, receipts, history
  <2>2. RunOK' /\ published' \subseteq Attempt \X Outcome
    BY <1>4, OutboxAssumption DEF RunnerPersists, Goes, Inv, RunOK, HistoryOK, Status, Active, Outcome, Attempt, RunnerStage, run, history
  <2>3. Opened' /\ Decided' /\ Shown'
    BY <1>4, <2>1, <2>2 DEF RunnerPersists, Goes, Inv, RunOK, Status, Opened, Decided, Shown, Active, Outcome, Attempt, run
  <2> QED
    BY <1>4, <2>1, <2>2, <2>3, RunStep
<1>5. CASE RunnerPublishes(a)
  <2>1. UNCHANGED <<outbox, receipts, host, notified>> /\ published \subseteq published'
    BY <1>5 DEF RunnerPublishes, Goes, Publish, run, receipts, history
  <2>2. RunOK' /\ published' \subseteq Attempt \X Outcome
    <3>1. status' \in Status
      <4>1. status \in Status /\ verdict[a] \in Active \cup Outcome /\ a \in 0 .. MaxAttempts /\ FALSE \in BOOLEAN
        BY <1>5, OutboxAssumption DEF RunnerPublishes, Goes, Publish, Inv, RunOK, Status, Active, Outcome, Attempt, Opened, Decided
      <4>2. status' = [status EXCEPT !.state = verdict[a], !.pid = a, !.fresh = FALSE]
        BY <1>5 DEF RunnerPublishes, Goes, Publish
      <4> QED
        BY <4>1, <4>2, StatusPatched, Zenon
    <3>2. runner' \in [Attempt -> RunnerStage]
      BY <1>5 DEF RunnerPublishes, Goes, Publish, Inv, RunOK, RunnerStage
    <3>3. published' \subseteq Attempt \X Outcome
      BY <1>5 DEF RunnerPublishes, Goes, Publish, Inv, RunOK, HistoryOK, Status, Attempt, Outcome, history, Opened, Decided
    <3> QED
      BY <1>5, <3>1, <3>2, <3>3 DEF RunnerPublishes, Goes, Publish, Inv, RunOK
  <2>3. Opened' /\ Decided' /\ Shown'
    BY <1>5, <2>1, <2>2 DEF RunnerPublishes, Goes, Publish, Inv, RunOK, Status, Opened, Decided, Shown, Active, Outcome, Attempt, run
  <2> QED
    BY <1>5, <2>1, <2>2, <2>3, RunStep
<1>6. CASE RunnerPersists(a) /\ outbox # NoRequest
  <2>1. UNCHANGED <<outbox, receipts, host, notified>> /\ published \subseteq published'
    BY <1>6 DEF RunnerPersists, Goes, Publish, run, receipts, history
  <2>2. RunOK' /\ published' \subseteq Attempt \X Outcome
    <3>1. status' \in Status
      <4>1. status \in Status /\ "failed" \in Active \cup Outcome /\ status.pid \in 0 .. MaxAttempts /\ FALSE \in BOOLEAN
        BY <1>6, OutboxAssumption DEF RunnerPersists, Goes, Publish, Inv, RunOK, Status, Active, Outcome, Attempt, Opened, Decided
      <4>2. status' = [status EXCEPT !.state = "failed", !.pid = status.pid, !.fresh = FALSE]
        BY <1>6 DEF RunnerPersists, Goes, Publish
      <4> QED
        BY <4>1, <4>2, StatusPatched, Zenon
    <3>2. runner' \in [Attempt -> RunnerStage]
      BY <1>6 DEF RunnerPersists, Goes, Publish, Inv, RunOK, RunnerStage
    <3>3. published' \subseteq Attempt \X Outcome
      BY <1>6 DEF RunnerPersists, Goes, Publish, Inv, RunOK, HistoryOK, Status, Attempt, Outcome, history, Opened, Decided
    <3> QED
      BY <1>6, <3>1, <3>2, <3>3 DEF RunnerPersists, Goes, Publish, Inv, RunOK
  <2>3. Opened'
    BY <1>6, <2>1, <2>2 DEF RunnerPersists, Goes, Publish, Inv, RunOK, Status, Opened, Attempt
  <2>4. Decided'
    BY <1>6 DEF RunnerPersists, Goes, Inv, RunOK, Decided
  <2>5. Shown'
    <3>1. CASE outbox = NoRequest
      BY <1>6, <3>1 DEF RunnerPersists, Inv, Shown
    <3>2. CASE outbox # NoRequest
      <4>1. /\ status' = [status EXCEPT !.state = "failed", !.pid = status.pid, !.fresh = FALSE]
            /\ published' = published \cup {<<status.attempt, "failed">>}
        BY <1>6, <3>2 DEF RunnerPersists, Publish
      <4>2. status'.state = "failed" /\ status'.attempt = status.attempt
        BY <4>1 DEF Inv, RunOK, Status
      <4> QED
        BY <4>1, <4>2 DEF Shown
    <3> QED
      BY <3>1, <3>2
  <2> QED
    BY <1>6, <2>1, <2>2, <2>3, <2>4, <2>5, RunStep
<1>7. CASE RunnerDies(a)
  <2>1. UNCHANGED <<outbox, receipts, host, notified>> /\ published \subseteq published'
    BY <1>7 DEF RunnerDies, Alive, run, receipts, history
  <2>2. RunOK' /\ published' \subseteq Attempt \X Outcome
    BY <1>7, OutboxAssumption DEF RunnerDies, Alive, Inv, RunOK, HistoryOK, Status, Active, Outcome, Attempt, RunnerStage, run, history
  <2>3. Opened' /\ Decided' /\ Shown'
    BY <1>7, <2>1, <2>2 DEF RunnerDies, Alive, Inv, RunOK, Status, Opened, Decided, Shown, Active, Outcome, Attempt, run
  <2> QED
    BY <1>7, <2>1, <2>2, <2>3, RunStep
<1>8. CASE RunnerArchives(a)
  <2>1. FilesOK' /\ UNCHANGED <<status, starter, verdict, host, published, notified, deaths>> /\ path' = None
    BY <1>8 DEF RunnerArchives, Writes, FilesOK, ClaimStage, history
  <2>2. RunOK' /\ Opened' /\ Decided' /\ Shown'
    BY <1>8, <2>1 DEF RunnerArchives, Goes, Inv, RunOK, RunnerStage, Opened, Decided, Shown
  <2> QED
    BY <2>1, <2>2, OutboxAssumption DEF Inv, HostsOK, HistoryOK, Honest, NoticeMatchesStatus, ConfirmedWasNotified
<1>9. CASE RunnerStamps(a)
  <2>1. outbox' \in Request
    BY <1>9 DEF RunnerStamps, Goes, Writes, Stamped, Inv, RunOK, Opened, Decided, Status, Request, Attempt
  <2>2. FilesOK' /\ UNCHANGED <<status, starter, verdict, host, published, notified, deaths>> /\ path' = None
    BY <1>9, <2>1 DEF RunnerStamps, Writes, FilesOK, ClaimStage, history
  <2>3. RunOK' /\ Opened' /\ Decided' /\ Shown'
    BY <1>9, <2>2 DEF RunnerStamps, Goes, Inv, RunOK, RunnerStage, Opened, Decided, Shown
  <2> QED
    BY <2>2, <2>3, OutboxAssumption DEF Inv, HostsOK, HistoryOK, Honest, NoticeMatchesStatus, ConfirmedWasNotified
<1> QED
  BY <1>1, <1>2, <1>3, <1>4, <1>5, <1>6, <1>7, <1>8, <1>9 DEF Runs, Publishes

-----------------------------------------------------------------------------
(* What a host may put into its record. *)
LEMMA RecordFields ==
  ASSUME NEW r \in HostRecord
  PROVE  /\ \A x \in HostStage : [r EXCEPT !.at = x] \in HostRecord
         /\ \A x \in Request \cup {NoRequest} : [r EXCEPT !.request = x] \in HostRecord
         /\ \A x \in 0 .. MaxAttempts : [r EXCEPT !.seen = x] \in HostRecord
         /\ \A x \in (Host \cup {None, Confirmed}) \X ClaimStage : [r EXCEPT !.prior = x] \in HostRecord
         /\ \A x \in Host \cup {None, Confirmed} : [r EXCEPT !.displaced = x] \in HostRecord
  BY DEF HostRecord

LEMMA HostFacts ==
  ASSUME Inv, NEW h \in Host
  PROVE  host[h] \in HostRecord /\ Honest(host[h]) /\ (host[h].at # "idle" => status.attempt # 0)
  BY DEF Inv, HostsOK, Opened

(* A host that goes on to another stage with what it has. *)
LEMMA NextStage ==
  ASSUME Inv, NEW h \in Host, NEW x \in HostStage
  PROVE  /\ At(h, x) \in HostRecord
         /\ At(h, x).at = x /\ At(h, x).request = Req(h) /\ At(h, x).displaced = host[h].displaced
<1>1. host[h] \in HostRecord
  BY HostFacts
<1>2. At(h, x) \in HostRecord
  BY <1>1, RecordFields DEF At
<1> QED
  BY <1>1, <1>2 DEF At, Req, HostRecord

LEMMA FillingRecord ==
  ASSUME Inv, NEW h \in Host
  PROVE  LET record == [At(h, "filling") EXCEPT !.prior = NothingRead, !.displaced = None] IN
         record \in HostRecord /\ record.at = "filling" /\ record.request = Req(h)
<1>1. At(h, "filling") \in HostRecord /\ At(h, "filling").at = "filling" /\ At(h, "filling").request = Req(h)
  BY NextStage DEF HostStage
<1>2. NothingRead \in (Host \cup {None, Confirmed}) \X ClaimStage
  BY DEF NothingRead, ClaimStage
<1>3. [At(h, "filling") EXCEPT !.prior = NothingRead] \in HostRecord
  BY <1>1, <1>2, RecordFields, Zenon
<1>4. [[At(h, "filling") EXCEPT !.prior = NothingRead] EXCEPT !.displaced = None] \in HostRecord
  BY <1>3, RecordFields
<1> QED
  BY <1>1, <1>4 DEF HostRecord

(* A step of a host that leaves the history alone as well. *)
LEMMA QuietStep ==
  ASSUME Inv, NEW h \in Host, NEW record \in HostRecord,
         UNCHANGED <<run, history>>, deaths' \in 0 .. MaxDeaths, status.attempt # 0,
         host' = [host EXCEPT ![h] = record], Honest(record), FilesOK', ConfirmedWasNotified'
  PROVE  Inv'
<1>1. Honest(record)' /\ NoticeMatchesStatus'
  BY DEF Inv, Honest, NoticeMatchesStatus, history
<1>2. UNCHANGED <<run, published>> /\ notified \subseteq notified' /\ notified' \subseteq Request
  BY DEF Inv, HistoryOK, history
<1> QED
  BY <1>1, <1>2, HostStep

-----------------------------------------------------------------------------
(* The repair of a dead run. *)
LEMMA RepairSteps == ASSUME Inv, NEW h \in Host, Repairs(h) PROVE Inv'
<1>1. CASE ScanFindsStale(h)
  <2> DEFINE record == [At(h, "stale") EXCEPT !.seen = status.attempt]
  <2>1. At(h, "stale") \in HostRecord /\ At(h, "stale").at = "stale"
    BY NextStage DEF HostStage
  <2>2. status.attempt \in 0 .. MaxAttempts /\ status.attempt # 0
    BY <1>1 DEF ScanFindsStale, Stale, Inv, RunOK, Status, Opened, Active
  <2>3. record \in HostRecord
    BY <2>1, <2>2, RecordFields
  <2>4. record.at = "stale"
    BY <2>1 DEF HostRecord
  <2>5. Honest(record)
    BY <2>4 DEF Honest, Claiming
  <2>6. FilesOK' /\ ConfirmedWasNotified' /\ UNCHANGED <<run, history>> /\ deaths' \in 0 .. MaxDeaths
    BY <1>1 DEF ScanFindsStale, Inv, RunOK, FilesOK, ConfirmedWasNotified, receipts, history
  <2>7. host' = [host EXCEPT ![h] = record]
    BY <1>1 DEF ScanFindsStale, Moves
  <2> HIDE DEF record
  <2> QED
    BY <2>2, <2>3, <2>5, <2>6, <2>7, QuietStep
<1>2. CASE RepairDecides(h)
  <2>1. host[h].at = "stale" /\ UNCHANGED <<run, history>> /\ deaths' \in 0 .. MaxDeaths
    BY <1>2 DEF RepairDecides, Moves, Inv, RunOK
  <2>2. status.attempt # 0
    BY <2>1, HostFacts
  <2>3. CASE Belongs(outbox, host[h].seen)
    <3> DEFINE record == [At(h, "repairing") EXCEPT !.request = outbox]
    <3>1. outbox \in Request
      BY <2>3 DEF Belongs, Inv, FilesOK
    <3>2. At(h, "repairing") \in HostRecord /\ At(h, "repairing").at = "repairing"
      BY NextStage DEF HostStage
    <3>3. record \in HostRecord
      BY <3>1, <3>2, RecordFields
    <3>4. record.at = "repairing" /\ record.request = outbox
      BY <3>2 DEF HostRecord
    <3>5. Honest(record)
      BY <3>1, <3>4 DEF Honest, Claiming
    <3>6. FilesOK' /\ ConfirmedWasNotified'
      BY <1>2, <2>3 DEF RepairDecides, Inv, FilesOK, ConfirmedWasNotified, receipts, history
    <3>7. host' = [host EXCEPT ![h] = record]
      BY <1>2, <2>3 DEF RepairDecides, Moves
    <3> HIDE DEF record
    <3> QED
      BY <2>1, <2>2, <3>3, <3>5, <3>6, <3>7, QuietStep
  <2>4. CASE ~Belongs(outbox, host[h].seen)
    <3>1. At(h, "stamping") \in HostRecord /\ Honest(At(h, "stamping"))
      BY NextStage DEF HostStage, Honest, Claiming
    <3>2. FilesOK' /\ ConfirmedWasNotified'
      BY <1>2, <2>4, OutboxAssumption DEF RepairDecides, Writes, FilesOK, ConfirmedWasNotified, ClaimStage
    <3>3. host' = [host EXCEPT ![h] = At(h, "stamping")]
      BY <1>2, <2>4 DEF RepairDecides, Moves
    <3> QED
      BY <2>1, <2>2, <3>1, <3>2, <3>3, QuietStep
  <2> QED
    BY <2>3, <2>4
<1>3. CASE RepairStamps(h)
  <2> DEFINE record == [At(h, "repairing") EXCEPT !.request = Stamped(h, "failed")]
  <2>1. host[h].at = "stamping" /\ UNCHANGED <<run, history>> /\ deaths' \in 0 .. MaxDeaths
    BY <1>3 DEF RepairStamps, Moves, Inv, RunOK
  <2>2. status.attempt # 0
    BY <2>1, HostFacts
  <2>3. Stamped(h, "failed") \in Request
    BY <2>2 DEF Stamped, Request, Outcome, Attempt, Inv, RunOK, Status
  <2>4. At(h, "repairing") \in HostRecord /\ At(h, "repairing").at = "repairing"
    BY NextStage DEF HostStage
  <2>5. record \in HostRecord
    BY <2>3, <2>4, RecordFields
  <2>6. record.at = "repairing" /\ record.request = Stamped(h, "failed")
    BY <2>4 DEF HostRecord
  <2>7. Honest(record)
    BY <2>3, <2>6 DEF Honest, Claiming
  <2>8. FilesOK' /\ ConfirmedWasNotified'
    BY <1>3, <2>3, OutboxAssumption DEF RepairStamps, Writes, FilesOK, ConfirmedWasNotified, ClaimStage
  <2>9. host' = [host EXCEPT ![h] = record]
    BY <1>3 DEF RepairStamps, Moves
  <2> HIDE DEF record
  <2> QED
    BY <2>1, <2>2, <2>5, <2>7, <2>8, <2>9, QuietStep
<1>4. CASE RepairPublishes(h)
  <2> DEFINE outcome == Req(h).outcome
  <2>1. host[h].at = "repairing" /\ host' = [host EXCEPT ![h] = IdleHost]
    BY <1>4 DEF RepairPublishes, Moves
  <2>2. outcome \in Outcome /\ status.attempt # 0
    BY <2>1, HostFacts DEF Honest, Request, Req
  <2>3. /\ status' = [status EXCEPT !.state = outcome, !.pid = 0, !.fresh = FALSE]
        /\ published' = published \cup {<<status.attempt, outcome>>}
        /\ UNCHANGED <<starter, runner, verdict, outbox, receipts, notified, deaths>>
    BY <1>4 DEF RepairPublishes, Publish, Req
  <2> HIDE DEF outcome
  <2>4. status \in Status /\ status.attempt \in Attempt
    BY <2>2 DEF Inv, RunOK, Status, Attempt
  <2>5. status' \in Status
    <3>1. outcome \in Active \cup Outcome /\ 0 \in 0 .. MaxAttempts /\ FALSE \in BOOLEAN
      BY <2>2, OutboxAssumption
    <3> QED
      BY <2>3, <2>4, <3>1, StatusPatched, Zenon
  <2>6. status'.attempt = status.attempt /\ status'.state = outcome
    BY <2>3, <2>4 DEF Status
  <2>7. RunOK' /\ FilesOK' /\ HistoryOK'
    BY <2>2, <2>3, <2>4, <2>5 DEF Inv, RunOK, FilesOK, HistoryOK, receipts
  <2>8. HostsOK' /\ \A g \in Host : Honest(host[g])'
    <3>1. HostsOK'
      BY <2>1, IdleIsFine DEF Inv, HostsOK
    <3>2. ASSUME NEW g \in Host PROVE Honest(host[g])'
      <4>1. CASE g = h
        BY <2>1, <4>1, IdleIsFine DEF Inv, HostsOK, Honest, IdleHost, Claiming
      <4>2. CASE g # h
        BY <2>1, <2>3, <4>2 DEF Inv, HostsOK, Honest
      <4> QED
        BY <4>1, <4>2
    <3> QED
      BY <3>1, <3>2
  <2>9. Opened' /\ Decided' /\ Shown'
    BY <2>2, <2>3, <2>6 DEF Inv, Opened, Decided, Shown
  <2>10. NoticeMatchesStatus' /\ ConfirmedWasNotified'
    BY <2>3 DEF Inv, NoticeMatchesStatus, ConfirmedWasNotified, receipts
  <2> QED
    BY <2>7, <2>8, <2>9, <2>10 DEF Inv
<1> QED
  BY <1>1, <1>2, <1>3, <1>4 DEF Repairs

-----------------------------------------------------------------------------
(* The lease. *)
LEMMA ClaimSteps == ASSUME Inv, NEW h \in Host, Claims(h) PROVE Inv'
<1>1. UNCHANGED <<run, history>> /\ deaths' \in 0 .. MaxDeaths /\ host[h].at # "idle" /\ outbox' = outbox
  BY DEF Claims, ClaimIsMoot, ClaimIsLate, ClaimTries, ClaimDisplaces, ClaimCompares, ClaimRecreates,
     Creates, GivesUp, Moves, Inv, RunOK
<1>2. status.attempt # 0
  BY <1>1, HostFacts
(* Giving up, *)
<1>3. ASSUME host' = [host EXCEPT ![h] = IdleHost], UNCHANGED receipts PROVE Inv'
  <2>1. FilesOK' /\ ConfirmedWasNotified'
    BY <1>1, <1>3 DEF Inv, FilesOK, ConfirmedWasNotified, receipts, history
  <2> QED
    BY <1>1, <1>2, <1>3, <2>1, IdleIsFine, QuietStep
(* or going on with the request, *)
<1>4. ASSUME NEW x \in Claiming \ {"marking", "comparing"}, NEW record \in HostRecord,
             host' = [host EXCEPT ![h] = record], record.at = x, record.request = Req(h),
             host[h].at \in Claiming, FilesOK', ConfirmedWasNotified'
      PROVE  Inv'
  <2>1. Honest(record)
    BY <1>4, HostFacts DEF Honest, Req
  <2> QED
    BY <1>1, <1>2, <1>4, <2>1, QuietStep
(* perhaps with a claim of one's own. *)
<1>5. ASSUME NEW from \in {"claiming", "retrying", "recreating"}, Creates(h, from) PROVE Inv'
  <2> DEFINE record == [At(h, "filling") EXCEPT !.prior = NothingRead, !.displaced = None]
  <2>1. record \in HostRecord /\ record.at = "filling" /\ record.request = Req(h)
    BY FillingRecord
  <2>2. host' = [host EXCEPT ![h] = record] /\ host[h].at \in Claiming
    BY <1>5 DEF Creates, Moves, Claiming
  <2>3. FilesOK' /\ ConfirmedWasNotified'
    BY <1>1, <1>5, OutboxAssumption DEF Creates, Inv, FilesOK, ConfirmedWasNotified, ClaimStage, history
  <2> HIDE DEF record
  <2> QED
    BY <1>4, <2>1, <2>2, <2>3 DEF Claiming
<1>6. CASE ClaimIsMoot(h)
  <2> DEFINE record == [At(h, "filling") EXCEPT !.prior = NothingRead, !.displaced = None]
  <2>1. record \in HostRecord /\ record.at = "filling" /\ record.request = Req(h)
    BY FillingRecord
  <2>2. UNCHANGED receipts /\ FilesOK' /\ ConfirmedWasNotified' /\ host[h].at \in Claiming
    BY <1>1, <1>6 DEF ClaimIsMoot, Inv, FilesOK, ConfirmedWasNotified, receipts, history, Claiming
  <2>3. host' = [host EXCEPT ![h] = IdleHost] \/ host' = [host EXCEPT ![h] = record]
    BY <1>6 DEF ClaimIsMoot
  <2> HIDE DEF record
  <2> QED
    BY <1>3, <1>4, <2>1, <2>2, <2>3 DEF Claiming
<1>7. CASE ClaimIsLate(h)
  BY <1>3, <1>7 DEF ClaimIsLate, GivesUp, Moves
<1>8. CASE ClaimTries(h)
  <2>1. PICK from \in {"claiming", "retrying"} :
          \/ Creates(h, from)
          \/ GivesUp(h, from)
          \/ Moves(h, from, [At(h, "displacing") EXCEPT !.prior = Contents(path)]) /\ path # None /\ UNCHANGED receipts
    BY <1>8 DEF ClaimTries
  <2>2. ASSUME Moves(h, from, [At(h, "displacing") EXCEPT !.prior = Contents(path)]), UNCHANGED receipts PROVE Inv'
    <3> DEFINE record == [At(h, "displacing") EXCEPT !.prior = Contents(path)]
    <3>1. At(h, "displacing") \in HostRecord /\ At(h, "displacing").at = "displacing" /\ At(h, "displacing").request = Req(h)
      BY NextStage DEF HostStage
    <3>2. Contents(path) \in (Host \cup {None, Confirmed}) \X ClaimStage
      BY DEF Contents, Inv, FilesOK, ClaimStage
    <3>3. record \in HostRecord
      BY <3>1, <3>2, RecordFields
    <3>4. record.at = "displacing" /\ record.request = Req(h)
      BY <3>1 DEF HostRecord
    <3>5. FilesOK' /\ ConfirmedWasNotified'
      BY <1>1, <2>2 DEF Inv, FilesOK, ConfirmedWasNotified, receipts, history
    <3>6. host' = [host EXCEPT ![h] = record] /\ host[h].at \in Claiming
      BY <2>2 DEF Moves, Claiming
    <3> HIDE DEF record
    <3> QED
      BY <1>4, <3>3, <3>4, <3>5, <3>6 DEF Claiming
  <2>3. CASE GivesUp(h, from)
    BY <1>3, <2>3 DEF GivesUp, Moves
  <2> QED
    BY <1>5, <2>1, <2>2, <2>3
<1>9. CASE ClaimDisplaces(h)
  <2>1. CASE path # None
    <3> DEFINE record == [At(h, "comparing") EXCEPT !.displaced = path]
    <3>1. At(h, "comparing") \in HostRecord /\ At(h, "comparing").at = "comparing" /\ At(h, "comparing").request = Req(h)
      BY NextStage DEF HostStage
    <3>2. record \in HostRecord
      BY <3>1, RecordFields DEF Inv, FilesOK
    <3>3. record.at = "comparing" /\ record.request = Req(h) /\ record.displaced = path
      BY <3>1 DEF HostRecord
    <3>4. outbox = Req(h) /\ host[h].at = "displacing" /\ host' = [host EXCEPT ![h] = record]
      BY <1>9, <2>1 DEF ClaimDisplaces, InForce, Moves, GivesUp
    <3>5. FilesOK' /\ ConfirmedWasNotified'
      BY <1>1, <1>9, <2>1, OutboxAssumption DEF ClaimDisplaces, GivesUp, Inv, FilesOK, ConfirmedWasNotified
    <3>6. Honest(record)
      BY <3>3, <3>4, HostFacts DEF Honest, Req, Claiming, Inv, ConfirmedWasNotified
    <3> HIDE DEF record
    <3> QED
      BY <1>1, <1>2, <3>2, <3>4, <3>5, <3>6, QuietStep
  <2>2. CASE path = None
    <3>1. UNCHANGED receipts /\ FilesOK' /\ ConfirmedWasNotified' /\ host[h].at \in Claiming
      BY <1>1, <1>9, <2>2 DEF ClaimDisplaces, GivesUp, Moves, Inv, FilesOK, ConfirmedWasNotified, receipts, history, Claiming
    <3>2. host' = [host EXCEPT ![h] = At(h, "retrying")] \/ host' = [host EXCEPT ![h] = IdleHost]
      BY <1>9, <2>2 DEF ClaimDisplaces, GivesUp, Moves
    <3>3. At(h, "retrying") \in HostRecord /\ At(h, "retrying").at = "retrying" /\ At(h, "retrying").request = Req(h)
      BY NextStage DEF HostStage
    <3> QED
      BY <1>3, <1>4, <3>1, <3>2, <3>3 DEF Claiming
  <2> QED
    BY <2>1, <2>2
<1>10. CASE ClaimCompares(h)
  <2>1. outbox = Req(h) /\ host[h].at = "comparing"
    BY <1>10 DEF ClaimCompares, InForce, Moves
  <2>2. host[h].displaced \in Host \cup {None, Confirmed}
    BY HostFacts DEF HostRecord
  <2>3. host[h].displaced = Confirmed => outbox \in notified
    BY <2>1, HostFacts DEF Honest, Req
  <2>4. path' \in {path, host[h].displaced}
    BY <1>10 DEF ClaimCompares
  <2>5. claim' \in [Host -> ClaimStage]
    BY <1>10 DEF ClaimCompares, Inv, FilesOK, ClaimStage
  <2>6. FilesOK' /\ ConfirmedWasNotified'
    BY <1>1, <2>2, <2>3, <2>4, <2>5 DEF Inv, FilesOK, ConfirmedWasNotified, history
  <2>7. host' = [host EXCEPT ![h] = At(h, "recreating")] \/ host' = [host EXCEPT ![h] = IdleHost]
    BY <1>10 DEF ClaimCompares, Moves
  <2>8. At(h, "recreating") \in HostRecord /\ At(h, "recreating").at = "recreating" /\ At(h, "recreating").request = Req(h)
    BY NextStage DEF HostStage
  <2>9. CASE host' = [host EXCEPT ![h] = IdleHost]
    BY <1>1, <1>2, <2>6, <2>9, IdleIsFine, QuietStep
  <2> QED
    BY <1>4, <2>1, <2>6, <2>7, <2>8, <2>9 DEF Claiming
<1>11. CASE ClaimRecreates(h)
  BY <1>3, <1>5, <1>11 DEF ClaimRecreates, GivesUp, Moves
<1> QED
  BY <1>6, <1>7, <1>8, <1>9, <1>10, <1>11 DEF Claims

-----------------------------------------------------------------------------
(* Delivery. *)
LEMMA DeliverSteps == ASSUME Inv, NEW h \in Host, Delivers(h) PROVE Inv'
<1>1. UNCHANGED <<run, outbox, published>> /\ deaths' \in 0 .. MaxDeaths
  BY DEF Delivers, ScanFindsRequest, ClaimFills, RechecksRequest, Sends, Marks, history, Inv, RunOK
(* A stage in which nothing has been sent yet. *)
<1>2. ASSUME NEW x \in {"claiming", "rechecking", "reading"}, host' = [host EXCEPT ![h] = At(h, x)],
             host[h].at \in Claiming, FilesOK', ConfirmedWasNotified', UNCHANGED history
      PROVE  Inv'
  <2>1. At(h, x) \in HostRecord /\ At(h, x).at = x /\ At(h, x).request = Req(h)
    BY <1>2, NextStage DEF HostStage
  <2>2. Honest(At(h, x)) /\ status.attempt # 0
    BY <1>2, <2>1, HostFacts DEF Honest, Req, Claiming
  <2> QED
    BY <1>1, <1>2, <2>1, <2>2, QuietStep
(* The end of a delivery, *)
<1>3. ASSUME host' = [host EXCEPT ![h] = IdleHost], host[h].at \in Claiming,
             FilesOK', ConfirmedWasNotified', UNCHANGED history
      PROVE  Inv'
  <2>1. status.attempt # 0
    BY <1>3, HostFacts DEF Claiming
  <2> QED
    BY <1>1, <1>3, <2>1, IdleIsFine, QuietStep
(* and a notice that is sent. *)
<1>4. ASSUME NEW record \in {IdleHost, At(h, "marking")}, host' = [host EXCEPT ![h] = record],
             host[h].at \in Claiming, notified' = notified \cup {Req(h)},
             UNCHANGED path, FilesOK'
      PROVE  Inv'
  <2>1. status.attempt # 0 /\ Req(h) \in Request /\ <<Req(h).attempt, Req(h).outcome>> \in published
    BY <1>4, HostFacts DEF Honest, Req, Claiming
  <2>2. At(h, "marking") \in HostRecord /\ At(h, "marking").at = "marking" /\ At(h, "marking").request = Req(h)
    BY NextStage DEF HostStage
  <2>3. record \in HostRecord /\ Honest(record)'
    BY <1>1, <1>4, <2>1, <2>2, IdleIsFine DEF Honest, IdleHost, Claiming
  <2>4. NoticeMatchesStatus' /\ ConfirmedWasNotified' /\ notified' \subseteq Request /\ notified \subseteq notified'
    BY <1>1, <1>4, <2>1 DEF Inv, NoticeMatchesStatus, ConfirmedWasNotified, HistoryOK
  <2> QED
    BY <1>1, <1>4, <2>1, <2>3, <2>4, HostStep
<1>5. CASE ScanFindsRequest(h)
  <2> DEFINE record == [At(h, "claiming") EXCEPT !.request = outbox]
  <2>1. outbox \in Request /\ Deliverable(outbox) /\ UNCHANGED <<receipts, history>>
    BY <1>5 DEF ScanFindsRequest, Inv, FilesOK
  <2>2. status.attempt # 0 /\ <<outbox.attempt, outbox.outcome>> \in published
    BY <2>1 DEF Deliverable, Request, Attempt, Inv, Shown
  <2>3. At(h, "claiming") \in HostRecord /\ At(h, "claiming").at = "claiming"
    BY NextStage DEF HostStage
  <2>4. record \in HostRecord
    BY <2>1, <2>3, RecordFields
  <2>5. record.at = "claiming" /\ record.request = outbox
    BY <2>3 DEF HostRecord
  <2>6. Honest(record)
    BY <2>1, <2>2, <2>5 DEF Honest
  <2>7. FilesOK' /\ ConfirmedWasNotified'
    BY <1>1, <2>1 DEF Inv, FilesOK, ConfirmedWasNotified, receipts, history
  <2>8. host' = [host EXCEPT ![h] = record]
    BY <1>5 DEF ScanFindsRequest, Moves
  <2> HIDE DEF record
  <2> QED
    BY <1>1, <2>1, <2>2, <2>4, <2>6, <2>7, <2>8, QuietStep
<1>6. CASE ClaimFills(h)
  <2>1. host[h].at = "filling" /\ UNCHANGED path
    BY <1>6 DEF ClaimFills, Moves
  <2>2. FilesOK'
    <3>1. claim' \in [Host -> ClaimStage]
      BY <1>6 DEF ClaimFills, Inv, FilesOK, ClaimStage
    <3> QED
      BY <1>1, <2>1, <3>1 DEF Inv, FilesOK
  <2>3. CASE h \in Waiter
    BY <1>4, <1>6, <2>1, <2>2, <2>3 DEF ClaimFills, Moves, Claiming
  <2>4. CASE h \notin Waiter
    <3>1. ConfirmedWasNotified' /\ UNCHANGED history
      BY <1>1, <1>6, <2>1, <2>4 DEF ClaimFills, Inv, ConfirmedWasNotified, history
    <3> QED
      BY <1>2, <1>6, <2>1, <2>2, <2>4, <3>1 DEF ClaimFills, Moves, Claiming
  <2> QED
    BY <2>3, <2>4
<1>7. CASE RechecksRequest(h)
  <2>1. FilesOK' /\ ConfirmedWasNotified' /\ UNCHANGED history /\ host[h].at \in Claiming
    BY <1>1, <1>7 DEF RechecksRequest, Moves, Inv, FilesOK, ConfirmedWasNotified, receipts, history, Claiming
  <2> QED
    BY <1>2, <1>3, <1>7, <2>1 DEF RechecksRequest, Moves
<1>8. CASE Sends(h)
  <2>1. host[h].at \in Claiming /\ UNCHANGED receipts /\ FilesOK'
    BY <1>1, <1>8 DEF Sends, Inv, FilesOK, receipts, Claiming
  <2>2. CASE Deliverable(Req(h))
    BY <1>4, <1>8, <2>1, <2>2 DEF Sends, Moves, receipts
  <2>3. CASE ~Deliverable(Req(h))
    <3>1. UNCHANGED history /\ ConfirmedWasNotified'
      BY <1>1, <1>8, <2>1, <2>3 DEF Sends, Inv, ConfirmedWasNotified, receipts, history
    <3> QED
      BY <1>3, <1>8, <2>1, <2>3, <3>1 DEF Sends, Moves
  <2> QED
    BY <2>2, <2>3
<1>9. CASE Marks(h)
  <2>1. host[h].at = "marking" /\ UNCHANGED history
    BY <1>9 DEF Marks, Moves
  <2>2. Req(h) \in notified
    BY <2>1, HostFacts DEF Honest, Req
  <2>3. path' \in {path, Confirmed} /\ (InForce(h) \/ path' = path) /\ claim' \in [Host -> ClaimStage]
    BY <1>9 DEF Marks, receipts, Inv, FilesOK, ClaimStage
  <2>4. FilesOK' /\ ConfirmedWasNotified'
    BY <1>1, <2>1, <2>2, <2>3 DEF Inv, FilesOK, ConfirmedWasNotified, InForce, history
  <2> QED
    BY <1>3, <1>9, <2>1, <2>4 DEF Marks, Moves, Claiming
<1> QED
  BY <1>5, <1>6, <1>7, <1>8, <1>9 DEF Delivers

LEMMA OtherHostSteps == ASSUME Inv, NEW h \in Host, ClaimAges(h) \/ HostDies(h) PROVE Inv'
<1>1. CASE ClaimAges(h)
  <2>1. UNCHANGED <<run, outbox, path, host, history, deaths>> /\ claim' \in [Host -> ClaimStage]
    BY <1>1 DEF ClaimAges, Inv, FilesOK, ClaimStage
  <2> QED
    BY <2>1 DEF Inv, run, history, RunOK, FilesOK, HostsOK, HistoryOK, Opened, Decided, Shown, Honest,
                NoticeMatchesStatus, ConfirmedWasNotified
<1>2. CASE HostDies(h)
  <2>1. UNCHANGED <<run, outbox, receipts, history>> /\ host[h].at # "idle" /\ host' = [host EXCEPT ![h] = IdleHost]
    BY <1>2 DEF HostDies
  <2>2. deaths' \in 0 .. MaxDeaths
    BY <1>2, OutboxAssumption DEF HostDies, Inv, RunOK
  <2>3. FilesOK' /\ ConfirmedWasNotified'
    BY <2>1 DEF Inv, FilesOK, ConfirmedWasNotified, receipts, history
  <2> QED
    BY <2>1, <2>2, <2>3, HostFacts, IdleIsFine, QuietStep
<1> QED
  BY <1>1, <1>2

-----------------------------------------------------------------------------
LEMMA InvStep == Inv /\ [Next]_vars => Inv'
<1> SUFFICES ASSUME Inv, [Next]_vars PROVE Inv'
  OBVIOUS
<1>1. CASE HeartbeatAges \/ Starts
  BY <1>1, ClockAndStarter
<1>2. ASSUME NEW a \in Attempt, Runs(a) PROVE Inv'
  BY <1>2, RunnerSteps
<1>3. ASSUME NEW h \in Host, Repairs(h) \/ Claims(h) \/ Delivers(h) \/ ClaimAges(h) \/ HostDies(h) PROVE Inv'
  BY <1>3, RepairSteps, ClaimSteps, DeliverSteps, OtherHostSteps
<1>4. CASE UNCHANGED vars
  BY <1>4 DEF vars, run, receipts, history, Inv, RunOK, FilesOK, HostsOK, HistoryOK, Opened, Decided, Shown,
              Honest, NoticeMatchesStatus, ConfirmedWasNotified
<1> QED
  BY <1>1, <1>2, <1>3, <1>4 DEF Next

LEMMA SpecInv == Spec => []Inv
  BY InitInv, InvStep, PTL DEF Spec

(* The status file, the outbox, the receipts and the locals of every        *)
(* process keep their types (terminal_notifications.ts,                     *)
(* run_status_model.ts).                                                    *)
THEOREM SpecTypeOK == Spec => []TypeOK
<1>1. Inv => TypeOK
  BY TypeParts DEF Inv
<1> QED
  BY <1>1, SpecInv, PTL

(* No process ever tells the user of an outcome that the run status has not *)
(* shown for that attempt, whoever dies or is displaced when, and even if   *)
(* the run is resumed while a host repairs it                               *)
(* (readDeliverableTerminalNotificationRequest and its callers).            *)
THEOREM SpecNoticeMatchesStatus == Spec => []NoticeMatchesStatus
<1>1. Inv => NoticeMatchesStatus
  BY DEF Inv
<1> QED
  BY <1>1, SpecInv, PTL

(* A confirmed receipt stands for a notice that was sent, also when it was  *)
(* renamed away by a process that then found it changed and put it back     *)
(* (claimTerminalNotificationReceipt, markTerminalNotificationReceipt).     *)
THEOREM SpecConfirmedWasNotified == Spec => []ConfirmedWasNotified
<1>1. Inv => ConfirmedWasNotified
  BY DEF Inv
<1> QED
  BY <1>1, SpecInv, PTL

-----------------------------------------------------------------------------
(* What the status reports is true when no attempt is opened while a host   *)
(* repairs the run.  Then only the current attempt has a live runner, whose *)
(* status is active and never stale; a repair is of the current attempt,    *)
(* and its runner is gone; and who wrote a request is known.                *)
Unshown(a) == \A o \in Outcome : <<a, o>> \notin published
Working == {"opened", "gating", "running", "persisting", "stamping", "publishing"}

RunnerTrue(a) ==
  /\ a # status.attempt => runner[a] \in {"none", "over", "dead"}
  /\ a > status.attempt => runner[a] = "none" /\ Unshown(a)
  /\ runner[a] \in {"none", "spawned", "opened", "gating", "running"} => verdict[a] = "none"
  /\ runner[a] \in Working \cup {"spawned"} => status.state \in Active /\ Unshown(a)
  /\ runner[a] \in Working => status.pid = a
  /\ runner[a] = "spawned" => status.fresh
  /\ runner[a] = "over" /\ a = status.attempt => status.state \in Outcome
  /\ runner[a] \in {"gating", "running", "persisting", "stamping"} => outbox = NoRequest

StarterTrue ==
  /\ starter # "idle" => status.attempt # 0 /\ (status.fresh \/ status.state \in Outcome)
  /\ starter = "spawning" =>
       runner[status.attempt] = "none" /\ status.state \in Active /\ status.fresh /\ Unshown(status.attempt)
  /\ starter = "recording" => runner[status.attempt] # "none"

OutboxTrue ==
  outbox # NoRequest =>
    /\ outbox.by \in Attempt => outbox.by = outbox.attempt /\ verdict[outbox.by] = outbox.outcome
    /\ outbox.by \in Host => outbox.outcome = "failed"

RepairTrue(h) ==
  Repairing(h) =>
    /\ host[h].seen = status.attempt /\ starter = "idle" /\ runner[status.attempt] \in {"none", "dead"}
    /\ host[h].at = "stamping" => outbox.by # status.attempt
    /\ host[h].at = "repairing" =>
         IF Req(h).outcome = "complete" THEN verdict[status.attempt] = "complete"
         ELSE verdict[status.attempt] # "complete" \/ outbox.by # status.attempt

TrueInv ==
  /\ \A a \in Attempt : RunnerTrue(a)
  /\ StarterTrue /\ OutboxTrue
  /\ \A h \in Host : RepairTrue(h)
  /\ OutcomeIsTrue

LEMMA TrueInit == Init => TrueInv
<1> SUFFICES ASSUME Init PROVE TrueInv
  OBVIOUS
<1>1. \A a \in Attempt : RunnerTrue(a)
  BY OutboxAssumption DEF Init, RunnerTrue, Unshown, Working, Attempt
<1>2. StarterTrue /\ OutboxTrue /\ OutcomeIsTrue
  BY DEF Init, StarterTrue, OutboxTrue, OutcomeIsTrue
<1>3. \A h \in Host : RepairTrue(h)
  BY DEF Init, RepairTrue, Repairing, IdleHost
<1> QED
  BY <1>1, <1>2, <1>3 DEF TrueInv

LEMMA RunTypes ==
  ASSUME Inv
  PROVE  /\ status \in Status /\ status.attempt \in 0 .. MaxAttempts /\ (status.attempt # 0 => status.attempt \in Attempt)
         /\ runner \in [Attempt -> RunnerStage] /\ verdict \in [Attempt -> Outcome \cup {"none"}]
         /\ host \in [Host -> HostRecord] /\ MaxAttempts \in Nat
         /\ \A a \in Attempt : a \in Nat /\ a # 0 /\ a \notin Host
         /\ 0 \notin Host
  BY OutboxAssumption DEF Inv, RunOK, HostsOK, Status, Attempt

(* A step that leaves the run, the outbox and the repairs alone. *)
LEMMA AsideStep ==
  ASSUME TrueInv, UNCHANGED <<run, outbox, published>>,
         \A h \in Host : Repairing(h)' => host'[h] = host[h]
  PROVE  TrueInv'
<1>1. \A a \in Attempt : RunnerTrue(a)'
  BY DEF TrueInv, RunnerTrue, Unshown, run
<1>2. StarterTrue' /\ OutboxTrue' /\ OutcomeIsTrue'
  BY DEF TrueInv, StarterTrue, OutboxTrue, OutcomeIsTrue, Unshown, run
<1>3. \A h \in Host : RepairTrue(h)'
  BY DEF TrueInv, RepairTrue, Repairing, Req, run
<1> QED
  BY <1>1, <1>2, <1>3 DEF TrueInv

LEMMA TrueAside ==
  ASSUME Inv, TrueInv, NEW h \in Host,
         ScanFindsRequest(h) \/ Claims(h) \/ Delivers(h) \/ ClaimAges(h) \/ HostDies(h)
  PROVE  TrueInv'
<1>1. UNCHANGED <<run, outbox, published>>
  BY DEF ScanFindsRequest, Claims, Delivers, ClaimAges, HostDies, ClaimIsMoot, ClaimIsLate, ClaimTries, ClaimDisplaces,
         ClaimCompares, ClaimRecreates, ClaimFills, RechecksRequest, Sends, Marks, history
<1>2. \E r : host' = [host EXCEPT ![h] = r] /\ (r.at \notin {"stale", "stamping", "repairing"} \/ r = host[h])
  <2>1. IdleHost.at = "idle"
    BY DEF IdleHost
  <2>2. \A x \in HostStage : At(h, x).at = x
    BY NextStage
  <2>3. host' = host => host' = [host EXCEPT ![h] = host[h]]
    BY RunTypes
  <2>4. CASE ScanFindsRequest(h) \/ Delivers(h) \/ ClaimAges(h) \/ HostDies(h)
    <3>1. ([At(h, "claiming") EXCEPT !.request = outbox]).at = "claiming"
      BY NextStage DEF HostRecord, HostStage
    <3> QED
      BY <2>4, <2>1, <2>2, <2>3, <3>1 DEF ScanFindsRequest, Delivers, ClaimAges, HostDies, ClaimFills, RechecksRequest,
         Sends, Marks, Moves, HostStage
  <2>5. CASE ClaimIsMoot(h) \/ ClaimIsLate(h) \/ ClaimTries(h) \/ ClaimDisplaces(h) \/ ClaimCompares(h) \/ ClaimRecreates(h)
    <3>1. ([At(h, "filling") EXCEPT !.prior = NothingRead, !.displaced = None]).at = "filling"
      BY FillingRecord
    <3>2. \A x : ([At(h, "displacing") EXCEPT !.prior = x]).at = "displacing" /\ ([At(h, "comparing") EXCEPT !.displaced = x]).at = "comparing"
      BY NextStage DEF HostRecord, HostStage
    <3>3. CASE ClaimIsMoot(h) \/ ClaimIsLate(h)
      BY <3>3, <2>1, <3>1 DEF ClaimIsMoot, ClaimIsLate, GivesUp, Moves
    <3>4. CASE ClaimTries(h)
      <4>1. \/ host' = [host EXCEPT ![h] = [At(h, "filling") EXCEPT !.prior = NothingRead, !.displaced = None]]
            \/ host' = [host EXCEPT ![h] = IdleHost]
            \/ host' = [host EXCEPT ![h] = [At(h, "displacing") EXCEPT !.prior = Contents(path)]]
        BY <3>4 DEF ClaimTries, Creates, GivesUp, Moves
      <4>2. ([At(h, "displacing") EXCEPT !.prior = Contents(path)]).at = "displacing"
        BY <3>2
      <4> QED
        BY <4>1, <4>2, <2>1, <3>1
    <3>5. CASE ClaimDisplaces(h)
      BY <3>5, <2>1, <2>2, <3>2 DEF ClaimDisplaces, GivesUp, Moves, HostStage
    <3>6. CASE ClaimCompares(h)
      BY <3>6, <2>1, <2>2 DEF ClaimCompares, Moves, HostStage
    <3>7. CASE ClaimRecreates(h)
      BY <3>7, <2>1, <3>1 DEF ClaimRecreates, Creates, GivesUp, Moves
    <3> QED
      BY <2>5, <3>3, <3>4, <3>5, <3>6, <3>7
  <2> QED
    BY <2>4, <2>5 DEF Claims
<1>3. PICK r : host' = [host EXCEPT ![h] = r] /\ (r.at \notin {"stale", "stamping", "repairing"} \/ r = host[h])
  BY <1>2
<1>4. \A g \in Host : Repairing(g)' => host'[g] = host[g]
  BY <1>3, RunTypes DEF Repairing
<1> QED
  BY <1>1, <1>4, AsideStep

LEMMA TrueClock == ASSUME Inv, TrueInv, HeartbeatAges PROVE TrueInv'
<1>1. /\ status' = [status EXCEPT !.fresh = FALSE] /\ starter = "idle" /\ runner[status.attempt] # "spawned"
      /\ status.state \in Active
      /\ UNCHANGED <<starter, runner, verdict, outbox, receipts, host, history, deaths>>
  BY DEF HeartbeatAges
<1>2. status'.attempt = status.attempt /\ status'.state = status.state /\ status'.pid = status.pid /\ status'.fresh = FALSE
  BY <1>1, RunTypes DEF Status
<1>3. \A a \in Attempt : RunnerTrue(a)'
  BY <1>1, <1>2 DEF TrueInv, RunnerTrue, Unshown, history
<1>4. StarterTrue' /\ OutboxTrue' /\ OutcomeIsTrue'
  BY <1>1, <1>2 DEF TrueInv, StarterTrue, OutboxTrue, OutcomeIsTrue, Unshown, history
<1>5. \A h \in Host : RepairTrue(h)'
  BY <1>1, <1>2 DEF TrueInv, RepairTrue, Repairing, Req
<1> QED
  BY <1>3, <1>4, <1>5 DEF TrueInv

LEMMA TrueStarts == ASSUME Inv, TrueInv, ~Overlap, Starts PROVE TrueInv'
<1>1. CASE StartOpens
  <2>1. /\ status' = [status EXCEPT !.state = "starting", !.attempt = @ + 1, !.fresh = TRUE]
        /\ starter = "idle" /\ starter' = "spawning" /\ status.attempt < MaxAttempts
        /\ ~(status.state \in Active /\ IsLive) /\ \A h \in Host : ~Repairing(h)
        /\ UNCHANGED <<runner, verdict, outbox, receipts, host, history, deaths>>
    BY <1>1 DEF StartOpens
  <2>2. status'.attempt = status.attempt + 1 /\ status'.state = "starting" /\ status'.pid = status.pid /\ status'.fresh = TRUE
    BY <2>1, RunTypes DEF Status
  <2>3. status.attempt + 1 \in Attempt /\ status.attempt + 1 > status.attempt
    BY <2>1, RunTypes DEF Attempt
  <2>4. runner[status.attempt + 1] = "none" /\ Unshown(status.attempt + 1)
    BY <2>3 DEF TrueInv, RunnerTrue
  <2>5. ASSUME NEW a \in Attempt PROVE runner[a] \in {"none", "over", "dead"}
    BY <2>1, RunTypes DEF TrueInv, RunnerTrue, Working, RunnerStage, IsLive, Alive
  <2>6. ASSUME NEW a \in Attempt PROVE RunnerTrue(a)'
    <3>1. a > status.attempt + 1 => a > status.attempt
      BY RunTypes
    <3>2. RunnerTrue(a)
      BY DEF TrueInv
    <3>3. runner[a] \in {"none", "over", "dead"}
      BY <2>5
    <3>4. a = status.attempt + 1 => runner[a] = "none"
      BY <2>4
    <3> QED
      BY <2>1, <2>2, <3>1, <3>2, <3>3, <3>4 DEF RunnerTrue, Unshown, Working, history
  <2>7. StarterTrue'
    BY <2>1, <2>2, <2>3, <2>4, RunTypes DEF StarterTrue, Unshown, history, Active
  <2>8. OutboxTrue' /\ OutcomeIsTrue'
    BY <2>1 DEF TrueInv, OutboxTrue, OutcomeIsTrue, history
  <2>9. \A h \in Host : RepairTrue(h)'
    BY <2>1 DEF RepairTrue, Repairing
  <2> QED
    BY <2>6, <2>7, <2>8, <2>9 DEF TrueInv
<1>2. CASE StartSpawns
  <2>1. /\ starter = "spawning" /\ starter' = "recording" /\ runner' = [runner EXCEPT ![status.attempt] = "spawned"]
        /\ UNCHANGED <<status, verdict, outbox, receipts, host, history, deaths>>
    BY <1>2 DEF StartSpawns
  <2>2. /\ status.attempt \in Attempt /\ (status.fresh \/ status.state \in Outcome)
        /\ runner[status.attempt] = "none" /\ status.state \in Active /\ status.fresh /\ Unshown(status.attempt)
    BY <2>1, RunTypes DEF TrueInv, StarterTrue
  <2>3. runner'[status.attempt] = "spawned" /\ \A b \in Attempt : b # status.attempt => runner'[b] = runner[b]
    BY <2>1, <2>2, RunTypes
  <2>4. ASSUME NEW a \in Attempt PROVE RunnerTrue(a)'
    <3>1. RunnerTrue(a)
      BY DEF TrueInv
    <3>2. CASE a = status.attempt
      BY <2>1, <2>2, <2>3, <3>1, <3>2, RunTypes DEF RunnerTrue, Unshown, Working, history
    <3>3. CASE a # status.attempt
      BY <2>1, <2>2, <2>3, <3>1, <3>3 DEF RunnerTrue, Unshown, Working, history
    <3> QED
      BY <3>2, <3>3
  <2>5. StarterTrue'
    BY <2>1, <2>2, <2>3, RunTypes DEF StarterTrue
  <2>6. OutboxTrue' /\ OutcomeIsTrue'
    BY <2>1, <2>2, <2>3 DEF TrueInv, OutboxTrue, OutcomeIsTrue, history
  <2>7. \A h \in Host : RepairTrue(h)'
    BY <2>1 DEF TrueInv, RepairTrue, Repairing
  <2> QED
    BY <2>4, <2>5, <2>6, <2>7 DEF TrueInv
<1>3. CASE StartRecordsPid
  <2>1. /\ starter = "recording" /\ starter' = "idle" /\ status' = [status EXCEPT !.pid = status.attempt, !.fresh = TRUE]
        /\ UNCHANGED <<runner, verdict, outbox, receipts, host, history, deaths>>
    BY <1>3 DEF StartRecordsPid
  <2>2. status'.attempt = status.attempt /\ status'.state = status.state /\ status'.pid = status.attempt /\ status'.fresh = TRUE
    BY <2>1, RunTypes DEF Status
  <2>3. ASSUME NEW a \in Attempt PROVE RunnerTrue(a)'
    <3>1. RunnerTrue(a)
      BY DEF TrueInv
    <3>2. runner[a] \in Working => a = status.attempt
      BY <3>1 DEF RunnerTrue, Working
    <3> QED
      BY <2>1, <2>2, <3>1, <3>2 DEF RunnerTrue, Unshown, history
  <2>4. StarterTrue' /\ OutboxTrue' /\ OutcomeIsTrue'
    BY <2>1, <2>2 DEF TrueInv, StarterTrue, OutboxTrue, OutcomeIsTrue, Unshown, history
  <2>5. \A h \in Host : RepairTrue(h)'
    BY <2>1, <2>2 DEF TrueInv, RepairTrue, Repairing, Req
  <2> QED
    BY <2>3, <2>4, <2>5 DEF TrueInv
<1>4. CASE StarterDies
  <2>1. starter' = "idle" /\ UNCHANGED <<status, runner, verdict, outbox, receipts, host, history>>
    BY <1>4 DEF StarterDies
  <2>2. \A a \in Attempt : RunnerTrue(a)'
    BY <2>1 DEF TrueInv, RunnerTrue, Unshown, history
  <2>3. StarterTrue' /\ OutboxTrue' /\ OutcomeIsTrue'
    BY <2>1 DEF TrueInv, StarterTrue, OutboxTrue, OutcomeIsTrue, Unshown, history
  <2>4. \A h \in Host : RepairTrue(h)'
    BY <2>1 DEF TrueInv, RepairTrue, Repairing, Req
  <2> QED
    BY <2>2, <2>3, <2>4 DEF TrueInv
<1> QED
  BY <1>1, <1>2, <1>3, <1>4 DEF Starts

(* A live runner is the current one's, and nobody repairs its run. *)
LEMMA LiveRunner ==
  ASSUME Inv, TrueInv, NEW a \in Attempt, runner[a] \in Working \cup {"spawned"}
  PROVE  /\ status.attempt = a /\ status.state \in Active /\ Unshown(a) /\ RunnerTrue(a)
         /\ \A h \in Host : ~Repairing(h)
         /\ starter # "spawning" /\ (starter # "idle" => status.fresh \/ status.state \in Outcome)
<1>1. status.attempt = a /\ status.state \in Active /\ Unshown(a) /\ RunnerTrue(a)
  BY DEF TrueInv, RunnerTrue, Working
<1>2. \A h \in Host : ~Repairing(h)
  BY <1>1 DEF TrueInv, RepairTrue, Working
<1>3. starter # "spawning" /\ (starter # "idle" => status.fresh \/ status.state \in Outcome)
  BY <1>1 DEF TrueInv, StarterTrue, Working
<1> QED
  BY <1>1, <1>2, <1>3

LEMMA LiveRunnerStep ==
  ASSUME Inv, TrueInv, NEW a \in Attempt, runner[a] \in Working \cup {"spawned"}, NEW x,
         runner' = [runner EXCEPT ![a] = x], status'.attempt = a, UNCHANGED <<starter, host>>,
         \A b \in Attempt : b # a => verdict'[b] = verdict[b],
         \A b \in Attempt, o \in Outcome : b # a => (<<b, o>> \in published' <=> <<b, o>> \in published)
  PROVE  /\ \A b \in Attempt : b # a => RunnerTrue(b)'
         /\ \A h \in Host : RepairTrue(h)'
         /\ runner'[a] = x
<1>1. status.attempt = a /\ \A h \in Host : ~Repairing(h)
  BY LiveRunner
<1>2. \A h \in Host : RepairTrue(h)'
  BY <1>1 DEF RepairTrue, Repairing
<1>3. runner'[a] = x /\ \A b \in Attempt : b # a => runner'[b] = runner[b]
  BY RunTypes
<1>4. ASSUME NEW b \in Attempt, b # a PROVE RunnerTrue(b)'
  <2>1. RunnerTrue(b) /\ runner[b] \in {"none", "over", "dead"} /\ runner'[b] = runner[b]
    BY <1>1, <1>3, <1>4 DEF TrueInv, RunnerTrue
  <2> QED
    BY <1>1, <1>4, <2>1 DEF RunnerTrue, Unshown, Working
<1> QED
  BY <1>2, <1>3, <1>4

LEMMA TrueRunners == ASSUME Inv, TrueInv, NEW a \in Attempt, Runs(a) PROVE TrueInv'
<1>1. CASE RunnerOpens(a)
  <2>1. /\ runner[a] = "spawned" /\ runner' = [runner EXCEPT ![a] = "opened"]
        /\ status' = [status EXCEPT !.state = "starting", !.attempt = a, !.pid = a, !.fresh = TRUE]
        /\ UNCHANGED <<starter, verdict, outbox, receipts, host, history, deaths>>
    BY <1>1 DEF RunnerOpens, Goes
  <2>2. status'.attempt = a /\ status'.state = "starting" /\ status'.pid = a /\ status'.fresh = TRUE
    BY <2>1, RunTypes DEF Status
  <2>3. status.attempt = a /\ Unshown(a) /\ RunnerTrue(a)
    BY <2>1, LiveRunner
  <2>4. /\ \A b \in Attempt : b # a => RunnerTrue(b)'
        /\ \A h \in Host : RepairTrue(h)'
        /\ runner'[a] = "opened"
    BY <2>1, <2>2, LiveRunnerStep DEF history
  <2>5. RunnerTrue(a)'
    BY <2>1, <2>2, <2>3, <2>4 DEF RunnerTrue, Unshown, Working, Active, history
  <2>6. StarterTrue'
    BY <2>1, <2>2, <2>3, <2>4, RunTypes DEF TrueInv, StarterTrue
  <2>7. OutboxTrue' /\ OutcomeIsTrue'
    BY <2>1, <2>3, <2>4, RunTypes DEF TrueInv, OutboxTrue, OutcomeIsTrue, Unshown, history
  <2> QED
    BY <2>4, <2>5, <2>6, <2>7 DEF TrueInv
<1>2. CASE RunnerArchives(a)
  <2>1. /\ runner[a] = "opened" /\ runner' = [runner EXCEPT ![a] = "gating"] /\ outbox' = NoRequest
        /\ UNCHANGED <<status, starter, verdict, host, history, deaths>>
    BY <1>2 DEF RunnerArchives, Goes, Writes
  <2>2. status.attempt = a /\ status.state \in Active /\ Unshown(a) /\ RunnerTrue(a)
    BY <2>1, LiveRunner DEF Working
  <2>3. /\ \A b \in Attempt : b # a => RunnerTrue(b)'
        /\ \A h \in Host : RepairTrue(h)'
        /\ runner'[a] = "gating"
    BY <2>1, <2>2, LiveRunnerStep DEF history, Working
  <2>4. RunnerTrue(a)'
    BY <2>1, <2>2, <2>3 DEF RunnerTrue, Unshown, Working, history
  <2>5. StarterTrue' /\ OutboxTrue'
    BY <2>1, <2>2, <2>3, RunTypes DEF TrueInv, StarterTrue, OutboxTrue
  <2>6. OutcomeIsTrue'
    <3>1. NoRequest.by = 0
      BY DEF NoRequest
    <3> QED
      BY <2>1, <2>2, <3>1, RunTypes DEF TrueInv, OutcomeIsTrue, Unshown, Outcome, history
  <2> QED
    BY <2>3, <2>4, <2>5, <2>6 DEF TrueInv
<1>3. CASE RunnerRuns(a)
  <2>1. /\ runner[a] = "gating" /\ runner' = [runner EXCEPT ![a] = "running"]
        /\ status' = [status EXCEPT !.state = "running", !.pid = a, !.fresh = TRUE]
        /\ UNCHANGED <<starter, verdict, outbox, receipts, host, history, deaths>>
    BY <1>3 DEF RunnerRuns, Goes
  <2>2. status.attempt = a /\ Unshown(a) /\ RunnerTrue(a)
    BY <2>1, LiveRunner DEF Working
  <2>3. status'.attempt = a /\ status'.state = "running" /\ status'.pid = a /\ status'.fresh = TRUE
    BY <2>1, <2>2, RunTypes DEF Status
  <2>4. /\ \A b \in Attempt : b # a => RunnerTrue(b)'
        /\ \A h \in Host : RepairTrue(h)'
        /\ runner'[a] = "running"
    BY <2>1, <2>3, LiveRunnerStep DEF history, Working
  <2>5. RunnerTrue(a)'
    BY <2>1, <2>2, <2>3, <2>4 DEF RunnerTrue, Unshown, Working, Active, history
  <2>6. StarterTrue'
    BY <2>1, <2>2, <2>3, <2>4, RunTypes DEF TrueInv, StarterTrue
  <2>7. OutboxTrue' /\ OutcomeIsTrue'
    BY <2>1, <2>2, <2>4, RunTypes DEF TrueInv, OutboxTrue, OutcomeIsTrue, Unshown, history
  <2> QED
    BY <2>4, <2>5, <2>6, <2>7 DEF TrueInv
<1>4. CASE RunnerDecides(a)
  <2>1. /\ runner[a] \in {"gating", "running"} /\ runner' = [runner EXCEPT ![a] = "persisting"]
        /\ \E o \in Outcome : verdict' = [verdict EXCEPT ![a] = o]
        /\ UNCHANGED <<status, starter, outbox, receipts, host, history, deaths>>
    BY <1>4 DEF RunnerDecides, Goes, Outcome
  <2>2. status.attempt = a /\ status.state \in Active /\ Unshown(a) /\ RunnerTrue(a)
    BY <2>1, LiveRunner DEF Working
  <2>3. \A b \in Attempt : b # a => verdict'[b] = verdict[b]
    BY <2>1, RunTypes
  <2>4. /\ \A b \in Attempt : b # a => RunnerTrue(b)'
        /\ \A h \in Host : RepairTrue(h)'
        /\ runner'[a] = "persisting"
    BY <2>1, <2>2, <2>3, LiveRunnerStep DEF history, Working
  <2>5. RunnerTrue(a)' /\ outbox = NoRequest
    BY <2>1, <2>2, <2>4 DEF RunnerTrue, Unshown, Working, history
  <2>6. StarterTrue' /\ OutboxTrue'
    <3>1. outbox' = NoRequest /\ UNCHANGED <<status, starter, published>>
      BY <2>1, <2>5 DEF history
    <3>2. OutboxTrue'
      BY <3>1 DEF OutboxTrue
    <3>3. starter # "spawning" /\ (starter # "idle" => status.fresh \/ status.state \in Outcome)
      BY <2>1, LiveRunner DEF Working
    <3>4. StarterTrue'
      BY <2>2, <2>4, <3>1, <3>3, RunTypes DEF StarterTrue
    <3> QED
      BY <3>2, <3>4
  <2>7. OutcomeIsTrue'
    <3> SUFFICES ASSUME NEW b \in Attempt
                 PROVE  /\ (<<b, "complete">> \in published => verdict[b] = "complete")'
                        /\ (<<b, "failed">> \in published => verdict[b] # "complete" \/ (runner[b] = "dead" /\ outbox.by # b))'
      BY DEF OutcomeIsTrue
    <3>1. CASE b = a
      BY <2>1, <2>2, <3>1 DEF Unshown, Outcome, history
    <3>2. CASE b # a
      BY <2>1, <2>3, <3>2, RunTypes DEF TrueInv, OutcomeIsTrue, history
    <3> QED
      BY <3>1, <3>2
  <2> QED
    BY <2>4, <2>5, <2>6, <2>7 DEF TrueInv
<1>5. CASE RunnerPersists(a)
  <2>1. runner[a] = "persisting"
    BY <1>5 DEF RunnerPersists, Goes
  <2>2. status.attempt = a /\ status.state \in Active /\ Unshown(a) /\ RunnerTrue(a) /\ outbox = NoRequest
    BY <2>1, LiveRunner DEF Working, RunnerTrue
  <2>3. /\ runner' = [runner EXCEPT ![a] = "stamping"]
        /\ UNCHANGED <<status, published, starter, verdict, outbox, receipts, host, notified, deaths>>
    BY <1>5, <2>2 DEF RunnerPersists, Goes
  <2>4. /\ \A b \in Attempt : b # a => RunnerTrue(b)'
        /\ \A h \in Host : RepairTrue(h)'
        /\ runner'[a] = "stamping"
    BY <2>1, <2>2, <2>3, LiveRunnerStep DEF Working
  <2>5. RunnerTrue(a)'
    BY <2>1, <2>2, <2>3, <2>4 DEF RunnerTrue, Unshown, Working
  <2>6. StarterTrue' /\ OutboxTrue'
    <3>1. starter # "spawning" /\ (starter # "idle" => status.fresh \/ status.state \in Outcome)
      BY <2>1, LiveRunner DEF Working
    <3>2. StarterTrue'
      BY <2>2, <2>3, <2>4, <3>1, RunTypes DEF StarterTrue
    <3>3. OutboxTrue'
      BY <2>2, <2>3 DEF OutboxTrue
    <3> QED
      BY <3>2, <3>3
  <2>7. OutcomeIsTrue'
    BY <2>2, <2>3, RunTypes DEF TrueInv, OutcomeIsTrue, Unshown, Outcome
  <2> QED
    BY <2>4, <2>5, <2>6, <2>7 DEF TrueInv
<1>6. CASE RunnerStamps(a)
  <2>1. /\ runner[a] = "stamping" /\ runner' = [runner EXCEPT ![a] = "publishing"]
        /\ outbox' = Stamped(a, verdict[a])
        /\ UNCHANGED <<status, starter, verdict, host, history, deaths>>
    BY <1>6 DEF RunnerStamps, Goes, Writes
  <2>2. status.attempt = a /\ status.state \in Active /\ Unshown(a) /\ RunnerTrue(a)
    BY <2>1, LiveRunner DEF Working
  <2>3. outbox'.by = a /\ outbox'.attempt = a /\ outbox'.outcome = verdict[a]
    BY <2>1, <2>2 DEF Stamped
  <2>4. /\ \A b \in Attempt : b # a => RunnerTrue(b)'
        /\ \A h \in Host : RepairTrue(h)'
        /\ runner'[a] = "publishing"
    BY <2>1, <2>2, LiveRunnerStep DEF Working, history
  <2>5. RunnerTrue(a)'
    BY <2>1, <2>2, <2>4 DEF RunnerTrue, Unshown, Working, history
  <2>6. StarterTrue'
    BY <2>1, <2>2, <2>4, RunTypes DEF TrueInv, StarterTrue
  <2>7. OutboxTrue'
    BY <2>1, <2>3, RunTypes DEF OutboxTrue
  <2>8. OutcomeIsTrue'
    <3> SUFFICES ASSUME NEW b \in Attempt
                 PROVE  /\ (<<b, "complete">> \in published => verdict[b] = "complete")'
                        /\ (<<b, "failed">> \in published => verdict[b] # "complete" \/ (runner[b] = "dead" /\ outbox.by # b))'
      BY DEF OutcomeIsTrue
    <3>1. CASE b = a
      BY <2>1, <2>2, <3>1 DEF Unshown, Outcome, history
    <3>2. CASE b # a
      BY <2>1, <2>3, <3>2, RunTypes DEF TrueInv, OutcomeIsTrue, history
    <3> QED
      BY <3>1, <3>2
  <2> QED
    BY <2>4, <2>5, <2>6, <2>7, <2>8 DEF TrueInv
<1>7. CASE RunnerPublishes(a)
  <2>1. /\ runner[a] = "publishing" /\ runner' = [runner EXCEPT ![a] = "over"]
        /\ status' = [status EXCEPT !.state = verdict[a], !.pid = a, !.fresh = FALSE]
        /\ published' = published \cup {<<status.attempt, verdict[a]>>}
        /\ UNCHANGED <<starter, verdict, outbox, receipts, host, notified, deaths>>
    BY <1>7 DEF RunnerPublishes, Goes, Publish
  <2>2. status.attempt = a /\ Unshown(a) /\ RunnerTrue(a) /\ verdict[a] \in Outcome
    BY <2>1, LiveRunner DEF Working, Inv, Decided
  <2>3. status'.attempt = a /\ status'.state = verdict[a] /\ status'.pid = a /\ status'.fresh = FALSE
    BY <2>1, <2>2, RunTypes DEF Status
  <2>4. \A b \in Attempt, o \in Outcome : b # a => (<<b, o>> \in published' <=> <<b, o>> \in published)
    BY <2>1, <2>2
  <2>5. /\ \A b \in Attempt : b # a => RunnerTrue(b)'
        /\ \A h \in Host : RepairTrue(h)'
        /\ runner'[a] = "over"
    BY <2>1, <2>3, <2>4, LiveRunnerStep DEF Working
  <2>6. RunnerTrue(a)'
    BY <2>2, <2>3, <2>5, RunTypes DEF RunnerTrue, Working
  <2>7. StarterTrue' /\ OutboxTrue'
    BY <2>1, <2>2, <2>3, <2>5, RunTypes DEF TrueInv, StarterTrue, OutboxTrue
  <2>8. OutcomeIsTrue'
    <3> SUFFICES ASSUME NEW b \in Attempt
                 PROVE  /\ (<<b, "complete">> \in published => verdict[b] = "complete")'
                        /\ (<<b, "failed">> \in published => verdict[b] # "complete" \/ (runner[b] = "dead" /\ outbox.by # b))'
      BY DEF OutcomeIsTrue
    <3>1. CASE b = a
      BY <2>1, <2>2, <3>1 DEF Unshown, Outcome
    <3>2. CASE b # a
      BY <2>1, <2>4, <3>2, RunTypes DEF TrueInv, OutcomeIsTrue, Outcome
    <3> QED
      BY <3>1, <3>2
  <2> QED
    BY <2>5, <2>6, <2>7, <2>8 DEF TrueInv
<1>8. CASE RunnerDies(a)
  <2>1. /\ Alive(a) /\ runner' = [runner EXCEPT ![a] = "dead"]
        /\ UNCHANGED <<status, starter, verdict, outbox, receipts, host, history>>
    BY <1>8 DEF RunnerDies
  <2>2. runner[a] \in Working \cup {"spawned"}
    BY <2>1, RunTypes DEF Alive, RunnerStage, Working
  <2>3. status.attempt = a /\ status.state \in Active /\ Unshown(a) /\ RunnerTrue(a)
    BY <2>2, LiveRunner
  <2>4. /\ \A b \in Attempt : b # a => RunnerTrue(b)'
        /\ \A h \in Host : RepairTrue(h)'
        /\ runner'[a] = "dead"
    BY <2>1, <2>2, <2>3, LiveRunnerStep DEF history
  <2>5. RunnerTrue(a)'
    <3>1. ~(a > status.attempt)
      BY <2>3, RunTypes
    <3> QED
      BY <2>1, <2>3, <2>4, <3>1 DEF RunnerTrue, Working
  <2>6. StarterTrue' /\ OutboxTrue'
    <3>1. starter # "spawning" /\ (starter # "idle" => status.fresh \/ status.state \in Outcome)
      BY <2>2, LiveRunner
    <3>2. StarterTrue'
      BY <2>1, <2>3, <2>4, <3>1, RunTypes DEF StarterTrue
    <3>3. OutboxTrue'
      BY <2>1 DEF TrueInv, OutboxTrue
    <3> QED
      BY <3>2, <3>3
  <2>7. OutcomeIsTrue'
    BY <2>1, <2>3, <2>4, RunTypes DEF TrueInv, OutcomeIsTrue, Unshown, Outcome, history
  <2> QED
    BY <2>4, <2>5, <2>6, <2>7 DEF TrueInv
<1> QED
  BY <1>1, <1>2, <1>3, <1>4, <1>5, <1>6, <1>7, <1>8 DEF Runs, Publishes

LEMMA TrueRepairs == ASSUME Inv, TrueInv, NEW h \in Host, Repairs(h) PROVE TrueInv'
<1>1. CASE ScanFindsStale(h)
  <2> DEFINE record == [At(h, "stale") EXCEPT !.seen = status.attempt]
  <2>1. At(h, "stale") \in HostRecord /\ At(h, "stale").at = "stale"
    BY NextStage DEF HostStage
  <2>2. record.at = "stale" /\ record.seen = status.attempt
    BY <2>1 DEF HostRecord
  <2>3. Stale /\ host' = [host EXCEPT ![h] = record] /\ UNCHANGED <<run, outbox, receipts, history>>
    BY <1>1 DEF ScanFindsStale, Moves
  <2> HIDE DEF record
  <2>4. status.attempt \in Attempt
    BY <2>3, RunTypes DEF Stale, Inv, Opened, Active
  <2>5. starter = "idle" /\ runner[status.attempt] \in {"none", "dead"}
    <3>1. status.state \in Active /\ ~Alive(status.pid) /\ ~status.fresh
      BY <2>3 DEF Stale, IsLive
    <3>2. starter = "idle"
      BY <3>1, RunTypes DEF TrueInv, StarterTrue, Active, Outcome
    <3>3. RunnerTrue(status.attempt) /\ runner[status.attempt] \in RunnerStage
      BY <2>4, RunTypes DEF TrueInv
    <3>4. runner[status.attempt] \notin Working
      BY <2>4, <3>1, <3>3, RunTypes DEF Alive, Working, RunnerTrue
    <3> QED
      BY <3>1, <3>2, <3>3, <3>4 DEF RunnerTrue, RunnerStage, Working, Active, Outcome
  <2>6. \A g \in Host : RepairTrue(g)'
    <3> SUFFICES ASSUME NEW g \in Host PROVE RepairTrue(g)'
      OBVIOUS
    <3>1. CASE g = h
      <4>1. host'[g] = record
        BY <2>3, <3>1, RunTypes
      <4> QED
        BY <2>2, <2>3, <2>5, <4>1 DEF RepairTrue, Repairing, run
    <3>2. CASE g # h
      <4>1. host'[g] = host[g]
        BY <2>3, <3>2, RunTypes
      <4> QED
        BY <2>3, <4>1 DEF TrueInv, RepairTrue, Repairing, Req, run
    <3> QED
      BY <3>1, <3>2
  <2>7. \A a \in Attempt : RunnerTrue(a)'
    BY <2>3 DEF TrueInv, RunnerTrue, Unshown, run, history
  <2>8. StarterTrue' /\ OutboxTrue' /\ OutcomeIsTrue'
    BY <2>3 DEF TrueInv, StarterTrue, OutboxTrue, OutcomeIsTrue, Unshown, run, history
  <2> QED
    BY <2>6, <2>7, <2>8 DEF TrueInv
<1>2. CASE RepairDecides(h)
  <2>1. host[h].at = "stale" /\ UNCHANGED <<run, history>>
    BY <1>2 DEF RepairDecides, Moves
  <2>2. host[h].seen = status.attempt /\ starter = "idle" /\ runner[status.attempt] \in {"none", "dead"}
    BY <2>1 DEF TrueInv, RepairTrue, Repairing
  <2>3. status.attempt \in Attempt
    BY <2>1, HostFacts, RunTypes
  <2>4. CASE Belongs(outbox, host[h].seen)
    <3> DEFINE record == [At(h, "repairing") EXCEPT !.request = outbox]
    <3>1. At(h, "repairing") \in HostRecord /\ At(h, "repairing").at = "repairing" /\ At(h, "repairing").seen = host[h].seen
      BY NextStage, HostFacts DEF HostStage, HostRecord, At
    <3>2. record.at = "repairing" /\ record.request = outbox /\ record.seen = host[h].seen
      BY <3>1 DEF HostRecord
    <3>3. host' = [host EXCEPT ![h] = record] /\ UNCHANGED <<outbox, receipts>>
      BY <1>2, <2>4 DEF RepairDecides, Moves
    <3> HIDE DEF record
    <3>4. outbox # NoRequest /\ outbox.attempt = status.attempt /\ outbox \in Request
      BY <2>2, <2>4 DEF Belongs, Inv, FilesOK
    <3>5. IF outbox.outcome = "complete" THEN verdict[status.attempt] = "complete"
          ELSE verdict[status.attempt] # "complete" \/ outbox.by # status.attempt
      BY <2>3, <3>4, RunTypes DEF TrueInv, OutboxTrue, Request, Outcome
    <3>6. \A g \in Host : RepairTrue(g)'
      <4> SUFFICES ASSUME NEW g \in Host PROVE RepairTrue(g)'
        OBVIOUS
      <4>1. CASE g = h
        <5>1. host'[g] = record
          BY <3>3, <4>1, RunTypes
        <5> QED
          BY <2>1, <2>2, <3>2, <3>3, <3>5, <5>1 DEF RepairTrue, Repairing, Req, run
      <4>2. CASE g # h
        <5>1. host'[g] = host[g]
          BY <3>3, <4>2, RunTypes
        <5> QED
          BY <2>1, <3>3, <5>1 DEF TrueInv, RepairTrue, Repairing, Req, run
      <4> QED
        BY <4>1, <4>2
    <3>7. \A a \in Attempt : RunnerTrue(a)'
      BY <2>1, <3>3 DEF TrueInv, RunnerTrue, Unshown, run, history
    <3>8. StarterTrue' /\ OutboxTrue' /\ OutcomeIsTrue'
      BY <2>1, <3>3 DEF TrueInv, StarterTrue, OutboxTrue, OutcomeIsTrue, Unshown, run, history
    <3> QED
      BY <3>6, <3>7, <3>8 DEF TrueInv
  <2>5. CASE ~Belongs(outbox, host[h].seen)
    <3>1. At(h, "stamping").at = "stamping" /\ At(h, "stamping").seen = host[h].seen
      BY NextStage, HostFacts DEF HostStage, HostRecord, At
    <3>2. host' = [host EXCEPT ![h] = At(h, "stamping")] /\ outbox' = NoRequest
      BY <1>2, <2>5 DEF RepairDecides, Moves, Writes
    <3>3. NoRequest.by = 0
      BY DEF NoRequest
    <3>4. \A g \in Host : RepairTrue(g)'
      <4> SUFFICES ASSUME NEW g \in Host PROVE RepairTrue(g)'
        OBVIOUS
      <4>1. CASE g = h
        <5>1. host'[g] = At(h, "stamping")
          BY <3>2, <4>1, RunTypes
        <5> QED
          BY <2>1, <2>2, <2>3, <3>1, <3>2, <3>3, <5>1, RunTypes DEF RepairTrue, Repairing, run
      <4>2. CASE g # h
        <5>1. host'[g] = host[g]
          BY <3>2, <4>2, RunTypes
        <5> QED
          BY <2>1, <2>3, <3>2, <3>3, <5>1, RunTypes DEF TrueInv, RepairTrue, Repairing, Req, run
      <4> QED
        BY <4>1, <4>2
    <3>5. \A a \in Attempt : RunnerTrue(a)'
      BY <2>1, <3>2 DEF TrueInv, RunnerTrue, Unshown, run, history
    <3>6. StarterTrue' /\ OutboxTrue'
      BY <2>1, <3>2 DEF TrueInv, StarterTrue, OutboxTrue, Unshown, run, history
    <3>7. OutcomeIsTrue'
      BY <2>1, <3>2, <3>3, RunTypes DEF TrueInv, OutcomeIsTrue, run, history
    <3> QED
      BY <3>4, <3>5, <3>6, <3>7 DEF TrueInv
  <2> QED
    BY <2>4, <2>5
<1>3. CASE RepairStamps(h)
  <2> DEFINE record == [At(h, "repairing") EXCEPT !.request = Stamped(h, "failed")]
  <2>1. host[h].at = "stamping" /\ UNCHANGED <<run, history>> /\ outbox' = Stamped(h, "failed")
    BY <1>3 DEF RepairStamps, Moves, Writes
  <2>2. outbox'.by = h /\ outbox'.outcome = "failed"
    BY <2>1 DEF Stamped
  <2>3. At(h, "repairing") \in HostRecord /\ At(h, "repairing").at = "repairing" /\ At(h, "repairing").seen = host[h].seen
    BY NextStage, HostFacts DEF HostStage, HostRecord, At
  <2>4. record.at = "repairing" /\ record.request = outbox' /\ record.seen = host[h].seen
    BY <2>1, <2>3 DEF HostRecord
  <2>5. host' = [host EXCEPT ![h] = record]
    BY <1>3 DEF RepairStamps, Moves
  <2> HIDE DEF record
  <2>6. host[h].seen = status.attempt /\ starter = "idle" /\ runner[status.attempt] \in {"none", "dead"}
    BY <2>1 DEF TrueInv, RepairTrue, Repairing
  <2>7. status.attempt \in Attempt
    BY <2>1, HostFacts, RunTypes
  <2>8. h # status.attempt
    BY <2>7, RunTypes
  <2>9. \A g \in Host : RepairTrue(g)'
    <3> SUFFICES ASSUME NEW g \in Host PROVE RepairTrue(g)'
      OBVIOUS
    <3>1. CASE g = h
      <4>1. host'[g] = record
        BY <2>5, <3>1, RunTypes
      <4> QED
        BY <2>1, <2>2, <2>4, <2>6, <2>8, <4>1 DEF RepairTrue, Repairing, Req, run
    <3>2. CASE g # h
      <4>1. host'[g] = host[g]
        BY <2>5, <3>2, RunTypes
      <4> QED
        BY <2>1, <2>2, <2>8, <4>1 DEF TrueInv, RepairTrue, Repairing, Req, run
    <3> QED
      BY <3>1, <3>2
  <2>10. \A a \in Attempt : RunnerTrue(a)'
    <3> SUFFICES ASSUME NEW a \in Attempt PROVE RunnerTrue(a)'
      OBVIOUS
    <3>1. RunnerTrue(a) /\ (a = status.attempt => runner[a] \in {"none", "dead"})
      BY <2>6 DEF TrueInv
    <3> QED
      BY <2>1, <3>1 DEF RunnerTrue, Unshown, run, history
  <2>11. StarterTrue' /\ OutboxTrue'
    BY <2>1, <2>2, RunTypes DEF TrueInv, StarterTrue, OutboxTrue, Unshown, run, history
  <2>12. OutcomeIsTrue'
    BY <2>1, <2>2, RunTypes DEF TrueInv, OutcomeIsTrue, run, history
  <2> QED
    BY <2>9, <2>10, <2>11, <2>12 DEF TrueInv
<1>4. CASE RepairPublishes(h)
  <2> DEFINE outcome == Req(h).outcome
  <2>1. host[h].at = "repairing" /\ host' = [host EXCEPT ![h] = IdleHost]
    BY <1>4 DEF RepairPublishes, Moves
  <2>2. outcome \in Outcome /\ status.attempt \in Attempt
    BY <2>1, HostFacts, RunTypes DEF Honest, Request, Req
  <2>3. /\ status' = [status EXCEPT !.state = outcome, !.pid = 0, !.fresh = FALSE]
        /\ published' = published \cup {<<status.attempt, outcome>>}
        /\ UNCHANGED <<starter, runner, verdict, outbox, receipts, notified, deaths>>
    BY <1>4 DEF RepairPublishes, Publish, Req
  <2>4. /\ host[h].seen = status.attempt /\ starter = "idle" /\ runner[status.attempt] \in {"none", "dead"}
        /\ IF outcome = "complete" THEN verdict[status.attempt] = "complete"
           ELSE verdict[status.attempt] # "complete" \/ outbox.by # status.attempt
    BY <2>1 DEF TrueInv, RepairTrue, Repairing
  <2> HIDE DEF outcome
  <2>5. status'.attempt = status.attempt /\ status'.state = outcome /\ status'.pid = 0
    BY <2>3, RunTypes DEF Status
  <2>6. \A b \in Attempt, o \in Outcome : b # status.attempt => (<<b, o>> \in published' <=> <<b, o>> \in published)
    BY <2>3
  <2>7. \A a \in Attempt : RunnerTrue(a)'
    <3> SUFFICES ASSUME NEW a \in Attempt PROVE RunnerTrue(a)'
      OBVIOUS
    <3>1. RunnerTrue(a)
      BY DEF TrueInv
    <3>2. CASE a = status.attempt
      BY <2>2, <2>3, <2>4, <2>5, <3>1, <3>2, RunTypes DEF RunnerTrue, Working
    <3>3. CASE a # status.attempt
      BY <2>3, <2>5, <2>6, <3>1, <3>3 DEF RunnerTrue, Unshown, Working
    <3> QED
      BY <3>2, <3>3
  <2>8. StarterTrue' /\ OutboxTrue'
    BY <2>3, <2>4 DEF TrueInv, StarterTrue, OutboxTrue
  <2>9. \A g \in Host : RepairTrue(g)'
    <3> SUFFICES ASSUME NEW g \in Host PROVE RepairTrue(g)'
      OBVIOUS
    <3>1. CASE g = h
      <4>1. host'[g].at = "idle"
        BY <2>1, <3>1, RunTypes DEF IdleHost
      <4> QED
        BY <4>1 DEF RepairTrue, Repairing
    <3>2. CASE g # h
      <4>1. host'[g] = host[g]
        BY <2>1, <3>2, RunTypes
      <4> QED
        BY <2>3, <2>5, <4>1 DEF TrueInv, RepairTrue, Repairing, Req
    <3> QED
      BY <3>1, <3>2
  <2>10. OutcomeIsTrue'
    <3> SUFFICES ASSUME NEW b \in Attempt
                 PROVE  /\ (<<b, "complete">> \in published => verdict[b] = "complete")'
                        /\ (<<b, "failed">> \in published => verdict[b] # "complete" \/ (runner[b] = "dead" /\ outbox.by # b))'
      BY DEF OutcomeIsTrue
    <3>1. CASE b = status.attempt
      <4>1. runner[b] = "none" => verdict[b] = "none"
        BY DEF TrueInv, RunnerTrue
      <4>2. /\ <<b, "complete">> \in published => verdict[b] = "complete"
            /\ <<b, "failed">> \in published => verdict[b] # "complete" \/ (runner[b] = "dead" /\ outbox.by # b)
        BY DEF TrueInv, OutcomeIsTrue
      <4>3. \A o : <<b, o>> \in published' => <<b, o>> \in published \/ o = outcome
        BY <2>3
      <4> QED
        BY <2>2, <2>3, <2>4, <3>1, <4>1, <4>2, <4>3 DEF Outcome
    <3>2. CASE b # status.attempt
      BY <2>3, <2>6, <3>2 DEF TrueInv, OutcomeIsTrue, Outcome
    <3> QED
      BY <3>1, <3>2
  <2> QED
    BY <2>7, <2>8, <2>9, <2>10 DEF TrueInv
<1> QED
  BY <1>1, <1>2, <1>3, <1>4 DEF Repairs

LEMMA TrueStep == Inv /\ TrueInv /\ ~Overlap /\ [Next]_vars => TrueInv'
<1> SUFFICES ASSUME Inv, TrueInv, ~Overlap, [Next]_vars PROVE TrueInv'
  OBVIOUS
<1>1. CASE HeartbeatAges \/ Starts
  BY <1>1, TrueClock, TrueStarts
<1>2. ASSUME NEW a \in Attempt, Runs(a) PROVE TrueInv'
  BY <1>2, TrueRunners
<1>3. ASSUME NEW h \in Host, Repairs(h) \/ Claims(h) \/ Delivers(h) \/ ClaimAges(h) \/ HostDies(h) PROVE TrueInv'
  BY <1>3, TrueRepairs, TrueAside
<1>4. CASE UNCHANGED vars
  <2>1. UNCHANGED <<run, outbox, published>> /\ host' = host
    BY <1>4 DEF vars, history
  <2> QED
    BY <2>1, AsideStep
<1> QED
  BY <1>1, <1>2, <1>3, <1>4 DEF Next

(* Where no attempt is opened while a host repairs the run, the status      *)
(* tells the truth about every attempt: complete only if its runner came to *)
(* that, and failed never after the runner wrote complete to the outbox,    *)
(* whichever process publishes it and whoever dies on the way               *)
(* (finishAggregate, recoverStaleRunTerminalNotification).  Without that    *)
(* hypothesis it is false.                                                  *)
THEOREM SpecOutcomeIsTrue == ~Overlap => (Spec => []OutcomeIsTrue)
<1> SUFFICES ASSUME ~Overlap PROVE Spec => []OutcomeIsTrue
  OBVIOUS
<1>1. Init => TrueInv
  BY TrueInit
<1>2. Inv /\ TrueInv /\ [Next]_vars => TrueInv'
  BY TrueStep
<1>3. TrueInv => OutcomeIsTrue
  BY DEF TrueInv
<1> QED
  BY <1>1, <1>2, <1>3, SpecInv, PTL DEF Spec
=============================================================================
