------------------------------ MODULE Control ------------------------------
(***************************************************************************)
(* Answering a gate and rewinding a branch from outside the runner: the    *)
(* control mailbox (runtime/generic/runner_control.ts), the runner's side  *)
(* of it, the fallback in which the host writes the journal itself         *)
(* (runner/user_interactions.ts, runner/rewind.ts), and the append of both *)
(* to the journal of one branch with one gate.                             *)
(*                                                                         *)
(* An action is a stretch of code between two awaits.  The length check of *)
(* an append and the append itself are one action.                         *)
(***************************************************************************)
EXTENDS Naturals, Sequences, FiniteSets

CONSTANTS
  Event,        \* answers the gate allows
  Ask,          \* Ask[c]: what call c may ask: answers, and moves of the head
  Locked,       \* the store admits one writer: PostgreSQL does, JSONL does not
  MaxAttempts,  \* bound: starts and resumes of the run
  MaxCalls,     \* bound: calls of hosts
  MaxWork,      \* bound: records of the chart itself
  MaxDeaths     \* bound: processes that die

Answer(event) == [kind |-> "respond", event |-> event, target |-> 0]
Move(target) == [kind |-> "move", event |-> "none", target |-> target]

ASSUME ControlAssumption ==
  /\ Ask \in [1 .. MaxCalls -> SUBSET ({Answer(e) : e \in Event} \cup {Move(1), Move(2)})]
  /\ Locked \in BOOLEAN
  /\ MaxAttempts \in Nat /\ MaxCalls \in Nat /\ MaxWork \in Nat /\ MaxDeaths \in Nat

VARIABLES
  status,    \* the run status: state, attempt, whether the heartbeat is fresh
  runner,    \* runner[a]: none, booting, up, signalled, closing, gone
  delivery,  \* delivery[a]: what the runner's control watcher is at
  writers,   \* processes that have the journal open for writing
  seen,      \* seen[p]: entries of the journal writer p knows of
  journal,   \* its entries: each names the head it leaves and that head's ancestry
  requests,  \* the mailbox
  results,
  host,      \* host[c]: where the host of call c stands
  answers,   \* history: what the calls were told
  deaths

store == <<writers, seen, journal>>
mailbox == <<requests, results>>
vars == <<status, runner, delivery, store, mailbox, host, answers, deaths>>

Attempt == 1 .. MaxAttempts
Call == 1 .. MaxCalls
Runner(a) == <<"runner", a>>
Caller(c) == <<"host", c>>
Writer == {Runner(a) : a \in Attempt} \cup {Caller(c) : c \in Call}
Verdict == {"ok", "conflict", "stale", "error"}
Asked == UNION {Ask[c] : c \in Call}
Request == [id : Call, attempt : Attempt, ask : Asked]
Nothing == [id |-> 0, attempt |-> 0, ask |-> [kind |-> "none", event |-> "none", target |-> 0]]
IdleDelivery == [at |-> "idle", batch |-> {}, request |-> Nothing, head |-> 0, verdict |-> "none"]
IdleHost == [at |-> "idle", request |-> Nothing]
Returned == [at |-> "over", request |-> Nothing]

-----------------------------------------------------------------------------
(* The journal of the branch. *)

(* A chart that has come to its gate: entry 2 opened it.  An answer may be  *)
(* written by the runner and, once a rewind took it back, by its host.      *)
Index == 1 .. 2 + MaxWork + 2 * MaxCalls
Entry == [kind : {"worked", "opened", "closed", "resolved", "move"}, event : Event \cup {"none"},
          head : Index, past : SUBSET Index, asked : {0} \cup Call]
Own(kind, event, n, past, asked) ==
  [kind |-> kind, event |-> event, head |-> n, past |-> past \cup {n}, asked |-> asked]
Opening == <<Own("worked", "none", 1, {}, 0), Own("opened", "none", 2, {1}, 0)>>

(* The branch as writer p knows it. *)
HeadOf(p) == journal[seen[p]].head
Past(p) == journal[seen[p]].past
Resolutions(past) == {i \in past : journal[i].kind = "resolved"}
Settled(past) == \E i \in past : journal[i].kind \in {"resolved", "closed"}

(* appendLocked: a journal that is longer than this writer knows is stale. *)
Fresh(p) == seen[p] = Len(journal)
Appends(p, entry) ==
  /\ journal' = Append(journal, entry)
  /\ seen' = [seen EXCEPT ![p] = Len(journal) + 1]
  /\ UNCHANGED writers
Adds(p, kind, event, asked) ==
  Appends(p, Own(kind, event, Len(journal) + 1, Past(p), asked))
MovesHead(p, target, asked) ==
  Appends(p, [kind |-> "move", event |-> "none", head |-> target, past |-> journal[target].past, asked |-> asked])

Opens(p) == writers' = writers \cup {p} /\ seen' = [seen EXCEPT ![p] = Len(journal)] /\ UNCHANGED journal
MayOpen == ~Locked \/ writers = {}
Closes(p) == writers' = writers \ {p} /\ seen' = [seen EXCEPT ![p] = 2] /\ UNCHANGED journal

(* Mutant: a gate that has its answer admits no other, the same included.   *)
DecisionOnce(p, event) ==
  IF Resolutions(Past(p)) # {} THEN "conflict"
  ELSE IF 2 \notin Past(p) \/ Settled(Past(p)) THEN "stale" ELSE "none"

(* prepareUserInteractionCommit: an answer that is there already decides;   *)
(* the gate must be in the ancestry of the head, and open.                  *)
Decision(p, event) ==
  IF Resolutions(Past(p)) # {}
  THEN IF \E i \in Resolutions(Past(p)) : journal[i].event = event THEN "ok" ELSE "conflict"
  ELSE IF 2 \notin Past(p) \/ Settled(Past(p)) THEN "stale" ELSE "none"

-----------------------------------------------------------------------------
(* The runner. *)

Serving == {"up", "signalled"}

(* isRunLive, with "starting" and "running" alike. *)
IsLive == status.state = "running" /\ (status.fresh \/ runner[status.attempt] \in {"booting"} \cup Serving \cup {"closing"})

(* The heartbeat counts only once the process is gone. *)
HeartbeatAges ==
  /\ status.fresh /\ runner[status.attempt] = "gone"
  /\ status' = [status EXCEPT !.fresh = FALSE]
  /\ UNCHANGED <<runner, delivery, store, mailbox, host, answers, deaths>>

(* A host resumes the run: any state but a live one will do. *)
RunStarts ==
  /\ status.attempt < MaxAttempts /\ ~IsLive
  /\ status' = [state |-> "running", attempt |-> status.attempt + 1, fresh |-> TRUE]
  /\ runner' = [runner EXCEPT ![status.attempt + 1] = "booting"]
  /\ UNCHANGED <<delivery, store, mailbox, host, answers, deaths>>

RunnerOpens(a) ==
  /\ runner[a] = "booting"
  /\ IF MayOpen
     THEN runner' = [runner EXCEPT ![a] = "up"] /\ Opens(Runner(a)) /\ UNCHANGED status
     ELSE /\ runner' = [runner EXCEPT ![a] = "gone"] /\ UNCHANGED store
          /\ status' = [status EXCEPT !.state = "failed", !.fresh = FALSE]
  /\ UNCHANGED <<delivery, mailbox, host, answers, deaths>>

(* A record of the chart: one that leaves the gate, or any other. *)
RunnerWorks(a) ==
  /\ runner[a] \in Serving /\ Fresh(Runner(a))
  /\ Cardinality({i \in DOMAIN journal : i > 2 /\ journal[i].kind \in {"worked", "closed"}}) < MaxWork
  /\ \E kind \in {"worked", "closed"} :
       /\ (kind = "closed") => ~Settled(Past(Runner(a))) /\ 2 \in Past(Runner(a))
       /\ Adds(Runner(a), kind, "none", 0)
  /\ UNCHANGED <<status, runner, delivery, mailbox, host, answers, deaths>>

Delivers(a, record) == delivery' = [delivery EXCEPT ![a] = record]

(* listControlRequests, then the requests of that list one by one. *)
RunnerLists(a) ==
  /\ runner[a] \in Serving /\ delivery[a].at = "idle" /\ delivery[a].batch = {} /\ requests # {}
  /\ Delivers(a, [delivery[a] EXCEPT !.batch = requests])
  /\ UNCHANGED <<status, runner, store, mailbox, host, answers, deaths>>

Oldest(batch) == CHOOSE r \in batch : \A s \in batch : r.id <= s.id

(* Mutant: a request is not looked at for the attempt it was made to. *)
AnyRequest(r, a) == TRUE

(* A request made to another attempt is thrown away. *)
Mine(r, a) == r.attempt = a
RunnerTakes(a) ==
  /\ runner[a] \in Serving /\ delivery[a].at = "idle" /\ delivery[a].batch # {}
  /\ LET r == Oldest(delivery[a].batch)
         rest == delivery[a].batch \ {r}
     IN IF Mine(r, a)
        THEN Delivers(a, [delivery[a] EXCEPT !.at = "deciding", !.batch = rest, !.request = r]) /\ UNCHANGED requests
        ELSE Delivers(a, [delivery[a] EXCEPT !.batch = rest]) /\ requests' = requests \ {r}
  /\ UNCHANGED <<status, runner, store, results, host, answers, deaths>>

Replies(a, verdict) == Delivers(a, [delivery[a] EXCEPT !.at = "replying", !.verdict = verdict, !.head = 0])

(* Mutant: what the preparation says is published, a verdict or not. *)
RunnerDecidesAll(a) ==
  /\ runner[a] \in Serving /\ delivery[a].at = "deciding"
  /\ LET ask == delivery[a].request.ask
     IN Replies(a, IF ask.kind = "respond" THEN Decision(Runner(a), ask.event) ELSE "none")
  /\ UNCHANGED <<status, runner, store, mailbox, host, answers, deaths>>

(* respondToUserInteraction up to the append, or the drain before a move.   *)
(* A runner that closes admits neither; either may fail on its own.         *)
RunnerDecides(a) ==
  /\ runner[a] \in Serving \cup {"closing"} /\ delivery[a].at = "deciding"
  /\ LET ask == delivery[a].request.ask
         decision == IF ask.kind = "respond" THEN Decision(Runner(a), ask.event) ELSE "none"
     IN IF runner[a] = "closing" THEN Replies(a, "error")
        ELSE IF decision # "none" THEN Replies(a, decision)
        ELSE \/ Delivers(a, [delivery[a] EXCEPT !.at = "prepared", !.head = HeadOf(Runner(a))])
             \/ Replies(a, "error")
  /\ UNCHANGED <<status, runner, store, mailbox, host, answers, deaths>>

(* Mutant: the answer goes after whatever the head is (appendDrafts). *)
HeadHolds(a) == TRUE

(* appendDraftsAtHead: the head is still the one the answer was decided on. *)
HeadStays(a) == delivery[a].head = HeadOf(Runner(a))

(* Mutant: a commit that is given up is acknowledged like any other. *)
RunnerCommitsOrNot(a) ==
  /\ runner[a] \in Serving /\ delivery[a].at = "prepared" /\ Replies(a, "ok")
  /\ LET r == delivery[a].request
     IN IF r.ask.kind = "move" THEN MovesHead(Runner(a), r.ask.target, r.id)
        ELSE IF HeadStays(a) THEN Adds(Runner(a), "resolved", r.ask.event, r.id)
        ELSE UNCHANGED store
  /\ UNCHANGED <<status, runner, mailbox, host, answers, deaths>>

(* A head that moved is tried again, up to the third time. *)
RunnerCommits(a) ==
  /\ runner[a] \in Serving \cup {"closing"} /\ delivery[a].at = "prepared"
  /\ LET r == delivery[a].request
     IN IF r.ask.kind = "respond" /\ ~HeadStays(a)
        THEN /\ \/ Delivers(a, [delivery[a] EXCEPT !.at = "deciding", !.head = 0])
                \/ Replies(a, "error")
             /\ UNCHANGED store
        ELSE IF Fresh(Runner(a))
        THEN /\ Replies(a, "ok")
             /\ IF r.ask.kind = "respond" THEN Adds(Runner(a), "resolved", r.ask.event, r.id)
                ELSE MovesHead(Runner(a), r.ask.target, r.id)
        ELSE Replies(a, "error") /\ UNCHANGED store
  /\ UNCHANGED <<status, runner, mailbox, host, answers, deaths>>

(* publishControlResult, then discardControlRequest; a closing runner still *)
(* does both, as long as its process lives.                                 *)
RunnerReplies(a) ==
  /\ runner[a] \in Serving \cup {"closing"} /\ delivery[a].at = "replying"
  /\ results' = results \cup {[id |-> delivery[a].request.id, verdict |-> delivery[a].verdict]}
  /\ Delivers(a, [delivery[a] EXCEPT !.at = "replied", !.verdict = "none"])
  /\ UNCHANGED <<status, runner, store, requests, host, answers, deaths>>
RunnerDiscards(a) ==
  /\ runner[a] \in Serving \cup {"closing"} /\ delivery[a].at = "replied"
  /\ requests' = requests \ {delivery[a].request}
  /\ Delivers(a, [delivery[a] EXCEPT !.at = "idle", !.request = Nothing])
  /\ UNCHANGED <<status, runner, store, results, host, answers, deaths>>

(* A host asks for the stop in the status, and then signals the process. *)
StopIsAsked ==
  /\ status.state = "running" /\ runner[status.attempt] = "up"
  /\ status' = [status EXCEPT !.state = "stopping"]
  /\ runner' = [runner EXCEPT ![status.attempt] = "signalled"]
  /\ UNCHANGED <<delivery, store, mailbox, host, answers, deaths>>
RunnerCloses(a) ==
  /\ runner[a] = "signalled"
  /\ runner' = [runner EXCEPT ![a] = "closing"]
  /\ Delivers(a, [delivery[a] EXCEPT !.batch = {}])
  /\ UNCHANGED <<status, store, mailbox, host, answers, deaths>>

(* close() waits for the operations it admitted; its status is last. *)
RunnerClosed(a) ==
  /\ runner[a] = "closing" /\ delivery[a].at # "prepared"
  /\ runner' = [runner EXCEPT ![a] = "gone"] /\ Closes(Runner(a))
  /\ Delivers(a, IdleDelivery)
  /\ status' = [status EXCEPT !.state = "stopped", !.fresh = FALSE]
  /\ UNCHANGED <<mailbox, host, answers, deaths>>
RunnerDies(a) ==
  /\ runner[a] \in {"booting", "closing"} \cup Serving /\ deaths < MaxDeaths
  /\ runner' = [runner EXCEPT ![a] = "gone"] /\ Closes(Runner(a))
  /\ Delivers(a, IdleDelivery)
  /\ deaths' = deaths + 1
  /\ UNCHANGED <<status, mailbox, host, answers>>

-----------------------------------------------------------------------------
(* The hosts. *)

At(c, stage) == host' = [host EXCEPT ![c].at = stage]
Told(c, verdict) ==
  /\ answers' = answers \cup {[id |-> host[c].request.id, ask |-> host[c].request.ask, verdict |-> verdict]}
  /\ host' = [host EXCEPT ![c] = Returned]

(* A run that is not live is written by the host itself. *)
HostAsks(c) ==
  /\ host[c].at = "idle" /\ status.attempt > 0
  /\ c > 1 => host[c - 1].at # "idle"
  /\ \E ask \in Ask[c] :
       /\ IsLive => ask.kind = "respond" \/ ask.target # journal[Len(journal)].head
       /\ host' = [host EXCEPT ![c] = [at |-> IF IsLive THEN "publishing" ELSE "opening",
                                    request |-> [id |-> c, attempt |-> status.attempt, ask |-> ask]]]
  /\ UNCHANGED <<status, runner, delivery, store, mailbox, answers, deaths>>

HostPublishes(c) ==
  /\ host[c].at = "publishing" /\ At(c, "waiting")
  /\ requests' = requests \cup {host[c].request}
  /\ UNCHANGED <<status, runner, delivery, store, results, answers, deaths>>

HostHears(c) ==
  /\ host[c].at = "waiting"
  /\ \E result \in results :
       result.id = host[c].request.id /\ results' = results \ {result} /\ Told(c, result.verdict)
  /\ UNCHANGED <<status, runner, delivery, store, requests, deaths>>

Abandons(c) ==
  /\ host[c].at = "waiting" /\ At(c, "abandoned")
  /\ requests' = requests \ {host[c].request}
  /\ UNCHANGED <<status, runner, delivery, store, results, answers, deaths>>

(* The wait ends when the runner of the attempt does... *)
HostAbandons(c) == (~IsLive \/ status.attempt # host[c].request.attempt) /\ Abandons(c)

(* Mutant: a wait ends with the runner only. *)
NeverTimesOut(c) == FALSE /\ Abandons(c)

(* ... and in any case after thirty seconds. *)
HostTimesOut(c) == Abandons(c)

(* Only an answer falls back, and only when the run is not live any more. *)
HostFallsBack(c) ==
  /\ host[c].at = "abandoned"
  /\ IF host[c].request.ask.kind = "respond" /\ ~IsLive
     THEN At(c, "opening") /\ UNCHANGED answers
     ELSE Told(c, "error")
  /\ UNCHANGED <<status, runner, delivery, store, mailbox, deaths>>

HostOpens(c) ==
  /\ host[c].at = "opening"
  /\ IF MayOpen THEN Opens(Caller(c)) /\ At(c, "deciding") /\ UNCHANGED answers
     ELSE Told(c, "error") /\ UNCHANGED store
  /\ UNCHANGED <<status, runner, delivery, mailbox, deaths>>

HostDecides(c) ==
  /\ host[c].at = "deciding"
  /\ LET ask == host[c].request.ask
         decision == IF ask.kind = "respond" THEN Decision(Caller(c), ask.event)
                     ELSE IF HeadOf(Caller(c)) = ask.target THEN "stale" ELSE "none"
     IN IF decision # "none" THEN Closes(Caller(c)) /\ Told(c, decision)
        ELSE At(c, "prepared") /\ UNCHANGED <<store, answers>>
  /\ UNCHANGED <<status, runner, delivery, mailbox, deaths>>

(* A stale writer opens the journal again, up to the third time.  A rewind  *)
(* does not, and writes its status last.                                    *)
HostCommits(c) ==
  /\ host[c].at = "prepared"
  /\ LET r == host[c].request
     IN IF Fresh(Caller(c))
        THEN /\ At(c, "closing") /\ UNCHANGED answers
             /\ IF r.ask.kind = "respond" THEN Adds(Caller(c), "resolved", r.ask.event, r.id)
                ELSE MovesHead(Caller(c), r.ask.target, r.id)
        ELSE /\ Closes(Caller(c))
             /\ \/ r.ask.kind = "respond" /\ At(c, "opening") /\ UNCHANGED answers
                \/ Told(c, "error")
  /\ UNCHANGED <<status, runner, delivery, mailbox, deaths>>

HostCloses(c) ==
  /\ host[c].at = "closing" /\ Closes(Caller(c))
  /\ IF host[c].request.ask.kind = "respond" THEN Told(c, "ok") ELSE At(c, "patching") /\ UNCHANGED answers
  /\ UNCHANGED <<status, runner, delivery, mailbox, deaths>>
HostPatches(c) ==
  /\ host[c].at = "patching" /\ Told(c, "ok")
  /\ status' = [status EXCEPT !.state = "stopped", !.fresh = FALSE]
  /\ UNCHANGED <<runner, delivery, store, mailbox, deaths>>

HostDies(c) ==
  /\ host[c].at \notin {"idle", "over"} /\ deaths < MaxDeaths
  /\ host' = [host EXCEPT ![c] = Returned] /\ Closes(Caller(c))
  /\ deaths' = deaths + 1
  /\ UNCHANGED <<status, runner, delivery, mailbox, answers>>

-----------------------------------------------------------------------------
Init ==
  /\ status = [state |-> "stopped", attempt |-> 0, fresh |-> FALSE]
  /\ runner = [a \in Attempt |-> "none"] /\ delivery = [a \in Attempt |-> IdleDelivery]
  /\ writers = {} /\ seen = [p \in Writer |-> 2] /\ journal = Opening
  /\ requests = {} /\ results = {}
  /\ host = [c \in Call |-> IdleHost] /\ answers = {} /\ deaths = 0

Watches(a) ==
  RunnerLists(a) \/ RunnerTakes(a) \/ RunnerDecides(a) \/ RunnerCommits(a) \/ RunnerReplies(a) \/ RunnerDiscards(a)
Runs(a) == RunnerOpens(a) \/ RunnerWorks(a) \/ RunnerCloses(a) \/ RunnerClosed(a) \/ RunnerDies(a)
Continues(c) ==
  \/ HostPublishes(c) \/ HostHears(c) \/ HostAbandons(c) \/ HostTimesOut(c) \/ HostFallsBack(c)
  \/ HostOpens(c) \/ HostDecides(c) \/ HostCommits(c) \/ HostCloses(c) \/ HostPatches(c)

Next ==
  \/ HeartbeatAges \/ RunStarts \/ StopIsAsked
  \/ \E a \in Attempt : Watches(a) \/ Runs(a)
  \/ \E c \in Call : HostAsks(c) \/ Continues(c) \/ HostDies(c)

Spec == Init /\ [][Next]_vars

(* A call goes on: its reads and writes end, and its timer fires.  Nothing  *)
(* is assumed of the runner.                                                *)
FairSpec == Spec /\ \A c \in Call : WF_vars(Continues(c))

-----------------------------------------------------------------------------
(* Properties. *)

(* The variables hold what the code keeps in them: the run status, the      *)
(* runner and its control watcher, the journal and what each writer knows   *)
(* of it, the mailbox files and the locals of the calls.                    *)
TypeOK ==
  /\ status \in [state : {"running", "stopping", "stopped", "failed"}, attempt : 0 .. MaxAttempts, fresh : BOOLEAN]
  /\ runner \in [Attempt -> {"none", "booting", "closing", "gone"} \cup Serving]
  /\ delivery \in [Attempt -> [at : {"idle", "deciding", "prepared", "replying", "replied"}, batch : SUBSET Request,
                              request : Request \cup {Nothing}, head : {0} \cup Index,
                              verdict : Verdict \cup {"none"}]]
  /\ writers \subseteq Writer /\ seen \in [Writer -> Index]
  /\ journal \in Seq(Entry) /\ Len(journal) \in Index
  /\ requests \subseteq Request /\ results \subseteq [id : Call, verdict : Verdict]
  /\ host \in [Call -> [at : {"idle", "over", "publishing", "waiting", "abandoned", "opening", "deciding", "prepared",
                              "closing", "patching"}, request : Request \cup {Nothing}]]
  /\ answers \subseteq [id : Call, ask : Asked, verdict : Verdict]
  /\ deaths \in 0 .. MaxDeaths

(* In no history of the branch is the gate settled twice: not answered by a *)
(* runner and again by a host that took it for dead, nor answered after the *)
(* chart left it by itself.                                                 *)
Settlements(i) == {j \in journal[i].past : journal[j].kind \in {"resolved", "closed"}}
GateSettlesOnce == \A i \in DOMAIN journal : Cardinality(Settlements(i)) <= 1

(* A rewind is carried out at most once, however often the run is resumed:  *)
(* one whose runner died after the move is not done again by the next.      *)
EachMoveCommitsOnce ==
  \A i, j \in DOMAIN journal :
    journal[i].kind = "move" /\ journal[i].asked = journal[j].asked => i = j

(* A call that is told ok finds its answer, or its move, in the journal:    *)
(* its own, or the same answer given earlier.                               *)
AcknowledgedIsDurable ==
  \A a \in answers : a.verdict = "ok" =>
    \E i \in DOMAIN journal :
      \/ a.ask.kind = "move" /\ journal[i].asked = a.id
      \/ a.ask.kind = "respond" /\ journal[i].kind = "resolved" /\ journal[i].event = a.ask.event

(* Giving the same answer again after a call that broke off is no conflict: *)
(* a conflict means that another answer was committed.                      *)
RetryIsNoConflict ==
  \A a \in answers : a.verdict = "conflict" =>
    \E i \in DOMAIN journal : journal[i].kind = "resolved" /\ journal[i].event # a.ask.event

(* Every call of a host comes back, whatever became of the runner. *)
CallsReturn == \A c \in Call : host[c].at # "idle" ~> host[c].at = "over"

(* A host that answers a gate by itself is the only writer: the runner it   *)
(* stands in for has died.                                                  *)
FallbackIsSoleWriter ==
  \A c \in Call : Caller(c) \in writers /\ host[c].request.ask.kind = "respond" =>
    \A a \in Attempt : Runner(a) \notin writers

=============================================================================
