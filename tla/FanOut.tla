------------------------------- MODULE FanOut -------------------------------
(***************************************************************************)
(* A map that fans out over items, up to so many at a time, and whose      *)
(* instances send to and call actors that the state around the map owns:   *)
(* what is due (core/machine.ts), what each record does to the projection, *)
(* or why it is refused (core/projection.ts), and the validation that lies *)
(* between an actor effect and its record (runtime/generic/                *)
(* chart_runtime.ts).  The chart is                                        *)
(*   scope (owns the actors) = { map over items -> end },  then done.      *)
(*                                                                         *)
(* The loop is that of Execution, shortened: an event and the effects of   *)
(* its step are one action, each append is one of its own, and what is     *)
(* sent meanwhile comes after the batch.  An ordinary actor is a pool of   *)
(* one worker.  Payloads fit their schemas.                                *)
(***************************************************************************)
EXTENDS Naturals, Sequences, FiniteSets, SequencesExt

CONSTANTS
  State,      \* states of the instances and of the workflows of the actors
  Event,      \* what the protocols of the actors name
  Kind,       \* Kind[s]: work, send, call, receive, reply or final
  Outcome,    \* Outcome[s]: the states work in s may lead to
  Target,     \* Target[s]: where a send, a call and a reply go on
  On,         \* On[s][e]: where a receive goes on with an event it takes
  To,         \* To[s]: the actor a send or a call addresses
  Says,       \* Says[s]: its event
  Count,      \* Count[s]: how many messages it makes
  Endpoints,  \* actors 1 .. Endpoints, as they are declared
  Workers,    \* Workers[e]: concurrency of the pool
  Rest,       \* Rest[e]: the initial state of its workers
  First,      \* the initial state of an instance
  Limit,      \* concurrency of the map
  MaxItems,   \* bound: how many items the map ranges over
  Sizes,      \* Sizes[r]: how many it may be at the r-th entry of the map
  Aborts,     \* work states that may also leave the map by an event of its own
  MaxRounds,  \* bound: how often the map is entered
  MaxCrashes  \* bound: how often the runner process dies

Endpoint == 1 .. Endpoints
Key == 1 .. MaxItems
Item(k) == <<"item", k>>
Worker(e, i) == <<"worker", e, i>>
Producer == {Item(k) : k \in Key} \cup UNION {{Worker(e, i) : i \in 1 .. Workers[e]} : e \in Endpoint}

Of(kinds) == {s \in State : Kind[s] \in kinds}

(* A workflow rests at a receive, and replies before it is back at one. *)
ASSUME FanOutAssumption ==
  /\ {"none", "abort"} \cap State = {} /\ Kind \in [State -> {"work", "send", "call", "receive", "reply", "final"}]
  /\ Outcome \in [Of({"work"}) -> SUBSET State] /\ Aborts \subseteq Of({"work"})
  /\ Target \in [Of({"send", "call", "reply"}) -> State]
  /\ To \in [Of({"send", "call"}) -> Endpoint] /\ Says \in [Of({"send", "call"}) -> Event]
  /\ Count \in [Of({"send", "call"}) -> Nat \ {0}]
  /\ DOMAIN On = Of({"receive"})
  /\ \A s \in DOMAIN On : DOMAIN On[s] \subseteq Event /\ \A e \in DOMAIN On[s] : On[s][e] \in State
  /\ Endpoints \in Nat /\ Workers \in [Endpoint -> Nat \ {0}]
  /\ Rest \in [Endpoint -> Of({"receive"})] /\ \A s \in Of({"reply"}) : Kind[Target[s]] = "receive"
  /\ First \in State /\ Limit \in Nat \ {0} /\ MaxItems \in Nat
  /\ MaxRounds \in Nat \ {0} /\ Sizes \in [1 .. MaxRounds -> (SUBSET (0 .. MaxItems)) \ {{}}]
  /\ MaxCrashes \in Nat

VARIABLES
  durable,     \* the projection of the log, as of its last commit
  machine,     \* the machine's projection
  dispatched,  \* ids of the effects the machine has asked for
  reserved,    \* poolAdmissionReservations: accepts on their way to the log and back
  queue,       \* the runtime's event queue
  batch,       \* appends of the batch that is being carried out
  checks,      \* actor effects whose payload is being validated
  tasks,       \* actions at work
  loop,        \* ready, or how the loop ended
  crashes

vars == <<durable, machine, dispatched, reserved, queue, batch, checks, tasks, loop, crashes>>

-----------------------------------------------------------------------------
(* The projection. *)

Messages == [from : Producer, at : State, visit : Nat, index : Nat]
Calls == [from : Producer, at : State, visit : Nat]

(* One message: who made it, at which visit and place in its batch. *)
Message(p, s, n, i) == [from |-> p, at |-> s, visit |-> n, index |-> i]
Batch(p, s, n) == [i \in 1 .. Count[s] |-> Message(p, s, n, i)]
Asks(msg) == Kind[msg.at] = "call"
NoMessage == [from |-> <<>>, at |-> "none", visit |-> 0, index |-> 0]

(* A pending call: its messages are those of its batch. *)
Call(p, s, n) == [from |-> p, at |-> s, visit |-> n]
CallOf(msg) == Call(msg.from, msg.at, msg.visit)
Members(call) == Range(Batch(call.from, call.at, call.visit))

Empty ==
  [chart |-> "map", leaves |-> <<>>, rounds |-> 1, failed |-> FALSE,
   status |-> [e \in Endpoint |-> "none"], mailbox |-> [e \in Endpoint |-> <<>>],
   at |-> [e \in Endpoint |-> [i \in 1 .. Workers[e] |-> Rest[e]]],
   current |-> [e \in Endpoint |-> [i \in 1 .. Workers[e] |-> NoMessage]],
   pending |-> [p \in Producer |-> 0], visits |-> [p \in Producer |-> 0],
   sends |-> [p \in Producer |-> 0], calls |-> {}, settled |-> {}]

Leaves(v) == DOMAIN v.leaves
LeafOf(v, k) == CHOOSE j \in Leaves(v) : v.leaves[j].key = k
IsItem(p) == p[1] = "item"
At(v, p) ==
  IF IsItem(p)
  THEN IF \E j \in Leaves(v) : v.leaves[j].key = p[2] THEN v.leaves[LeafOf(v, p[2])].at ELSE "none"
  ELSE IF v.status[p[2]] \in {"none", "stopped"} THEN "none" ELSE v.at[p[2]][p[3]]
Current(v, p) == v.current[p[2]][p[3]]
Doing(v, kind) == {p \in Producer : At(v, p) # "none" /\ Kind[At(v, p)] = kind}

Busy(v, e) == {i \in 1 .. Workers[e] : v.current[e][i] # NoMessage}
Takes(v, e, i, msg) == LET s == v.at[e][i] IN Kind[s] = "receive" /\ Says[msg.at] \in DOMAIN On[s]

(* actorOwnerIsClosing: every leaf of the scope is final. *)
OwnerIsClosing(v) == v.chart \in {"end", "done"}

(* findCompletedParallel, then findCompletedCompound, which holds the end   *)
(* of the scope until its actors have stopped.                              *)
Joined(v) == v.chart = "each" /\ \A j \in Leaves(v) : Kind[v.leaves[j].at] = "final"

(* Mutant: the scope completes with its map. *)
ReleasedAtOnce(v) == TRUE

Released(v) == \A e \in Endpoint : v.status[e] \in {"none", "stopped"}
CompleteParallels(v) ==
  LET joined == IF Joined(v) THEN [v EXCEPT !.chart = "end", !.leaves = <<>>] ELSE v
  IN IF joined.chart = "end" /\ Released(joined) THEN [joined EXCEPT !.chart = "done"] ELSE joined

(* Mutant: a leaf that moves stays where it was as well. *)
GoesAndStays(v, p, s) ==
  IF IsItem(p) THEN CompleteParallels([v EXCEPT !.leaves = Append(@, [key |-> p[2], at |-> s])])
  ELSE [v EXCEPT !.at[p[2]][p[3]] = s]

(* A leaf that moves comes last. *)
Goes(v, p, s) ==
  IF IsItem(p)
  THEN CompleteParallels(
         [v EXCEPT !.leaves = Append(RemoveAt(@, LeafOf(v, p[2])), [key |-> p[2], at |-> s])])
  ELSE [v EXCEPT !.at[p[2]][p[3]] = s]

(* The event of an instance that the map handles leaves all instances. *)
Leave(v) ==
  [v EXCEPT !.chart = "map", !.leaves = <<>>, !.rounds = @ + 1,
            !.pending = [p \in Producer |-> IF IsItem(p) THEN 0 ELSE @[p]]]

Resolve(v, call) ==
  Goes([v EXCEPT !.calls = @ \ {call}, !.settled = @ \ Members(call)], call.from, Target[call.at])

(* What a committed unit does, and when it asserts.  Records about actions  *)
(* and maps that are not active any more are skipped, those about actors    *)
(* are refused.                                                             *)
Project(v, u) ==
  CASE u.type = "failure" -> [v EXCEPT !.failed = TRUE]
    [] u.type = "spawned" ->
         IF v.chart # "map" THEN v
         ELSE CompleteParallels(
                [v EXCEPT !.chart = IF u.n = 0 THEN "end" ELSE "each",
                          !.leaves = [k \in 1 .. u.n |-> [key |-> k, at |-> First]]])
    [] u.type = "invoke" ->
         LET starts == {x \in u.group : At(v, x[1]) = x[2]}
             visits == [p \in Producer |-> IF \E x \in starts : x[1] = p THEN v.visits[p] + 1 ELSE v.visits[p]]
         IN [v EXCEPT !.visits = visits,
                      !.pending = [p \in Producer |-> IF visits[p] # v.visits[p] THEN visits[p] ELSE v.pending[p]]]
    [] u.type = "complete" ->
         IF At(v, u.p) # u.at THEN v
         ELSE IF u.to = "abort" THEN Leave(v) ELSE Goes([v EXCEPT !.pending[u.p] = 0], u.p, u.to)
    [] u.type = "created" -> [v EXCEPT !.status[u.e] = "open"]
    [] u.type = "enqueued" ->
         LET sent == [v EXCEPT !.mailbox[To[u.at]] = @ \o Batch(u.p, u.at, u.visit), !.sends[u.p] = u.visit]
         IN IF Kind[u.at] = "call" THEN [sent EXCEPT !.calls = @ \cup {Call(u.p, u.at, u.visit)}]
            ELSE Goes(sent, u.p, Target[u.at])
    [] u.type = "accepted" ->
         [v EXCEPT !.mailbox[u.e] = Tail(@), !.current[u.e][u.i] = u.msg,
                   !.at[u.e][u.i] = On[@][Says[u.msg.at]]]
    [] u.type = "replied" ->
         LET e == u.p[2]
             i == u.p[3]
             over == [v EXCEPT !.current[e][i] = NoMessage, !.at[e][i] = Target[@],
                               !.settled = IF Asks(u.msg) THEN @ \cup {u.msg} ELSE @]
         IN IF u.resolves THEN Resolve(over, CallOf(u.msg)) ELSE over
    [] u.type = "resolved" -> Resolve(v, u.call)
    [] u.type = "closing" -> [v EXCEPT !.status[u.e] = "closing"]
    [] u.type = "stopped" -> CompleteParallels([v EXCEPT !.status[u.e] = "stopped"])

(* advanceActorProducerAfterReply: the caller is still at its call. *)
Resolvable(v, call, settled) ==
  call \in v.calls /\ Members(call) \subseteq settled /\ At(v, call.from) = call.at

Rejects(v, u) ==
  CASE u.type = "failure" -> v.failed
    [] u.type = "spawned" -> FALSE
    [] u.type = "invoke" -> \E x \in u.group : At(v, x[1]) = x[2] /\ v.pending[x[1]] # 0
    [] u.type = "complete" -> At(v, u.p) = u.at /\ v.pending[u.p] = 0
    [] u.type = "created" -> v.status[u.e] # "none" \/ v.chart = "done"
    [] u.type = "enqueued" ->
         \/ v.status[To[u.at]] \in {"none", "stopped"}
         \/ v.status[To[u.at]] = "closing" /\ (IsItem(u.p) \/ Current(v, u.p) = NoMessage)
         \/ u.visit # v.sends[u.p] + 1
         \/ Kind[u.at] = "send" /\ At(v, u.p) # u.at
    [] u.type = "accepted" ->
         \/ v.mailbox[u.e] = <<>> \/ Head(v.mailbox[u.e]) # u.msg
         \/ u.i \in Busy(v, u.e) \/ v.status[u.e] = "stopped" \/ ~Takes(v, u.e, u.i, u.msg)
    [] u.type = "replied" ->
         \/ Current(v, u.p) # u.msg \/ Kind[v.at[u.p[2]][u.p[3]]] # "reply"
         \/ u.resolves /\ ~Resolvable(v, CallOf(u.msg), v.settled \cup {u.msg})
    [] u.type = "resolved" -> ~Resolvable(v, u.call, v.settled)
    [] u.type = "closing" -> v.status[u.e] = "stopped"
    [] u.type = "stopped" -> Busy(v, u.e) # {} \/ v.mailbox[u.e] # <<>>

-----------------------------------------------------------------------------
(* What is due, from the machine's projection alone. *)

(* Mutant: free slots go by key, not by arrival. *)
EarlierKey(v, i, j) == v.leaves[i].key < v.leaves[j].key

(* Idle instances take the free slots in the order of the active leaves. *)
Earlier(v, i, j) == i < j

(* concurrencyBlockedActionLeaves: whoever has pending work keeps its slot. *)
Holders(v) == {k \in Key : v.pending[Item(k)] # 0}
Waiting(v) == {j \in Leaves(v) : Kind[v.leaves[j].at] = "work" /\ v.leaves[j].key \notin Holders(v)}
Blocked(v) ==
  {Item(v.leaves[j].key) : j \in
     {j \in Waiting(v) : Cardinality(Holders(v)) + Cardinality({i \in Waiting(v) : Earlier(v, i, j)}) >= Limit}}

DueInvokes(v) == {<<p, At(v, p)>> : p \in {q \in Doing(v, "work") \ Blocked(v) : v.pending[q] = 0}}
DuePhases(v) == {<<"run", p, At(v, p), v.pending[p]>> : p \in {q \in Doing(v, "work") : v.pending[q] # 0}}

DueSpawns(v) == IF v.chart = "map" THEN {<<"spawn">>} ELSE {}
DueCreates(v) == {<<"create", e>> : e \in {f \in Endpoint : v.status[f] = "none" /\ v.chart # "done"}}

(* targetActorForProducer, and who may still use one that closes. *)
Messaging(v) == Doing(v, "send") \cup Doing(v, "call")
TargetIs(v, p, statuses) == v.status[To[At(v, p)]] \in statuses
MayUseClosing(v, p) == ~IsItem(p) /\ Current(v, p) # NoMessage
DueAdmissionFailures(v) ==
  {<<"refuse", p>> : p \in {q \in Messaging(v) : TargetIs(v, q, {"closing"}) /\ ~MayUseClosing(v, q)}}
DueEnqueues(v) ==
  {<<"enqueue", p, At(v, p), v.sends[p] + 1>> : p \in
     {q \in Messaging(v) :
        /\ ~\E call \in v.calls : call.from = q /\ call.at = At(v, q)
        /\ TargetIs(v, q, {"open"}) \/ (TargetIs(v, q, {"closing"}) /\ MayUseClosing(v, q))}}

(* Mutant: a worker is taken from the moment its accept is projected. *)
TakenInView(v, e, r) == Busy(v, e)

(* A worker is taken from the moment its accept is asked for. *)
Taken(v, e, r) == Busy(v, e) \cup {r[e][j].i : j \in DOMAIN r[e]}

(* Mutant: an accept on its way does not make its worker busy. *)
IdleInView(v, e, taken) == Busy(v, e) = {}

NoneBusy(v, e, taken) == taken = {}

(* actorEndpointAdmission of one endpoint: the mailbox from its head on,    *)
(* past what is on its way, each message to the first worker that takes it; *)
(* a head no worker takes waits for a busy one, and fails the run if none.  *)
Eligible(v, e, taken, msg) == {i \in 1 .. Workers[e] : i \notin taken /\ Takes(v, e, i, msg)}
Admit(v, e, so, msg) ==
  LET eligible == Eligible(v, e, so.taken, msg)
  IN IF so.over THEN so
     ELSE IF eligible = {} THEN [so EXCEPT !.over = TRUE, !.fails = NoneBusy(v, e, so.taken)]
     ELSE [so EXCEPT !.accepts = Append(@, [type |-> "accepted", e |-> e, i |-> Min(eligible), msg |-> msg]),
                     !.taken = @ \cup {Min(eligible)}]
Admission(v, e, r) ==
  LET box == v.mailbox[e]
      past == Len(r[e])
      admit[j \in past .. Len(box)] ==
        IF j = past THEN [accepts |-> <<>>, taken |-> Taken(v, e, r), over |-> FALSE, fails |-> FALSE]
        ELSE Admit(v, e, admit[j - 1], box[j])
  IN IF v.status[e] \in {"none", "stopped"} THEN [accepts |-> <<>>, fails |-> FALSE] ELSE admit[Len(box)]
Unsupported(v, r) ==
  {<<"unsupported", e, Head(v.mailbox[e])>> : e \in {f \in Endpoint : Admission(v, f, r).fails}}
DueAccepts(v, e, r) == IF Unsupported(v, r) # {} THEN <<>> ELSE Admission(v, e, r).accepts

DueReplies(v) ==
  {<<"reply", p, Current(v, p)>> : p \in {q \in Doing(v, "reply") : ~IsItem(q) /\ Current(v, q) # NoMessage}}

(* Mutant: a batch is resolved by its last reply only. *)
NoBatches(v) == {}

(* Two last replies that cross see each other's message unsettled. *)
DueBatches(v) == {call \in v.calls : Count[call.at] > 1 /\ Members(call) \subseteq v.settled}

Quiescent(v, e) == Busy(v, e) = {} /\ v.mailbox[e] = <<>>
DueClosings(v) ==
  {e \in Endpoint : v.status[e] = "open" /\ OwnerIsClosing(v)
                     /\ ~\E id \in DueEnqueues(v) : To[id[3]] = e}
DueStops(v) == {e \in Endpoint : v.status[e] = "closing" /\ Quiescent(v, e)}

-----------------------------------------------------------------------------
(* The numbers of a finite set in order, and a sequence at chosen places. *)
InOrder(places) == [n \in 1 .. Cardinality(places) |-> CHOOSE i \in places : Cardinality({j \in places : j <= i}) = n]
Kept(s, places) == [n \in 1 .. Cardinality(places) |-> s[InOrder(places)[n]]]

(* createMachineOutput: the response to the event, then what is due and was *)
(* not asked for before, in that order; n is what the map ranges over.  The *)
(* invokes of one output are one unit.                                      *)
Failure == [type |-> "failure"]
Chosen(ids) == IF ids = {} THEN {} ELSE {CHOOSE id \in ids : TRUE}
AcceptId(a) == <<"accept", a.e, a.msg>>
Accepts(v, e, r) ==
  LET due == DueAccepts(v, e, r) IN Kept(due, {j \in DOMAIN due : AcceptId(due[j]) \notin dispatched})
Appends(v, r, n) ==
  LET once(ids, u) == IF Chosen(ids) \subseteq dispatched THEN <<>> ELSE <<u>>
      invokes == {x \in DueInvokes(v) : <<"invoke", x>> \notin dispatched}
      batches == {c \in DueBatches(v) : <<"resolve", c>> \notin dispatched}
      scope(type, es) == LET fresh == {e \in es : <<type, e>> \notin dispatched}
                         IN [j \in 1 .. Cardinality(fresh) |-> [type |-> type, e |-> InOrder(fresh)[j]]]
  IN once(DueSpawns(v), [type |-> "spawned", n |-> n])
     \o once(DueAdmissionFailures(v), Failure) \o once(Unsupported(v, r), Failure)
     \o FlattenSeq([e \in Endpoint |-> Accepts(v, e, r)])
     \o (IF invokes = {} THEN <<>> ELSE <<[type |-> "invoke", group |-> invokes]>>)
     \o [j \in 1 .. Cardinality(batches) |-> [type |-> "resolved", call |-> SetToSeq(batches)[j]]]
     \o scope("closing", DueClosings(v)) \o scope("stopped", DueStops(v))

Effects(v) == DueCreates(v) \cup DueEnqueues(v) \cup DueReplies(v) \cup DuePhases(v)

(* The ids of what is due: what is asked for again only after it was not. *)
Desired(v, r) ==
  Chosen(DueSpawns(v)) \cup Chosen(DueAdmissionFailures(v)) \cup Chosen(Unsupported(v, r))
    \cup (UNION {{AcceptId(a) : a \in Range(DueAccepts(v, e, r))} : e \in Endpoint})
    \cup {<<"invoke", x>> : x \in DueInvokes(v)} \cup {<<"resolve", c>> : c \in DueBatches(v)}
    \cup {<<"closing", e>> : e \in DueClosings(v)} \cup {<<"stopped", e>> : e \in DueStops(v)}
    \cup Effects(v)

Output(v, r, response, gone, n) ==
  LET units == response \o Appends(v, r, n)
      effects == Effects(v) \ dispatched
      over == v.failed \/ v.chart = "done"
  IN /\ machine' = v
     /\ IF over
        THEN /\ loop' = IF v.failed THEN "failed" ELSE "final"
             /\ queue' = <<>> /\ batch' = <<>> /\ checks' = {} /\ tasks' = {}
             /\ dispatched' = {} /\ reserved' = [e \in Endpoint |-> <<>>]
        ELSE /\ dispatched' = Desired(v, r) /\ batch' = units /\ queue' = Tail(queue)
             /\ reserved' = [e \in Endpoint |-> r[e] \o Accepts(v, e, r)]
             /\ checks' = checks \cup {id \in effects : id[1] # "run"}
             /\ tasks' = (tasks \ gone) \cup {id \in effects : id[1] = "run"}
             /\ UNCHANGED loop
     /\ UNCHANGED <<durable, crashes>>

(* A response whose effect is no longer due lost a race. *)
StillDue(id) == id \in Effects(machine)

(* actorCallResolutionAfterReply: a batch is resolved with the reply that   *)
(* settles it, as far as the machine can see.                               *)
Resolves(msg) ==
  Asks(msg) /\ (CallOf(msg) \in machine.calls /\ Count[msg.at] > 1
                 => Members(CallOf(msg)) \subseteq machine.settled \cup {msg})

ActorUnit(id) ==
  CASE id[1] = "create" -> [type |-> "created", e |-> id[2]]
    [] id[1] = "enqueue" -> [type |-> "enqueued", p |-> id[2], at |-> id[3], visit |-> id[4]]
    [] id[1] = "reply" -> [type |-> "replied", p |-> id[2], msg |-> id[3], resolves |-> Resolves(id[3])]

Awaiting(kind) == loop = "ready" /\ batch = <<>> /\ queue # <<>> /\ Head(queue).kind = kind

StepStart == Awaiting("start") /\ \E n \in Sizes[machine.rounds] : Output(machine, reserved, <<>>, {}, n)

StepActorEffect ==
  /\ Awaiting("checked")
  /\ LET id == Head(queue).id IN
     \E n \in Sizes[machine.rounds] :
       Output(machine, reserved, IF StillDue(id) THEN <<ActorUnit(id)>> ELSE <<>>, {}, n)

(* The outcome of an action that is over, or left, lost a race as well. *)
StepWork ==
  /\ Awaiting("worked")
  /\ LET id == Head(queue).id
         current == machine.pending[id[2]] = id[4] /\ At(machine, id[2]) = id[3]
         complete == [type |-> "complete", p |-> id[2], at |-> id[3], to |-> Head(queue).to]
     IN \E n \in Sizes[machine.rounds] : Output(machine, reserved, IF current THEN <<complete>> ELSE <<>>, {}, n)

(* Mutant: the reservation made last is forgotten. *)
ForgottenLast(u) ==
  [e \in Endpoint |-> IF u \in Range(reserved[e]) THEN Front(reserved[e]) ELSE reserved[e]]

Forgotten(u) == [e \in Endpoint |-> Kept(reserved[e], {j \in DOMAIN reserved[e] : reserved[e][j] # u})]

(* durable_records_added: the machine projects the unit, forgets its        *)
(* reservation and cancels the work that was left.                          *)
StepAck ==
  /\ Awaiting("ack")
  /\ LET u == Head(queue).unit
         v == Project(machine, u)
         gone == {t \in tasks : v.pending[t[2]] # t[4]}
     IN \E n \in Sizes[v.rounds] : Output(v, Forgotten(u), <<>>, gone, n)

(* appendDrafts: the unit is projected on the log as it is now; a throw     *)
(* refuses the append, and with it the run.                                 *)
Commit ==
  /\ loop = "ready" /\ batch # <<>>
  /\ LET u == Head(batch) IN
     IF Rejects(durable, u)
     THEN /\ loop' = "threw"
          /\ queue' = <<>> /\ batch' = <<>> /\ checks' = {} /\ tasks' = {}
          /\ UNCHANGED durable
     ELSE /\ durable' = Project(durable, u)
          /\ queue' = Append(queue, [kind |-> "ack", unit |-> u])
          /\ batch' = Tail(batch)
          /\ UNCHANGED <<checks, tasks, loop>>
  /\ UNCHANGED <<machine, dispatched, reserved, crashes>>

(* What runs beside the loop answers in any order. *)
Sends(event) == queue' = Append(queue, event)
Validated(id) ==
  /\ loop = "ready" /\ batch = <<>> /\ id \in checks
  /\ checks' = checks \ {id} /\ Sends([kind |-> "checked", id |-> id])
  /\ UNCHANGED <<durable, machine, dispatched, reserved, batch, tasks, loop, crashes>>
Worked(id) ==
  /\ loop = "ready" /\ batch = <<>> /\ id \in tasks
  /\ tasks' = tasks \ {id}
  /\ \E to \in Outcome[id[3]] \cup
        (IF id[3] \in Aborts /\ IsItem(id[2]) /\ machine.rounds < MaxRounds THEN {"abort"} ELSE {}) :
       Sends([kind |-> "worked", id |-> id, to |-> to])
  /\ UNCHANGED <<durable, machine, dispatched, reserved, batch, checks, loop, crashes>>

(* The process dies, or the run threw; a new attempt has the log only. *)
Restarted ==
  /\ loop \in {"ready", "threw"} /\ crashes < MaxCrashes
  /\ crashes' = crashes + 1
  /\ machine' = durable /\ loop' = "ready" /\ queue' = <<[kind |-> "start"]>>
  /\ dispatched' = {} /\ reserved' = [e \in Endpoint |-> <<>>]
  /\ batch' = <<>> /\ checks' = {} /\ tasks' = {}
  /\ UNCHANGED durable

Init ==
  /\ durable = Empty /\ machine = Empty
  /\ dispatched = {} /\ reserved = [e \in Endpoint |-> <<>>]
  /\ queue = <<[kind |-> "start"]>> /\ batch = <<>> /\ checks = {} /\ tasks = {}
  /\ loop = "ready" /\ crashes = 0

Loop == StepStart \/ StepActorEffect \/ StepWork \/ StepAck \/ Commit
Validates == \E id \in checks : Validated(id)
Works == \E id \in tasks : Worked(id)
Next == Loop \/ Validates \/ Works \/ Restarted

Spec == Init /\ [][Next]_vars

(* The loop turns while there is something to do (weak fairness of Loop,    *)
(* with its enabledness spelled out), validations end and so does the work  *)
(* of actions.                                                              *)
LoopCanTurn == loop = "ready" /\ (batch # <<>> \/ queue # <<>>)
LoopTurns == []<>~LoopCanTurn \/ []<><<Loop>>_vars
FairSpec == Spec /\ LoopTurns /\ WF_vars(Validates) /\ WF_vars(Works)

-----------------------------------------------------------------------------
(* Properties. *)

(* The variables hold what the code keeps in them: two projections of the   *)
(* branch, the machine's markers and reservations, the event queue, the     *)
(* batch of effects and the validations and actions at work.                *)
UnitOK(u) ==
  CASE u.type = "failure" -> TRUE
    [] u.type = "spawned" -> u.n \in 0 .. MaxItems
    [] u.type = "invoke" -> u.group \subseteq Producer \X State
    [] u.type = "complete" -> u.p \in Producer /\ u.at \in State /\ u.to \in State \cup {"abort"}
    [] u.type \in {"created", "closing", "stopped"} -> u.e \in Endpoint
    [] u.type = "enqueued" -> u.p \in Producer /\ u.at \in DOMAIN To /\ u.visit \in Nat
    [] u.type = "accepted" -> u.e \in Endpoint /\ u.i \in 1 .. Workers[u.e] /\ u.msg \in Messages
    [] u.type = "replied" -> u.p \in Producer /\ u.msg \in Messages /\ u.resolves \in BOOLEAN
    [] u.type = "resolved" -> u.call \in Calls
CheckOK(id) ==
  CASE id[1] = "create" -> id[2] \in Endpoint
    [] id[1] = "enqueue" -> id[2] \in Producer /\ id[3] \in State
    [] id[1] = "reply" -> id[2] \in Producer /\ id[3] \in Messages
TaskOK(id) == id[1] = "run" /\ id[2] \in Producer /\ id[3] \in State /\ id[4] \in 1 .. machine.visits[id[2]]
ProjectionOK(v) ==
  /\ v.chart \in {"map", "each", "end", "done"} /\ v.rounds \in 1 .. MaxRounds /\ v.failed \in BOOLEAN
  /\ v.leaves \in Seq([key : Key, at : State]) /\ IsInjective([j \in Leaves(v) |-> v.leaves[j].key])
  /\ v.status \in [Endpoint -> {"none", "open", "closing", "stopped"}]
  /\ v.mailbox \in [Endpoint -> Seq(Messages)]
  /\ \A e \in Endpoint : /\ v.at[e] \in [1 .. Workers[e] -> State]
                        /\ v.current[e] \in [1 .. Workers[e] -> Messages \cup {NoMessage}]
  /\ \A p \in Producer : v.pending[p] \in 0 .. v.visits[p] /\ v.sends[p] \in Nat
  /\ v.calls \subseteq Calls /\ v.settled \subseteq Messages
TypeOK ==
  /\ ProjectionOK(durable) /\ ProjectionOK(machine)
  /\ \A e \in Endpoint : \A j \in DOMAIN reserved[e] : UnitOK(reserved[e][j])
  /\ \A j \in DOMAIN queue :
       \/ queue[j] = [kind |-> "start"]
       \/ queue[j].kind = "ack" /\ UnitOK(queue[j].unit)
       \/ queue[j].kind = "checked" /\ CheckOK(queue[j].id)
       \/ queue[j].kind = "worked" /\ TaskOK(queue[j].id) /\ queue[j].to \in State \cup {"abort"}
  /\ \A j \in DOMAIN batch : UnitOK(batch[j])
  /\ \A id \in checks : CheckOK(id)
  /\ \A id \in tasks : TaskOK(id)
  /\ loop \in {"ready", "final", "failed", "threw"} /\ crashes \in 0 .. MaxCrashes

(* No more instances of the map have work pending than its concurrency,     *)
(* however far the machine is behind the log.                               *)
GateHolds == Cardinality(Holders(durable)) <= Limit

(* The accepts on their way are of the first messages of the mailbox the    *)
(* machine knows, in their order.                                           *)
ReservedAreFirst ==
  \A e \in Endpoint : /\ Len(reserved[e]) <= Len(machine.mailbox[e])
                       /\ \A j \in DOMAIN reserved[e] : reserved[e][j].msg = machine.mailbox[e][j]

(* A scope that is over has left nothing behind: what its actors were sent  *)
(* is settled, no call waits, the actors have stopped.                      *)
DoneMeansDrained ==
  durable.chart = "done" =>
    /\ durable.calls = {} /\ durable.settled = {}
    /\ \A e \in Endpoint : Quiescent(durable, e) /\ durable.status[e] \in {"none", "stopped"}

(* A run is failed over a message only when all the workers are idle and    *)
(* none takes it.                                                           *)
FailsOnlyWhenStuck ==
  durable.failed =>
    \E e \in Endpoint :
      /\ Busy(durable, e) = {} /\ durable.mailbox[e] # <<>>
      /\ \A i \in 1 .. Workers[e] : ~Takes(durable, e, i, Head(durable.mailbox[e]))

(* With one endpoint, what the machine decides on its older projection is   *)
(* still legal when it is committed, as long as no instance left the map    *)
(* with all the others; endpoints that write to each other break it.        *)
NothingElseThrows == loop = "threw" => durable.rounds > 1

(* An accept and a closing are decided on the machine's projection, which   *)
(* may be several records behind the log: the log never refuses them.       *)
DecisionsStand ==
  loop = "ready" /\ batch # <<>> /\ Head(batch).type \in {"accepted", "closing"} => ~Rejects(durable, Head(batch))

(* The run comes to an end, whatever order validations and work end in. *)
RunEnds == <>[](loop \in {"final", "failed", "threw"})

=============================================================================
