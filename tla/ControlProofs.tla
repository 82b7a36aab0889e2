---------------------------- MODULE ControlProofs ----------------------------
(***************************************************************************)
(* The gate of Control is settled once in every history of the branch, for *)
(* any number of runs, calls and deaths, and also where the store does not *)
(* keep a second writer out (Locked = FALSE).                              *)
(*                                                                         *)
(* A writer decides on the journal as it knows it and appends later.  What *)
(* carries the decision over is that the ancestry of a head never changes: *)
(* a runner appends after the head it decided on, and a host only what it  *)
(* has read in this very opening of the journal.                           *)
(*                                                                         *)
(* From that invariant follow what a call is told and, with a budget of    *)
(* the calls that may still write, that the journal stays in its bound.    *)
(***************************************************************************)
EXTENDS Control, FiniteSetTheorems, WellFoundedInduction, SequenceTheorems, TLAPS

Line == [kind : {"worked", "opened", "closed", "resolved", "move"}, event : Event \cup {"none"},
         head : Nat, past : SUBSET Nat, asked : {0} \cup Call]
Delivery == [at : {"idle", "deciding", "prepared", "replying", "replied"}, batch : SUBSET Request,
             request : Request \cup {Nothing}, head : Nat, verdict : Verdict \cup {"none"}]
HostStage == {"idle", "over", "publishing", "waiting", "abandoned", "opening", "deciding", "prepared",
              "closing", "patching"}
HostRecord == [at : HostStage, request : Request \cup {Nothing}]

(* The processes, and what they are at. *)
StatusOK == status \in [state : {"running", "stopping", "stopped", "failed"}, attempt : 0 .. MaxAttempts, fresh : BOOLEAN]
WatchersOK ==
  /\ delivery \in [Attempt -> Delivery]
  /\ \A a \in Attempt : delivery[a].at # "idle" => delivery[a].request \in Request
CallsOK ==
  /\ host \in [Call -> HostRecord] /\ requests \subseteq Request
  /\ \A c \in Call : host[c].at \notin {"idle", "over"} => host[c].request \in Request

(* The journal: an entry names a head and that head's ancestry, in which at *)
(* most one entry settles the gate; every writer knows some of it.          *)
Settles(j) == journal[j].kind \in {"resolved", "closed"}
JournalOK ==
  /\ journal \in Seq(Line) /\ Len(journal) >= 2
  /\ \A i \in 1 .. Len(journal) :
       /\ journal[i].head \in 1 .. Len(journal) /\ journal[i].past \subseteq 1 .. Len(journal)
       /\ journal[i].past = journal[journal[i].head].past
       /\ \A j, k \in journal[i].past : Settles(j) /\ Settles(k) => j = k
SeenOK == seen \in [Writer -> Nat] /\ \A p \in Writer : seen[p] \in 1 .. Len(journal)

(* An answer that waits to be appended was decided on an open gate. *)
RunnersDecided ==
  \A a \in Attempt :
    delivery[a].at = "prepared" /\ delivery[a].request.ask.kind = "respond"
      => delivery[a].head \in 1 .. Len(journal) /\ ~Settled(journal[delivery[a].head].past)
HostsDecided ==
  \A c \in Call :
    host[c].at = "prepared" /\ host[c].request.ask.kind = "respond" => ~Settled(Past(Caller(c)))

Inv == StatusOK /\ WatchersOK /\ CallsOK /\ JournalOK /\ SeenOK /\ RunnersDecided /\ HostsDecided

-----------------------------------------------------------------------------
(* Runners and hosts are different writers. *)
LEMMA WriterNames ==
  /\ \A a \in Attempt : Runner(a) \in Writer
  /\ \A c \in Call : Caller(c) \in Writer
  /\ \A a \in Attempt, c \in Call : Runner(a) # Caller(c)
  /\ \A c, d \in Call : Caller(c) = Caller(d) => c = d
  BY DEF Runner, Caller, Writer

(* A request asks for an answer or for one of two moves. *)
LEMMA WhatIsAsked ==
  ASSUME NEW r \in Request
  PROVE  /\ r.ask.kind = "respond" => r.ask.event \in Event
         /\ r.ask.kind # "respond" => r.ask.target \in {1, 2}
         /\ r.id \in Call
<1>1. r.ask \in Asked /\ r.id \in Call
  BY DEF Request
<1>2. r.ask \in {Answer(e) : e \in Event} \cup {Move(1), Move(2)}
  BY <1>1, ControlAssumption DEF Asked, Call
<1> QED
  BY <1>1, <1>2 DEF Answer, Move

LEMMA InitInv == Init => Inv
<1> SUFFICES ASSUME Init PROVE Inv
  OBVIOUS
<1> USE ControlAssumption
<1>1. StatusOK
  BY DEF Init, StatusOK
<1>2. WatchersOK
  BY DEF Init, WatchersOK, Delivery, IdleDelivery, Nothing, Request
<1>3. CallsOK
  BY DEF Init, CallsOK, HostRecord, HostStage, IdleHost
<1>4. journal = <<[kind |-> "worked", event |-> "none", head |-> 1, past |-> {1}, asked |-> 0],
                  [kind |-> "opened", event |-> "none", head |-> 2, past |-> {1, 2}, asked |-> 0]>>
  BY DEF Init, Opening, Own
<1>5. JournalOK
  <2>1. journal \in Seq(Line) /\ Len(journal) = 2
    BY <1>4 DEF Line
  <2> QED
    BY <1>4, <2>1 DEF JournalOK, Settles
<1>6. SeenOK
  BY <1>4 DEF Init, SeenOK
<1>7. RunnersDecided /\ HostsDecided
  BY DEF Init, RunnersDecided, HostsDecided, IdleDelivery, IdleHost
<1> QED
  BY <1>1, <1>2, <1>3, <1>5, <1>6, <1>7 DEF Inv

-----------------------------------------------------------------------------
(* The journal only grows. *)
Grown == Len(journal') >= Len(journal) /\ \A i \in 1 .. Len(journal) : journal'[i] = journal[i]

(* An entry with a head and an ancestry like the others keeps the journal   *)
(* in order.                                                                *)
LEMMA EntryAppended ==
  ASSUME JournalOK, SeenOK, NEW p \in Writer, NEW entry \in Line, Appends(p, entry),
         \/ entry.head = Len(journal) + 1
         \/ entry.head \in 1 .. Len(journal) /\ entry.past = journal[entry.head].past,
         entry.past \subseteq 1 .. Len(journal) + 1,
         \A j, k \in entry.past :
           journal'[j].kind \in {"resolved", "closed"} /\ journal'[k].kind \in {"resolved", "closed"} => j = k
  PROVE  JournalOK' /\ SeenOK' /\ Grown
<1>1. /\ journal' \in Seq(Line) /\ Len(journal') = Len(journal) + 1 /\ Len(journal) \in Nat
      /\ \A i \in 1 .. Len(journal) : journal'[i] = journal[i]
      /\ journal'[Len(journal) + 1] = entry
  BY DEF JournalOK, Appends
<1>2. Grown
  BY <1>1 DEF Grown
<1>3. SeenOK'
  BY <1>1 DEF SeenOK, Appends
<1>4. ASSUME NEW i \in 1 .. Len(journal')
      PROVE  /\ journal'[i].head \in 1 .. Len(journal') /\ journal'[i].past \subseteq 1 .. Len(journal')
             /\ journal'[i].past = journal'[journal'[i].head].past
             /\ \A j, k \in journal'[i].past : Settles(j)' /\ Settles(k)' => j = k
  <2>1. CASE i = Len(journal) + 1
    BY <1>1, <2>1 DEF Settles
  <2>2. CASE i \in 1 .. Len(journal)
    <3>1. /\ journal[i].head \in 1 .. Len(journal) /\ journal[i].past \subseteq 1 .. Len(journal)
          /\ journal[i].past = journal[journal[i].head].past
          /\ \A j, k \in journal[i].past : Settles(j) /\ Settles(k) => j = k
      BY <2>2 DEF JournalOK
    <3>2. journal'[i] = journal[i] /\ \A j \in journal[i].past : journal'[j] = journal[j]
      BY <1>1, <2>2, <3>1
    <3> QED
      BY <1>1, <3>1, <3>2 DEF Settles
  <2> QED
    BY <1>1, <1>4, <2>1, <2>2
<1>5. JournalOK'
  <2>1. Len(journal') >= 2
    BY <1>1 DEF JournalOK
  <2> QED
    BY <1>1, <1>4, <2>1 DEF JournalOK
<1> QED
  BY <1>2, <1>3, <1>5

(* What a writer knows of the branch is in order. *)
LEMMA HeadKnown ==
  ASSUME JournalOK, SeenOK, NEW p \in Writer
  PROVE  /\ HeadOf(p) \in 1 .. Len(journal) /\ Past(p) \subseteq 1 .. Len(journal) /\ Len(journal) \in Nat
         /\ Past(p) = journal[HeadOf(p)].past
         /\ \A j, k \in Past(p) : Settles(j) /\ Settles(k) => j = k
<1>1. seen[p] \in 1 .. Len(journal) /\ Len(journal) \in Nat
  BY DEF SeenOK, JournalOK
<1> QED
  BY <1>1 DEF JournalOK, HeadOf, Past

(* A record of the writer's own settles the gate only where it is open. *)
LEMMA RecordAdded ==
  ASSUME JournalOK, SeenOK, NEW p \in Writer,
         NEW kind \in {"worked", "closed", "resolved"}, NEW event \in Event \cup {"none"},
         NEW asked \in {0} \cup Call, Adds(p, kind, event, asked),
         kind # "worked" => ~Settled(Past(p))
  PROVE  JournalOK' /\ SeenOK' /\ Grown
<1> DEFINE n == Len(journal) + 1
           entry == Own(kind, event, n, Past(p), asked)
<1>1. /\ HeadOf(p) \in 1 .. Len(journal) /\ Past(p) \subseteq 1 .. Len(journal) /\ Len(journal) \in Nat
      /\ \A j, k \in Past(p) : Settles(j) /\ Settles(k) => j = k
  BY HeadKnown
<1>2. entry \in Line /\ entry.head = n /\ entry.past = Past(p) \cup {n} /\ entry.kind = kind
  BY <1>1 DEF Own, Line
<1>3. Appends(p, entry)
  BY DEF Adds
<1> HIDE DEF entry
<1>4. journal'[n].kind = kind /\ \A j \in Past(p) : journal'[j] = journal[j]
  BY <1>1, <1>2, <1>3 DEF Appends, JournalOK
<1>5. ASSUME NEW j \in entry.past, NEW k \in entry.past,
             journal'[j].kind \in {"resolved", "closed"}, journal'[k].kind \in {"resolved", "closed"}
      PROVE  j = k
  <2>1. CASE kind = "worked"
    BY <1>1, <1>2, <1>4, <1>5, <2>1 DEF Settles
  <2>2. CASE kind # "worked"
    BY <1>2, <1>4, <1>5, <2>2 DEF Settled
  <2> QED
    BY <2>1, <2>2
<1>6. entry.past \subseteq 1 .. Len(journal) + 1
  BY <1>1, <1>2
<1> QED
  BY <1>2, <1>3, <1>5, <1>6, EntryAppended

(* A move takes up the ancestry of the head it moves to. *)
LEMMA HeadMoved ==
  ASSUME JournalOK, SeenOK, NEW p \in Writer, NEW target \in {1, 2}, NEW asked \in {0} \cup Call,
         MovesHead(p, target, asked)
  PROVE  JournalOK' /\ SeenOK' /\ Grown
<1> DEFINE entry == [kind |-> "move", event |-> "none", head |-> target,
                     past |-> journal[target].past, asked |-> asked]
<1>1. /\ target \in 1 .. Len(journal) /\ journal[target].past \subseteq 1 .. Len(journal) /\ Len(journal) \in Nat
      /\ \A j, k \in journal[target].past : Settles(j) /\ Settles(k) => j = k
  BY DEF JournalOK
<1>2. entry \in Line /\ entry.head = target /\ entry.past = journal[target].past
  BY <1>1 DEF Line
<1>3. Appends(p, entry)
  BY DEF MovesHead
<1> HIDE DEF entry
<1>4. \A j \in entry.past : journal'[j] = journal[j]
  BY <1>1, <1>2, <1>3 DEF Appends, JournalOK
<1>5. \A j, k \in entry.past :
        journal'[j].kind \in {"resolved", "closed"} /\ journal'[k].kind \in {"resolved", "closed"} => j = k
  BY <1>1, <1>2, <1>4 DEF Settles
<1>6. entry.past \subseteq 1 .. Len(journal) + 1
  BY <1>1, <1>2
<1> QED
  BY <1>1, <1>2, <1>3, <1>5, <1>6, EntryAppended

(* A journal that is opened, closed or left alone. *)
LEMMA JournalRead ==
  ASSUME JournalOK, SeenOK, journal' = journal,
         seen' = seen \/ \E p \in Writer, n \in {2, Len(journal)} : seen' = [seen EXCEPT ![p] = n]
  PROVE  JournalOK' /\ SeenOK' /\ Grown
<1>1. Len(journal) \in Nat /\ 2 \in 1 .. Len(journal) /\ Len(journal) \in 1 .. Len(journal)
  BY DEF JournalOK
<1>2. JournalOK' /\ Grown
  BY <1>1 DEF JournalOK, Settles, Grown
<1>3. SeenOK'
  BY <1>1 DEF SeenOK
<1> QED
  BY <1>2, <1>3

(* An ancestry in which the gate was open is one in which it still is. *)
LEMMA OpenStays ==
  ASSUME JournalOK, Grown, Len(journal') \in Nat, NEW i \in 1 .. Len(journal), ~Settled(journal[i].past)
  PROVE  ~Settled(journal[i].past)' /\ i \in 1 .. Len(journal')
<1>1. journal[i].past \subseteq 1 .. Len(journal) /\ Len(journal) \in Nat
  BY DEF JournalOK
<1>2. journal'[i] = journal[i] /\ \A j \in journal[i].past : journal'[j] = journal[j]
  BY <1>1 DEF Grown
<1>3. ~Settled(journal[i].past)'
  BY <1>2 DEF Settled
<1> QED
  BY <1>1, <1>3 DEF Grown

(* What a step does to the journal. *)
LEMMA WhatIsWritten ==
  ASSUME Next
  PROVE  \/ UNCHANGED <<journal, seen>>
         \/ \E p \in Writer : Opens(p) \/ Closes(p)
         \/ \E a \in Attempt : RunnerWorks(a) \/ RunnerCommits(a)
         \/ \E c \in Call : HostCommits(c)
<1>1. CASE HeartbeatAges \/ RunStarts \/ StopIsAsked
  BY <1>1 DEF HeartbeatAges, RunStarts, StopIsAsked, store
<1>2. ASSUME NEW a \in Attempt, Watches(a)
      PROVE  UNCHANGED <<journal, seen>> \/ RunnerCommits(a)
  BY <1>2 DEF Watches, RunnerLists, RunnerTakes, RunnerDecides, RunnerReplies, RunnerDiscards, store
<1>3. ASSUME NEW a \in Attempt, Runs(a)
      PROVE  UNCHANGED <<journal, seen>> \/ Opens(Runner(a)) \/ Closes(Runner(a)) \/ RunnerWorks(a)
  BY <1>3 DEF Runs, RunnerOpens, RunnerCloses, RunnerClosed, RunnerDies, store
<1>4. ASSUME NEW c \in Call, HostAsks(c) \/ HostDies(c)
      PROVE  UNCHANGED <<journal, seen>> \/ Closes(Caller(c))
  BY <1>4 DEF HostAsks, HostDies, store
<1>5. ASSUME NEW c \in Call, Continues(c)
      PROVE  UNCHANGED <<journal, seen>> \/ Opens(Caller(c)) \/ Closes(Caller(c)) \/ HostCommits(c)
  BY <1>5 DEF Continues, HostPublishes, HostHears, HostAbandons, HostTimesOut, Abandons, HostFallsBack,
              HostOpens, HostDecides, HostCloses, HostPatches, store
<1> QED
  BY <1>1, <1>2, <1>3, <1>4, <1>5, WriterNames DEF Next

(* Every step keeps the journal in order. *)
LEMMA JournalStep ==
  ASSUME Inv, Next
  PROVE  JournalOK' /\ SeenOK' /\ Grown
<1> USE DEF Inv
<1>1. CASE UNCHANGED <<journal, seen>>
  BY <1>1, JournalRead
<1>2. ASSUME NEW p \in Writer, Opens(p) \/ Closes(p)
      PROVE  JournalOK' /\ SeenOK' /\ Grown
  BY <1>2, JournalRead DEF Opens, Closes
<1>3. ASSUME NEW a \in Attempt, RunnerWorks(a)
      PROVE  JournalOK' /\ SeenOK' /\ Grown
  BY <1>3, RecordAdded, WriterNames DEF RunnerWorks
<1>4. ASSUME NEW a \in Attempt, RunnerCommits(a)
      PROVE  JournalOK' /\ SeenOK' /\ Grown
  <2> DEFINE r == delivery[a].request
  <2>1. r \in Request /\ Runner(a) \in Writer /\ delivery[a].at = "prepared"
    BY <1>4, WriterNames DEF WatchersOK, RunnerCommits
  <2>2. CASE UNCHANGED store
    BY <2>2, JournalRead DEF store
  <2>3. CASE r.ask.kind = "respond" /\ HeadStays(a) /\ Adds(Runner(a), "resolved", r.ask.event, r.id)
    <3>1. ~Settled(Past(Runner(a)))
      BY <2>1, <2>3, HeadKnown DEF RunnersDecided, HeadStays
    <3> QED
      BY <2>1, <2>3, <3>1, WhatIsAsked, RecordAdded
  <2>4. CASE r.ask.kind # "respond" /\ MovesHead(Runner(a), r.ask.target, r.id)
    BY <2>1, <2>4, WhatIsAsked, HeadMoved
  <2> QED
    BY <1>4, <2>2, <2>3, <2>4 DEF RunnerCommits
<1>5. ASSUME NEW c \in Call, HostCommits(c)
      PROVE  JournalOK' /\ SeenOK' /\ Grown
  <2> DEFINE r == host[c].request
  <2>1. r \in Request /\ Caller(c) \in Writer /\ host[c].at = "prepared"
    BY <1>5, WriterNames DEF CallsOK, HostCommits
  <2>2. CASE Closes(Caller(c))
    BY <2>1, <2>2, JournalRead DEF Closes
  <2>3. CASE r.ask.kind = "respond" /\ Adds(Caller(c), "resolved", r.ask.event, r.id)
    <3>1. ~Settled(Past(Caller(c)))
      BY <2>1, <2>3 DEF HostsDecided
    <3> QED
      BY <2>1, <2>3, <3>1, WhatIsAsked, RecordAdded
  <2>4. CASE r.ask.kind # "respond" /\ MovesHead(Caller(c), r.ask.target, r.id)
    BY <2>1, <2>4, WhatIsAsked, HeadMoved
  <2> QED
    BY <1>5, <2>2, <2>3, <2>4 DEF HostCommits
<1> QED
  BY <1>1, <1>2, <1>3, <1>4, <1>5, WhatIsWritten

LEMMA StatusStep ==
  ASSUME Inv, Next
  PROVE  StatusOK'
<1> USE DEF Inv, StatusOK
<1>1. CASE UNCHANGED status
  BY <1>1
<1>2. CASE HeartbeatAges \/ StopIsAsked
  BY <1>2 DEF HeartbeatAges, StopIsAsked
<1>3. CASE RunStarts
  BY <1>3, ControlAssumption DEF RunStarts
<1>4. ASSUME NEW a \in Attempt, Runs(a)
      PROVE  StatusOK'
  BY <1>4 DEF Runs, RunnerOpens, RunnerWorks, RunnerCloses, RunnerClosed, RunnerDies
<1>5. ASSUME NEW c \in Call, Continues(c)
      PROVE  StatusOK'
  BY <1>5 DEF Continues, HostPublishes, HostHears, HostAbandons, HostTimesOut, Abandons, HostFallsBack,
              HostOpens, HostDecides, HostCommits, HostCloses, HostPatches
<1>6. ASSUME NEW a \in Attempt, Watches(a)
      PROVE  UNCHANGED status
  BY <1>6 DEF Watches, RunnerLists, RunnerTakes, RunnerDecides, RunnerCommits, RunnerReplies, RunnerDiscards
<1>7. ASSUME NEW c \in Call, HostAsks(c) \/ HostDies(c)
      PROVE  UNCHANGED status
  BY <1>7 DEF HostAsks, HostDies
<1> QED
  BY <1>1, <1>2, <1>3, <1>4, <1>5, <1>6, <1>7 DEF Next

-----------------------------------------------------------------------------
(* The watchers. *)

(* The oldest request of a list is one of the list. *)
LEMMA OldestIsOne ==
  ASSUME NEW batch \in SUBSET Request, batch # {}
  PROVE  Oldest(batch) \in batch
<1> DEFINE ids == {r.id : r \in batch}
           below == {ss \in Nat \X Nat : ss[1] < ss[2]}
<1>1. ids \subseteq Nat /\ ids # {}
  BY ControlAssumption DEF Request, Call
<1>2. IsWellFoundedOn(below, Nat)
  BY NatLessThanWellFounded, Zenon DEF OpToRel
<1> HIDE DEF below
<1>3. PICK n \in ids : \A m \in ids : ~(<<m, n>> \in below)
  BY <1>1, <1>2, WFMin
<1>4. n \in Nat /\ \A m \in ids : m \in Nat /\ n <= m
  <2> HIDE DEF ids
  <2>1. n \in Nat /\ \A m \in ids : m \in Nat
    BY <1>1
  <2>2. \A m \in Nat : m < n => <<m, n>> \in below
    BY <2>1 DEF below
  <2>3. \A m \in ids : ~(m < n)
    BY <1>3, <2>1, <2>2, Zenon
  <2> QED
    BY <2>1, <2>3
<1>5. PICK r \in batch : \A s \in batch : r.id <= s.id
  BY <1>4
<1> QED
  BY <1>5 DEF Oldest

(* What an answer is decided to be is a verdict, or that it may be given. *)
LEMMA DecisionIsVerdict ==
  ASSUME NEW p, NEW event
  PROVE  Decision(p, event) \in Verdict \cup {"none"}
  BY DEF Decision, Verdict

(* A watcher's record, field by field. *)
LEMMA WatcherMoves ==
  ASSUME WatchersOK, NEW a \in Attempt, NEW record, Delivers(a, record), record \in Delivery,
         record.at # "idle" => record.request \in Request
  PROVE  WatchersOK'
  BY DEF WatchersOK, Delivers

LEMMA WatcherReplies ==
  ASSUME WatchersOK, NEW a \in Attempt, NEW verdict \in Verdict, Replies(a, verdict), delivery[a].at # "idle"
  PROVE  WatchersOK' /\ delivery'[a].at = "replying"
<1> DEFINE record == [delivery[a] EXCEPT !.at = "replying", !.verdict = verdict, !.head = 0]
<1>1. record \in Delivery /\ record.at = "replying" /\ record.request = delivery[a].request
  BY DEF WatchersOK, Delivery
<1>2. Delivers(a, record)
  BY DEF Replies
<1> HIDE DEF record
<1>3. delivery'[a] = record
  BY <1>2 DEF Delivers, WatchersOK
<1> QED
  BY <1>1, <1>2, <1>3, WatcherMoves DEF WatchersOK

(* A watcher whose list changes is where it was. *)
LEMMA WatcherLists ==
  ASSUME WatchersOK, NEW a \in Attempt, NEW batch \in SUBSET Request,
         Delivers(a, [delivery[a] EXCEPT !.batch = batch])
  PROVE  /\ WatchersOK' /\ delivery'[a].at = delivery[a].at
         /\ delivery'[a].request = delivery[a].request /\ delivery'[a].head = delivery[a].head
<1> DEFINE record == [delivery[a] EXCEPT !.batch = batch]
<1>1. delivery[a] \in Delivery /\ (delivery[a].at # "idle" => delivery[a].request \in Request)
  BY DEF WatchersOK
<1>2. /\ record \in Delivery /\ record.at = delivery[a].at
      /\ record.request = delivery[a].request /\ record.head = delivery[a].head
  BY <1>1 DEF Delivery
<1>3. Delivers(a, record)
  OBVIOUS
<1> HIDE DEF record
<1>4. delivery'[a] = record
  BY <1>3 DEF Delivers, WatchersOK
<1> QED
  BY <1>1, <1>2, <1>3, <1>4, WatcherMoves

(* A watcher that waits to append was waiting before, or decides now. *)
Still(a) ==
  delivery'[a].at = "prepared" =>
    /\ delivery[a].at = "prepared" /\ delivery'[a].request = delivery[a].request
    /\ delivery'[a].head = delivery[a].head
Decides(a) ==
  /\ RunnerDecides(a) /\ delivery'[a].request = delivery[a].request /\ delivery'[a].head = HeadOf(Runner(a))
  /\ delivery[a].request.ask.kind = "respond" => Decision(Runner(a), delivery[a].request.ask.event) = "none"

LEMMA WatcherWatches ==
  ASSUME Inv, NEW a \in Attempt, Watches(a)
  PROVE  WatchersOK' /\ (Still(a) \/ Decides(a)) /\ \A b \in Attempt \ {a} : Still(b)
<1> USE DEF Inv
<1>1. /\ delivery[a] \in Delivery /\ delivery \in [Attempt -> Delivery]
      /\ delivery[a].at # "idle" => delivery[a].request \in Request
      /\ Runner(a) \in Writer /\ HeadOf(Runner(a)) \in Nat
  BY HeadKnown, WriterNames DEF WatchersOK
<1>2. ASSUME NEW record, Delivers(a, record)
      PROVE  delivery'[a] = record /\ \A b \in Attempt \ {a} : Still(b)
  BY <1>1, <1>2 DEF Delivers, Still
<1>3. ASSUME NEW verdict, Replies(a, verdict)
      PROVE  \A b \in Attempt \ {a} : Still(b)
  BY <1>2, <1>3 DEF Replies
<1>4. CASE RunnerLists(a)
  <2>1. Delivers(a, [delivery[a] EXCEPT !.batch = requests])
    BY <1>4 DEF RunnerLists
  <2>2. requests \in SUBSET Request
    BY DEF CallsOK
  <2> QED
    BY <1>2, <2>1, <2>2, WatcherLists DEF Still
<1>5. CASE RunnerTakes(a)
  <2> DEFINE r == Oldest(delivery[a].batch)
             rest == delivery[a].batch \ {r}
             taken == [delivery[a] EXCEPT !.at = "deciding", !.batch = rest, !.request = r]
  <2>1. delivery[a].batch \in SUBSET Request /\ delivery[a].batch # {} /\ delivery[a].at = "idle"
    BY <1>1, <1>5 DEF RunnerTakes, Delivery
  <2>2. r \in Request /\ rest \in SUBSET Request
    BY <2>1, OldestIsOne
  <2>3. taken \in Delivery /\ taken.at = "deciding" /\ taken.request = r
    BY <1>1, <2>2 DEF Delivery
  <2>4. Delivers(a, taken) \/ Delivers(a, [delivery[a] EXCEPT !.batch = rest])
    BY <1>5 DEF RunnerTakes
  <2> HIDE DEF taken, rest, r
  <2>5. CASE Delivers(a, taken)
    BY <1>2, <2>2, <2>3, <2>5, WatcherMoves DEF Still
  <2>6. CASE Delivers(a, [delivery[a] EXCEPT !.batch = rest])
    BY <1>2, <2>2, <2>6, WatcherLists DEF Still
  <2> QED
    BY <2>4, <2>5, <2>6
<1>6. CASE RunnerDecides(a)
  <2> DEFINE r == delivery[a].request
             ready == [delivery[a] EXCEPT !.at = "prepared", !.head = HeadOf(Runner(a))]
             decision == IF r.ask.kind = "respond" THEN Decision(Runner(a), r.ask.event) ELSE "none"
  <2>1. delivery[a].at # "idle" /\ r \in Request
    BY <1>1, <1>6 DEF RunnerDecides
  <2>2. decision \in Verdict \cup {"none"} /\ "error" \in Verdict
    BY DecisionIsVerdict DEF Verdict
  <2>3. ready \in Delivery /\ ready.at = "prepared" /\ ready.request = r /\ ready.head = HeadOf(Runner(a))
    BY <1>1 DEF Delivery
  <2>4. \/ Delivers(a, ready) /\ decision = "none"
        \/ \E verdict \in Verdict : Replies(a, verdict)
    BY <1>6, <2>2 DEF RunnerDecides
  <2> HIDE DEF ready
  <2>5. CASE Delivers(a, ready) /\ decision = "none"
    BY <1>2, <1>6, <2>1, <2>3, <2>5, WatcherMoves DEF Decides
  <2>6. ASSUME NEW verdict \in Verdict, Replies(a, verdict)
        PROVE  WatchersOK' /\ Still(a) /\ \A b \in Attempt \ {a} : Still(b)
    BY <1>3, <2>1, <2>6, WatcherReplies DEF Still
  <2> QED
    BY <2>4, <2>5, <2>6
<1>7. CASE RunnerCommits(a)
  <2> DEFINE again == [delivery[a] EXCEPT !.at = "deciding", !.head = 0]
  <2>1. delivery[a].at = "prepared" /\ delivery[a].request \in Request
    BY <1>1, <1>7 DEF RunnerCommits
  <2>2. again \in Delivery /\ again.at = "deciding" /\ again.request = delivery[a].request
    BY <1>1 DEF Delivery
  <2>3. Delivers(a, again) \/ \E verdict \in Verdict : Replies(a, verdict)
    BY <1>7 DEF RunnerCommits, Verdict
  <2> HIDE DEF again
  <2>4. CASE Delivers(a, again)
    BY <1>2, <2>1, <2>2, <2>4, WatcherMoves DEF Still
  <2>5. ASSUME NEW verdict \in Verdict, Replies(a, verdict)
        PROVE  WatchersOK' /\ Still(a) /\ \A b \in Attempt \ {a} : Still(b)
    BY <1>3, <2>1, <2>5, WatcherReplies DEF Still
  <2> QED
    BY <2>3, <2>4, <2>5
<1>8. CASE RunnerReplies(a)
  <2> DEFINE record == [delivery[a] EXCEPT !.at = "replied", !.verdict = "none"]
  <2>1. delivery[a].request \in Request /\ Delivers(a, record)
    BY <1>1, <1>8 DEF RunnerReplies
  <2>2. record \in Delivery /\ record.at = "replied" /\ record.request = delivery[a].request
    BY <1>1 DEF Delivery
  <2> HIDE DEF record
  <2> QED
    BY <1>2, <2>1, <2>2, WatcherMoves DEF Still
<1>9. CASE RunnerDiscards(a)
  <2> DEFINE record == [delivery[a] EXCEPT !.at = "idle", !.request = Nothing]
  <2>1. Delivers(a, record)
    BY <1>9 DEF RunnerDiscards
  <2>2. record \in Delivery /\ record.at = "idle"
    BY <1>1 DEF Delivery
  <2> HIDE DEF record
  <2> QED
    BY <1>2, <2>1, <2>2, WatcherMoves DEF Still
<1> QED
  BY <1>4, <1>5, <1>6, <1>7, <1>8, <1>9 DEF Watches

LEMMA WatchersStep ==
  ASSUME Inv, Next
  PROVE  WatchersOK' /\ \A a \in Attempt : Still(a) \/ Decides(a)
<1> USE DEF Inv
<1>1. CASE UNCHANGED delivery
  BY <1>1 DEF WatchersOK, Still
<1>2. ASSUME NEW a \in Attempt, Watches(a)
      PROVE  WatchersOK' /\ \A b \in Attempt : Still(b) \/ Decides(b)
  BY <1>2, WatcherWatches
<1>3. ASSUME NEW a \in Attempt, RunnerCloses(a)
      PROVE  WatchersOK' /\ \A b \in Attempt : Still(b)
  <2>1. Delivers(a, [delivery[a] EXCEPT !.batch = {}])
    BY <1>3 DEF RunnerCloses
  <2>2. {} \in SUBSET Request
    OBVIOUS
  <2>3. WatchersOK' /\ Still(a)
    BY <2>1, <2>2, WatcherLists DEF Still
  <2>4. ASSUME NEW b \in Attempt \ {a}
        PROVE  Still(b)
    BY <2>1 DEF Still, Delivers, WatchersOK
  <2> QED
    BY <2>3, <2>4
<1>4. ASSUME NEW a \in Attempt, Delivers(a, IdleDelivery)
      PROVE  WatchersOK' /\ \A b \in Attempt : Still(b)
  <2>1. IdleDelivery \in Delivery /\ IdleDelivery.at = "idle"
    BY DEF IdleDelivery, Delivery
  <2> QED
    BY <1>4, <2>1, WatcherMoves DEF Still, Delivers, WatchersOK
<1>5. ASSUME NEW a \in Attempt, Runs(a)
      PROVE  UNCHANGED delivery \/ RunnerCloses(a) \/ Delivers(a, IdleDelivery)
  BY <1>5 DEF Runs, RunnerOpens, RunnerWorks, RunnerClosed, RunnerDies
<1>6. ASSUME NEW c \in Call, HostAsks(c) \/ Continues(c) \/ HostDies(c)
      PROVE  UNCHANGED delivery
  BY <1>6 DEF Continues, HostPublishes, HostHears, HostAbandons, HostTimesOut, Abandons, HostFallsBack,
              HostOpens, HostDecides, HostCommits, HostCloses, HostPatches, HostAsks, HostDies
<1>7. CASE HeartbeatAges \/ RunStarts \/ StopIsAsked
  BY <1>1, <1>7 DEF HeartbeatAges, RunStarts, StopIsAsked
<1> QED
  BY <1>1, <1>2, <1>3, <1>4, <1>5, <1>6, <1>7 DEF Next

(* An answer decided by a runner is decided on the head it will follow. *)
LEMMA RunnersStep ==
  ASSUME Inv, Next
  PROVE  RunnersDecided'
<1> USE DEF Inv
<1>1. JournalOK' /\ Grown /\ Len(journal') \in Nat
  BY JournalStep DEF JournalOK
<1>2. SUFFICES ASSUME NEW a \in Attempt, delivery'[a].at = "prepared", delivery'[a].request.ask.kind = "respond"
               PROVE  delivery'[a].head \in 1 .. Len(journal') /\ ~Settled(journal[delivery[a].head].past)'
  BY DEF RunnersDecided
<1>3. CASE Still(a)
  <2>1. delivery[a].head \in 1 .. Len(journal) /\ ~Settled(journal[delivery[a].head].past)
    BY <1>2, <1>3 DEF Still, RunnersDecided
  <2> QED
    BY <1>1, <1>2, <1>3, <2>1, OpenStays DEF Still
<1>4. CASE Decides(a)
  <2>1. /\ HeadOf(Runner(a)) \in 1 .. Len(journal) /\ Past(Runner(a)) = journal[HeadOf(Runner(a))].past
    BY HeadKnown, WriterNames
  <2>2. ~Settled(Past(Runner(a)))
    BY <1>2, <1>4 DEF Decides, Decision
  <2> QED
    BY <1>1, <1>4, <2>1, <2>2, OpenStays DEF Decides
<1> QED
  BY <1>3, <1>4, WatchersStep

-----------------------------------------------------------------------------
(* The calls. *)

(* A call's record, by its two fields. *)
LEMMA CallMoves ==
  ASSUME CallsOK, requests' \subseteq Request, NEW c \in Call, NEW stage \in HostStage,
         NEW request \in Request \cup {Nothing}, stage \notin {"idle", "over"} => request \in Request,
         host' = [host EXCEPT ![c] = [at |-> stage, request |-> request]]
  PROVE  CallsOK'
<1> DEFINE record == [at |-> stage, request |-> request]
<1>1. record \in HostRecord /\ record.at = stage /\ record.request = request
  BY DEF HostRecord
<1>2. host' = [host EXCEPT ![c] = record] /\ host \in [Call -> HostRecord]
  BY DEF CallsOK
<1> HIDE DEF record
<1>3. host' \in [Call -> HostRecord] /\ host'[c] = record /\ \A d \in Call \ {c} : host'[d] = host[d]
  BY <1>1, <1>2
<1> QED
  BY <1>1, <1>3 DEF CallsOK

(* A call that goes on with the request it has. *)
LEMMA CallAt ==
  ASSUME CallsOK, requests' \subseteq Request, NEW c \in Call, NEW stage \in HostStage, At(c, stage),
         host[c].request \in Request
  PROVE  CallsOK'
<1> DEFINE record == [host[c] EXCEPT !.at = stage]
<1>1. record = [at |-> stage, request |-> host[c].request]
  BY DEF CallsOK, HostRecord
<1> QED
  BY <1>1, CallMoves DEF At, CallsOK

(* A call that comes back. *)
LEMMA CallReturned ==
  ASSUME CallsOK, requests' \subseteq Request, NEW c \in Call, host' = [host EXCEPT ![c] = Returned]
  PROVE  CallsOK'
  BY CallMoves DEF Returned, HostStage

LEMMA CallsStep ==
  ASSUME Inv, Next
  PROVE  CallsOK'
<1> USE DEF Inv
<1>1. requests \subseteq Request /\ \A c \in Call : host[c].at \notin {"idle", "over"} => host[c].request \in Request
  BY DEF CallsOK
<1>2. CASE requests' \subseteq requests /\ UNCHANGED host
  BY <1>2 DEF CallsOK
<1>3. ASSUME NEW a \in Attempt, Watches(a) \/ Runs(a)
      PROVE  requests' \subseteq requests /\ UNCHANGED host
  BY <1>3 DEF Watches, RunnerLists, RunnerTakes, RunnerDecides, RunnerCommits, RunnerReplies, RunnerDiscards,
              Runs, RunnerOpens, RunnerWorks, RunnerCloses, RunnerClosed, RunnerDies, mailbox
<1>4. ASSUME NEW c \in Call, HostAsks(c)
      PROVE  CallsOK'
  <2>1. PICK ask \in Ask[c], stage \in {"publishing", "opening"} :
          host' = [host EXCEPT ![c] = [at |-> stage, request |-> [id |-> c, attempt |-> status.attempt, ask |-> ask]]]
    BY <1>4 DEF HostAsks
  <2>2. [id |-> c, attempt |-> status.attempt, ask |-> ask] \in Request
    BY <1>4, ControlAssumption DEF HostAsks, StatusOK, Request, Asked, Attempt
  <2>3. requests' \subseteq Request
    BY <1>1, <1>4 DEF HostAsks, mailbox
  <2> QED
    BY <2>1, <2>2, <2>3, CallMoves DEF HostStage
<1>5. ASSUME NEW c \in Call, Continues(c)
      PROVE  /\ requests' \subseteq Request /\ host[c].request \in Request
             /\ host' = [host EXCEPT ![c] = Returned] \/ \E stage \in HostStage : At(c, stage)
  <2>1. host[c].at \notin {"idle", "over"}
    BY <1>5 DEF Continues, HostPublishes, HostHears, HostAbandons, HostTimesOut, Abandons, HostFallsBack,
                HostOpens, HostDecides, HostCommits, HostCloses, HostPatches
  <2>2. requests' \subseteq requests \/ requests' = requests \cup {host[c].request}
    BY <1>5 DEF Continues, HostPublishes, HostHears, HostAbandons, HostTimesOut, Abandons, HostFallsBack,
                HostOpens, HostDecides, HostCommits, HostCloses, HostPatches, mailbox
  <2>3. host' = [host EXCEPT ![c] = Returned] \/ \E stage \in HostStage : At(c, stage)
    BY <1>5 DEF Continues, HostPublishes, HostHears, HostAbandons, HostTimesOut, Abandons, HostFallsBack,
                HostOpens, HostDecides, HostCommits, HostCloses, HostPatches, Told, HostStage
  <2> QED
    BY <1>1, <2>1, <2>2, <2>3
<1>6. ASSUME NEW c \in Call, HostDies(c)
      PROVE  CallsOK'
  BY <1>1, <1>6, CallReturned DEF HostDies, mailbox
<1>7. CASE HeartbeatAges \/ RunStarts \/ StopIsAsked
  BY <1>2, <1>7 DEF HeartbeatAges, RunStarts, StopIsAsked, mailbox
<1> QED
  BY <1>2, <1>3, <1>4, <1>5, <1>6, <1>7, CallAt, CallReturned DEF Next

(* An answer decided by a host is decided on the branch it will follow, as  *)
(* the host has read it.                                                    *)
HostStill(c) ==
  host'[c].at = "prepared" =>
    /\ host[c].at = "prepared" /\ host'[c].request = host[c].request
    /\ seen'[Caller(c)] = seen[Caller(c)]
HostReady(c) ==
  /\ UNCHANGED <<journal, seen>> /\ host'[c].request = host[c].request
  /\ host[c].request.ask.kind = "respond" => Decision(Caller(c), host[c].request.ask.event) = "none"

LEMMA CallStill ==
  ASSUME Inv, Next, NEW c \in Call
  PROVE  HostStill(c) \/ HostReady(c)
<1> USE DEF Inv
<1>1. CASE UNCHANGED <<host, seen>>
  BY <1>1 DEF HostStill
<1>2. ASSUME NEW p \in Writer, p # Caller(c), UNCHANGED host,
             \/ UNCHANGED seen
             \/ \E n : seen' = [seen EXCEPT ![p] = n]
      PROVE  HostStill(c)
  BY <1>2, WriterNames DEF HostStill, SeenOK
<1>3. ASSUME NEW a \in Attempt, Watches(a) \/ Runs(a)
      PROVE  HostStill(c)
  <2>1. UNCHANGED host /\ (UNCHANGED seen \/ \E n : seen' = [seen EXCEPT ![Runner(a)] = n])
    BY <1>3 DEF Watches, RunnerLists, RunnerTakes, RunnerDecides, RunnerCommits, RunnerReplies, RunnerDiscards,
                Runs, RunnerOpens, RunnerWorks, RunnerCloses, RunnerClosed, RunnerDies,
                store, Adds, MovesHead, Appends, Opens, Closes
  <2> QED
    BY <1>2, <2>1, WriterNames
<1>4. ASSUME NEW d \in Call, d # c, HostAsks(d) \/ Continues(d) \/ HostDies(d)
      PROVE  HostStill(c)
  <2>1. /\ host'[c] = host[c]
        /\ UNCHANGED seen \/ \E n : seen' = [seen EXCEPT ![Caller(d)] = n]
    BY <1>4 DEF CallsOK, Continues, HostPublishes, HostHears, HostAbandons, HostTimesOut, Abandons,
                HostFallsBack, HostOpens, HostDecides, HostCommits, HostCloses, HostPatches, HostAsks, HostDies,
                At, Told, store, Adds, MovesHead, Appends, Opens, Closes
  <2> QED
    BY <1>4, <2>1, WriterNames DEF HostStill, SeenOK
<1>5. CASE HostDecides(c)
  <2>1. CASE host'[c].at = "prepared"
    BY <1>5, <2>1 DEF HostDecides, Told, Returned, At, CallsOK, HostRecord, HostReady, store
  <2> QED
    BY <2>1 DEF HostStill
<1>6. CASE HostAsks(c) \/ HostDies(c) \/ (Continues(c) /\ ~HostDecides(c))
  <2>1. host'[c].at # "prepared"
    BY <1>6 DEF CallsOK, HostRecord, Continues, HostPublishes, HostHears, HostAbandons, HostTimesOut, Abandons,
                HostFallsBack, HostOpens, HostCommits, HostCloses, HostPatches, HostAsks, HostDies,
                At, Told, Returned
  <2> QED
    BY <2>1 DEF HostStill
<1>7. CASE HeartbeatAges \/ RunStarts \/ StopIsAsked
  BY <1>1, <1>7 DEF HeartbeatAges, RunStarts, StopIsAsked, store
<1> QED
  BY <1>3, <1>4, <1>5, <1>6, <1>7 DEF Next, Continues

LEMMA HostsStep ==
  ASSUME Inv, Next
  PROVE  HostsDecided'
<1> USE DEF Inv
<1>1. JournalOK' /\ Grown /\ Len(journal') \in Nat
  BY JournalStep DEF JournalOK
<1>2. SUFFICES ASSUME NEW c \in Call, host'[c].at = "prepared", host'[c].request.ask.kind = "respond"
               PROVE  ~Settled(Past(Caller(c)))'
  BY DEF HostsDecided
<1>3. CASE HostStill(c)
  <2>1. ~Settled(journal[seen[Caller(c)]].past) /\ seen[Caller(c)] \in 1 .. Len(journal)
    BY <1>2, <1>3, WriterNames DEF HostStill, HostsDecided, SeenOK, Past
  <2> QED
    BY <1>1, <1>2, <1>3, <2>1, OpenStays DEF HostStill, Past
<1>4. CASE HostReady(c)
  <2>1. ~Settled(Past(Caller(c)))
    BY <1>2, <1>4 DEF HostReady, Decision
  <2> QED
    BY <1>4, <2>1 DEF HostReady, Past, Settled
<1> QED
  BY <1>3, <1>4, CallStill

-----------------------------------------------------------------------------
LEMMA InvStep == Inv /\ [Next]_vars => Inv'
<1>1. ASSUME Inv, Next
      PROVE  Inv'
  BY <1>1, StatusStep, WatchersStep, CallsStep, JournalStep, RunnersStep, HostsStep DEF Inv
<1>2. ASSUME Inv, UNCHANGED vars
      PROVE  Inv'
  BY <1>2 DEF vars, store, mailbox, Inv, StatusOK, WatchersOK, CallsOK, JournalOK, SeenOK, RunnersDecided,
              HostsDecided, Settles, Settled, Past
<1> QED
  BY <1>1, <1>2

(* At most one of the entries a history holds settles the gate. *)
LEMMA SettledOnce == Inv => GateSettlesOnce
<1> SUFFICES ASSUME Inv, NEW i \in DOMAIN journal
             PROVE  Cardinality(Settlements(i)) <= 1
  BY DEF GateSettlesOnce
<1>1. \A j, k \in Settlements(i) : j = k
  BY DEF Inv, JournalOK, Settles, Settlements
<1>2. CASE Settlements(i) = {}
  BY <1>2, FS_EmptySet
<1>3. CASE Settlements(i) # {}
  <2>1. PICK j : Settlements(i) = {j}
    BY <1>1, <1>3
  <2> QED
    BY <2>1, FS_Singleton
<1> QED
  BY <1>2, <1>3

(* However runners and hosts follow one another, die, answer late or write  *)
(* behind each other's back, no history of the branch holds two settlements *)
(* of the gate (prepareUserInteractionCommit, appendDraftsAtHead,           *)
(* commitOffline).                                                          *)
THEOREM SpecGateSettlesOnce == Spec => []GateSettlesOnce
  BY InitInv, InvStep, SettledOnce, PTL DEF Spec

-----------------------------------------------------------------------------
(* What the calls are told is true, and a rewind they ask for is carried    *)
(* out at most once, with a second writer or without.                       *)
(*                                                                         *)
(* A request is written once and then carried from file to list to watcher *)
(* of the one attempt it was made to.  Two processes that hold a request   *)
(* of one call hold the same request, and of those only one may still      *)
(* commit it: that is what the theorems rest on.                           *)

(* A request that is on its way: in the mailbox, in the list a watcher read *)
(* or in the watcher's hands.                                               *)
Handles(a, r) == delivery[a].at # "idle" /\ delivery[a].request = r
Carried(r) == r \in requests \/ \E a \in Attempt : r \in delivery[a].batch \/ Handles(a, r)

(* It is the request of its call, as long as the call has not come back,   *)
(* and no call has two.                                                     *)
Held(c) == host[c].at \notin {"idle", "over"}
CarriedOK ==
  /\ \A c \in Call : Held(c) => host[c].request.id = c
  /\ \A r \in Request : Carried(r) =>
       /\ host[r.id].at \notin {"idle", "publishing"}
       /\ Held(r.id) => host[r.id].request = r
       /\ r.ask.kind # "respond" => host[r.id].at \in {"waiting", "abandoned", "over"}
  /\ \A r, s \in Request : Carried(r) /\ Carried(s) /\ r.id = s.id => r = s
  /\ \A result \in results : result.id \in Call /\ host[result.id].at # "idle"

(* A verdict is vouched for by what the journal holds. *)
Granted(r) ==
  \E i \in 1 .. Len(journal) :
    \/ r.ask.kind = "move" /\ journal[i].asked = r.id
    \/ r.ask.kind = "respond" /\ journal[i].kind = "resolved" /\ journal[i].event = r.ask.event
Refused(r) == \E i \in 1 .. Len(journal) : journal[i].kind = "resolved" /\ journal[i].event # r.ask.event
Vouched(verdict, r) == (verdict = "ok" => Granted(r)) /\ (verdict = "conflict" => Refused(r))
VouchedOK ==
  /\ \A a \in Attempt : delivery[a].at = "replying" => Vouched(delivery[a].verdict, delivery[a].request)
  /\ \A result \in results : Held(result.id) => Vouched(result.verdict, host[result.id].request)
  /\ \A c \in Call : host[c].at \in {"closing", "patching"} => Granted(host[c].request)
  /\ \A a \in answers : Vouched(a.verdict, a)

(* Nothing has been written for a move that may still be committed. *)
Written(c) == \E i \in 1 .. Len(journal) : journal[i].asked = c
Moved(c) == \E i \in 1 .. Len(journal) : journal[i].asked = c /\ journal[i].kind = "move"
Unsent == {"publishing", "opening", "deciding", "prepared"}
Undone(a, r) == r \in delivery[a].batch \/ (delivery[a].at \in {"deciding", "prepared"} /\ delivery[a].request = r)
AttemptsOK ==
  /\ runner \in [Attempt -> {"none", "booting", "up", "signalled", "closing", "gone"}]
  /\ \A a \in Attempt : a > status.attempt => runner[a] = "none"
  /\ \A a \in Attempt : delivery[a].at # "idle" =>
       delivery[a].request.attempt = a /\ delivery[a].request \notin delivery[a].batch
MovesOK ==
  /\ \A c \in Call : host[c].at = "idle" => ~Written(c)
  /\ \A c \in Call : host[c].at \in Unsent /\ host[c].request.ask.kind # "respond" => ~Written(c)
  /\ \A r \in Request : r.ask.kind # "respond" /\ Undone(r.attempt, r) => ~Written(r.id)
  /\ \A r \in requests : r.ask.kind # "respond" /\ Written(r.id) =>
       \/ delivery[r.attempt].at \in {"replying", "replied"} /\ delivery[r.attempt].request = r
       \/ runner[r.attempt] \in {"closing", "gone"}
AnswersOK ==
  /\ \A r \in Request : Carried(r) /\ r.ask.kind = "respond" => ~Moved(r.id)
  /\ \A c \in Call : Held(c) /\ host[c].request.ask.kind = "respond" => ~Moved(c)
OnceOK ==
  /\ \A i \in 1 .. Len(journal) : journal[i].kind = "move" => journal[i].asked \in Call
  /\ \A i, j \in 1 .. Len(journal) :
       journal[i].kind = "move" /\ journal[i].asked = journal[j].asked => i = j

RInv == Inv /\ CarriedOK /\ VouchedOK /\ AttemptsOK /\ MovesOK /\ AnswersOK /\ OnceOK

LEMMA InitRInv == Init => RInv
<1> SUFFICES ASSUME Init PROVE RInv
  OBVIOUS
<1> USE ControlAssumption
<1>1. /\ \A a \in Attempt : delivery[a].at = "idle" /\ delivery[a].batch = {} /\ runner[a] = "none"
      /\ \A c \in Call : host[c].at = "idle"
      /\ requests = {} /\ results = {} /\ answers = {}
  BY DEF Init, IdleDelivery, IdleHost
<1>2. \A r : ~Carried(r)
  BY <1>1 DEF Carried, Handles
<1>3. \A a \in Attempt : \A r : ~Undone(a, r)
  BY <1>1 DEF Undone
<1>4. /\ Len(journal) = 2 /\ journal[1].asked = 0 /\ journal[2].asked = 0
      /\ journal[1].kind = "worked" /\ journal[2].kind = "opened"
  BY DEF Init, Opening, Own
<1>5. \A c \in Call : ~Written(c) /\ ~Moved(c)
  BY <1>4 DEF Written, Moved, Call
<1>6. CarriedOK
  BY <1>1, <1>2 DEF CarriedOK, Held
<1>7. VouchedOK
  BY <1>1 DEF VouchedOK
<1>8. AttemptsOK
  BY <1>1 DEF AttemptsOK, Init
<1>9. MovesOK
  <2>1. \A r \in Request : r.attempt \in Attempt
    BY DEF Request
  <2> QED
    BY <1>1, <1>3, <1>5, <2>1 DEF MovesOK, Unsent
<1>10. AnswersOK
  BY <1>1, <1>2 DEF AnswersOK, Held
<1>11. OnceOK
  BY <1>4 DEF OnceOK
<1> QED
  BY InitInv, <1>6, <1>7, <1>8, <1>9, <1>10, <1>11 DEF RInv

-----------------------------------------------------------------------------
(* A step, seen from a watcher, from a call and from the journal. *)

Idles(a) ==
  /\ delivery'[a].at = "idle" /\ delivery'[a].batch \subseteq delivery[a].batch
  /\ \/ delivery[a].at = "idle"
     \/ delivery[a].request \notin requests'
     \/ runner' = [runner EXCEPT ![a] = "gone"]
Lists(a) ==
  /\ runner[a] \in Serving /\ delivery[a].at = "idle" /\ delivery'[a].at = "idle"
  /\ delivery'[a].batch = requests
Takes(a) ==
  /\ delivery[a].at = "idle" /\ delivery'[a].at = "deciding"
  /\ delivery'[a].request \in delivery[a].batch /\ delivery'[a].request.attempt = a
  /\ delivery'[a].batch = delivery[a].batch \ {delivery'[a].request}
Keeps(a) ==
  /\ delivery[a].at # "idle" /\ delivery'[a].at # "idle"
  /\ delivery'[a].request = delivery[a].request /\ delivery'[a].batch \subseteq delivery[a].batch
  /\ delivery'[a].at \in {"deciding", "prepared"} => delivery[a].at \in {"deciding", "prepared"}
WatcherSteps(a) == delivery'[a] = delivery[a] \/ Idles(a) \/ Lists(a) \/ Takes(a) \/ Keeps(a)

LEMMA WatcherStep ==
  ASSUME Inv, Next, NEW a \in Attempt
  PROVE  WatcherSteps(a)
<1>1. delivery \in [Attempt -> Delivery] /\ delivery[a] \in Delivery
  BY DEF Inv, WatchersOK
<1>2. ASSUME NEW b \in Attempt, b # a, NEW record, Delivers(b, record)
      PROVE  WatcherSteps(a)
  BY <1>1, <1>2 DEF Delivers, WatcherSteps
<1>3. ASSUME NEW b \in Attempt, b # a, Watches(b) \/ Runs(b)
      PROVE  WatcherSteps(a)
  <2>1. UNCHANGED delivery \/ \E record : Delivers(b, record)
    BY <1>3 DEF Watches, RunnerLists, RunnerTakes, RunnerDecides, RunnerCommits, RunnerReplies, RunnerDiscards,
                Runs, RunnerOpens, RunnerWorks, RunnerCloses, RunnerClosed, RunnerDies, Replies
  <2> QED
    BY <1>2, <1>3, <2>1 DEF WatcherSteps
<1>4. CASE RunnerLists(a)
  BY <1>1, <1>4 DEF RunnerLists, Delivers, Delivery, WatcherSteps, Lists
<1>5. CASE RunnerTakes(a)
  <2>1. delivery[a].batch \in SUBSET Request /\ delivery[a].batch # {} /\ delivery[a].at = "idle"
    BY <1>1, <1>5 DEF RunnerTakes, Delivery
  <2>2. Oldest(delivery[a].batch) \in delivery[a].batch
    BY <2>1, OldestIsOne
  <2> DEFINE r == Oldest(delivery[a].batch)
             rest == delivery[a].batch \ {r}
             taken == [delivery[a] EXCEPT !.at = "deciding", !.batch = rest, !.request = r]
             dropped == [delivery[a] EXCEPT !.batch = rest]
  <2>3. /\ taken.at = "deciding" /\ taken.batch = rest /\ taken.request = r
        /\ dropped.at = "idle" /\ dropped.batch = rest
    BY <1>1, <2>1 DEF Delivery
  <2>4. Delivers(a, dropped) \/ (Delivers(a, taken) /\ r.attempt = a)
    BY <1>5 DEF RunnerTakes, Mine
  <2> HIDE DEF taken, dropped
  <2>5. delivery'[a] = dropped \/ (delivery'[a] = taken /\ r.attempt = a)
    BY <1>1, <2>4 DEF Delivers
  <2> QED
    BY <2>1, <2>2, <2>3, <2>5 DEF WatcherSteps, Takes, Idles
<1> DEFINE turned(stage, head) == [delivery[a] EXCEPT !.at = stage, !.head = head]
<1>14. ASSUME NEW verdict, Replies(a, verdict), delivery[a].at \in {"deciding", "prepared"}
      PROVE  WatcherSteps(a)
  <2>1. delivery'[a] = [delivery[a] EXCEPT !.at = "replying", !.verdict = verdict, !.head = 0]
    BY <1>1, <1>14 DEF Replies, Delivers
  <2> QED
    BY <1>1, <1>14, <2>1 DEF Delivery, WatcherSteps, Keeps
<1>15. ASSUME NEW stage \in {"deciding", "prepared"}, NEW head, Delivers(a, turned(stage, head)),
             delivery[a].at \in {"deciding", "prepared"}
      PROVE  WatcherSteps(a)
  <2>1. delivery'[a] = turned(stage, head)
    BY <1>1, <1>15 DEF Delivers
  <2> QED
    BY <1>1, <1>15, <2>1 DEF Delivery, WatcherSteps, Keeps
<1>6. CASE RunnerDecides(a)
  <2>1. \/ Delivers(a, turned("prepared", HeadOf(Runner(a))))
        \/ \E verdict : Replies(a, verdict)
    BY <1>6 DEF RunnerDecides
  <2> HIDE DEF turned
  <2> QED
    BY <1>6, <1>14, <1>15, <2>1 DEF RunnerDecides
<1>7. CASE RunnerCommits(a)
  <2>1. \/ Delivers(a, turned("deciding", 0))
        \/ \E verdict : Replies(a, verdict)
    BY <1>7 DEF RunnerCommits
  <2> HIDE DEF turned
  <2> QED
    BY <1>7, <1>14, <1>15, <2>1 DEF RunnerCommits
<1>8. CASE RunnerReplies(a)
  BY <1>1, <1>8 DEF RunnerReplies, Delivers, Delivery, WatcherSteps, Keeps
<1>9. CASE RunnerDiscards(a)
  <2>1. delivery[a].request \notin requests'
    BY <1>9 DEF RunnerDiscards
  <2> QED
    BY <1>1, <1>9, <2>1 DEF RunnerDiscards, Delivers, Delivery, WatcherSteps, Idles
<1>10. CASE Runs(a)
  <2>1. \/ UNCHANGED delivery
        \/ Delivers(a, [delivery[a] EXCEPT !.batch = {}])
        \/ Delivers(a, IdleDelivery) /\ runner' = [runner EXCEPT ![a] = "gone"]
    BY <1>10 DEF Runs, RunnerOpens, RunnerWorks, RunnerCloses, RunnerClosed, RunnerDies
  <2> QED
    BY <1>1, <2>1 DEF Delivers, Delivery, IdleDelivery, WatcherSteps, Keeps, Idles
<1>11. ASSUME NEW c \in Call, HostAsks(c) \/ Continues(c) \/ HostDies(c)
       PROVE  UNCHANGED delivery
  BY <1>11 DEF Continues, HostPublishes, HostHears, HostAbandons, HostTimesOut, Abandons, HostFallsBack,
               HostOpens, HostDecides, HostCommits, HostCloses, HostPatches, HostAsks, HostDies
<1>12. CASE HeartbeatAges \/ RunStarts \/ StopIsAsked
  BY <1>12 DEF HeartbeatAges, RunStarts, StopIsAsked, WatcherSteps
<1> QED
  BY <1>3, <1>4, <1>5, <1>6, <1>7, <1>8, <1>9, <1>10, <1>11, <1>12 DEF Next, Watches, WatcherSteps

(* The mailbox gains the request of a call that publishes. *)
LEMMA MailboxStep ==
  ASSUME Next
  PROVE  \/ requests' \subseteq requests
         \/ \E c \in Call : HostPublishes(c)
<1>1. ASSUME NEW a \in Attempt, Watches(a) \/ Runs(a)
      PROVE  requests' \subseteq requests
  BY <1>1 DEF Watches, RunnerLists, RunnerTakes, RunnerDecides, RunnerCommits, RunnerReplies, RunnerDiscards,
              Runs, RunnerOpens, RunnerWorks, RunnerCloses, RunnerClosed, RunnerDies, mailbox
<1>2. ASSUME NEW c \in Call, HostAsks(c) \/ Continues(c) \/ HostDies(c), ~HostPublishes(c)
      PROVE  requests' \subseteq requests
  BY <1>2 DEF Continues, HostHears, HostAbandons, HostTimesOut, Abandons, HostFallsBack,
              HostOpens, HostDecides, HostCommits, HostCloses, HostPatches, HostAsks, HostDies, mailbox
<1>3. CASE HeartbeatAges \/ RunStarts \/ StopIsAsked
  BY <1>3 DEF HeartbeatAges, RunStarts, StopIsAsked, mailbox
<1> QED
  BY <1>1, <1>2, <1>3 DEF Next

(* A request is carried on, or has just been published. *)
LEMMA CarriedOn ==
  ASSUME Inv, Next, NEW r, Carried(r)'
  PROVE  Carried(r) \/ \E c \in Call : HostPublishes(c) /\ r = host[c].request
<1>1. CASE r \in requests'
  BY <1>1, MailboxStep DEF HostPublishes, Carried
<1>2. ASSUME NEW a \in Attempt, r \in delivery'[a].batch \/ Handles(a, r)'
      PROVE  Carried(r)
  <2>1. r \in requests \/ r \in delivery[a].batch \/ Handles(a, r)
    BY <1>2, WatcherStep DEF WatcherSteps, Idles, Lists, Takes, Keeps, Handles
  <2> QED
    BY <2>1 DEF Carried
<1> QED
  BY <1>1, <1>2 DEF Carried

(* A call stays where it is, asks, comes back, or goes on with its request. *)
GoesOn(c) ==
  /\ Held(c) /\ Held(c)' /\ host'[c].request = host[c].request /\ host'[c].at # "publishing"
  /\ host'[c].at \in Unsent => host[c].at \in Unsent \/ host[c].request.ask.kind = "respond"
  /\ host[c].at \in {"waiting", "abandoned"} /\ host[c].request.ask.kind # "respond"
       => host'[c].at \in {"waiting", "abandoned"}
CallSteps(c) ==
  \/ host'[c] = host[c]
  \/ HostAsks(c)
  \/ host[c].at # "idle" /\ host'[c].at = "over"
  \/ GoesOn(c)

LEMMA CallStep ==
  ASSUME Inv, Next, NEW c \in Call
  PROVE  CallSteps(c)
<1>1. host \in [Call -> HostRecord] /\ host[c] \in HostRecord
  BY DEF Inv, CallsOK
<1>2. ASSUME NEW d \in Call, d # c, HostAsks(d) \/ Continues(d) \/ HostDies(d)
      PROVE  host'[c] = host[c]
  BY <1>1, <1>2 DEF Continues, HostPublishes, HostHears, HostAbandons, HostTimesOut, Abandons,
                    HostFallsBack, HostOpens, HostDecides, HostCommits, HostCloses, HostPatches, HostAsks, HostDies,
                    At, Told
<1>3. CASE HostDies(c)
  BY <1>1, <1>3 DEF HostDies, Returned, CallSteps
<1>4. CASE HostPublishes(c) \/ HostAbandons(c) \/ HostTimesOut(c) \/ HostFallsBack(c)
  BY <1>1, <1>4 DEF HostPublishes, HostAbandons, HostTimesOut, Abandons, HostFallsBack, Told, Returned, At,
                    CallSteps, GoesOn, Held, Unsent, HostRecord
<1>5. CASE HostHears(c) \/ HostOpens(c) \/ HostDecides(c) \/ HostCommits(c)
  BY <1>1, <1>5 DEF HostHears, HostOpens, HostDecides, HostCommits, Told, Returned, At,
                    CallSteps, GoesOn, Held, Unsent, HostRecord
<1>6. CASE HostCloses(c) \/ HostPatches(c)
  BY <1>1, <1>6 DEF HostCloses, HostPatches, Told, Returned, At,
                    CallSteps, GoesOn, Held, Unsent, HostRecord
<1>7. ASSUME NEW a \in Attempt, Watches(a) \/ Runs(a)
      PROVE  UNCHANGED host
  BY <1>7 DEF Watches, RunnerLists, RunnerTakes, RunnerDecides, RunnerCommits, RunnerReplies, RunnerDiscards,
              Runs, RunnerOpens, RunnerWorks, RunnerCloses, RunnerClosed, RunnerDies
<1>8. CASE HeartbeatAges \/ RunStarts \/ StopIsAsked
  BY <1>8 DEF HeartbeatAges, RunStarts, StopIsAsked, CallSteps
<1> QED
  BY <1>2, <1>3, <1>4, <1>5, <1>6, <1>7, <1>8 DEF Next, Continues, CallSteps

(* What a call that asks asks for. *)
LEMMA CallAsks ==
  ASSUME Inv, NEW c \in Call, HostAsks(c)
  PROVE  /\ host[c].at = "idle" /\ host'[c].at \in {"publishing", "opening"}
         /\ host'[c].request \in Request /\ host'[c].request.id = c
         /\ UNCHANGED <<requests, results, answers, delivery, journal>>
<1>1. PICK ask \in Ask[c], stage \in {"publishing", "opening"} :
        host' = [host EXCEPT ![c] = [at |-> stage, request |-> [id |-> c, attempt |-> status.attempt, ask |-> ask]]]
  BY DEF HostAsks
<1>2. [id |-> c, attempt |-> status.attempt, ask |-> ask] \in Request
  BY ControlAssumption DEF HostAsks, Inv, StatusOK, Request, Asked, Attempt
<1>3. host'[c] = [at |-> stage, request |-> [id |-> c, attempt |-> status.attempt, ask |-> ask]]
  BY <1>1 DEF Inv, CallsOK
<1> QED
  BY <1>2, <1>3 DEF HostAsks, mailbox, store

(* A result is published by the watcher that decided the request. *)
LEMMA ResultsStep ==
  ASSUME Next, NEW result \in results'
  PROVE  \/ result \in results
         \/ \E a \in Attempt : RunnerReplies(a) /\ result = [id |-> delivery[a].request.id, verdict |-> delivery[a].verdict]
<1>1. ASSUME NEW a \in Attempt, Watches(a) \/ Runs(a), ~RunnerReplies(a)
      PROVE  results' \subseteq results
  BY <1>1 DEF Watches, RunnerLists, RunnerTakes, RunnerDecides, RunnerCommits, RunnerDiscards,
              Runs, RunnerOpens, RunnerWorks, RunnerCloses, RunnerClosed, RunnerDies, mailbox
<1>2. ASSUME NEW c \in Call, HostAsks(c) \/ Continues(c) \/ HostDies(c)
      PROVE  results' \subseteq results
  BY <1>2 DEF Continues, HostPublishes, HostHears, HostAbandons, HostTimesOut, Abandons, HostFallsBack,
              HostOpens, HostDecides, HostCommits, HostCloses, HostPatches, HostAsks, HostDies, mailbox
<1>3. CASE HeartbeatAges \/ RunStarts \/ StopIsAsked
  BY <1>3 DEF HeartbeatAges, RunStarts, StopIsAsked, mailbox
<1> QED
  BY <1>1, <1>2, <1>3 DEF Next, RunnerReplies

-----------------------------------------------------------------------------
LEMMA CarriedStep ==
  ASSUME Inv, CarriedOK, Next
  PROVE  CarriedOK'
<1>1. \A r \in Request : r.id \in Call
  BY DEF Request
<1>2. ASSUME NEW c \in Call, Held(c)'
      PROVE  host'[c].request.id = c
  BY <1>2, CallStep, CallAsks DEF CallSteps, GoesOn, Held, CarriedOK
<1>3. ASSUME NEW c \in Call, HostPublishes(c)
      PROVE  /\ host[c].at = "publishing" /\ host'[c].at = "waiting"
             /\ host'[c].request = host[c].request /\ host[c].request.id = c
  BY <1>3 DEF HostPublishes, At, Inv, CallsOK, HostRecord, CarriedOK, Held
<1>4. ASSUME NEW r \in Request, Carried(r)'
      PROVE  /\ host'[r.id].at \notin {"idle", "publishing"}
             /\ Held(r.id)' => host'[r.id].request = r
             /\ r.ask.kind # "respond" => host'[r.id].at \in {"waiting", "abandoned", "over"}
  <2>1. CASE Carried(r)
    <3>1. /\ host[r.id].at \notin {"idle", "publishing"}
          /\ Held(r.id) => host[r.id].request = r
          /\ r.ask.kind # "respond" => host[r.id].at \in {"waiting", "abandoned", "over"}
      BY <2>1 DEF CarriedOK
    <3>2. ~HostAsks(r.id)
      BY <1>1, <3>1, CallAsks
    <3> QED
      BY <1>1, <3>1, <3>2, CallStep DEF CallSteps, GoesOn, Held
  <2>2. CASE \E c \in Call : HostPublishes(c) /\ r = host[c].request
    BY <1>3, <2>2
  <2> QED
    BY <1>4, <2>1, <2>2, CarriedOn
<1>5. ASSUME NEW r \in Request, NEW s \in Request, Carried(r)', Carried(s)', r.id = s.id
      PROVE  r = s
  <2>1. CASE Carried(r) /\ Carried(s)
    BY <1>5, <2>1 DEF CarriedOK
  <2>2. ASSUME NEW c \in Call, HostPublishes(c), host[c].request.id = r.id
        PROVE  ~Carried(r) /\ ~Carried(s)
    BY <1>3, <1>5, <2>2 DEF CarriedOK
  <2> QED
    BY <1>3, <1>5, <2>1, <2>2, CarriedOn
<1>6. ASSUME NEW result \in results'
      PROVE  result.id \in Call /\ host'[result.id].at # "idle"
  <2>1. CASE result \in results
    <3>1. result.id \in Call /\ host[result.id].at # "idle"
      BY <2>1 DEF CarriedOK
    <3> QED
      BY <3>1, CallStep, CallAsks DEF CallSteps, GoesOn, Held
  <2>2. ASSUME NEW a \in Attempt, RunnerReplies(a), result = [id |-> delivery[a].request.id, verdict |-> delivery[a].verdict]
        PROVE  result.id \in Call /\ host'[result.id].at # "idle"
    <3>1. delivery[a].at # "idle" /\ delivery[a].request \in Request /\ UNCHANGED host
      BY <2>2 DEF RunnerReplies, Inv, WatchersOK
    <3>2. Carried(delivery[a].request)
      BY <3>1 DEF Carried, Handles
    <3> QED
      BY <1>1, <2>2, <3>1, <3>2 DEF CarriedOK
  <2> QED
    BY <2>1, <2>2, ResultsStep
<1> QED
  BY <1>2, <1>4, <1>5, <1>6 DEF CarriedOK

(* A runner that closes or is gone never serves again. *)
LEMMA RunnerStep ==
  ASSUME Inv, AttemptsOK, Next
  PROVE  /\ runner' \in [Attempt -> {"none", "booting", "up", "signalled", "closing", "gone"}]
         /\ \A a \in Attempt : a > status'.attempt => runner'[a] = "none"
         /\ \A a \in Attempt : runner[a] \in {"closing", "gone"} => runner'[a] \in {"closing", "gone"}
<1> DEFINE Stage == {"none", "booting", "up", "signalled", "closing", "gone"}
           Goal == /\ runner' \in [Attempt -> Stage]
                   /\ \A a \in Attempt : a > status'.attempt => runner'[a] = "none"
                   /\ \A a \in Attempt : runner[a] \in {"closing", "gone"} => runner'[a] \in {"closing", "gone"}
<1>1. /\ runner \in [Attempt -> Stage] /\ \A a \in Attempt : a > status.attempt => runner[a] = "none"
      /\ status \in [state : {"running", "stopping", "stopped", "failed"}, attempt : 0 .. MaxAttempts, fresh : BOOLEAN]
      /\ MaxAttempts \in Nat
  BY ControlAssumption DEF AttemptsOK, Inv, StatusOK
<1>2. CASE RunStarts
  <2>1. status.attempt + 1 \in Attempt /\ status'.attempt = status.attempt + 1
    BY <1>1, <1>2 DEF RunStarts, Attempt
  <2>2. runner[status.attempt + 1] = "none"
    BY <1>1, <2>1
  <2> QED
    BY <1>1, <1>2, <2>1, <2>2 DEF RunStarts, Attempt
<1>3. CASE UNCHANGED runner /\ status'.attempt = status.attempt
  BY <1>1, <1>3
<1>4. ASSUME NEW a \in Attempt, NEW stage \in Stage, status'.attempt = status.attempt,
             runner' = [runner EXCEPT ![a] = stage], runner[a] # "none",
             runner[a] \in {"closing", "gone"} => stage \in {"closing", "gone"}
      PROVE  Goal
  BY <1>1, <1>4
<1>5. ASSUME NEW a \in Attempt, Watches(a) \/ Runs(a)
      PROVE  Goal
  <2>1. status'.attempt = status.attempt
    BY <1>1, <1>5 DEF Watches, RunnerLists, RunnerTakes, RunnerDecides, RunnerCommits, RunnerReplies, RunnerDiscards,
              Runs, RunnerOpens, RunnerWorks, RunnerCloses, RunnerClosed, RunnerDies
  <2>2. CASE Watches(a) \/ RunnerWorks(a)
    BY <1>3, <2>1, <2>2 DEF Watches, RunnerLists, RunnerTakes, RunnerDecides, RunnerCommits, RunnerReplies,
                            RunnerDiscards, RunnerWorks
  <2>3. CASE RunnerOpens(a) \/ RunnerCloses(a) \/ RunnerClosed(a) \/ RunnerDies(a)
    BY <1>4, <2>1, <2>3 DEF RunnerOpens, RunnerCloses, RunnerClosed, RunnerDies, Serving
  <2> QED
    BY <1>5, <2>2, <2>3 DEF Runs
<1>6. ASSUME NEW c \in Call, HostAsks(c) \/ Continues(c) \/ HostDies(c)
      PROVE  Goal
  <2>1. UNCHANGED runner /\ status'.attempt = status.attempt
    BY <1>1, <1>6 DEF Continues, HostPublishes, HostHears, HostAbandons, HostTimesOut, Abandons, HostFallsBack,
              HostOpens, HostDecides, HostCommits, HostCloses, HostPatches, HostAsks, HostDies
  <2> QED
    BY <1>3, <2>1
<1>7. CASE HeartbeatAges
  BY <1>1, <1>3, <1>7 DEF HeartbeatAges
<1>8. CASE StopIsAsked
  <2>1. status'.attempt = status.attempt
    BY <1>1, <1>8 DEF StopIsAsked
  <2>2. CASE status.attempt \in Attempt
    BY <1>1, <1>4, <1>8, <2>1, <2>2 DEF StopIsAsked
  <2>3. CASE status.attempt \notin Attempt
    <3>1. runner' = runner
      BY <1>1, <1>8, <2>3 DEF StopIsAsked
    <3> QED
      BY <1>3, <2>1, <3>1
  <2> QED
    BY <2>2, <2>3
<1> QED
  BY <1>2, <1>5, <1>6, <1>7, <1>8 DEF Next

LEMMA AttemptsStep ==
  ASSUME Inv, AttemptsOK, Next
  PROVE  AttemptsOK'
<1>1. ASSUME NEW a \in Attempt, delivery'[a].at # "idle"
      PROVE  delivery'[a].request.attempt = a /\ delivery'[a].request \notin delivery'[a].batch
  BY <1>1, WatcherStep DEF WatcherSteps, Idles, Lists, Takes, Keeps, AttemptsOK
<1> QED
  BY <1>1, RunnerStep DEF AttemptsOK

-----------------------------------------------------------------------------
(* What a step writes, and for whom. *)

Wrote(entry, r) ==
  /\ journal' = Append(journal, entry) /\ entry.asked = r.id
  /\ r.ask.kind # "respond" => entry.kind = "move"
  /\ r.ask.kind = "respond" => entry.kind = "resolved" /\ entry.event = r.ask.event
RunnerWrites(a) ==
  /\ delivery[a].at = "prepared" /\ delivery'[a].at = "replying" /\ delivery'[a].verdict = "ok"
  /\ delivery'[a].request = delivery[a].request /\ delivery'[a].batch = delivery[a].batch
  /\ \A b \in Attempt \ {a} : delivery'[b] = delivery[b]
  /\ UNCHANGED <<runner, mailbox, host, answers>>
  /\ \E entry : Wrote(entry, delivery[a].request)
HostWrites(c) ==
  /\ host[c].at = "prepared" /\ host'[c].at = "closing" /\ host'[c].request = host[c].request
  /\ \A d \in Call \ {c} : host'[d] = host[d]
  /\ UNCHANGED <<runner, mailbox, delivery, answers>>
  /\ \E entry : Wrote(entry, host[c].request)
WorkDone == {i \in 1 .. Len(journal) : i > 2 /\ journal[i].kind \in {"worked", "closed"}}
WorksOn ==
  /\ UNCHANGED <<delivery, runner, mailbox, host, answers>>
  /\ Cardinality(WorkDone) < MaxWork
  /\ \E entry : journal' = Append(journal, entry) /\ entry.asked = 0 /\ entry.kind \in {"worked", "closed"}

LEMMA WhoWrites ==
  ASSUME Inv, Next
  PROVE  \/ UNCHANGED journal
         \/ WorksOn
         \/ \E a \in Attempt : RunnerCommits(a) /\ RunnerWrites(a)
         \/ \E c \in Call : HostWrites(c)
<1>1. ASSUME NEW a \in Attempt, RunnerWorks(a)
      PROVE  WorksOn
  <2>1. PICK kind \in {"worked", "closed"} : Adds(Runner(a), kind, "none", 0)
    BY <1>1 DEF RunnerWorks
  <2> DEFINE entry == Own(kind, "none", Len(journal) + 1, Past(Runner(a)), 0)
  <2>2. journal' = Append(journal, entry) /\ entry.asked = 0 /\ entry.kind \in {"worked", "closed"}
    BY <2>1 DEF Adds, Appends, Own
  <2> HIDE DEF entry
  <2>3. DOMAIN journal = 1 .. Len(journal)
    BY DEF Inv, JournalOK
  <2>4. Cardinality(WorkDone) < MaxWork
    BY <1>1, <2>3 DEF RunnerWorks, WorkDone
  <2> QED
    BY <1>1, <2>2, <2>4 DEF RunnerWorks, WorksOn
<1>2. ASSUME NEW p, NEW r, r.ask.kind = "respond", Adds(p, "resolved", r.ask.event, r.id)
      PROVE  \E entry : Wrote(entry, r)
  <2> DEFINE entry == Own("resolved", r.ask.event, Len(journal) + 1, Past(p), r.id)
  <2>1. /\ journal' = Append(journal, entry) /\ entry.asked = r.id /\ entry.kind = "resolved"
        /\ entry.event = r.ask.event
    BY <1>2 DEF Adds, Appends, Own
  <2> HIDE DEF entry
  <2> QED
    BY <1>2, <2>1 DEF Wrote
<1>3. ASSUME NEW p, NEW r, r.ask.kind # "respond", MovesHead(p, r.ask.target, r.id)
      PROVE  \E entry : Wrote(entry, r)
  <2> DEFINE entry == [kind |-> "move", event |-> "none", head |-> r.ask.target,
                       past |-> journal[r.ask.target].past, asked |-> r.id]
  <2>1. journal' = Append(journal, entry) /\ entry.asked = r.id /\ entry.kind = "move"
    BY <1>3 DEF MovesHead, Appends
  <2> HIDE DEF entry
  <2> QED
    BY <1>3, <2>1 DEF Wrote
<1>4. ASSUME NEW a \in Attempt, RunnerCommits(a)
      PROVE  UNCHANGED journal \/ RunnerWrites(a)
  <2>1. CASE UNCHANGED store
    BY <2>1 DEF store
  <2>2. CASE /\ Replies(a, "ok")
             /\ \/ delivery[a].request.ask.kind = "respond"
                   /\ Adds(Runner(a), "resolved", delivery[a].request.ask.event, delivery[a].request.id)
                \/ delivery[a].request.ask.kind # "respond"
                   /\ MovesHead(Runner(a), delivery[a].request.ask.target, delivery[a].request.id)
    <3>1. delivery \in [Attempt -> Delivery] /\ delivery[a] \in Delivery
      BY DEF Inv, WatchersOK
    <3>2. delivery' = [delivery EXCEPT ![a] = [delivery[a] EXCEPT !.at = "replying", !.verdict = "ok", !.head = 0]]
      BY <2>2 DEF Replies, Delivers
    <3>3. /\ delivery'[a].at = "replying" /\ delivery'[a].verdict = "ok"
          /\ delivery'[a].request = delivery[a].request /\ delivery'[a].batch = delivery[a].batch
          /\ \A b \in Attempt \ {a} : delivery'[b] = delivery[b]
      BY <3>1, <3>2 DEF Delivery
    <3>4. \E entry : Wrote(entry, delivery[a].request)
      BY <1>2, <1>3, <2>2
    <3> QED
      BY <1>4, <3>3, <3>4 DEF RunnerCommits, RunnerWrites
  <2> QED
    BY <1>4, <2>1, <2>2 DEF RunnerCommits
<1>5. ASSUME NEW c \in Call, HostCommits(c)
      PROVE  UNCHANGED journal \/ HostWrites(c)
  <2>1. CASE Closes(Caller(c))
    BY <2>1 DEF Closes
  <2>2. CASE /\ At(c, "closing") /\ UNCHANGED answers
             /\ \/ host[c].request.ask.kind = "respond"
                   /\ Adds(Caller(c), "resolved", host[c].request.ask.event, host[c].request.id)
                \/ host[c].request.ask.kind # "respond"
                   /\ MovesHead(Caller(c), host[c].request.ask.target, host[c].request.id)
    <3>1. /\ host'[c].at = "closing" /\ host'[c].request = host[c].request
          /\ \A d \in Call \ {c} : host'[d] = host[d]
      BY <2>2 DEF At, Inv, CallsOK, HostRecord
    <3>2. \E entry : Wrote(entry, host[c].request)
      BY <1>2, <1>3, <2>2
    <3> QED
      BY <1>5, <2>2, <3>1, <3>2 DEF HostCommits, HostWrites
  <2> QED
    BY <1>5, <2>1, <2>2 DEF HostCommits
<1> QED
  BY <1>1, <1>4, <1>5, WhatIsWritten DEF Opens, Closes

(* The entry that is new is the last. *)
LEMMA NewEntry ==
  ASSUME JournalOK, NEW entry, journal' = Append(journal, entry)
  PROVE  /\ Len(journal) \in Nat /\ Len(journal') = Len(journal) + 1
         /\ \A i \in 1 .. Len(journal) : journal'[i] = journal[i]
         /\ journal'[Len(journal) + 1] = entry
         /\ \A c : Written(c)' => Written(c) \/ c = entry.asked
         /\ \A c : Moved(c)' => Moved(c) \/ (c = entry.asked /\ entry.kind = "move")
<1>1. /\ Len(journal) \in Nat /\ Len(journal') = Len(journal) + 1
      /\ \A i \in 1 .. Len(journal) : journal'[i] = journal[i]
      /\ journal'[Len(journal) + 1] = entry
  BY DEF JournalOK
<1>2. \A i \in 1 .. Len(journal') : i \in 1 .. Len(journal) \/ i = Len(journal) + 1
  BY <1>1
<1> QED
  BY <1>1, <1>2 DEF Written, Moved

(* An entry that is new to a call was written by the one process that may. *)
Writes(x) ==
  \/ HostWrites(x)
  \/ \E a \in Attempt :
       /\ RunnerWrites(a) /\ delivery[a].request.id = x
       /\ delivery[a].request \in Request /\ Carried(delivery[a].request)
       /\ delivery[a].request.attempt = a
WritesMove(x) ==
  \/ HostWrites(x) /\ host[x].request.ask.kind # "respond"
  \/ \E a \in Attempt :
       /\ RunnerWrites(a) /\ delivery[a].request.id = x
       /\ delivery[a].request \in Request /\ Carried(delivery[a].request)
       /\ delivery[a].request.ask.kind # "respond"

LEMMA NewlyWritten ==
  ASSUME Inv, CarriedOK, AttemptsOK, Next, NEW x \in Call
  PROVE  /\ Written(x)' => Written(x) \/ Writes(x)
         /\ Moved(x)' => Moved(x) \/ WritesMove(x)
<1>1. JournalOK /\ 0 \notin Call
  BY DEF Inv, Call
<1>2. CASE UNCHANGED journal
  BY <1>2 DEF Written, Moved
<1>3. CASE WorksOn
  BY <1>1, <1>3, NewEntry DEF WorksOn
<1>4. ASSUME NEW a \in Attempt, RunnerWrites(a)
      PROVE  /\ Written(x)' => Written(x) \/ Writes(x)
             /\ Moved(x)' => Moved(x) \/ WritesMove(x)
  <2>1. /\ delivery[a].request \in Request /\ Carried(delivery[a].request)
        /\ delivery[a].request.attempt = a
    BY <1>4 DEF RunnerWrites, Inv, WatchersOK, AttemptsOK, Carried, Handles
  <2>2. PICK entry : Wrote(entry, delivery[a].request)
    BY <1>4 DEF RunnerWrites
  <2>3. /\ Written(x)' => Written(x) \/ x = delivery[a].request.id
        /\ Moved(x)' => Moved(x) \/ (x = delivery[a].request.id /\ entry.kind = "move")
    BY <1>1, <2>2, NewEntry DEF Wrote
  <2>4. entry.kind = "move" => delivery[a].request.ask.kind # "respond"
    BY <2>2 DEF Wrote
  <2> QED
    BY <1>4, <2>1, <2>3, <2>4 DEF Writes, WritesMove
<1>5. ASSUME NEW c \in Call, HostWrites(c)
      PROVE  /\ Written(x)' => Written(x) \/ Writes(x)
             /\ Moved(x)' => Moved(x) \/ WritesMove(x)
  <2>1. host[c].request.id = c
    BY <1>5 DEF HostWrites, CarriedOK, Held
  <2>2. PICK entry : Wrote(entry, host[c].request)
    BY <1>5 DEF HostWrites
  <2>3. /\ Written(x)' => Written(x) \/ x = c
        /\ Moved(x)' => Moved(x) \/ (x = c /\ entry.kind = "move")
    BY <1>1, <2>1, <2>2, NewEntry DEF Wrote
  <2>4. entry.kind = "move" => host[c].request.ask.kind # "respond"
    BY <2>2 DEF Wrote
  <2> QED
    BY <1>5, <2>3, <2>4 DEF Writes, WritesMove
<1> QED
  BY <1>2, <1>3, <1>4, <1>5, WhoWrites

-----------------------------------------------------------------------------
LEMMA AnswersStep ==
  ASSUME Inv, CarriedOK, AttemptsOK, MovesOK, AnswersOK, Next
  PROVE  AnswersOK'
<1>1. \A r \in Request : r.id \in Call
  BY DEF Request
<1>2. ASSUME NEW r \in Request, Carried(r)', r.ask.kind = "respond"
      PROVE  ~Moved(r.id)'
  <2>1. CASE Carried(r)
    <3>1. ~Moved(r.id)
      BY <1>2, <2>1 DEF AnswersOK
    <3>2. ~WritesMove(r.id)
      BY <1>2, <2>1 DEF WritesMove, CarriedOK, HostWrites, Held
    <3> QED
      BY <1>1, <3>1, <3>2, NewlyWritten
  <2>2. ASSUME NEW c \in Call, HostPublishes(c), r = host[c].request
        PROVE  ~Moved(r.id)'
    <3>1. Held(c) /\ r.id = c /\ UNCHANGED journal
      BY <2>2 DEF HostPublishes, Held, CarriedOK, store
    <3>2. ~Moved(c)
      BY <1>2, <2>2, <3>1 DEF AnswersOK
    <3> QED
      BY <3>1, <3>2 DEF Moved
  <2> QED
    BY <1>2, <2>1, <2>2, CarriedOn
<1>3. ASSUME NEW c \in Call, Held(c)', host'[c].request.ask.kind = "respond"
      PROVE  ~Moved(c)'
  <2>1. CASE HostAsks(c)
    <3>1. ~Written(c) /\ UNCHANGED journal
      BY <2>1, CallAsks DEF MovesOK
    <3> QED
      BY <3>1 DEF Written, Moved
  <2>2. CASE Held(c) /\ host'[c].request = host[c].request
    <3>1. ~Moved(c)
      BY <1>3, <2>2 DEF AnswersOK
    <3>2. ~WritesMove(c)
      BY <1>3, <2>2 DEF WritesMove, CarriedOK
    <3> QED
      BY <3>1, <3>2, NewlyWritten
  <2> QED
    BY <1>3, <2>1, <2>2, CallStep DEF CallSteps, GoesOn, Held
<1> QED
  BY <1>2, <1>3 DEF AnswersOK

LEMMA MovesStep ==
  ASSUME Inv, CarriedOK, AttemptsOK, MovesOK, Next
  PROVE  MovesOK'
<1>1. \A r \in Request : r.id \in Call /\ r.attempt \in Attempt
  BY DEF Request
<1>2. ASSUME NEW c \in Call, host'[c].at = "idle"
      PROVE  ~Written(c)'
  <2>1. host[c].at = "idle"
    BY <1>2, CallStep, CallAsks DEF CallSteps, GoesOn, Held
  <2>2. ~Written(c)
    BY <2>1 DEF MovesOK
  <2>3. ~Writes(c)
    BY <2>1 DEF Writes, HostWrites, CarriedOK
  <2> QED
    BY <2>2, <2>3, NewlyWritten
<1>3. ASSUME NEW c \in Call, host'[c].at \in Unsent, host'[c].request.ask.kind # "respond"
      PROVE  ~Written(c)'
  <2>1. CASE HostAsks(c)
    <3>1. ~Written(c) /\ UNCHANGED journal
      BY <2>1, CallAsks DEF MovesOK
    <3> QED
      BY <3>1 DEF Written
  <2>2. CASE host[c].at \in Unsent /\ host'[c].request = host[c].request
    <3>1. ~Written(c) /\ Held(c)
      BY <1>3, <2>2 DEF MovesOK, Held, Unsent
    <3>2. ~HostWrites(c)
      BY <1>3 DEF HostWrites, Unsent
    <3>3. ASSUME NEW r \in Request, Carried(r), r.id = c
          PROVE  FALSE
      BY <1>3, <2>2, <3>1, <3>3 DEF CarriedOK, Unsent
    <3> QED
      BY <3>1, <3>2, <3>3, NewlyWritten DEF Writes
  <2> QED
    BY <1>3, <2>1, <2>2, CallStep DEF CallSteps, GoesOn, Held, Unsent
<1>4. ASSUME NEW r \in Request, r.ask.kind # "respond", Undone(r.attempt, r)'
      PROVE  ~Written(r.id)'
  <2> DEFINE b == r.attempt
  <2>1. \/ Undone(b, r)
        \/ r \in requests /\ runner[b] \in Serving /\ delivery[b].at = "idle"
    BY <1>1, <1>4, WatcherStep DEF WatcherSteps, Idles, Lists, Takes, Keeps, Undone
  <2>2. ~Written(r.id)
    BY <1>4, <2>1 DEF MovesOK, Serving
  <2>3. Carried(r)
    BY <1>1, <2>1 DEF Carried, Handles, Undone
  <2>4. ~HostWrites(r.id)
    BY <1>4, <2>3 DEF CarriedOK, HostWrites
  <2>5. ASSUME NEW a \in Attempt, RunnerWrites(a), delivery[a].request = r, r.attempt = a
        PROVE  FALSE
    BY <1>4, <2>5 DEF RunnerWrites, AttemptsOK, Undone
  <2> QED
    BY <1>1, <2>2, <2>3, <2>4, <2>5, NewlyWritten DEF Writes, CarriedOK
<1>5. ASSUME NEW r \in requests', r.ask.kind # "respond", Written(r.id)'
      PROVE  \/ delivery'[r.attempt].at \in {"replying", "replied"} /\ delivery'[r.attempt].request = r
             \/ runner'[r.attempt] \in {"closing", "gone"}
  <2> DEFINE b == r.attempt
  <2>1. CASE r \in requests /\ Written(r.id)
    <3>1. b \in Attempt
      BY <1>1, <2>1 DEF Inv, CallsOK
    <3>2. CASE runner[b] \in {"closing", "gone"}
      BY <3>1, <3>2, RunnerStep
    <3>3. CASE delivery[b].at \in {"replying", "replied"} /\ delivery[b].request = r
      <4>1. delivery' \in [Attempt -> Delivery]
        BY WatchersStep DEF WatchersOK
      <4>2. delivery'[b].at \in {"idle", "deciding", "prepared", "replying", "replied"}
        BY <3>1, <4>1 DEF Delivery
      <4>3. runner' = [runner EXCEPT ![b] = "gone"] => runner'[b] = "gone"
        BY <3>1 DEF AttemptsOK
      <4> QED
        BY <1>5, <3>1, <3>3, <4>2, <4>3, WatcherStep DEF WatcherSteps, Idles, Lists, Takes, Keeps
    <3> QED
      BY <1>5, <2>1, <3>2, <3>3 DEF MovesOK
  <2>2. CASE r \in requests /\ ~Written(r.id)
    <3>1. r \in Request /\ Carried(r)
      BY <2>2 DEF Inv, CallsOK, Carried
    <3>2. ~HostWrites(r.id)
      BY <1>5, <3>1 DEF CarriedOK, HostWrites
    <3>3. PICK a \in Attempt : RunnerWrites(a) /\ delivery[a].request = r /\ r.attempt = a
      BY <1>1, <1>5, <2>2, <3>1, <3>2, NewlyWritten DEF Writes, CarriedOK
    <3> QED
      BY <3>3 DEF RunnerWrites
  <2>3. ASSUME NEW c \in Call, HostPublishes(c), r = host[c].request
        PROVE  FALSE
    <3>1. host[c].at = "publishing" /\ r.id = c /\ UNCHANGED journal
      BY <2>3 DEF HostPublishes, Held, CarriedOK, store
    <3>2. ~Written(c)
      BY <1>5, <2>3, <3>1 DEF MovesOK, Unsent
    <3> QED
      BY <1>5, <3>1, <3>2 DEF Written
  <2> QED
    BY <2>1, <2>2, <2>3, MailboxStep DEF HostPublishes
<1> QED
  BY <1>2, <1>3, <1>4, <1>5 DEF MovesOK

(* A move is written where nothing was written for its call, and an answer *)
(* where no move was.                                                       *)
LEMMA OnceStep ==
  ASSUME Inv, CarriedOK, AttemptsOK, MovesOK, AnswersOK, OnceOK, Next
  PROVE  OnceOK'
<1>1. JournalOK /\ 0 \notin Call
  BY DEF Inv, Call
<1>2. CASE UNCHANGED journal
  BY <1>2 DEF OnceOK
<1>3. ASSUME NEW entry, journal' = Append(journal, entry),
             entry.kind = "move" => entry.asked \in Call /\ ~Written(entry.asked),
             ~Moved(entry.asked)
      PROVE  OnceOK'
  <2>1. /\ Len(journal) \in Nat /\ Len(journal') = Len(journal) + 1
        /\ \A i \in 1 .. Len(journal) : journal'[i] = journal[i]
        /\ journal'[Len(journal) + 1] = entry
    BY <1>1, <1>3, NewEntry
  <2>2. ASSUME NEW i \in 1 .. Len(journal'), journal'[i].kind = "move"
        PROVE  journal'[i].asked \in Call
    BY <1>3, <2>1, <2>2 DEF OnceOK
  <2>3. ASSUME NEW i \in 1 .. Len(journal'), NEW j \in 1 .. Len(journal'),
               journal'[i].kind = "move", journal'[i].asked = journal'[j].asked
        PROVE  i = j
    <3>1. CASE i \in 1 .. Len(journal) /\ j \in 1 .. Len(journal)
      BY <2>1, <2>3, <3>1 DEF OnceOK
    <3>2. CASE i \in 1 .. Len(journal) /\ j = Len(journal) + 1
      BY <1>3, <2>1, <2>3, <3>2 DEF Moved
    <3>3. CASE i = Len(journal) + 1 /\ j \in 1 .. Len(journal)
      BY <1>3, <2>1, <2>3, <3>3 DEF Written
    <3> QED
      BY <2>1, <3>1, <3>2, <3>3
  <2> QED
    BY <2>2, <2>3 DEF OnceOK
<1>4. CASE WorksOn
  <2>1. ~Moved(0)
    BY <1>1 DEF Moved, OnceOK
  <2> QED
    BY <1>3, <1>4, <2>1 DEF WorksOn
<1>5. ASSUME NEW r \in Request, NEW entry, Wrote(entry, r),
             r.ask.kind # "respond" => ~Written(r.id), r.ask.kind = "respond" => ~Moved(r.id)
      PROVE  OnceOK'
  <2>1. r.id \in Call
    BY DEF Request
  <2>2. ~Written(r.id) => ~Moved(r.id)
    BY DEF Written, Moved
  <2> QED
    BY <1>3, <1>5, <2>1, <2>2 DEF Wrote
<1>6. ASSUME NEW a \in Attempt, RunnerWrites(a)
      PROVE  OnceOK'
  <2> DEFINE r == delivery[a].request
  <2>1. r \in Request /\ r.attempt = a /\ Carried(r) /\ Undone(a, r)
    BY <1>6 DEF RunnerWrites, Inv, WatchersOK, AttemptsOK, Carried, Handles, Undone
  <2>2. /\ r.ask.kind # "respond" => ~Written(r.id)
        /\ r.ask.kind = "respond" => ~Moved(r.id)
    BY <2>1 DEF MovesOK, AnswersOK
  <2> QED
    BY <1>5, <1>6, <2>1, <2>2 DEF RunnerWrites
<1>7. ASSUME NEW c \in Call, HostWrites(c)
      PROVE  OnceOK'
  <2> DEFINE r == host[c].request
  <2>1. r \in Request /\ r.id = c /\ Held(c) /\ host[c].at \in Unsent
    BY <1>7 DEF HostWrites, Inv, CallsOK, CarriedOK, Held, Unsent
  <2>2. /\ r.ask.kind # "respond" => ~Written(r.id)
        /\ r.ask.kind = "respond" => ~Moved(r.id)
    BY <2>1 DEF MovesOK, AnswersOK
  <2> QED
    BY <1>5, <1>7, <2>1, <2>2 DEF HostWrites
<1> QED
  BY <1>2, <1>4, <1>6, <1>7, WhoWrites

-----------------------------------------------------------------------------
(* What vouches for a verdict stays in the journal. *)
LEMMA VouchedStays ==
  ASSUME JournalOK, JournalOK', Grown, NEW r, NEW verdict
  PROVE  /\ Granted(r) => Granted(r)'
         /\ Refused(r) => Refused(r)'
         /\ Vouched(verdict, r) => Vouched(verdict, r)'
<1>1. \A i \in 1 .. Len(journal) : i \in 1 .. Len(journal') /\ journal'[i] = journal[i]
  BY DEF JournalOK, Grown
<1>2. (Granted(r) => Granted(r)') /\ (Refused(r) => Refused(r)')
  BY <1>1 DEF Granted, Refused
<1> QED
  BY <1>2 DEF Vouched

(* A decision is made on an answer that the journal holds. *)
LEMMA DecisionVouched ==
  ASSUME JournalOK, SeenOK, NEW p \in Writer, NEW r, r.ask.kind = "respond"
  PROVE  Vouched(Decision(p, r.ask.event), r)
<1>1. \A i \in Resolutions(Past(p)) : i \in 1 .. Len(journal) /\ journal[i].kind = "resolved"
  BY HeadKnown DEF Resolutions
<1>2. CASE Decision(p, r.ask.event) = "ok"
  BY <1>1, <1>2 DEF Decision, Vouched, Granted
<1>3. CASE Decision(p, r.ask.event) = "conflict"
  BY <1>1, <1>3 DEF Decision, Vouched, Refused
<1> QED
  BY <1>2, <1>3 DEF Vouched

(* The entry written for a request grants it. *)
LEMMA WroteGrants ==
  ASSUME JournalOK, NEW entry, NEW r \in Request, Wrote(entry, r)
  PROVE  Granted(r)'
<1>1. /\ Len(journal') = Len(journal) + 1 /\ Len(journal) \in Nat
      /\ journal'[Len(journal) + 1] = entry
  BY NewEntry DEF Wrote
<1>2. Len(journal) + 1 \in 1 .. Len(journal')
  BY <1>1
<1>3. r.ask.kind \in {"respond", "move"}
  BY ControlAssumption DEF Request, Asked, Call, Answer, Move
<1> QED
  BY <1>1, <1>2, <1>3 DEF Wrote, Granted

(* A watcher comes to a verdict by deciding or by committing. *)
LEMMA VerdictReached ==
  ASSUME Inv, Next, NEW a \in Attempt, delivery'[a].at = "replying"
  PROVE  /\ delivery'[a].request = delivery[a].request
         /\ \/ delivery[a].at = "replying" /\ delivery'[a].verdict = delivery[a].verdict
            \/ delivery'[a].verdict = "error"
            \/ /\ delivery[a].request.ask.kind = "respond" /\ UNCHANGED journal
               /\ delivery'[a].verdict = Decision(Runner(a), delivery[a].request.ask.event)
            \/ RunnerWrites(a)
<1>1. delivery \in [Attempt -> Delivery] /\ delivery[a] \in Delivery
  BY DEF Inv, WatchersOK
<1> DEFINE Goal ==
      /\ delivery'[a].request = delivery[a].request
      /\ \/ delivery[a].at = "replying" /\ delivery'[a].verdict = delivery[a].verdict
         \/ delivery'[a].verdict = "error"
         \/ /\ delivery[a].request.ask.kind = "respond" /\ UNCHANGED journal
            /\ delivery'[a].verdict = Decision(Runner(a), delivery[a].request.ask.event)
         \/ RunnerWrites(a)
<1>2. CASE delivery'[a] = delivery[a]
  BY <1>2
<1>3. ASSUME NEW record, Delivers(a, record)
      PROVE  delivery'[a] = record
  BY <1>1, <1>3 DEF Delivers
<1>4. ASSUME NEW verdict, Replies(a, verdict)
      PROVE  delivery'[a].request = delivery[a].request /\ delivery'[a].verdict = verdict
  <2>1. delivery'[a] = [delivery[a] EXCEPT !.at = "replying", !.verdict = verdict, !.head = 0]
    BY <1>3, <1>4 DEF Replies
  <2> QED
    BY <1>1, <2>1 DEF Delivery
<1>5. CASE RunnerDecides(a)
  <2> DEFINE ready == [delivery[a] EXCEPT !.at = "prepared", !.head = HeadOf(Runner(a))]
  <2>1. \/ Delivers(a, ready)
        \/ Replies(a, "error")
        \/ /\ delivery[a].request.ask.kind = "respond"
           /\ Replies(a, Decision(Runner(a), delivery[a].request.ask.event))
    BY <1>5 DEF RunnerDecides
  <2>2. ready.at = "prepared"
    BY <1>1 DEF Delivery
  <2>3. UNCHANGED journal
    BY <1>5 DEF RunnerDecides, store
  <2> HIDE DEF ready
  <2> QED
    BY <1>3, <1>4, <2>1, <2>2, <2>3
<1>6. CASE RunnerCommits(a)
  <2> DEFINE again == [delivery[a] EXCEPT !.at = "deciding", !.head = 0]
  <2>1. \/ Delivers(a, again)
        \/ Replies(a, "error")
        \/ Replies(a, "ok") /\ journal' # journal
    <3>1. ASSUME NEW entry, journal' = Append(journal, entry)
          PROVE  journal' # journal
      BY <3>1, NewEntry DEF Inv
    <3>2. ASSUME NEW p, NEW event, NEW asked, Adds(p, "resolved", event, asked)
          PROVE  journal' # journal
      BY <3>1, <3>2 DEF Adds, Appends
    <3>3. ASSUME NEW p, NEW target, NEW asked, MovesHead(p, target, asked)
          PROVE  journal' # journal
      BY <3>1, <3>3 DEF MovesHead, Appends
    <3> QED
      BY <1>6, <3>2, <3>3 DEF RunnerCommits
  <2>2. again.at = "deciding"
    BY <1>1 DEF Delivery
  <2> HIDE DEF again
  <2>3. CASE Replies(a, "ok") /\ journal' # journal
    <3>1. RunnerWrites(a)
      <4>1. ASSUME NEW c \in Call, HostWrites(c)
            PROVE  FALSE
        <5>1. delivery'[a].at = "prepared"
          BY <1>6, <4>1 DEF HostWrites, RunnerCommits
        <5> QED
          BY <5>1
      <4>2. ASSUME NEW b \in Attempt, RunnerWrites(b)
            PROVE  a = b
        BY <1>6, <4>2 DEF RunnerWrites, RunnerCommits
      <4>3. ~WorksOn
        BY <1>6 DEF WorksOn, RunnerCommits
      <4> QED
        BY <2>3, <4>1, <4>2, <4>3, WhoWrites
    <3> QED
      BY <3>1 DEF RunnerWrites
  <2> QED
    BY <1>3, <1>4, <2>1, <2>2, <2>3
<1>7. CASE RunnerLists(a) \/ RunnerCloses(a)
  <2>1. \E batch : Delivers(a, [delivery[a] EXCEPT !.batch = batch])
    BY <1>7 DEF RunnerLists, RunnerCloses
  <2> QED
    BY <1>1, <1>3, <2>1 DEF Delivery
<1>8. CASE RunnerTakes(a)
  <2>1. delivery[a].at = "idle"
    BY <1>8 DEF RunnerTakes
  <2>2. delivery'[a].at # "replying"
    BY <2>1, WatcherStep DEF WatcherSteps, Idles, Lists, Takes, Keeps
  <2> QED
    BY <2>2
<1>9. CASE RunnerReplies(a) \/ RunnerDiscards(a)
  <2>1. \/ Delivers(a, [delivery[a] EXCEPT !.at = "replied", !.verdict = "none"])
        \/ Delivers(a, [delivery[a] EXCEPT !.at = "idle", !.request = Nothing])
    BY <1>9 DEF RunnerReplies, RunnerDiscards
  <2>2. \/ delivery'[a] = [delivery[a] EXCEPT !.at = "replied", !.verdict = "none"]
        \/ delivery'[a] = [delivery[a] EXCEPT !.at = "idle", !.request = Nothing]
    BY <1>3, <2>1
  <2>3. delivery'[a].at # "replying"
    BY <1>1, <2>2 DEF Delivery
  <2> QED
    BY <2>3
<1>10. CASE Runs(a) /\ ~RunnerCloses(a)
  <2>1. UNCHANGED delivery \/ Delivers(a, IdleDelivery)
    BY <1>10 DEF Runs, RunnerOpens, RunnerWorks, RunnerClosed, RunnerDies
  <2> QED
    BY <1>2, <1>3, <2>1 DEF IdleDelivery
<1>11. ASSUME NEW b \in Attempt, b # a, Watches(b) \/ Runs(b)
       PROVE  delivery'[a] = delivery[a]
  <2>1. UNCHANGED delivery \/ \E record : Delivers(b, record)
    BY <1>11 DEF Watches, RunnerLists, RunnerTakes, RunnerDecides, RunnerCommits, RunnerReplies, RunnerDiscards,
                 Runs, RunnerOpens, RunnerWorks, RunnerCloses, RunnerClosed, RunnerDies, Replies
  <2> QED
    BY <1>1, <1>11, <2>1 DEF Delivers
<1>12. ASSUME NEW c \in Call, HostAsks(c) \/ Continues(c) \/ HostDies(c)
       PROVE  UNCHANGED delivery
  BY <1>12 DEF Continues, HostPublishes, HostHears, HostAbandons, HostTimesOut, Abandons, HostFallsBack,
               HostOpens, HostDecides, HostCommits, HostCloses, HostPatches, HostAsks, HostDies
<1>13. CASE HeartbeatAges \/ RunStarts \/ StopIsAsked
  BY <1>2, <1>13 DEF HeartbeatAges, RunStarts, StopIsAsked
<1> QED
  BY <1>2, <1>5, <1>6, <1>7, <1>8, <1>9, <1>10, <1>11, <1>12, <1>13 DEF Next, Watches, Runs

(* A call is told what a runner published, or what it finds out itself. *)
LEMMA AnswerGiven ==
  ASSUME Inv, CarriedOK, VouchedOK, Next, NEW answer \in answers', answer \notin answers
  PROVE  Vouched(answer.verdict, answer)
<1>1. PICK c \in Call : Continues(c)
  <2>1. ASSUME NEW a \in Attempt, Watches(a) \/ Runs(a)
        PROVE  UNCHANGED answers
    BY <2>1 DEF Watches, RunnerLists, RunnerTakes, RunnerDecides, RunnerCommits, RunnerReplies, RunnerDiscards,
                Runs, RunnerOpens, RunnerWorks, RunnerCloses, RunnerClosed, RunnerDies
  <2>2. ASSUME NEW c \in Call, HostAsks(c) \/ HostDies(c)
        PROVE  UNCHANGED answers
    BY <2>2 DEF HostAsks, HostDies
  <2> QED
    BY <2>1, <2>2 DEF Next, HeartbeatAges, RunStarts, StopIsAsked
<1> DEFINE r == host[c].request
           Tells(verdict) == /\ answer.verdict = verdict /\ answer.id = r.id /\ answer.ask = r.ask
<1>2. ASSUME NEW verdict, Told(c, verdict)
      PROVE  Tells(verdict)
  BY <1>2 DEF Told
<1>3. ASSUME NEW verdict, Tells(verdict), Vouched(verdict, r)
      PROVE  Vouched(answer.verdict, answer)
  BY <1>3 DEF Vouched, Granted, Refused
<1>4. CASE HostHears(c)
  <2>1. PICK result \in results : result.id = r.id /\ Told(c, result.verdict)
    BY <1>4 DEF HostHears
  <2>2. Held(c) /\ r.id = c
    BY <1>4 DEF HostHears, Held, CarriedOK
  <2>3. Vouched(result.verdict, r)
    BY <2>1, <2>2 DEF VouchedOK
  <2> QED
    BY <1>2, <1>3, <2>1, <2>3
<1>5. CASE HostFallsBack(c) \/ HostOpens(c) \/ HostCommits(c)
  <2>1. Told(c, "error")
    BY <1>5 DEF HostFallsBack, HostOpens, HostCommits
  <2> QED
    BY <1>2, <1>3, <2>1 DEF Vouched
<1>6. CASE HostDecides(c)
  <2>1. CASE r.ask.kind = "respond"
    <3>1. Told(c, Decision(Caller(c), r.ask.event))
      BY <1>6, <2>1 DEF HostDecides
    <3>2. Vouched(Decision(Caller(c), r.ask.event), r)
      BY <2>1, DecisionVouched, WriterNames DEF Inv
    <3> QED
      BY <1>2, <1>3, <3>1, <3>2
  <2>2. CASE r.ask.kind # "respond"
    <3>1. Told(c, "stale")
      BY <1>6, <2>2 DEF HostDecides
    <3> QED
      BY <1>2, <1>3, <3>1 DEF Vouched
  <2> QED
    BY <2>1, <2>2
<1>7. CASE HostCloses(c) \/ HostPatches(c)
  <2>1. Told(c, "ok") /\ host[c].at \in {"closing", "patching"}
    BY <1>7 DEF HostCloses, HostPatches
  <2>2. Vouched("ok", r)
    BY <2>1 DEF VouchedOK, Vouched
  <2> QED
    BY <1>2, <1>3, <2>1, <2>2
<1>8. CASE HostPublishes(c) \/ HostAbandons(c) \/ HostTimesOut(c)
  BY <1>8 DEF HostPublishes, HostAbandons, HostTimesOut, Abandons
<1> QED
  BY <1>1, <1>4, <1>5, <1>6, <1>7, <1>8 DEF Continues

(* A call that finishes what it wrote has written it. *)
LEMMA CallFinishes ==
  ASSUME Inv, Next, NEW c \in Call, host'[c].at \in {"closing", "patching"}
  PROVE  /\ host'[c].request = host[c].request
         /\ host[c].at \in {"closing", "patching"} \/ HostWrites(c)
<1>1. host \in [Call -> HostRecord] /\ host[c] \in HostRecord
  BY DEF Inv, CallsOK
<1>2. CASE host'[c] = host[c]
  BY <1>2
<1>3. CASE HostCommits(c)
  <2>1. host[c].at = "prepared" /\ host'[c].at = "closing" /\ journal' # journal
    <3>1. At(c, "closing") /\ host[c].at = "prepared"
      BY <1>1, <1>3 DEF HostCommits, At, Told, Returned, HostRecord
    <3>2. /\ host[c].request.ask.kind = "respond" => Adds(Caller(c), "resolved", host[c].request.ask.event, host[c].request.id)
          /\ host[c].request.ask.kind # "respond" => MovesHead(Caller(c), host[c].request.ask.target, host[c].request.id)
      BY <1>1, <1>3, <3>1 DEF HostCommits, At, Told, Returned, HostRecord
    <3>3. \E entry : journal' = Append(journal, entry)
      BY <3>2 DEF Adds, MovesHead, Appends
    <3> QED
      BY <1>1, <3>1, <3>3, NewEntry DEF At, HostRecord, Inv
  <2>2. ASSUME NEW d \in Call, HostWrites(d)
        PROVE  d = c
    BY <2>1, <2>2 DEF HostWrites
  <2>3. ~WorksOn /\ \A a \in Attempt : ~RunnerWrites(a)
    BY <2>1 DEF WorksOn, RunnerWrites
  <2> QED
    BY <2>1, <2>2, <2>3, WhoWrites DEF HostWrites
<1>4. CASE HostCloses(c)
  BY <1>1, <1>4 DEF HostCloses, At, Told, Returned, HostRecord
<1>5. CASE HostAsks(c)
  BY <1>5, CallAsks
<1>6. CASE HostDies(c)
  BY <1>1, <1>6 DEF HostDies, Returned
<1>7. CASE HostPublishes(c) \/ HostAbandons(c) \/ HostTimesOut(c) \/ HostFallsBack(c)
  BY <1>1, <1>7 DEF HostPublishes, HostAbandons, HostTimesOut, Abandons, HostFallsBack, Told, Returned, At, HostRecord
<1>8. CASE HostHears(c) \/ HostOpens(c) \/ HostDecides(c) \/ HostPatches(c)
  BY <1>1, <1>8 DEF HostHears, HostOpens, HostDecides, HostPatches, Told, Returned, At, HostRecord
<1>9. ASSUME NEW d \in Call, d # c, HostAsks(d) \/ Continues(d) \/ HostDies(d)
      PROVE  host'[c] = host[c]
  BY <1>1, <1>9 DEF Continues, HostPublishes, HostHears, HostAbandons, HostTimesOut, Abandons,
                    HostFallsBack, HostOpens, HostDecides, HostCommits, HostCloses, HostPatches, HostAsks, HostDies,
                    At, Told
<1>10. ASSUME NEW a \in Attempt, Watches(a) \/ Runs(a)
       PROVE  UNCHANGED host
  BY <1>10 DEF Watches, RunnerLists, RunnerTakes, RunnerDecides, RunnerCommits, RunnerReplies, RunnerDiscards,
               Runs, RunnerOpens, RunnerWorks, RunnerCloses, RunnerClosed, RunnerDies
<1>11. CASE HeartbeatAges \/ RunStarts \/ StopIsAsked
  BY <1>2, <1>11 DEF HeartbeatAges, RunStarts, StopIsAsked
<1> QED
  BY <1>2, <1>3, <1>4, <1>5, <1>6, <1>7, <1>8, <1>9, <1>10, <1>11 DEF Next, Continues

LEMMA VouchedStep ==
  ASSUME Inv, CarriedOK, VouchedOK, Next
  PROVE  VouchedOK'
<1>1. JournalOK /\ JournalOK' /\ SeenOK /\ Grown
  BY JournalStep DEF Inv
<1>2. ASSUME NEW a \in Attempt, delivery'[a].at = "replying"
      PROVE  Vouched(delivery[a].verdict, delivery[a].request)'
  <2> DEFINE r == delivery[a].request
  <2>1. CASE delivery[a].at = "replying" /\ delivery'[a].verdict = delivery[a].verdict
    <3>1. Vouched(delivery[a].verdict, r)
      BY <2>1 DEF VouchedOK
    <3>2. delivery'[a].request = r
      BY <1>2, VerdictReached
    <3>3. \A i \in 1 .. Len(journal) : i \in 1 .. Len(journal') /\ journal'[i] = journal[i]
      BY <1>1 DEF JournalOK, Grown
    <3> HIDE DEF r
    <3> QED
      BY <2>1, <3>1, <3>2, <3>3 DEF Vouched, Granted, Refused
  <2>2. CASE delivery'[a].verdict = "error"
    BY <2>2 DEF Vouched
  <2>3. CASE /\ r.ask.kind = "respond" /\ UNCHANGED journal
             /\ delivery'[a].verdict = Decision(Runner(a), r.ask.event)
    <3>1. Vouched(Decision(Runner(a), r.ask.event), r)
      BY <1>1, <2>3, DecisionVouched, WriterNames
    <3>2. delivery'[a].request = r
      BY <1>2, VerdictReached
    <3> QED
      BY <2>3, <3>1, <3>2 DEF Vouched, Granted, Refused
  <2>4. CASE RunnerWrites(a)
    <3>1. PICK entry : Wrote(entry, r) /\ r \in Request
      BY <2>4 DEF RunnerWrites, Inv, WatchersOK
    <3>2. Granted(r)' /\ delivery'[a].verdict = "ok"
      BY <1>1, <2>4, <3>1, WroteGrants DEF RunnerWrites, Granted
    <3> QED
      BY <2>4, <3>2 DEF Vouched, RunnerWrites
  <2> QED
    BY <1>2, <2>1, <2>2, <2>3, <2>4, VerdictReached
<1>3. ASSUME NEW result \in results', Held(result.id)'
      PROVE  Vouched(result.verdict, host[result.id].request)'
  <2>1. CASE result \in results
    <3>1. result.id \in Call /\ host[result.id].at # "idle"
      BY <2>1 DEF CarriedOK
    <3>2. Held(result.id) /\ host'[result.id].request = host[result.id].request
      BY <1>3, <3>1, CallStep, CallAsks DEF CallSteps, GoesOn, Held
    <3>3. Vouched(result.verdict, host[result.id].request)
      BY <2>1, <3>2 DEF VouchedOK
    <3>4. \A i \in 1 .. Len(journal) : i \in 1 .. Len(journal') /\ journal'[i] = journal[i]
      BY <1>1 DEF JournalOK, Grown
    <3> QED
      BY <3>2, <3>3, <3>4 DEF Vouched, Granted, Refused
  <2>2. ASSUME NEW a \in Attempt, RunnerReplies(a), result = [id |-> delivery[a].request.id, verdict |-> delivery[a].verdict]
        PROVE  Vouched(result.verdict, host[result.id].request)'
    <3>1. delivery[a].at = "replying" /\ delivery[a].request \in Request /\ UNCHANGED <<host, journal>>
      BY <2>2 DEF RunnerReplies, Inv, WatchersOK, store
    <3>2. Carried(delivery[a].request)
      BY <3>1 DEF Carried, Handles
    <3>3. host[result.id].request = delivery[a].request
      BY <1>3, <2>2, <3>1, <3>2 DEF CarriedOK, Held
    <3>4. Vouched(result.verdict, host[result.id].request)
      BY <2>2, <3>1, <3>3 DEF VouchedOK
    <3> QED
      BY <3>1, <3>4 DEF Vouched, Granted, Refused
  <2> QED
    BY <2>1, <2>2, ResultsStep
<1>4. ASSUME NEW c \in Call, host'[c].at \in {"closing", "patching"}
      PROVE  Granted(host[c].request)'
  <2>1. CASE host[c].at \in {"closing", "patching"}
    <3>1. Granted(host[c].request)
      BY <2>1 DEF VouchedOK
    <3> QED
      BY <1>1, <1>4, <3>1, VouchedStays, CallFinishes DEF Granted
  <2>2. CASE HostWrites(c)
    <3>1. PICK entry : Wrote(entry, host[c].request) /\ host[c].request \in Request
      BY <2>2 DEF HostWrites, Inv, CallsOK
    <3> QED
      BY <1>1, <2>2, <3>1, WroteGrants DEF HostWrites, Granted
  <2> QED
    BY <1>4, <2>1, <2>2, CallFinishes
<1>5. ASSUME NEW answer \in answers'
      PROVE  Vouched(answer.verdict, answer)'
  <2>1. Vouched(answer.verdict, answer)
    BY AnswerGiven DEF VouchedOK
  <2> QED
    BY <1>1, <2>1, VouchedStays DEF Vouched
<1> QED
  BY <1>2, <1>3, <1>4, <1>5 DEF VouchedOK

-----------------------------------------------------------------------------
LEMMA RInvStep == RInv /\ [Next]_vars => RInv'
<1>1. ASSUME RInv, Next
      PROVE  RInv'
  BY <1>1, InvStep, CarriedStep, VouchedStep, AttemptsStep, MovesStep, AnswersStep, OnceStep DEF RInv
<1>2. ASSUME RInv, UNCHANGED vars
      PROVE  RInv'
  <2>1. Inv'
    BY <1>2, InvStep DEF RInv
  <2>2. CarriedOK' /\ AttemptsOK'
    BY <1>2 DEF RInv, vars, store, mailbox, CarriedOK, AttemptsOK, Carried, Handles, Held
  <2>3. VouchedOK'
    BY <1>2 DEF RInv, vars, store, mailbox, VouchedOK, Vouched, Granted, Refused, Held
  <2>4. MovesOK'
    BY <1>2 DEF RInv, vars, store, mailbox, MovesOK, Undone, Written
  <2>5. AnswersOK' /\ OnceOK'
    BY <1>2 DEF RInv, vars, store, mailbox, AnswersOK, OnceOK, Carried, Handles, Held, Moved
  <2> QED
    BY <2>1, <2>2, <2>3, <2>4, <2>5 DEF RInv
<1> QED
  BY <1>1, <1>2

LEMMA RInvGives == RInv => EachMoveCommitsOnce /\ AcknowledgedIsDurable /\ RetryIsNoConflict
<1> SUFFICES ASSUME RInv PROVE EachMoveCommitsOnce /\ AcknowledgedIsDurable /\ RetryIsNoConflict
  OBVIOUS
<1>1. DOMAIN journal = 1 .. Len(journal)
  BY DEF RInv, Inv, JournalOK
<1>2. EachMoveCommitsOnce
  BY <1>1 DEF RInv, OnceOK, EachMoveCommitsOnce
<1>3. RetryIsNoConflict
  BY <1>1 DEF RInv, VouchedOK, Vouched, Refused, RetryIsNoConflict
<1>4. AcknowledgedIsDurable
  BY <1>1 DEF RInv, VouchedOK, Vouched, Granted, AcknowledgedIsDurable
<1> QED
  BY <1>2, <1>3, <1>4

(* A rewind of a host is in the journal at most once: a request that a      *)
(* runner took and did not discard before it died is dropped by the runner  *)
(* of the next attempt (runner_control.ts, the attempt of the request).     *)
THEOREM SpecEachMoveCommitsOnce == Spec => []EachMoveCommitsOnce
  BY InitRInv, RInvStep, RInvGives, PTL DEF Spec

(* A host that is told ok has its answer or its rewind in the journal,      *)
(* whichever process wrote it and whatever became of that process.          *)
THEOREM SpecAcknowledgedIsDurable == Spec => []AcknowledgedIsDurable
  BY InitRInv, RInvStep, RInvGives, PTL DEF Spec

(* A host that is told of a conflict was beaten by another answer: the same *)
(* answer given twice is not refused (prepareUserInteractionCommit).        *)
THEOREM SpecRetryIsNoConflict == Spec => []RetryIsNoConflict
  BY InitRInv, RInvStep, RInvGives, PTL DEF Spec

-----------------------------------------------------------------------------
(* Type correctness: the journal stays within the bound of Index.  Each     *)
(* call writes one entry through a runner and one by itself, and whoever    *)
(* has written may not write for the call again: the calls that may still   *)
(* write are used up as the journal grows.                                  *)

HostMayWrite == {c \in Call : host[c].at \notin {"closing", "patching", "over"}}
Pending(r) ==
  \/ Undone(r.attempt, r)
  \/ /\ r \in requests /\ runner[r.attempt] \notin {"closing", "gone"}
     /\ ~(delivery[r.attempt].at \in {"replying", "replied"} /\ delivery[r.attempt].request = r)
Unserved(c) == host[c].at \in {"idle", "publishing"} \/ \E r \in Request : r.id = c /\ Pending(r)
RunnerMayWrite == {c \in Call : Unserved(c)}
BudgetOK ==
  /\ Len(journal) + Cardinality(RunnerMayWrite) + Cardinality(HostMayWrite)
       <= 2 + Cardinality(WorkDone) + 2 * MaxCalls
  /\ Cardinality(WorkDone) <= MaxWork

(* What watchers and hosts have at hand. *)
HandOK ==
  \A a \in Attempt :
    /\ delivery[a].head \in 0 .. Len(journal)
    /\ delivery[a].at = "replying" => delivery[a].verdict \in Verdict
ToldOK ==
  /\ results \subseteq [id : Call, verdict : Verdict]
  /\ answers \subseteq [id : Call, ask : Asked, verdict : Verdict]
  /\ writers \subseteq Writer /\ deaths \in 0 .. MaxDeaths

TInv == RInv /\ BudgetOK /\ HandOK /\ ToldOK

LEMMA FiniteWriters ==
  /\ IsFiniteSet(Call) /\ Cardinality(Call) = MaxCalls
  /\ IsFiniteSet(HostMayWrite) /\ IsFiniteSet(RunnerMayWrite)
  /\ Cardinality(HostMayWrite) \in Nat /\ Cardinality(RunnerMayWrite) \in Nat
  /\ Cardinality(HostMayWrite) <= MaxCalls /\ Cardinality(RunnerMayWrite) <= MaxCalls
<1>1. IsFiniteSet(Call) /\ Cardinality(Call) = MaxCalls
  BY ControlAssumption, FS_Interval DEF Call
<1>2. HostMayWrite \subseteq Call /\ RunnerMayWrite \subseteq Call
  BY DEF HostMayWrite, RunnerMayWrite
<1>3. ASSUME NEW S \in SUBSET Call
      PROVE  IsFiniteSet(S) /\ Cardinality(S) \in Nat /\ Cardinality(S) <= MaxCalls
  BY <1>1, FS_Subset, FS_CardinalityType
<1> QED
  BY <1>1, <1>2, <1>3

LEMMA FiniteWork ==
  ASSUME JournalOK
  PROVE  IsFiniteSet(WorkDone) /\ Cardinality(WorkDone) \in Nat
<1>1. IsFiniteSet(1 .. Len(journal))
  BY FS_Interval DEF JournalOK
<1> QED
  BY <1>1, FS_Subset, FS_CardinalityType DEF WorkDone

LEMMA InitTInv == Init => TInv
<1> SUFFICES ASSUME Init PROVE TInv
  OBVIOUS
<1>1. RInv
  BY InitRInv
<1>2. Len(journal) = 2
  BY DEF Init, Opening, Own
<1>3. BudgetOK
  <2>1. WorkDone = {}
    BY <1>2 DEF WorkDone
  <2>2. Cardinality(WorkDone) = 0
    BY <2>1, FS_EmptySet
  <2> QED
    BY <1>2, <2>2, FiniteWriters, ControlAssumption DEF BudgetOK
<1>4. HandOK
  BY <1>2 DEF Init, HandOK, IdleDelivery
<1>5. ToldOK
  BY ControlAssumption DEF Init, ToldOK
<1> QED
  BY <1>1, <1>3, <1>4, <1>5 DEF TInv

-----------------------------------------------------------------------------
(* A call that has written, or come back, does not write again. *)
LEMMA HostsUsedUp ==
  ASSUME Inv, Next
  PROVE  HostMayWrite' \subseteq HostMayWrite
<1> SUFFICES ASSUME NEW c \in Call, host[c].at \in {"closing", "patching", "over"}
             PROVE  host'[c].at \in {"closing", "patching", "over"}
  BY DEF HostMayWrite
<1>1. host \in [Call -> HostRecord] /\ host[c] \in HostRecord
  BY DEF Inv, CallsOK
<1>2. CASE host'[c] = host[c]
  BY <1>2
<1>3. CASE HostCloses(c)
  BY <1>1, <1>3 DEF HostCloses, Told, Returned, At, HostRecord
<1>4. CASE HostPatches(c)
  BY <1>1, <1>4 DEF HostPatches, Told, Returned
<1>5. CASE HostDies(c)
  BY <1>1, <1>5 DEF HostDies, Returned
<1>6. ASSUME NEW d \in Call, d # c, HostAsks(d) \/ Continues(d) \/ HostDies(d)
      PROVE  host'[c] = host[c]
  BY <1>1, <1>6 DEF Continues, HostPublishes, HostHears, HostAbandons, HostTimesOut, Abandons,
                    HostFallsBack, HostOpens, HostDecides, HostCommits, HostCloses, HostPatches, HostAsks, HostDies,
                    At, Told
<1>7. ASSUME NEW a \in Attempt, Watches(a) \/ Runs(a)
      PROVE  UNCHANGED host
  BY <1>7 DEF Watches, RunnerLists, RunnerTakes, RunnerDecides, RunnerCommits, RunnerReplies, RunnerDiscards,
              Runs, RunnerOpens, RunnerWorks, RunnerCloses, RunnerClosed, RunnerDies
<1>8. CASE HeartbeatAges \/ RunStarts \/ StopIsAsked
  BY <1>8 DEF HeartbeatAges, RunStarts, StopIsAsked
<1>9. ~(HostAsks(c) \/ HostPublishes(c) \/ HostHears(c) \/ HostAbandons(c) \/ HostTimesOut(c) \/ HostFallsBack(c)
        \/ HostOpens(c) \/ HostDecides(c) \/ HostCommits(c))
  BY DEF HostAsks, HostPublishes, HostHears, HostAbandons, HostTimesOut, Abandons, HostFallsBack, HostOpens,
         HostDecides, HostCommits
<1> QED
  BY <1>2, <1>3, <1>4, <1>5, <1>6, <1>7, <1>8, <1>9 DEF Next, Continues

(* A request that a runner may still commit was such before, or its call    *)
(* had yet to publish it.                                                   *)
LEMMA PendingStep ==
  ASSUME Inv, CarriedOK, AttemptsOK, Next, NEW r \in Request, Pending(r)'
  PROVE  Unserved(r.id)
<1> DEFINE b == r.attempt
<1>1. b \in Attempt /\ r.id \in Call
  BY DEF Request
<1>2. CASE Undone(b, r)'
  <2>1. \/ Undone(b, r)
        \/ r \in requests /\ runner[b] \in Serving /\ delivery[b].at = "idle"
    BY <1>1, <1>2, WatcherStep DEF WatcherSteps, Idles, Lists, Takes, Keeps, Undone
  <2>2. Pending(r)
    BY <2>1 DEF Pending, Serving
  <2> QED
    BY <2>2 DEF Unserved
<1>3. CASE r \in requests' /\ r \in requests /\ ~Undone(b, r)'
  <2>1. runner'[b] \notin {"closing", "gone"}
    BY <1>3 DEF Pending
  <2>2. runner[b] \notin {"closing", "gone"}
    BY <1>1, <2>1, RunnerStep
  <2>3. ASSUME delivery[b].at \in {"replying", "replied"}, delivery[b].request = r
        PROVE  FALSE
    <3>1. delivery'[b].at \in {"idle", "deciding", "prepared", "replying", "replied"}
      BY <1>1, WatchersStep DEF WatchersOK, Delivery
    <3>2. runner' = [runner EXCEPT ![b] = "gone"] => runner'[b] = "gone"
      BY <1>1 DEF AttemptsOK
    <3>3. delivery'[b].at \in {"replying", "replied"} /\ delivery'[b].request = r
      BY <1>1, <1>3, <2>1, <2>3, <3>1, <3>2, WatcherStep DEF WatcherSteps, Idles, Lists, Takes, Keeps
    <3> QED
      BY <1>3, <3>3 DEF Pending
  <2>4. Pending(r)
    BY <1>3, <2>2, <2>3 DEF Pending
  <2> QED
    BY <2>4 DEF Unserved
<1>4. ASSUME NEW c \in Call, HostPublishes(c), r = host[c].request
      PROVE  Unserved(r.id)
  <2>1. host[c].at = "publishing" /\ r.id = c
    BY <1>4 DEF HostPublishes, CarriedOK, Held
  <2> QED
    BY <2>1 DEF Unserved
<1> QED
  BY <1>2, <1>3, <1>4, MailboxStep DEF Pending, HostPublishes

LEMMA RunnersUsedUp ==
  ASSUME Inv, CarriedOK, AttemptsOK, Next
  PROVE  RunnerMayWrite' \subseteq RunnerMayWrite
<1> SUFFICES ASSUME NEW c \in Call, Unserved(c)'
             PROVE  Unserved(c)
  BY DEF RunnerMayWrite
<1>1. CASE host'[c].at \in {"idle", "publishing"}
  <2>1. host[c].at \in {"idle", "publishing"}
    BY <1>1, CallStep DEF CallSteps, GoesOn, Held, HostAsks
  <2> QED
    BY <2>1 DEF Unserved
<1>2. ASSUME NEW r \in Request, r.id = c, Pending(r)'
      PROVE  Unserved(c)
  BY <1>2, PendingStep
<1> QED
  BY <1>1, <1>2 DEF Unserved

(* Whoever writes for a call was one that may, and is one no more. *)
LEMMA RunnerUsed ==
  ASSUME Inv, CarriedOK, AttemptsOK, Next, NEW a \in Attempt, RunnerWrites(a)
  PROVE  \E c \in RunnerMayWrite : c \notin RunnerMayWrite'
<1>1. PICK q \in Request : q = delivery[a].request
  BY DEF RunnerWrites, Inv, WatchersOK
<1>2. q.attempt = a /\ q.id \in Call /\ Carried(q) /\ Undone(a, q) /\ q \notin delivery[a].batch
  BY <1>1 DEF RunnerWrites, AttemptsOK, Carried, Handles, Undone, Request
<1>3. q.id \in RunnerMayWrite
  BY <1>2 DEF RunnerMayWrite, Unserved, Pending
<1>4. host'[q.id].at \notin {"idle", "publishing"}
  BY <1>2 DEF CarriedOK, RunnerWrites
<1>5. delivery'[a].at = "replying" /\ delivery'[a].request = q /\ q \notin delivery'[a].batch
  BY <1>1, <1>2 DEF RunnerWrites
<1>6. ASSUME NEW r \in Request, r.id = q.id, Pending(r)'
      PROVE  FALSE
  <2>1. Carried(r)'
    <3>1. r.attempt \in Attempt
      BY DEF Request
    <3> QED
      BY <1>6, <3>1 DEF Pending, Undone, Carried, Handles
  <2>2. Carried(q)'
    BY <1>5 DEF Carried, Handles
  <2>3. r = q
    BY <1>6, <2>1, <2>2, CarriedStep DEF CarriedOK
  <2> QED
    BY <1>2, <1>5, <1>6, <2>3 DEF Pending, Undone
<1>7. q.id \notin RunnerMayWrite'
  BY <1>4, <1>6 DEF RunnerMayWrite, Unserved
<1> QED
  BY <1>3, <1>7
LEMMA HostUsed ==
  ASSUME NEW c \in Call, HostWrites(c)
  PROVE  c \in HostMayWrite /\ c \notin HostMayWrite'
  BY DEF HostWrites, HostMayWrite

(* An entry that is no work of the chart leaves that work as it is. *)
LEMMA WorkStays ==
  ASSUME JournalOK, NEW entry, journal' = Append(journal, entry)
  PROVE  /\ entry.kind \notin {"worked", "closed"} => WorkDone' = WorkDone
         /\ entry.kind \in {"worked", "closed"} => WorkDone' = WorkDone \cup {Len(journal) + 1}
         /\ Len(journal) + 1 \notin WorkDone
<1>1. /\ Len(journal) \in Nat /\ Len(journal) >= 2 /\ Len(journal') = Len(journal) + 1
      /\ \A i \in 1 .. Len(journal) : journal'[i] = journal[i]
      /\ journal'[Len(journal) + 1] = entry
  BY NewEntry DEF JournalOK
<1>2. 1 .. Len(journal') = (1 .. Len(journal)) \cup {Len(journal) + 1}
  BY <1>1
<1>3. Len(journal) + 1 \notin 1 .. Len(journal) /\ Len(journal) + 1 > 2
  BY <1>1
<1> QED
  BY <1>1, <1>2, <1>3 DEF WorkDone

LEMMA BudgetStep ==
  ASSUME Inv, CarriedOK, AttemptsOK, BudgetOK, Next
  PROVE  BudgetOK'
<1> DEFINE n == Len(journal)
           w == Cardinality(WorkDone)
           u == Cardinality(RunnerMayWrite)
           h == Cardinality(HostMayWrite)
<1>1. n \in Nat /\ w \in Nat /\ u \in Nat /\ h \in Nat /\ MaxCalls \in Nat /\ MaxWork \in Nat
  BY FiniteWriters, FiniteWork, ControlAssumption DEF Inv, JournalOK
<1>2. n + u + h <= 2 + w + 2 * MaxCalls /\ w <= MaxWork
  BY DEF BudgetOK
<1>3. JournalOK' /\ n' \in Nat /\ w' \in Nat /\ u' \in Nat /\ h' \in Nat
  <2>1. JournalOK'
    BY JournalStep
  <2>2. IsFiniteSet(HostMayWrite') /\ IsFiniteSet(RunnerMayWrite')
    BY FiniteWriters, FS_Subset, HostsUsedUp, RunnersUsedUp
  <2>3. IsFiniteSet(WorkDone') /\ n' \in Nat
    <3>1. n' \in Nat
      BY <2>1 DEF JournalOK
    <3>2. IsFiniteSet(1 .. n')
      BY <3>1, FS_Interval
    <3>3. WorkDone' \subseteq 1 .. n'
      BY DEF WorkDone
    <3> QED
      BY <3>1, <3>2, <3>3, FS_Subset
  <2> QED
    BY <2>1, <2>2, <2>3, FS_CardinalityType
<1>4. u' <= u /\ h' <= h
  BY HostsUsedUp, RunnersUsedUp, FiniteWriters, FS_Subset
<1>5. (\E c \in RunnerMayWrite : c \notin RunnerMayWrite') => u' < u
  BY RunnersUsedUp, FiniteWriters, FS_Subset, FS_CardinalityType, <1>1, <1>3
<1>6. (\E c \in HostMayWrite : c \notin HostMayWrite') => h' < h
  BY HostsUsedUp, FiniteWriters, FS_Subset, FS_CardinalityType, <1>1, <1>3
<1>7. SUFFICES n' + u' + h' <= 2 + w' + 2 * MaxCalls /\ w' <= MaxWork
  BY DEF BudgetOK
<1>8. ASSUME NEW r, NEW entry, Wrote(entry, r)
      PROVE  n' = n + 1 /\ w' = w
  BY <1>8, WorkStays, NewEntry DEF Wrote, Inv
<1>9. CASE UNCHANGED journal
  <2>1. n' = n /\ w' = w
    BY <1>9 DEF WorkDone
  <2> QED
    BY <1>1, <1>2, <1>3, <1>4, <2>1
<1>10. CASE WorksOn
  <2>1. PICK entry : journal' = Append(journal, entry) /\ entry.kind \in {"worked", "closed"}
    BY <1>10 DEF WorksOn
  <2>2. WorkDone' = WorkDone \cup {n + 1} /\ n + 1 \notin WorkDone /\ n' = n + 1
    BY <2>1, WorkStays, NewEntry DEF Inv
  <2>3. w' = w + 1
    BY <2>2, FiniteWork, FS_AddElement DEF Inv
  <2>4. w < MaxWork
    BY <1>10 DEF WorksOn
  <2> QED
    BY <1>1, <1>2, <1>3, <1>4, <2>2, <2>3, <2>4
<1>11. ASSUME NEW a \in Attempt, RunnerWrites(a)
       PROVE  n' + u' + h' <= 2 + w' + 2 * MaxCalls /\ w' <= MaxWork
  <2>1. u' < u
    BY <1>5, <1>11, RunnerUsed
  <2>2. n' = n + 1 /\ w' = w
    BY <1>8, <1>11 DEF RunnerWrites
  <2> QED
    BY <1>1, <1>2, <1>3, <1>4, <2>1, <2>2
<1>12. ASSUME NEW c \in Call, HostWrites(c)
       PROVE  n' + u' + h' <= 2 + w' + 2 * MaxCalls /\ w' <= MaxWork
  <2>1. h' < h
    BY <1>6, <1>12, HostUsed
  <2>2. n' = n + 1 /\ w' = w
    BY <1>8, <1>12 DEF HostWrites
  <2> QED
    BY <1>1, <1>2, <1>3, <1>4, <2>1, <2>2
<1> QED
  BY <1>9, <1>10, <1>11, <1>12, WhoWrites

-----------------------------------------------------------------------------
(* A watcher holds a head that the journal has, and a verdict to reply. *)
LEMMA HandStep ==
  ASSUME Inv, HandOK, Next
  PROVE  HandOK'
<1>1. /\ delivery \in [Attempt -> Delivery] /\ Len(journal) \in Nat /\ Len(journal') \in Nat
      /\ Len(journal') >= Len(journal)
  BY JournalStep DEF Inv, WatchersOK, JournalOK, Grown
<1> SUFFICES ASSUME NEW a \in Attempt
             PROVE  /\ delivery'[a].head \in 0 .. Len(journal')
                    /\ delivery'[a].at = "replying" => delivery'[a].verdict \in Verdict
  BY DEF HandOK
<1>2. /\ delivery[a].head \in 0 .. Len(journal) /\ delivery[a].head \in 0 .. Len(journal')
      /\ delivery[a].at = "replying" => delivery[a].verdict \in Verdict
  BY <1>1 DEF HandOK
<1> DEFINE Good == /\ delivery'[a].head \in 0 .. Len(journal')
                   /\ delivery'[a].at = "replying" => delivery'[a].verdict \in Verdict
<1>3. CASE delivery'[a] = delivery[a]
  BY <1>2, <1>3
<1>4. ASSUME NEW record, Delivers(a, record), record.head \in 0 .. Len(journal'),
             record.at = "replying" => record.verdict \in Verdict
      PROVE  Good
  BY <1>1, <1>4 DEF Delivers
<1>5. ASSUME NEW verdict \in Verdict, Replies(a, verdict)
      PROVE  Good
  <2> DEFINE record == [delivery[a] EXCEPT !.at = "replying", !.verdict = verdict, !.head = 0]
  <2>1. Delivers(a, record)
    BY <1>5 DEF Replies
  <2>2. record.head = 0 /\ record.verdict = verdict
    BY <1>1 DEF Delivery
  <2> HIDE DEF record
  <2> QED
    BY <1>1, <1>4, <2>1, <2>2
<1>6. ASSUME NEW b \in Attempt, b # a, Watches(b) \/ Runs(b)
      PROVE  Good
  <2>1. UNCHANGED delivery \/ \E record : Delivers(b, record)
    BY <1>6 DEF Watches, RunnerLists, RunnerTakes, RunnerDecides, RunnerCommits, RunnerReplies, RunnerDiscards,
                Runs, RunnerOpens, RunnerWorks, RunnerCloses, RunnerClosed, RunnerDies, Replies
  <2>2. delivery'[a] = delivery[a]
    BY <1>1, <1>6, <2>1 DEF Delivers
  <2> QED
    BY <1>3, <2>2
<1>7. CASE RunnerLists(a) \/ RunnerTakes(a) \/ RunnerDiscards(a)
  <2>1. delivery'[a].head = delivery[a].head /\ delivery'[a].at # "replying"
    BY <1>1, <1>7 DEF RunnerLists, RunnerTakes, RunnerDiscards, Delivers, Delivery
  <2> QED
    BY <1>2, <2>1
<1>8. CASE RunnerReplies(a)
  <2>1. delivery'[a].head = delivery[a].head /\ delivery'[a].at # "replying"
    BY <1>1, <1>8 DEF RunnerReplies, Delivers, Delivery
  <2> QED
    BY <1>2, <2>1
<1> DEFINE turned(stage, head) == [delivery[a] EXCEPT !.at = stage, !.head = head]
<1>9. ASSUME NEW stage \in {"deciding", "prepared"}, NEW head \in 0 .. Len(journal'), Delivers(a, turned(stage, head))
      PROVE  Good
  <2>1. turned(stage, head).at = stage /\ turned(stage, head).head = head
    BY <1>1 DEF Delivery
  <2> HIDE DEF turned
  <2> QED
    BY <1>4, <1>9, <2>1
<1>10. CASE RunnerDecides(a)
  <2>1. HeadOf(Runner(a)) \in 0 .. Len(journal')
    <3>1. HeadOf(Runner(a)) \in 1 .. Len(journal)
      BY HeadKnown, WriterNames DEF Inv
    <3> QED
      BY <1>1, <3>1
  <2>2. \/ Delivers(a, turned("prepared", HeadOf(Runner(a))))
        \/ Replies(a, "error")
        \/ /\ Replies(a, Decision(Runner(a), delivery[a].request.ask.event))
           /\ Decision(Runner(a), delivery[a].request.ask.event) # "none"
    BY <1>10 DEF RunnerDecides
  <2>3. Decision(Runner(a), delivery[a].request.ask.event) \in Verdict \cup {"none"}
    BY DEF Decision, Verdict
  <2> HIDE DEF turned
  <2> QED
    BY <1>5, <1>9, <2>1, <2>2, <2>3 DEF Verdict
<1>11. CASE RunnerCommits(a)
  <2>1. Delivers(a, turned("deciding", 0)) \/ Replies(a, "error") \/ Replies(a, "ok")
    BY <1>11 DEF RunnerCommits
  <2>2. 0 \in 0 .. Len(journal')
    BY <1>1
  <2> HIDE DEF turned
  <2> QED
    BY <1>5, <1>9, <2>1, <2>2 DEF Verdict
<1>12. CASE Runs(a)
  <2>1. \/ UNCHANGED delivery
        \/ Delivers(a, [delivery[a] EXCEPT !.batch = {}])
        \/ Delivers(a, IdleDelivery)
    BY <1>12 DEF Runs, RunnerOpens, RunnerWorks, RunnerCloses, RunnerClosed, RunnerDies
  <2>2. \/ delivery'[a].head = delivery[a].head /\ delivery'[a].at = delivery[a].at
           /\ delivery'[a].verdict = delivery[a].verdict
        \/ delivery'[a].head = 0 /\ delivery'[a].at = "idle"
    BY <1>1, <2>1 DEF Delivers, Delivery, IdleDelivery
  <2> QED
    BY <1>1, <1>2, <2>2
<1>13. ASSUME NEW c \in Call, HostAsks(c) \/ Continues(c) \/ HostDies(c)
       PROVE  UNCHANGED delivery
  BY <1>13 DEF Continues, HostPublishes, HostHears, HostAbandons, HostTimesOut, Abandons, HostFallsBack,
               HostOpens, HostDecides, HostCommits, HostCloses, HostPatches, HostAsks, HostDies
<1>14. CASE HeartbeatAges \/ RunStarts \/ StopIsAsked
  BY <1>3, <1>14 DEF HeartbeatAges, RunStarts, StopIsAsked
<1> QED
  BY <1>3, <1>6, <1>7, <1>8, <1>10, <1>11, <1>12, <1>13, <1>14 DEF Next, Watches

(* What a call is told is a verdict on the request it made. *)
LEMMA ToldStep ==
  ASSUME Inv, HandOK, ToldOK, Next
  PROVE  ToldOK'
<1>1. /\ results \subseteq [id : Call, verdict : Verdict]
      /\ answers \subseteq [id : Call, ask : Asked, verdict : Verdict]
      /\ writers \subseteq Writer /\ deaths \in 0 .. MaxDeaths /\ MaxDeaths \in Nat
  BY ControlAssumption DEF ToldOK
<1>2. results' \subseteq [id : Call, verdict : Verdict]
  <2>1. ASSUME NEW a \in Attempt, RunnerReplies(a)
        PROVE  [id |-> delivery[a].request.id, verdict |-> delivery[a].verdict] \in [id : Call, verdict : Verdict]
    BY <2>1 DEF RunnerReplies, HandOK, Inv, WatchersOK, Request
  <2> QED
    BY <1>1, <2>1, ResultsStep
<1>3. answers' \subseteq [id : Call, ask : Asked, verdict : Verdict]
  <2>1. ASSUME NEW c \in Call, NEW verdict \in Verdict, Told(c, verdict), host[c].request \in Request
        PROVE  answers' \subseteq [id : Call, ask : Asked, verdict : Verdict]
    <3>1. host[c].request.id \in Call /\ host[c].request.ask \in Asked
      BY <2>1 DEF Request
    <3> QED
      BY <1>1, <2>1, <3>1 DEF Told
  <2>2. ASSUME NEW c \in Call, Continues(c), host[c].request \in Request
        PROVE  UNCHANGED answers \/ \E verdict \in Verdict : Told(c, verdict)
    <3>1. CASE HostHears(c)
      BY <1>1, <3>1 DEF HostHears
    <3>2. CASE HostPublishes(c) \/ HostAbandons(c) \/ HostTimesOut(c)
      BY <3>2 DEF HostPublishes, HostAbandons, HostTimesOut, Abandons
    <3>3. CASE HostFallsBack(c) \/ HostOpens(c) \/ HostCloses(c) \/ HostPatches(c)
      BY <3>3 DEF HostFallsBack, HostOpens, HostCloses, HostPatches, Verdict
    <3>4. CASE HostDecides(c)
      <4>1. Decision(Caller(c), host[c].request.ask.event) \in Verdict \cup {"none"}
        BY DEF Decision, Verdict
      <4> QED
        BY <3>4, <4>1 DEF HostDecides, Verdict
    <3>5. CASE HostCommits(c)
      BY <3>5 DEF HostCommits, Verdict
    <3> QED
      BY <2>2, <3>1, <3>2, <3>3, <3>4, <3>5 DEF Continues
  <2>3. ASSUME NEW c \in Call, Continues(c)
        PROVE  host[c].request \in Request
    BY <2>3 DEF Continues, HostPublishes, HostHears, HostAbandons, HostTimesOut, Abandons, HostFallsBack,
                HostOpens, HostDecides, HostCommits, HostCloses, HostPatches, Inv, CallsOK
  <2>4. ASSUME NEW a \in Attempt, Watches(a) \/ Runs(a)
        PROVE  UNCHANGED answers
    BY <2>4 DEF Watches, RunnerLists, RunnerTakes, RunnerDecides, RunnerCommits, RunnerReplies, RunnerDiscards,
                Runs, RunnerOpens, RunnerWorks, RunnerCloses, RunnerClosed, RunnerDies
  <2>5. ASSUME NEW c \in Call, HostAsks(c) \/ HostDies(c)
        PROVE  UNCHANGED answers
    BY <2>5 DEF HostAsks, HostDies
  <2> QED
    BY <1>1, <2>1, <2>2, <2>3, <2>4, <2>5 DEF Next, HeartbeatAges, RunStarts, StopIsAsked
<1>4. writers' \subseteq Writer
  <2>1. ASSUME NEW a \in Attempt, Watches(a) \/ Runs(a)
        PROVE  writers' \subseteq writers \cup {Runner(a)}
    BY <2>1 DEF Watches, RunnerLists, RunnerTakes, RunnerDecides, RunnerCommits, RunnerReplies, RunnerDiscards,
                Runs, RunnerOpens, RunnerWorks, RunnerCloses, RunnerClosed, RunnerDies, store, Opens, Closes,
                Adds, Appends, MovesHead
  <2>2. ASSUME NEW c \in Call, HostAsks(c) \/ Continues(c) \/ HostDies(c)
        PROVE  writers' \subseteq writers \cup {Caller(c)}
    BY <2>2 DEF Continues, HostPublishes, HostHears, HostAbandons, HostTimesOut, Abandons, HostFallsBack,
                HostOpens, HostDecides, HostCommits, HostCloses, HostPatches, HostAsks, HostDies, store, Opens,
                Closes, Adds, Appends, MovesHead
  <2>3. CASE HeartbeatAges \/ RunStarts \/ StopIsAsked
    BY <1>1, <2>3 DEF HeartbeatAges, RunStarts, StopIsAsked, store
  <2> QED
    BY <1>1, <2>1, <2>2, <2>3, WriterNames DEF Next
<1>5. deaths' \in 0 .. MaxDeaths
  <2>1. ASSUME NEW a \in Attempt, Watches(a) \/ Runs(a)
        PROVE  deaths' = deaths \/ (deaths < MaxDeaths /\ deaths' = deaths + 1)
    BY <2>1 DEF Watches, RunnerLists, RunnerTakes, RunnerDecides, RunnerCommits, RunnerReplies, RunnerDiscards,
                Runs, RunnerOpens, RunnerWorks, RunnerCloses, RunnerClosed, RunnerDies
  <2>2. ASSUME NEW c \in Call, HostAsks(c) \/ Continues(c) \/ HostDies(c)
        PROVE  deaths' = deaths \/ (deaths < MaxDeaths /\ deaths' = deaths + 1)
    BY <2>2 DEF Continues, HostPublishes, HostHears, HostAbandons, HostTimesOut, Abandons, HostFallsBack,
                HostOpens, HostDecides, HostCommits, HostCloses, HostPatches, HostAsks, HostDies
  <2>3. CASE HeartbeatAges \/ RunStarts \/ StopIsAsked
    BY <1>1, <2>3 DEF HeartbeatAges, RunStarts, StopIsAsked
  <2> QED
    BY <1>1, <2>1, <2>2, <2>3 DEF Next
<1> QED
  BY <1>2, <1>3, <1>4, <1>5 DEF ToldOK

LEMMA TInvStep == TInv /\ [Next]_vars => TInv'
<1>1. ASSUME TInv, Next
      PROVE  TInv'
  BY <1>1, RInvStep, BudgetStep, HandStep, ToldStep DEF TInv, RInv
<1>2. ASSUME TInv, UNCHANGED vars
      PROVE  TInv'
  <2>1. RInv'
    BY <1>2, RInvStep DEF TInv
  <2>2. HandOK' /\ ToldOK'
    BY <1>2 DEF TInv, vars, store, mailbox, HandOK, ToldOK
  <2>3. HostMayWrite' = HostMayWrite /\ RunnerMayWrite' = RunnerMayWrite /\ WorkDone' = WorkDone /\ journal' = journal
    BY <1>2 DEF vars, store, mailbox, HostMayWrite, RunnerMayWrite, WorkDone, Unserved, Pending, Undone
  <2>4. BudgetOK'
    BY <1>2, <2>3 DEF TInv, BudgetOK
  <2> QED
    BY <2>1, <2>2, <2>4 DEF TInv
<1> QED
  BY <1>1, <1>2

LEMMA TInvGives == TInv => TypeOK
<1> SUFFICES ASSUME TInv PROVE TypeOK
  OBVIOUS
<1>1. /\ StatusOK /\ WatchersOK /\ CallsOK /\ JournalOK /\ SeenOK /\ AttemptsOK /\ BudgetOK /\ HandOK /\ ToldOK
  BY DEF TInv, RInv, Inv
<1>2. Len(journal) \in Nat /\ Len(journal) >= 2 /\ Len(journal) <= 2 + MaxWork + 2 * MaxCalls
  BY <1>1, FiniteWriters, FiniteWork, ControlAssumption DEF BudgetOK, JournalOK
<1>3. \A n \in 1 .. Len(journal) : n \in Index
  BY <1>2, ControlAssumption DEF Index
<1>4. Len(journal) \in Index
  BY <1>2, ControlAssumption DEF Index
<1>5. delivery \in [Attempt -> [at : {"idle", "deciding", "prepared", "replying", "replied"}, batch : SUBSET Request,
                                request : Request \cup {Nothing}, head : {0} \cup Index, verdict : Verdict \cup {"none"}]]
  <2>1. \A a \in Attempt : delivery[a] \in Delivery /\ delivery[a].head \in {0} \cup Index
    <3>1. \A n \in 0 .. Len(journal) : n \in {0} \cup Index
      BY <1>2, <1>3
    <3> QED
      BY <1>1, <3>1 DEF WatchersOK, HandOK
  <2> QED
    BY <1>1, <2>1 DEF WatchersOK, Delivery
<1>6. journal \in Seq(Entry)
  <2>1. ASSUME NEW i \in 1 .. Len(journal)
        PROVE  journal[i] \in Entry
    <3>1. journal[i] \in Line
      BY <1>1, <2>1 DEF JournalOK
    <3>2. journal[i].head \in Index /\ journal[i].past \in SUBSET Index
      BY <1>1, <1>3, <2>1 DEF JournalOK
    <3> QED
      BY <3>1, <3>2 DEF Line, Entry
  <2>2. DOMAIN journal = 1 .. Len(journal) /\ journal = [i \in 1 .. Len(journal) |-> journal[i]]
    BY <1>1 DEF JournalOK
  <2>3. journal \in [1 .. Len(journal) -> Entry]
    BY <2>1, <2>2
  <2> QED
    BY <1>2, <2>3, SeqDef
<1>7. seen \in [Writer -> Index]
  BY <1>1, <1>3 DEF SeenOK
<1>8. status \in [state : {"running", "stopping", "stopped", "failed"}, attempt : 0 .. MaxAttempts, fresh : BOOLEAN]
  BY <1>1 DEF StatusOK
<1>9. runner \in [Attempt -> {"none", "booting", "closing", "gone"} \cup Serving]
  BY <1>1 DEF AttemptsOK, Serving
<1>10. host \in [Call -> HostRecord] /\ requests \subseteq Request
  BY <1>1 DEF CallsOK
<1> QED
  BY <1>1, <1>4, <1>5, <1>6, <1>7, <1>8, <1>9, <1>10 DEF TypeOK, ToldOK, HostRecord, HostStage

(* Whatever dies or times out, status, watchers, journal, mailbox and calls *)
(* hold what the code keeps in them; in particular each call writes at most *)
(* one entry through a runner and one by itself, which bounds the journal.  *)
THEOREM SpecTypeOK == Spec => []TypeOK
  BY InitTInv, TInvStep, TInvGives, PTL DEF Spec
=============================================================================
