--------------------------- MODULE BranchesProofs ---------------------------
(***************************************************************************)
(* The controller of Branches implements BranchOwnership, for every set of *)
(* branches and every number of reservations, operations, calls and        *)
(* failures: a branch is worked on by one runtime at a time, and a head is *)
(* moved while no runtime works on the branches moved.  And its seals: who *)
(* may find a branch sealed, and that a seal left behind can be lifted.    *)
(***************************************************************************)
EXTENDS Branches, SequenceTheorems, TLAPS

(* The steps of the writer chain. *)
MoveKind == {"moveSeal", "moveHead", "moveEnd"}
SetupKind == {"reseal", "activate"}
StepKind == Drains \cup {"unseal", "idle", "op"} \cup MoveKind \cup SetupKind
WriterSteps == [kind : StepKind, who : Entry \cup Op \cup {0}]
Steps(w) == {w[i] : i \in 1 .. Len(w)}

(* Two steps of one move, or of one setup, are never both under way. *)
Clash(s, t) == (s.kind \in MoveKind /\ t.kind \in MoveKind) \/ (s.kind \in SetupKind /\ t.kind \in SetupKind /\ s.who = t.who)
Distinct(w) == \A i, j \in 1 .. Len(w) : i # j => ~Clash(w[i], w[j])

OpRecord == [stage : {"idle", "get", "ready", "queued", "over"}, kind : {"none", "respond", "fork"}, branch : Branch,
             target : Branch, entry : Entry \cup {0}, awaits : Entry \cup {0}]
MoveRecord == [stage : {"idle", "sealing", "draining", "committing", "ending"}, branch : Branch,
               affected : SUBSET Branch, kept : SUBSET Branch, drains : SUBSET (Entry \X Drains)]
(* Types, in two parts: what the invariant below says more about, and rest. *)
CoreOK ==
  /\ phase \in {"accepting", "closing", "closed"} /\ started \in BOOLEAN
  /\ known \subseteq Branch /\ moving \subseteq Branch
  /\ live \in [Branch -> Entry \cup {0}]
  /\ admitted \in [Branch -> {"absent", "taken", "claimed", "failed", "broken"}]
  /\ entry \in [Entry -> Reserved]
  /\ move \in MoveRecord
RestOK ==
  /\ held \in {"unused", "held", "released"} /\ closing \in {"no", "setups", "disposals"}
  /\ readmit \subseteq Branch /\ sealed \subseteq Branch
  /\ moves \in Nat /\ calls \in Nat /\ fails \in Nat /\ outcomes \in BOOLEAN
  /\ op \in [Op -> OpRecord]

Done(r) == r.disposal \in {"done", "failed"}
Past(r, d) == r.at[d] \in {"run", "unseal", "over"}
Prepared(r) == r.setup \in {"settling", "over"}

(* A branch belongs to its live reservation, which alone may have a        *)
(* runtime.                                                                 *)
LiveOK ==
  /\ \A b \in Branch : live[b] # 0 => live[b] \in Used /\ entry[live[b]].branch = b /\ admitted[b] = "taken"
  /\ \A e \in Used : entry[e].runtime = "up" => live[entry[e].branch] = e
(* A reservation that is ready has been set up, unless the run closes; one *)
(* that is disposed of was ready, and a drain is past its disposal only    *)
(* when there was one.  Nothing is set up before the start.                *)
ReadyOK ==
  /\ \A e \in Used :
       /\ entry[e].ready => Prepared(entry[e]) \/ ~Accepting
       /\ Done(entry[e]) => entry[e].ready /\ entry[e].runtime # "up"
       /\ \A d \in Drains : Past(entry[e], d) => Done(entry[e])
       /\ ~started => entry[e].setup = "none" /\ entry[e].runtime # "up"
  /\ ~started => \A b \in Branch : admitted[b] # "claimed"
(* A step of the writer chain finds its reservation, or its move, where it *)
(* was enqueued.                                                            *)
Timely(s) ==
  /\ s.kind \in SetupKind => s.who \in Used /\ entry[s.who].setup = s.kind
  /\ s.kind = "unseal" => s.who \in Used /\ Done(entry[s.who])
  /\ s.kind \in Drains \cup {"idle"} => s.who \in Used
  /\ s.kind = "op" => s.who \in Op
  /\ s.kind = "moveSeal" => move.stage = "sealing"
  /\ s.kind = "moveHead" => move.stage = "committing"
  /\ s.kind = "moveEnd" => move.stage = "ending"
QueueOK == writer \in Seq(WriterSteps) /\ Distinct(writer) /\ \A s \in Steps(writer) : Timely(s)
(* The branches of a move are fenced from its first step to its last, and  *)
(* when the head is moved all their reservations have been disposed of.    *)
MovesOK ==
  /\ move.stage # "idle" => move.branch \in known
  /\ move.stage \in {"idle", "sealing"} => moving = {}
  /\ move.stage \in {"draining", "committing", "ending"} => moving = move.affected /\ move.branch \in moving
  /\ move.stage = "draining" => \A b \in moving : live[b] # 0 => \E x \in move.drains : x[1] = live[b]
  /\ move.stage = "committing" /\ started => \A b \in moving : live[b] # 0 => Done(entry[live[b]])
(* A run that is over, or ends by itself, has no branch. *)
EndOK == phase = "closed" \/ (~Accepting /\ closing = "no") => \A b \in Branch : live[b] = 0

BInv == CoreOK /\ RestOK /\ LiveOK /\ ReadyOK /\ QueueOK /\ MovesOK /\ EndOK

-----------------------------------------------------------------------------
(* What the operators on reservations do to a reservation. *)

(* s is r with another setup and readiness, and drains that have got no     *)
(* further than the disposal allows.                                        *)
Kin(r, s) ==
  /\ s \in Reserved /\ s.branch = r.branch /\ s.mode = r.mode
  /\ s.runtime = r.runtime /\ (Done(s) <=> Done(r))
  /\ \A d \in Drains : Past(s, d) => Past(r, d) \/ Done(r)
(* s differs from r in nothing that the invariant reads. *)
Twin(r, s) == Kin(r, s) /\ s.setup = r.setup /\ s.ready = r.ready

LEMMA TwinIsTwin ==
  /\ \A r \in Reserved : Twin(r, r)
  /\ \A r, s, t : Twin(r, s) /\ Twin(s, t) => Twin(r, t)
BY DEF Twin, Kin

(* The fields the invariant does not read. *)
LEMMA FieldTwin ==
  ASSUME NEW r \in Reserved
  PROVE  /\ \A x \in {"none", "current", "behind"} : Twin(r, [r EXCEPT !.view = x])
         /\ \A x \in {"none", "good", "bad"} : Twin(r, [r EXCEPT !.gate = x])
         /\ \A x \in BOOLEAN : Twin(r, [r EXCEPT !.shut = x])
         /\ \A x \in BOOLEAN : Twin(r, [r EXCEPT !.draining = x])
         /\ \A x \in {"none", "on", "settling", "over"} : Twin(r, [r EXCEPT !.run = x])
         /\ \A x \in {"no", "ops", "dispose", "aggregate", "over"} : Twin(r, [r EXCEPT !.settle = x])
         /\ \A x \in {"none", "complete", "failed"} : Twin(r, [r EXCEPT !.outcome = x])
         /\ \A x \in Drains \cup {"no"} : Twin(r, [r EXCEPT !.drain = x])
         /\ \A x \in SUBSET Drains : Twin(r, [r EXCEPT !.spoilt = x])
<1>1. ASSUME NEW x \in {"none", "current", "behind"} PROVE Twin(r, [r EXCEPT !.view = x])
  <2> DEFINE s == [r EXCEPT !.view = x]
  <2>1. s \in Reserved
    BY DEF Reserved
  <2>2. s.branch = r.branch /\ s.mode = r.mode /\ s.runtime = r.runtime /\ s.setup = r.setup
        /\ s.ready = r.ready /\ s.disposal = r.disposal /\ s.at = r.at
    BY DEF Reserved
  <2> QED
    BY <2>1, <2>2 DEF Twin, Kin, Done, Past
<1>2. ASSUME NEW x \in {"none", "good", "bad"} PROVE Twin(r, [r EXCEPT !.gate = x])
  <2> DEFINE s == [r EXCEPT !.gate = x]
  <2>1. s \in Reserved
    BY DEF Reserved
  <2>2. s.branch = r.branch /\ s.mode = r.mode /\ s.runtime = r.runtime /\ s.setup = r.setup
        /\ s.ready = r.ready /\ s.disposal = r.disposal /\ s.at = r.at
    BY DEF Reserved
  <2> QED
    BY <2>1, <2>2 DEF Twin, Kin, Done, Past
<1>3. ASSUME NEW x \in BOOLEAN PROVE Twin(r, [r EXCEPT !.shut = x])
  <2> DEFINE s == [r EXCEPT !.shut = x]
  <2>1. s \in Reserved
    BY DEF Reserved
  <2>2. s.branch = r.branch /\ s.mode = r.mode /\ s.runtime = r.runtime /\ s.setup = r.setup
        /\ s.ready = r.ready /\ s.disposal = r.disposal /\ s.at = r.at
    BY DEF Reserved
  <2> QED
    BY <2>1, <2>2 DEF Twin, Kin, Done, Past
<1>4. ASSUME NEW x \in BOOLEAN PROVE Twin(r, [r EXCEPT !.draining = x])
  <2> DEFINE s == [r EXCEPT !.draining = x]
  <2>1. s \in Reserved
    BY DEF Reserved
  <2>2. s.branch = r.branch /\ s.mode = r.mode /\ s.runtime = r.runtime /\ s.setup = r.setup
        /\ s.ready = r.ready /\ s.disposal = r.disposal /\ s.at = r.at
    BY DEF Reserved
  <2> QED
    BY <2>1, <2>2 DEF Twin, Kin, Done, Past
<1>5. ASSUME NEW x \in {"none", "on", "settling", "over"} PROVE Twin(r, [r EXCEPT !.run = x])
  <2> DEFINE s == [r EXCEPT !.run = x]
  <2>1. s \in Reserved
    BY DEF Reserved
  <2>2. s.branch = r.branch /\ s.mode = r.mode /\ s.runtime = r.runtime /\ s.setup = r.setup
        /\ s.ready = r.ready /\ s.disposal = r.disposal /\ s.at = r.at
    BY DEF Reserved
  <2> QED
    BY <2>1, <2>2 DEF Twin, Kin, Done, Past
<1>6. ASSUME NEW x \in {"no", "ops", "dispose", "aggregate", "over"} PROVE Twin(r, [r EXCEPT !.settle = x])
  <2> DEFINE s == [r EXCEPT !.settle = x]
  <2>1. s \in Reserved
    BY DEF Reserved
  <2>2. s.branch = r.branch /\ s.mode = r.mode /\ s.runtime = r.runtime /\ s.setup = r.setup
        /\ s.ready = r.ready /\ s.disposal = r.disposal /\ s.at = r.at
    BY DEF Reserved
  <2> QED
    BY <2>1, <2>2 DEF Twin, Kin, Done, Past
<1>7. ASSUME NEW x \in {"none", "complete", "failed"} PROVE Twin(r, [r EXCEPT !.outcome = x])
  <2> DEFINE s == [r EXCEPT !.outcome = x]
  <2>1. s \in Reserved
    BY DEF Reserved
  <2>2. s.branch = r.branch /\ s.mode = r.mode /\ s.runtime = r.runtime /\ s.setup = r.setup
        /\ s.ready = r.ready /\ s.disposal = r.disposal /\ s.at = r.at
    BY DEF Reserved
  <2> QED
    BY <2>1, <2>2 DEF Twin, Kin, Done, Past
<1>8. ASSUME NEW x \in Drains \cup {"no"} PROVE Twin(r, [r EXCEPT !.drain = x])
  <2> DEFINE s == [r EXCEPT !.drain = x]
  <2>1. s \in Reserved
    BY DEF Reserved
  <2>2. s.branch = r.branch /\ s.mode = r.mode /\ s.runtime = r.runtime /\ s.setup = r.setup
        /\ s.ready = r.ready /\ s.disposal = r.disposal /\ s.at = r.at
    BY DEF Reserved
  <2> QED
    BY <2>1, <2>2 DEF Twin, Kin, Done, Past
<1>9. ASSUME NEW x \in SUBSET Drains PROVE Twin(r, [r EXCEPT !.spoilt = x])
  <2> DEFINE s == [r EXCEPT !.spoilt = x]
  <2>1. s \in Reserved
    BY DEF Reserved
  <2>2. s.branch = r.branch /\ s.mode = r.mode /\ s.runtime = r.runtime /\ s.setup = r.setup
        /\ s.ready = r.ready /\ s.disposal = r.disposal /\ s.at = r.at
    BY DEF Reserved
  <2> QED
    BY <2>1, <2>2 DEF Twin, Kin, Done, Past
<1> QED
  BY <1>1, <1>2, <1>3, <1>4, <1>5, <1>6, <1>7, <1>8, <1>9

(* The setup and the readiness of a reservation. *)
LEMMA SetupKin ==
  ASSUME NEW r \in Reserved, NEW x \in SetupStage
  PROVE  LET s == [r EXCEPT !.setup = x] IN Kin(r, s) /\ s.setup = x /\ s.ready = r.ready
<1> DEFINE s == [r EXCEPT !.setup = x]
<1>1. s \in Reserved
  BY DEF Reserved
<1>2. s.branch = r.branch /\ s.mode = r.mode /\ s.runtime = r.runtime /\ s.setup = x
      /\ s.ready = r.ready /\ s.disposal = r.disposal /\ s.at = r.at
  BY DEF Reserved
<1> QED
  BY <1>1, <1>2 DEF Kin, Done, Past

LEMMA ReadyKin ==
  ASSUME NEW r \in Reserved, NEW x \in BOOLEAN
  PROVE  LET s == [r EXCEPT !.ready = x] IN Kin(r, s) /\ s.setup = r.setup /\ s.ready = x
<1> DEFINE s == [r EXCEPT !.ready = x]
<1>1. s \in Reserved
  BY DEF Reserved
<1>2. s.branch = r.branch /\ s.mode = r.mode /\ s.runtime = r.runtime /\ s.setup = r.setup
      /\ s.ready = x /\ s.disposal = r.disposal /\ s.at = r.at
  BY DEF Reserved
<1> QED
  BY <1>1, <1>2 DEF Kin, Done, Past

(* A drain that goes on, past the disposal only when there was one. *)
LEMMA StageTwin ==
  ASSUME NEW r \in Reserved, NEW d \in Drains, NEW x \in DrainStage,
         x \in {"run", "unseal", "over"} => Past(r, d) \/ Done(r)
  PROVE  Twin(r, [r EXCEPT !.at[d] = x])
<1> DEFINE s == [r EXCEPT !.at[d] = x]
<1>1. r.at \in [Drains -> DrainStage]
  BY DEF Reserved
<1>2. s.at = [r.at EXCEPT ![d] = x]
  BY DEF Reserved
<1>3. s.at \in [Drains -> DrainStage] /\ \A c \in Drains : s.at[c] = IF c = d THEN x ELSE r.at[c]
  BY <1>1, <1>2
<1>4. s \in Reserved
  BY <1>3 DEF Reserved
<1>5. s.branch = r.branch /\ s.mode = r.mode /\ s.runtime = r.runtime /\ s.setup = r.setup
      /\ s.ready = r.ready /\ s.disposal = r.disposal
  BY DEF Reserved
<1> QED
  BY <1>3, <1>4, <1>5 DEF Twin, Kin, Done, Past

LEMMA AskedTwin ==
  ASSUME NEW r \in Reserved
  PROVE  Twin(r, Asked(r))
<1> DEFINE s == Asked(r)
<1>1. s \in Reserved
  BY DEF Reserved, Asked
<1>2. s.branch = r.branch /\ s.mode = r.mode /\ s.runtime = r.runtime /\ s.setup = r.setup
      /\ s.ready = r.ready /\ (Done(s) <=> Done(r)) /\ s.at = r.at
  BY DEF Reserved, Asked, Done
<1> QED
  BY <1>1, <1>2 DEF Twin, Kin, Past

LEMMA SettlingTwin ==
  ASSUME NEW r \in Reserved, NEW on, NEW result \in {"complete", "failed"}
  PROVE  Twin(r, Settling(r, on, result))
<1>1. CASE on /\ r.drain = "no"
  <2> DEFINE s1 == [r EXCEPT !.shut = TRUE]
             s2 == [s1 EXCEPT !.draining = TRUE]
             s3 == [s2 EXCEPT !.settle = "ops"]
             s4 == [s3 EXCEPT !.outcome = result]
  <2>1. Settling(r, on, result) = s4
    BY <1>1 DEF Settling
  <2>2. Twin(r, s1)
    BY FieldTwin
  <2>3. Twin(s1, s2)
    BY <2>2, FieldTwin DEF Twin, Kin
  <2> HIDE DEF s1, s2
  <2>4. Twin(s2, s3)
    BY <2>3, FieldTwin DEF Twin, Kin
  <2> HIDE DEF s3
  <2>5. Twin(s3, s4)
    <3>1. s3 \in Reserved /\ result \in {"none", "complete", "failed"}
      BY <2>4 DEF Twin, Kin
    <3> QED BY <3>1, FieldTwin
  <2> HIDE DEF s4
  <2> QED
    BY <2>1, <2>2, <2>3, <2>4, <2>5, TwinIsTwin
<1>2. CASE ~(on /\ r.drain = "no")
  <2> DEFINE x == IF r.settle = "no" THEN "over" ELSE r.settle
  <2>1. Settling(r, on, result) = [r EXCEPT !.settle = x]
    BY <1>2 DEF Settling
  <2>2. x \in {"no", "ops", "dispose", "aggregate", "over"}
    BY DEF Reserved
  <2> HIDE DEF x
  <2> QED
    BY <2>1, <2>2, FieldTwin
<1> QED
  BY <1>1, <1>2

LEMMA GivesUpKin ==
  ASSUME NEW r \in Reserved, NEW on
  PROVE  LET s == GivesUp(r, on) IN Kin(r, s) /\ s.setup = "settling" /\ s.ready
<1> DEFINE s1 == [r EXCEPT !.ready = TRUE]
           s2 == Settling(s1, on, "failed")
           s3 == [s2 EXCEPT !.setup = "settling"]
<1>1. GivesUp(r, on) = s3
  BY DEF GivesUp
<1>2. Kin(r, s1) /\ s1.ready = TRUE
  BY ReadyKin
<1>3. Twin(s1, s2)
  <2> HIDE DEF s1
  <2> QED BY <1>2, SettlingTwin DEF Kin
<1>4. Kin(s2, s3) /\ s3.setup = "settling" /\ s3.ready = s2.ready
  <2> HIDE DEF s2
  <2> QED BY <1>3, SetupKin DEF Twin, Kin, SetupStage
<1> HIDE DEF s1, s2, s3
<1> QED
  BY <1>1, <1>2, <1>3, <1>4 DEF Twin, Kin

LEMMA LeavesKin ==
  ASSUME NEW r \in Reserved
  PROVE  LET s == Leaves(r) IN Kin(r, s) /\ s.setup = "over" /\ s.ready
<1> DEFINE s1 == [r EXCEPT !.ready = TRUE]
           s2 == [s1 EXCEPT !.setup = "over"]
<1>1. Leaves(r) = s2
  BY DEF Leaves
<1>2. Kin(r, s1) /\ s1.ready = TRUE
  BY ReadyKin
<1>3. Kin(s1, s2) /\ s2.setup = "over" /\ s2.ready = s1.ready
  <2> HIDE DEF s1
  <2> QED BY <1>2, SetupKin DEF Kin, SetupStage
<1> HIDE DEF s1, s2
<1> QED
  BY <1>1, <1>2, <1>3 DEF Kin

(* A reservation whose runtime is started: the only way to one. *)
LEMMA RunsUp ==
  ASSUME NEW r \in Reserved
  PROVE  LET s == Runs(r) IN
         /\ s \in Reserved /\ s.branch = r.branch /\ s.mode = r.mode /\ s.disposal = r.disposal
         /\ s.at = r.at /\ s.setup = "over" /\ s.ready = TRUE /\ s.runtime = "up"
<1> DEFINE s1 == [r EXCEPT !.runtime = "up"]
           s2 == [s1 EXCEPT !.run = "on"]
           s3 == [s2 EXCEPT !.ready = TRUE]
           s4 == [s3 EXCEPT !.setup = "over"]
<1>1. Runs(r) = s4
  BY DEF Runs
<1>2. s1 \in Reserved /\ s1.branch = r.branch /\ s1.mode = r.mode /\ s1.disposal = r.disposal
      /\ s1.at = r.at /\ s1.runtime = "up"
  BY DEF Reserved
<1> HIDE DEF s1
<1>3. s2 \in Reserved /\ s2.branch = s1.branch /\ s2.mode = s1.mode /\ s2.disposal = s1.disposal
      /\ s2.at = s1.at /\ s2.runtime = s1.runtime
  BY <1>2 DEF Reserved
<1> HIDE DEF s2
<1>4. s3 \in Reserved /\ s3.branch = s2.branch /\ s3.mode = s2.mode /\ s3.disposal = s2.disposal
      /\ s3.at = s2.at /\ s3.runtime = s2.runtime /\ s3.ready = TRUE
  BY <1>3 DEF Reserved
<1> HIDE DEF s3
<1>5. s4 \in Reserved /\ s4.branch = s3.branch /\ s4.mode = s3.mode /\ s4.disposal = s3.disposal
      /\ s4.at = s3.at /\ s4.runtime = s3.runtime /\ s4.ready = s3.ready /\ s4.setup = "over"
  BY <1>4 DEF Reserved, SetupStage
<1> HIDE DEF s4
<1> QED
  BY <1>1, <1>2, <1>3, <1>4, <1>5

LEMMA DrainingTwin ==
  ASSUME NEW r \in Reserved, NEW d \in Drains
  PROVE  Twin(r, Draining(r, d))
<1> DEFINE s1 == [r EXCEPT !.shut = TRUE]
           s2 == [s1 EXCEPT !.drain = d]
           s3 == [s2 EXCEPT !.at[d] = "setup"]
           on == s3.draining \/ s3.runtime # "none"
           s4 == [s3 EXCEPT !.draining = on]
<1>1. Twin(r, s1)
  BY FieldTwin
<1>2. Twin(s1, s2)
  <2>1. s1 \in Reserved /\ d \in Drains \cup {"no"}
    BY <1>1 DEF Twin, Kin
  <2> HIDE DEF s1
  <2> QED BY <2>1, FieldTwin
<1>3. Twin(s2, s3)
  <2>1. s2 \in Reserved
    BY <1>2 DEF Twin, Kin
  <2> HIDE DEF s2
  <2>2. "setup" \in DrainStage /\ ~("setup" \in {"run", "unseal", "over"})
    BY DEF DrainStage
  <2> QED BY <2>1, <2>2, StageTwin
<1>4. Twin(s3, s4)
  <2>1. s3 \in Reserved
    BY <1>3 DEF Twin, Kin
  <2>2. on \in BOOLEAN
    <3>1. s3.draining \in BOOLEAN
      <4> HIDE DEF s3
      <4> QED BY <2>1 DEF Reserved
    <3> QED BY <3>1
  <2> HIDE DEF s3, on
  <2> QED BY <2>1, <2>2, FieldTwin
<1>5. Draining(r, d) = s4
  <2>1. s3.draining = r.draining /\ s3.runtime = r.runtime
    BY DEF Reserved
  <2> QED BY <2>1 DEF Draining
<1> HIDE DEF s1, s2, s3, s4
<1> QED
  BY <1>1, <1>2, <1>3, <1>4, <1>5, TwinIsTwin

LEMMA StoppedTwin ==
  ASSUME NEW r \in Reserved
  PROVE  Twin(r, Stopped(r))
BY DrainingTwin, TwinIsTwin DEF Stopped, Drains

LEMMA MissedTwin ==
  ASSUME NEW r \in Reserved
  PROVE  Twin(r, Missed(r))
BY FieldTwin, TwinIsTwin DEF Missed

LEMMA RejectedTwin ==
  ASSUME NEW r \in Reserved
  PROVE  Twin(r, Rejected(r))
<1> DEFINE x == r.spoilt \cup {d \in Drains : r.at[d] = "ops"}
           s1 == [r EXCEPT !.spoilt = x]
           y == IF r.settle = "ops" THEN "failed" ELSE r.outcome
           s2 == [s1 EXCEPT !.outcome = y]
<1>1. x \in SUBSET Drains /\ y \in {"none", "complete", "failed"}
  BY DEF Reserved
<1>2. Rejected(r) = s2
  BY DEF Rejected, Reserved
<1> HIDE DEF x, y
<1>3. Twin(r, s1)
  BY <1>1, FieldTwin
<1>4. Twin(s1, s2)
  <2>1. s1 \in Reserved
    BY <1>3 DEF Twin, Kin
  <2> HIDE DEF s1
  <2> QED BY <1>1, <2>1, FieldTwin
<1> HIDE DEF s1, s2
<1> QED
  BY <1>2, <1>3, <1>4, TwinIsTwin

-----------------------------------------------------------------------------
(* The writer chain. *)

LEMMA AppendStep ==
  ASSUME NEW w \in Seq(WriterSteps), Distinct(w), NEW s \in WriterSteps,
         \A t \in Steps(w) : ~Clash(t, s)
  PROVE  /\ Append(w, s) \in Seq(WriterSteps) /\ Distinct(Append(w, s))
         /\ \A t \in Steps(Append(w, s)) : t \in Steps(w) \/ t = s
<1> DEFINE v == Append(w, s)
<1>1. /\ v \in Seq(WriterSteps) /\ Len(v) = Len(w) + 1 /\ Len(w) \in Nat
      /\ \A i \in 1 .. Len(w) : v[i] = w[i]
      /\ v[Len(w) + 1] = s
  BY AppendProperties, LenProperties
<1> HIDE DEF v
<1>2. \A t : Clash(t, s) <=> Clash(s, t)
  BY DEF Clash
<1>3. \A i \in 1 .. Len(v) : (i \in 1 .. Len(w) /\ v[i] = w[i]) \/ (i = Len(w) + 1 /\ v[i] = s)
  BY <1>1
<1>4. \A i \in 1 .. Len(w) : w[i] \in Steps(w)
  BY DEF Steps
<1>5. Distinct(v)
  <2> SUFFICES ASSUME NEW i \in 1 .. Len(v), NEW j \in 1 .. Len(v), i # j, Clash(v[i], v[j])
               PROVE  FALSE
    BY DEF Distinct
  <2>1. CASE i \in 1 .. Len(w) /\ j \in 1 .. Len(w)
    BY <2>1, <1>3, <1>1 DEF Distinct
  <2>2. CASE i = Len(w) + 1 /\ j \in 1 .. Len(w)
    BY <2>2, <1>1, <1>2, <1>3, <1>4
  <2>3. CASE j = Len(w) + 1 /\ i \in 1 .. Len(w)
    BY <2>3, <1>1, <1>2, <1>3, <1>4
  <2> QED
    BY <2>1, <2>2, <2>3, <1>3
<1>6. \A t \in Steps(v) : t \in Steps(w) \/ t = s
  BY <1>3, <1>4 DEF Steps
<1> QED
  BY <1>1, <1>5, <1>6 DEF v

LEMMA TailSteps ==
  ASSUME NEW w \in Seq(WriterSteps), w # <<>>, Distinct(w)
  PROVE  /\ Tail(w) \in Seq(WriterSteps) /\ Distinct(Tail(w))
         /\ Head(w) \in WriterSteps /\ Head(w) \in Steps(w)
         /\ \A t \in Steps(Tail(w)) : t \in Steps(w) /\ ~Clash(Head(w), t)
<1> DEFINE v == Tail(w)
<1>1. /\ v \in Seq(WriterSteps) /\ Len(v) = Len(w) - 1 /\ Len(w) \in Nat /\ Len(w) > 0 /\ Len(v) \in Nat
      /\ \A i \in 1 .. Len(v) : v[i] = w[i + 1]
      /\ Head(w) = w[1] /\ Head(w) \in WriterSteps
  <2>1. Len(w) \in Nat /\ Len(w) > 0
    BY EmptySeq, LenProperties
  <2> QED BY <2>1, HeadTailProperties, LenProperties
<1> HIDE DEF v
<1>2. Distinct(v)
  BY <1>1 DEF Distinct
<1>3. Head(w) \in Steps(w)
  BY <1>1 DEF Steps
<1>4. ASSUME NEW t \in Steps(v) PROVE t \in Steps(w) /\ ~Clash(Head(w), t)
  <2>1. PICK i \in 1 .. Len(v) : t = v[i]
    BY DEF Steps
  <2>2. i + 1 \in 1 .. Len(w) /\ i + 1 # 1 /\ 1 \in 1 .. Len(w) /\ t = w[i + 1]
    BY <1>1, <2>1
  <2> QED
    BY <1>1, <2>2 DEF Steps, Distinct
<1> QED
  BY <1>1, <1>2, <1>3, <1>4 DEF v

-----------------------------------------------------------------------------
(* How a step may change the reservations and who is live. *)

(* A reservation that is in use. *)
Follows(e) ==
  LET r == entry[e]
      s == entry'[e]
  IN
  /\ s \in Reserved /\ s.branch = r.branch /\ s.mode = r.mode
  /\ Done(r) => Done(s)
  /\ \A d \in Drains : Past(s, d) => Past(r, d) \/ Done(r)
  /\ r.ready => s.ready
  /\ s.ready => Prepared(s) \/ ~Accepting'
  /\ Done(s) => Done(r) \/ (r.ready /\ s.runtime # "up")
  /\ s.runtime = "up" => r.runtime = "up" \/ (Runnable(e) /\ r.setup \in {"building", "activate"})
  /\ ~started' => s.setup = r.setup
(* One that is made: only after the start, and with nothing done yet. *)
Made(e) ==
  LET s == entry'[e] IN
  /\ s \in Reserved /\ started' /\ ~s.ready /\ ~Done(s) /\ s.runtime = "none"
  /\ \A d \in Drains : ~Past(s, d)
Unmade(e) == entry'[e] \in Reserved /\ entry'[e].mode = "unused"
Evolves ==
  /\ entry' = [e \in Entry |-> entry'[e]]
  /\ \A e \in Used : Follows(e)
  /\ \A e \in Entry \ Used : Made(e) \/ Unmade(e)
Succeeds ==
  /\ \A b \in Branch :
       \/ live'[b] = live[b]
       \/ live'[b] = 0 /\ (live[b] # 0 => Done(entry[live[b]]))
       \/ /\ live[b] = 0 /\ b \notin moving /\ Accepting
          /\ live'[b] \in Entry \ Used /\ entry'[live'[b]].mode # "unused" /\ entry'[live'[b]].branch = b
  /\ \A b \in Branch : live'[b] # 0 => admitted'[b] = "taken"
  /\ \A b \in Branch : admitted'[b] = "claimed" => admitted[b] = "claimed" \/ started
(* No runtime is started or disposed of. *)
Works(e) == entry[e].mode # "unused" /\ entry[e].runtime = "up"
Calm == \A e \in Entry : (Works(e)' <=> Works(e)) /\ (Works(e) => entry'[e].branch = entry[e].branch)
(* The runtime of e is started, or disposed of, and that is all. *)
Alone(e) == e \in Used /\ \A f \in Entry : f # e => entry'[f] = entry[f]
Begins(e) == Alone(e) /\ Runnable(e) /\ Works(e)' /\ entry'[e].branch = entry[e].branch
Ends(e) == Alone(e) /\ ~Works(e)'
Onward == (Accepting' => Accepting) /\ (started => started')

LEMMA UsedStays ==
  ASSUME BInv, Evolves
  PROVE  /\ \A e \in Used : e \in Used' /\ entry'[e].branch = entry[e].branch /\ (Done(entry[e]) => Done(entry'[e]))
         /\ \A e \in Entry : e \in Used' <=> entry'[e].mode # "unused"
         /\ \A e \in Used' : e \in Entry
         /\ \A e \in Used : e \in Entry
BY DEF Used, Evolves, Follows

LEMMA StepLiveReady ==
  ASSUME BInv, Evolves, Succeeds, Onward, CoreOK'
  PROVE  LiveOK' /\ ReadyOK'
<1> USE UsedStays
<1>0. 0 \notin Entry
  BY BranchesAssumption
<1>1. ASSUME NEW e \in Used, entry'[e].runtime = "up"
      PROVE  live[entry[e].branch] = e /\ ~Done(entry[e])
  <2>1. entry[e].runtime = "up" \/ (Runnable(e) /\ entry[e].setup \in {"building", "activate"})
    BY <1>1 DEF Evolves, Follows
  <2>2. CASE entry[e].runtime = "up"
    BY <2>2 DEF BInv, LiveOK, ReadyOK
  <2>3. CASE Runnable(e) /\ entry[e].setup \in {"building", "activate"}
    BY <2>3 DEF BInv, ReadyOK, Runnable, Accepting, Prepared
  <2> QED
    BY <2>1, <2>2, <2>3
<1>2. ASSUME NEW e \in Used', e \notin Used
      PROVE  Made(e)
  BY <1>2 DEF Evolves, Unmade
<1>3. LiveOK'
  <2>1. ASSUME NEW b \in Branch, live'[b] # 0
        PROVE  live'[b] \in Used' /\ entry'[live'[b]].branch = b /\ admitted'[b] = "taken"
    <3>1. CASE live'[b] = live[b]
      BY <2>1, <3>1 DEF BInv, LiveOK, Succeeds
    <3>2. CASE live'[b] \in Entry \ Used /\ entry'[live'[b]].mode # "unused" /\ entry'[live'[b]].branch = b
      BY <2>1, <3>2 DEF Succeeds
    <3> QED
      BY <2>1, <3>1, <3>2 DEF Succeeds
  <2>2. ASSUME NEW e \in Used', entry'[e].runtime = "up"
        PROVE  live'[entry'[e].branch] = e
    <3>1. e \in Used
      BY <1>2, <2>2 DEF Made
    <3>2. live[entry[e].branch] = e /\ ~Done(entry[e]) /\ entry'[e].branch = entry[e].branch /\ entry[e].branch \in Branch
      BY <1>1, <2>2, <3>1 DEF BInv, CoreOK, Reserved
    <3> QED
      BY <1>0, <3>1, <3>2 DEF Succeeds
  <2> QED
    BY <2>1, <2>2 DEF LiveOK
<1>4. ASSUME NEW e \in Used'
      PROVE  /\ entry'[e].ready => Prepared(entry'[e]) \/ ~Accepting'
             /\ Done(entry'[e]) => entry'[e].ready /\ entry'[e].runtime # "up"
             /\ \A d \in Drains : Past(entry'[e], d) => Done(entry'[e])
             /\ ~started' => entry'[e].setup = "none" /\ entry'[e].runtime # "up"
  <2>1. CASE e \notin Used
    BY <1>2, <2>1 DEF Made
  <2>2. CASE e \in Used
    <3>1. Follows(e)
      BY <2>2 DEF Evolves
    <3>2. entry'[e].ready => Prepared(entry'[e]) \/ ~Accepting'
      BY <3>1 DEF Follows
    <3>3. Done(entry'[e]) => entry'[e].ready /\ entry'[e].runtime # "up"
      BY <1>1, <2>2, <3>1 DEF Follows, BInv, ReadyOK
    <3>4. \A d \in Drains : Past(entry'[e], d) => Done(entry'[e])
      BY <2>2, <3>1 DEF Follows, BInv, ReadyOK
    <3>5. ~started' => entry'[e].setup = "none" /\ entry'[e].runtime # "up"
      BY <2>2, <3>1 DEF Follows, BInv, ReadyOK, Onward
    <3> QED
      BY <3>2, <3>3, <3>4, <3>5
  <2> QED
    BY <2>1, <2>2
<1>5. ~started' => \A b \in Branch : admitted'[b] # "claimed"
  BY DEF Onward, Succeeds, BInv, ReadyOK
<1> QED
  BY <1>3, <1>4, <1>5 DEF ReadyOK

(* A step of the chain that stays where it was. *)
Kept(t) ==
  /\ t.kind \in SetupKind => entry'[t.who].setup = entry[t.who].setup
  /\ t.kind \in MoveKind => move'.stage = move.stage

LEMMA TimelyStays ==
  ASSUME BInv, Evolves, NEW t \in Steps(writer), Kept(t)
  PROVE  Timely(t)'
<1>1. Timely(t)
  BY DEF BInv, QueueOK
<1> QED
  BY <1>1, UsedStays DEF Timely, Kept, MoveKind

LEMMA QueueStays ==
  ASSUME BInv, Evolves, UNCHANGED writer, \A t \in Steps(writer) : Kept(t)
  PROVE  QueueOK'
BY TimelyStays DEF BInv, QueueOK, Steps

LEMMA QueueGrows ==
  ASSUME BInv, Evolves, \A t \in Steps(writer) : Kept(t),
         NEW s \in WriterSteps, writer' = Append(writer, s), Timely(s)',
         \A t \in Steps(writer) : ~Clash(t, s)
  PROVE  QueueOK'
<1>1. \A t \in Steps(writer) : Timely(t)'
  BY TimelyStays
<1>2. /\ writer' \in Seq(WriterSteps) /\ Distinct(writer')
      /\ \A t \in Steps(writer') : t \in Steps(writer) \/ t = s
  BY AppendStep DEF BInv, QueueOK
<1> QED
  BY <1>1, <1>2 DEF QueueOK

LEMMA QueueShrinks ==
  ASSUME BInv, Evolves, writer # <<>>, writer' = Tail(writer), \A t \in Steps(Tail(writer)) : Kept(t)
  PROVE  QueueOK'
<1>1. /\ Tail(writer) \in Seq(WriterSteps) /\ Distinct(Tail(writer))
      /\ \A t \in Steps(Tail(writer)) : t \in Steps(writer)
  BY TailSteps DEF BInv, QueueOK
<1>2. \A t \in Steps(Tail(writer)) : Timely(t)'
  BY <1>1, TimelyStays
<1> QED
  BY <1>1, <1>2 DEF QueueOK

LEMMA QueueTurns ==
  ASSUME BInv, Evolves, writer # <<>>, \A t \in Steps(Tail(writer)) : Kept(t),
         NEW s \in WriterSteps, writer' = Append(Tail(writer), s), Timely(s)',
         \A t \in Steps(Tail(writer)) : ~Clash(t, s)
  PROVE  QueueOK'
<1>1. /\ Tail(writer) \in Seq(WriterSteps) /\ Distinct(Tail(writer))
      /\ \A t \in Steps(Tail(writer)) : t \in Steps(writer)
  BY TailSteps DEF BInv, QueueOK
<1>2. \A t \in Steps(Tail(writer)) : Timely(t)'
  BY <1>1, TimelyStays
<1>3. /\ writer' \in Seq(WriterSteps) /\ Distinct(writer')
      /\ \A t \in Steps(writer') : t \in Steps(Tail(writer)) \/ t = s
  BY <1>1, AppendStep
<1> QED
  BY <1>2, <1>3 DEF QueueOK

(* The step at the front, and what is known of the steps behind it. *)
LEMMA FrontStep ==
  ASSUME BInv, writer # <<>>
  PROVE  /\ First \in WriterSteps /\ Timely(First)
         /\ \A t \in Steps(Tail(writer)) : t \in Steps(writer) /\ Timely(t) /\ ~Clash(First, t)
BY TailSteps DEF BInv, QueueOK, First

LEMMA MovesStay ==
  ASSUME BInv, Evolves, Succeeds, UNCHANGED <<moving, move>>, known \subseteq known',
         started' = started \/ move.stage = "idle"
  PROVE  MovesOK'
<1> USE UsedStays DEF BInv
<1>1. ASSUME NEW b \in moving, live'[b] # 0
      PROVE  live'[b] = live[b] /\ live[b] \in Used
  BY <1>1 DEF Succeeds, LiveOK, CoreOK
<1>2. move'.stage = "draining" => \A b \in moving' : live'[b] # 0 => \E x \in move'.drains : x[1] = live'[b]
  BY <1>1 DEF MovesOK
<1>3. move'.stage = "committing" /\ started' => \A b \in moving' : live'[b] # 0 => Done(entry'[live'[b]])
  BY <1>1 DEF MovesOK
<1> QED
  BY <1>2, <1>3 DEF MovesOK

LEMMA EndStays ==
  ASSUME BInv, Succeeds, CoreOK', phase' = phase, closing' = closing
  PROVE  EndOK'
BY DEF BInv, EndOK, Succeeds, Accepting

-----------------------------------------------------------------------------
(* Steps that work on one reservation, or on none. *)

LEMMA FollowsOne ==
  ASSUME BInv, NEW e \in Entry, NEW s, entry' = [entry EXCEPT ![e] = s], Onward,
         e \in Used => Follows(e), e \notin Used => Made(e) \/ Unmade(e)
  PROVE  Evolves
<1>1. entry \in [Entry -> Reserved]
  BY DEF BInv, CoreOK
<1>2. entry' = [f \in Entry |-> entry'[f]] /\ \A f \in Entry : f # e => entry'[f] = entry[f]
  BY <1>1
<1>3. ASSUME NEW f \in Used, f # e PROVE Follows(f)
  <2>1. entry'[f] = entry[f] /\ entry[f] \in Reserved
    BY <1>1, <1>2, <1>3 DEF Used
  <2>2. entry[f].ready => Prepared(entry[f]) \/ ~Accepting'
    BY DEF BInv, ReadyOK, Onward
  <2> QED
    BY <2>1, <2>2 DEF Follows
<1>4. ASSUME NEW f \in Entry \ Used, f # e PROVE Unmade(f)
  BY <1>1, <1>2, <1>4 DEF Unmade, Used
<1> QED
  BY <1>2, <1>3, <1>4 DEF Evolves

LEMMA FollowsTwins ==
  ASSUME BInv, entry' = [e \in Entry |-> entry'[e]], Onward, \A e \in Entry : Twin(entry[e], entry'[e])
  PROVE  Evolves /\ Calm
<1>1. ASSUME NEW e \in Used PROVE Follows(e)
  <2>1. Twin(entry[e], entry'[e])
    BY DEF Used
  <2>2. entry[e].ready => Prepared(entry[e]) \/ ~Accepting'
    BY DEF BInv, ReadyOK, Onward
  <2>3. Done(entry'[e]) <=> Done(entry[e])
    BY <2>1 DEF Twin, Kin
  <2> QED
    BY <2>1, <2>2, <2>3 DEF Follows, Twin, Kin, Prepared
<1>2. ASSUME NEW e \in Entry \ Used PROVE Unmade(e)
  BY DEF Unmade, Used, Twin, Kin
<1>3. Calm
  BY DEF Calm, Works, Twin, Kin
<1> QED
  BY <1>1, <1>2, <1>3 DEF Evolves

LEMMA SameEntries ==
  ASSUME BInv, UNCHANGED entry, Onward
  PROVE  Evolves /\ Calm
BY FollowsTwins, TwinIsTwin DEF BInv, CoreOK

LEMMA SameLive ==
  ASSUME BInv, UNCHANGED live, UNCHANGED admitted
  PROVE  Succeeds
BY DEF BInv, LiveOK, Succeeds

LEMMA KeptOne ==
  ASSUME BInv, NEW e \in Entry, NEW s, entry' = [entry EXCEPT ![e] = s], UNCHANGED move,
         s.setup = entry[e].setup \/ entry[e].setup \notin SetupKind,
         NEW t \in Steps(writer)
  PROVE  Kept(t)
<1>1. t.kind \in SetupKind => t.who \in Used /\ entry[t.who].setup = t.kind
  BY DEF BInv, QueueOK, Timely
<1>2. \A f \in Entry : entry'[f] = IF f = e THEN s ELSE entry[f]
  BY DEF BInv, CoreOK
<1> QED
  BY <1>1, <1>2 DEF Kept, Used

LEMMA KeptTwins ==
  ASSUME BInv, \A e \in Entry : Twin(entry[e], entry'[e]), move'.stage = move.stage, NEW t \in Steps(writer)
  PROVE  Kept(t)
<1>1. t.kind \in SetupKind => t.who \in Used
  BY DEF BInv, QueueOK, Timely
<1> QED
  BY <1>1 DEF Kept, Used, Twin

core == <<phase, started, closing, live, known, admitted, moving, move>>

LEMMA QuietStep ==
  ASSUME BInv, Evolves, UNCHANGED core, RestOK', QueueOK'
  PROVE  BInv'
<1>1. Onward /\ known \subseteq known' /\ Succeeds
  BY SameLive DEF core, Onward, Accepting
<1>2. CoreOK'
  BY DEF BInv, CoreOK, core, Evolves, Follows, Made, Unmade
<1> QED
  BY <1>1, <1>2, StepLiveReady, MovesStay, EndStays DEF BInv, core

(* s may have another setup, which publishes readiness when it ends. *)
LEMMA KinEvolves ==
  ASSUME BInv, NEW e \in Used, NEW s, entry' = [entry EXCEPT ![e] = s], Kin(entry[e], s),
         entry[e].ready => s.ready, s.ready => Prepared(s) \/ (entry[e].ready /\ ~Prepared(entry[e])) \/ ~Accepting',
         ~started' => s.setup = entry[e].setup, Onward
  PROVE  Evolves /\ Calm
<1>1. e \in Entry /\ entry'[e] = s
  BY DEF Used, BInv, CoreOK
<1>2. s.ready => Prepared(s) \/ ~Accepting'
  BY DEF BInv, ReadyOK, Onward, Prepared
<1>3. Follows(e)
  BY <1>1, <1>2 DEF Follows, Kin
<1>4. Calm
  BY <1>1 DEF Calm, Works, Kin, BInv, CoreOK
<1> QED
  BY <1>1, <1>3, <1>4, FollowsOne

LEMMA TwinEvolves ==
  ASSUME BInv, NEW e \in Entry, NEW s, entry' = [entry EXCEPT ![e] = s], Twin(entry[e], s), Onward
  PROVE  Evolves /\ Calm
<1>1. entry' = [f \in Entry |-> entry'[f]] /\ \A f \in Entry : entry'[f] = IF f = e THEN s ELSE entry[f]
  BY DEF BInv, CoreOK
<1>2. \A f \in Entry : Twin(entry[f], entry'[f])
  BY <1>1, TwinIsTwin DEF BInv, CoreOK
<1> QED
  BY <1>1, <1>2, FollowsTwins

LEMMA TwinAction ==
  ASSUME BInv, NEW e \in Entry, NEW s, entry' = [entry EXCEPT ![e] = s], Twin(entry[e], s),
         UNCHANGED core, UNCHANGED writer, RestOK'
  PROVE  BInv' /\ Calm
<1>1. Onward /\ move' = move
  BY DEF core, Onward, Accepting
<1>2. Evolves /\ Calm
  BY <1>1, TwinEvolves
<1>3. \A t \in Steps(writer) : Kept(t)
  BY <1>1, KeptOne DEF Twin
<1> QED
  BY <1>2, <1>3, QueueStays, QuietStep

LEMMA KinAction ==
  ASSUME BInv, NEW e \in Used, NEW s, entry' = [entry EXCEPT ![e] = s], Kin(entry[e], s),
         entry[e].ready => s.ready, s.ready => Prepared(s) \/ (entry[e].ready /\ ~Prepared(entry[e])),
         entry[e].setup \notin SetupKind \cup {"none"},
         UNCHANGED core, UNCHANGED writer, RestOK'
  PROVE  BInv' /\ Calm
<1>1. Onward /\ move' = move /\ started' = started /\ e \in Entry
  BY DEF core, Onward, Accepting, Used
<1>2. started
  BY DEF BInv, ReadyOK
<1>3. Evolves /\ Calm
  BY <1>1, <1>2, KinEvolves
<1>4. \A t \in Steps(writer) : Kept(t)
  BY <1>1, KeptOne
<1> QED
  BY <1>3, <1>4, QueueStays, QuietStep

(* A reservation goes on after it has queued a step that is not a setup. *)
LEMMA TwinEnqueues ==
  ASSUME BInv, NEW e \in Used, NEW s, entry' = [entry EXCEPT ![e] = s], Twin(entry[e], s),
         NEW kind \in Drains \cup {"idle", "unseal"}, kind = "unseal" => Done(entry[e]),
         Enqueue(kind, e), UNCHANGED core, RestOK'
  PROVE  BInv' /\ Calm
<1>1. Onward /\ move' = move /\ e \in Entry
  BY DEF core, Onward, Accepting, Used
<1>2. Evolves /\ Calm
  BY <1>1, TwinEvolves
<1>3. \A t \in Steps(writer) : Kept(t)
  BY <1>1, KeptOne DEF Twin
<1> DEFINE x == Step(kind, e)
<1>4. x \in WriterSteps /\ x.kind = kind /\ x.who = e /\ writer' = Append(writer, x)
  BY <1>1 DEF Step, Enqueue, WriterSteps, StepKind
<1>5. kind \notin MoveKind \cup SetupKind \cup {"op"}
  BY DEF Drains, MoveKind, SetupKind
<1>6. Timely(x)'
  <2>1. e \in Used' /\ (Done(entry[e]) => Done(entry'[e]))
    BY <1>2, UsedStays
  <2> HIDE DEF x
  <2> QED BY <1>4, <1>5, <2>1 DEF Timely, MoveKind
<1>7. \A t \in Steps(writer) : ~Clash(t, x)
  BY <1>4, <1>5 DEF Clash
<1> HIDE DEF x
<1>8. QueueOK'
  BY <1>2, <1>3, <1>4, <1>6, <1>7, QueueGrows
<1> QED
  BY <1>2, <1>8, QuietStep

-----------------------------------------------------------------------------
(* The functions of a reservation. *)

LEMMA GatedKin ==
  ASSUME NEW r \in Reserved, NEW on \in BOOLEAN
  PROVE  LET s == Gated(r, on) IN
         Kin(r, s) /\ (r.ready => s.ready) /\ (s.ready => Prepared(s) \/ r.ready)
<1> DEFINE s == Gated(r, on)
<1> SUFFICES Kin(r, s) /\ (r.ready => s.ready) /\ (s.ready => Prepared(s) \/ r.ready)
  OBVIOUS
<1>1. CASE r.mode # "readmit" /\ ~on
  <2>1. s = Leaves(r)
    BY <1>1 DEF Gated
  <2>2. Kin(r, Leaves(r)) /\ Leaves(r).setup = "over" /\ Leaves(r).ready
    BY LeavesKin
  <2> QED
    <3> HIDE DEF s
    <3> QED BY <2>1, <2>2 DEF Prepared
<1>2. CASE ~(r.mode # "readmit" /\ ~on) /\ r.gate = "bad"
  <2>1. s = GivesUp(r, on)
    BY <1>2 DEF Gated
  <2>2. Kin(r, GivesUp(r, on)) /\ GivesUp(r, on).setup = "settling" /\ GivesUp(r, on).ready
    BY GivesUpKin
  <2> QED
    <3> HIDE DEF s
    <3> QED BY <2>1, <2>2 DEF Prepared
<1>3. CASE ~(r.mode # "readmit" /\ ~on) /\ r.gate # "bad"
  <2>1. s = [r EXCEPT !.setup = "building"]
    BY <1>3 DEF Gated
  <2>2. "building" \in SetupStage
    BY DEF SetupStage
  <2> QED
    <3> HIDE DEF s
    <3> QED BY <2>1, <2>2, SetupKin
<1> QED
  BY <1>1, <1>2, <1>3

LEMMA UsedReserved ==
  ASSUME BInv, NEW e \in Used
  PROVE  e \in Entry /\ entry[e] \in Reserved
BY DEF Used, BInv, CoreOK

LEMMA FailRest == ASSUME BInv, MayFail PROVE moves' \in Nat /\ calls' \in Nat /\ fails' \in Nat
BY DEF BInv, RestOK, MayFail
LEMMA CallRest == ASSUME BInv, Call PROVE moves' \in Nat /\ calls' \in Nat /\ fails' \in Nat
BY DEF BInv, RestOK, Call

LEMMA StepSnapshot == ASSUME BInv, NEW e \in Used, Snapshot(e) PROVE BInv' /\ Calm
<1> DEFINE s == [entry[e] EXCEPT !.view = "current"]
<1>1. entry' = [entry EXCEPT ![e] = s] /\ UNCHANGED core /\ UNCHANGED writer /\ RestOK'
  BY DEF Snapshot, core, host, gates, bounds, BInv, RestOK
<1>2. Twin(entry[e], s)
  BY UsedReserved, FieldTwin
<1> HIDE DEF s
<1> QED
  BY <1>1, <1>2, UsedReserved, TwinAction

LEMMA StepReplayed == ASSUME BInv, NEW e \in Used, Replayed(e) PROVE BInv' /\ Calm
<1>0. entry[e] \in Reserved /\ entry[e].setup = "replaying"
  BY UsedReserved DEF Replayed
<1>1. UNCHANGED core /\ UNCHANGED writer /\ RestOK'
  BY FailRest DEF Replayed, core, host, gates, bounds, BInv, RestOK
<1>2. PICK g \in {"good", "bad"} : entry' = [entry EXCEPT ![e] =
            LET r == [entry[e] EXCEPT !.gate = g] IN
            IF r.mode = "initial" THEN [r EXCEPT !.setup = "turn"] ELSE Gated(r, Runnable(e))]
  BY DEF Replayed
<1> DEFINE r == [entry[e] EXCEPT !.gate = g]
           s == IF r.mode = "initial" THEN [r EXCEPT !.setup = "turn"] ELSE Gated(r, Runnable(e))
<1>3. Twin(entry[e], r)
  BY <1>0, FieldTwin
<1>4. Kin(r, s) /\ (r.ready => s.ready) /\ (s.ready => Prepared(s) \/ r.ready)
  <2>1. r \in Reserved /\ Runnable(e) \in BOOLEAN /\ "turn" \in SetupStage
    BY <1>3 DEF Twin, Kin, Runnable, SetupStage, BInv, CoreOK
  <2> HIDE DEF r
  <2> QED BY <2>1, GatedKin, SetupKin
<1>5. entry' = [entry EXCEPT ![e] = s]
  BY <1>2
<1> HIDE DEF r, s
<1>6. Kin(entry[e], s) /\ (entry[e].ready => s.ready) /\ (s.ready => Prepared(s) \/ entry[e].ready)
  BY <1>3, <1>4 DEF Twin, Kin
<1> QED
  BY <1>0, <1>1, <1>5, <1>6, KinAction DEF Prepared, SetupKind

LEMMA StepTakeTurn == ASSUME BInv, NEW e \in Used, TakeTurn(e) PROVE BInv' /\ Calm
<1> DEFINE s == Gated(entry[e], Runnable(e))
<1>1. entry[e] \in Reserved /\ entry[e].setup = "turn" /\ Runnable(e) \in BOOLEAN
  BY UsedReserved DEF TakeTurn, Runnable, BInv, CoreOK
<1>2. entry' = [entry EXCEPT ![e] = s] /\ UNCHANGED core /\ UNCHANGED writer /\ RestOK'
  BY DEF TakeTurn, core, host, gates, bounds, BInv, RestOK
<1>3. Kin(entry[e], s) /\ (entry[e].ready => s.ready) /\ (s.ready => Prepared(s) \/ entry[e].ready)
  BY <1>1, GatedKin
<1> HIDE DEF s
<1> QED
  BY <1>1, <1>2, <1>3, KinAction DEF Prepared, SetupKind

LEMMA StepSetupReturns == ASSUME BInv, NEW e \in Used, SetupReturns(e) PROVE BInv' /\ Calm
<1> DEFINE s == [entry[e] EXCEPT !.setup = "over"]
<1>1. entry[e] \in Reserved /\ entry[e].setup = "settling" /\ "over" \in SetupStage
  BY UsedReserved DEF SetupReturns, SetupStage
<1>2. entry' = [entry EXCEPT ![e] = s] /\ UNCHANGED core /\ UNCHANGED writer /\ RestOK'
  BY DEF SetupReturns, core, host, gates, bounds, BInv, RestOK
<1>3. Kin(entry[e], s) /\ s.setup = "over" /\ s.ready = entry[e].ready
  BY <1>1, SetupKin
<1> HIDE DEF s
<1> QED
  BY <1>1, <1>2, <1>3, KinAction DEF Prepared, SetupKind

LEMMA StepRunEnds == ASSUME BInv, NEW e \in Used, RunEnds(e) PROVE BInv' /\ Calm
<1>1. PICK result \in {"complete", "failed"} :
        entry' = [entry EXCEPT ![e] = [Settling(entry[e], Runnable(e), result) EXCEPT !.run = "settling"]]
  BY DEF RunEnds
<1> DEFINE r == Settling(entry[e], Runnable(e), result)
           s == [r EXCEPT !.run = "settling"]
<1>2. UNCHANGED core /\ UNCHANGED writer /\ RestOK'
  BY DEF RunEnds, core, host, gates, bounds, BInv, RestOK
<1>3. Twin(entry[e], r)
  BY UsedReserved, SettlingTwin
<1>4. Twin(r, s)
  <2>1. r \in Reserved
    BY <1>3 DEF Twin, Kin
  <2> HIDE DEF r
  <2> QED BY <2>1, FieldTwin
<1>5. entry' = [entry EXCEPT ![e] = s]
  BY <1>1
<1> HIDE DEF r, s
<1> QED
  BY <1>2, <1>3, <1>4, <1>5, UsedReserved, TwinIsTwin, TwinAction

LEMMA StepRunReturns == ASSUME BInv, NEW e \in Used, RunReturns(e) PROVE BInv' /\ Calm
<1> DEFINE s == [entry[e] EXCEPT !.run = "over"]
<1>1. entry' = [entry EXCEPT ![e] = s] /\ UNCHANGED core /\ UNCHANGED writer /\ RestOK'
  BY DEF RunReturns, core, host, gates, bounds, BInv, RestOK
<1>2. Twin(entry[e], s)
  BY UsedReserved, FieldTwin
<1> HIDE DEF s
<1> QED
  BY <1>1, <1>2, UsedReserved, TwinAction

LEMMA StepSettleOps == ASSUME BInv, NEW e \in Used, SettleOps(e) PROVE BInv' /\ Calm
<1> DEFINE r == Asked(entry[e])
           s == [r EXCEPT !.settle = "dispose"]
<1>1. entry' = [entry EXCEPT ![e] = s] /\ UNCHANGED core /\ UNCHANGED writer /\ RestOK'
  BY DEF SettleOps, core, host, gates, bounds, BInv, RestOK
<1>2. Twin(entry[e], r)
  BY UsedReserved, AskedTwin
<1>3. Twin(r, s)
  <2>1. r \in Reserved
    BY <1>2 DEF Twin, Kin
  <2> HIDE DEF r
  <2> QED BY <2>1, FieldTwin
<1> HIDE DEF r, s
<1> QED
  BY <1>1, <1>2, <1>3, UsedReserved, TwinIsTwin, TwinAction

LEMMA StepDispose == ASSUME BInv, NEW e \in Used, Dispose(e) PROVE BInv' /\ Ends(e)
<1>0. e \in Entry /\ entry[e] \in Reserved /\ entry[e].ready /\ entry[e].disposal = "asked"
  BY UsedReserved DEF Dispose
<1>1. UNCHANGED core /\ UNCHANGED writer /\ RestOK'
  BY FailRest DEF Dispose, core, host, gates, bounds, BInv, RestOK
<1>2. PICK x \in {"done", "failed"}, y \in {"none", "gone", "stuck"} :
        entry' = [entry EXCEPT ![e] = [entry[e] EXCEPT !.disposal = x, !.runtime = y]]
  <2>1. PICK failed \in BOOLEAN :
          entry' = [entry EXCEPT ![e].disposal = IF failed THEN "failed" ELSE "done",
                ![e].runtime = CASE failed -> "stuck" [] ~failed /\ @ = "up" -> "gone" [] OTHER -> @]
    BY DEF Dispose
  <2> DEFINE x == IF failed THEN "failed" ELSE "done"
             y == CASE failed -> "stuck" [] ~failed /\ entry[e].runtime = "up" -> "gone" [] OTHER -> entry[e].runtime
  <2>2. x \in {"done", "failed"}
    OBVIOUS
  <2>3. y \in {"none", "gone", "stuck"}
    <3>1. entry[e].runtime \in {"none", "up", "gone", "stuck"}
      BY <1>0 DEF Reserved
    <3> QED BY <3>1
  <2>4. entry' = [entry EXCEPT ![e] = [entry[e] EXCEPT !.disposal = x, !.runtime = y]]
    <3> HIDE DEF x
    <3>1. entry' = [entry EXCEPT ![e].disposal = x,
                ![e].runtime = CASE failed -> "stuck" [] ~failed /\ @ = "up" -> "gone" [] OTHER -> @]
      BY <2>1 DEF x
    <3> QED BY <3>1, <1>0 DEF Reserved
  <2> HIDE DEF x, y
  <2> QED BY <2>2, <2>3, <2>4
<1>10. PICK s : s = [entry[e] EXCEPT !.disposal = x, !.runtime = y]
  OBVIOUS
<1>3. /\ s \in Reserved /\ s.branch = entry[e].branch /\ s.mode = entry[e].mode /\ s.setup = entry[e].setup
      /\ s.ready = entry[e].ready /\ s.at = entry[e].at /\ s.disposal = x /\ s.runtime = y
  <2> DEFINE u == [entry[e] EXCEPT !.disposal = x]
  <2>1. u \in Reserved /\ u.branch = entry[e].branch /\ u.mode = entry[e].mode /\ u.disposal = x
        /\ u.at = entry[e].at /\ u.setup = entry[e].setup /\ u.ready = entry[e].ready
    BY <1>0 DEF Reserved
  <2>2. s = [u EXCEPT !.runtime = y]
    BY <1>10
  <2> HIDE DEF u
  <2> QED BY <2>1, <2>2 DEF Reserved
<1>4. entry' = [entry EXCEPT ![e] = s] /\ entry'[e] = s
  BY <1>0, <1>2, <1>10 DEF BInv, CoreOK
<1>5. Onward /\ move' = move
  BY <1>1 DEF core, Onward, Accepting
<1>6. Follows(e)
  <2>1. s.ready => Prepared(s) \/ ~Accepting'
    BY <1>3, <1>5 DEF Prepared, BInv, ReadyOK, Onward
  <2> QED BY <1>0, <1>3, <1>4, <2>1 DEF Follows, Done, Past
<1>7. Evolves
  BY <1>0, <1>4, <1>5, <1>6, FollowsOne
<1>8. \A t \in Steps(writer) : Kept(t)
  BY <1>0, <1>3, <1>4, <1>5, KeptOne
<1>9. Ends(e)
  BY <1>0, <1>3, <1>4 DEF Ends, Alone, Works, BInv, CoreOK
<1> QED
  BY <1>1, <1>7, <1>8, <1>9, QueueStays, QuietStep

LEMMA SetupEnqueues ==
  ASSUME BInv, NEW e \in Used, NEW kind \in SetupKind, entry' = [entry EXCEPT ![e].setup = kind],
         entry[e].setup \notin SetupKind \cup {"none", "settling", "over"},
         Enqueue(kind, e), UNCHANGED core, RestOK'
  PROVE  BInv' /\ Calm
<1>1. Onward /\ move' = move /\ e \in Entry /\ entry[e] \in Reserved /\ started /\ started' = started
  BY UsedReserved DEF core, Onward, Accepting, BInv, ReadyOK
<1> DEFINE s == [entry[e] EXCEPT !.setup = kind]
<1>2. Kin(entry[e], s) /\ s.setup = kind /\ s.ready = entry[e].ready /\ entry' = [entry EXCEPT ![e] = s]
  <2>1. kind \in SetupStage
    BY DEF SetupStage, SetupKind
  <2> QED BY <1>1, <2>1, SetupKin
<1> HIDE DEF s
<1>3. Evolves /\ Calm
  BY <1>1, <1>2, KinEvolves DEF Prepared
<1>4. \A t \in Steps(writer) : Kept(t)
  BY <1>1, <1>2, KeptOne
<1> DEFINE x == Step(kind, e)
<1>5. x \in WriterSteps /\ x.kind = kind /\ x.who = e /\ writer' = Append(writer, x)
  BY <1>1 DEF Step, Enqueue, WriterSteps, StepKind
<1>6. kind \notin MoveKind \cup Drains \cup {"op", "idle", "unseal"}
  BY DEF Drains, MoveKind, SetupKind
<1> HIDE DEF x
<1>7. Timely(x)'
  <2>1. e \in Used' /\ entry'[e].setup = kind
    BY <1>1, <1>2, <1>3, UsedStays DEF BInv, CoreOK
  <2> QED BY <1>5, <1>6, <2>1 DEF Timely, MoveKind
<1>8. \A t \in Steps(writer) : ~Clash(t, x)
  BY <1>5, <1>6 DEF Clash, BInv, QueueOK, Timely
<1>9. QueueOK'
  BY <1>3, <1>4, <1>5, <1>7, <1>8, QueueGrows
<1> QED
  BY <1>3, <1>9, QuietStep

LEMMA RunsEvolves ==
  ASSUME BInv, NEW e \in Used, Runnable(e), entry[e].setup \in {"building", "activate"},
         entry' = [entry EXCEPT ![e] = Runs(entry[e])], Onward
  PROVE  Evolves /\ Begins(e)
<1> DEFINE s == Runs(entry[e])
<1>1. e \in Entry /\ entry[e] \in Reserved /\ started
  BY UsedReserved DEF BInv, ReadyOK
<1>2. /\ s \in Reserved /\ s.branch = entry[e].branch /\ s.mode = entry[e].mode /\ s.disposal = entry[e].disposal
      /\ s.at = entry[e].at /\ s.setup = "over" /\ s.ready = TRUE /\ s.runtime = "up"
  BY <1>1, RunsUp
<1> HIDE DEF s
<1>3. entry' = [entry EXCEPT ![e] = s] /\ entry'[e] = s
  BY <1>1 DEF s, BInv, CoreOK
<1>4. Follows(e)
  BY <1>1, <1>2, <1>3 DEF Follows, Done, Past, Prepared, Onward
<1>5. Begins(e)
  BY <1>1, <1>2, <1>3 DEF Begins, Alone, Works, Used, BInv, CoreOK
<1> QED
  BY <1>1, <1>3, <1>4, <1>5, FollowsOne

LEMMA StepPassBarrier == ASSUME BInv, NEW e \in Used, PassBarrier(e) PROVE BInv' /\ Calm
<1>1. entry[e] \in Reserved /\ e \in Entry /\ entry[e].setup = "barrier" /\ UNCHANGED core /\ RestOK'
  BY UsedReserved DEF PassBarrier, core, host, gates, bounds, BInv, RestOK
<1>2. CASE entry[e].mode = "readmit"
  <2>1. entry' = [entry EXCEPT ![e].setup = "reseal"] /\ Enqueue("reseal", e) /\ "reseal" \in SetupKind
    BY <1>2 DEF PassBarrier, SetupKind
  <2> QED
    BY <1>1, <2>1, SetupEnqueues DEF SetupKind
<1>3. CASE entry[e].mode # "readmit" /\ Runnable(e)
  <2> DEFINE s == [entry[e] EXCEPT !.setup = "replaying"]
  <2>1. entry' = [entry EXCEPT ![e] = s] /\ UNCHANGED writer
    BY <1>3 DEF PassBarrier
  <2>2. Kin(entry[e], s) /\ s.ready = entry[e].ready
    BY <1>1, SetupKin DEF SetupStage
  <2> HIDE DEF s
  <2> QED
    BY <1>1, <2>1, <2>2, KinAction DEF Prepared, SetupKind
<1>4. CASE entry[e].mode # "readmit" /\ ~Runnable(e)
  <2> DEFINE s == Leaves(entry[e])
  <2>1. entry' = [entry EXCEPT ![e] = s] /\ UNCHANGED writer
    BY <1>4 DEF PassBarrier
  <2>2. Kin(entry[e], s) /\ s.ready /\ s.setup = "over"
    BY <1>1, LeavesKin
  <2> HIDE DEF s
  <2> QED
    BY <1>1, <2>1, <2>2, KinAction DEF Prepared, SetupKind
<1> QED
  BY <1>2, <1>3, <1>4

LEMMA StepBuilt == ASSUME BInv, NEW e \in Used, Built(e) PROVE BInv' /\ (Calm \/ Begins(e))
<1>1. entry[e] \in Reserved /\ e \in Entry /\ entry[e].setup = "building" /\ UNCHANGED core /\ RestOK'
  BY FailRest, UsedReserved DEF Built, core, host, gates, bounds, BInv, RestOK
<1>2. CASE UNCHANGED writer /\ entry' = [entry EXCEPT ![e] = GivesUp(entry[e], TRUE)]
  <2> DEFINE s == GivesUp(entry[e], TRUE)
  <2>1. entry' = [entry EXCEPT ![e] = s] /\ UNCHANGED writer
    BY <1>2
  <2>2. Kin(entry[e], s) /\ s.ready /\ s.setup = "settling"
    BY <1>1, GivesUpKin
  <2> HIDE DEF s
  <2> QED
    BY <1>1, <2>1, <2>2, KinAction DEF Prepared, SetupKind
<1>3. CASE UNCHANGED writer /\ entry' = [entry EXCEPT ![e] = Leaves(entry[e])]
  <2> DEFINE s == Leaves(entry[e])
  <2>1. entry' = [entry EXCEPT ![e] = s] /\ UNCHANGED writer
    BY <1>3
  <2>2. Kin(entry[e], s) /\ s.ready /\ s.setup = "over"
    BY <1>1, LeavesKin
  <2> HIDE DEF s
  <2> QED
    BY <1>1, <2>1, <2>2, KinAction DEF Prepared, SetupKind
<1>4. CASE Runnable(e) /\ UNCHANGED writer /\ entry' = [entry EXCEPT ![e] = Runs(entry[e])]
  <2>1. Onward /\ move' = move
    BY <1>1 DEF core, Onward, Accepting
  <2>2. Evolves /\ Begins(e)
    BY <1>1, <1>4, <2>1, RunsEvolves
  <2> DEFINE s == Runs(entry[e])
  <2>3. entry' = [entry EXCEPT ![e] = s]
    BY <1>4
  <2> HIDE DEF s
  <2>4. \A t \in Steps(writer) : Kept(t)
    BY <1>1, <2>1, <2>3, KeptOne DEF SetupKind
  <2> QED
    BY <1>1, <1>4, <2>2, <2>4, QueueStays, QuietStep
<1>5. CASE entry' = [entry EXCEPT ![e].setup = "activate"] /\ Enqueue("activate", e)
  BY <1>1, <1>5, SetupEnqueues DEF SetupKind
<1> QED
  BY <1>2, <1>3, <1>4, <1>5 DEF Built

LEMMA StepUnloadReady == ASSUME BInv, NEW e \in Used, UnloadReady(e) PROVE BInv' /\ Calm
<1> DEFINE s == [entry[e] EXCEPT !.at["unload"] = "check"]
<1>1. entry' = [entry EXCEPT ![e] = s] /\ UNCHANGED core /\ Enqueue("idle", e) /\ RestOK'
  BY DEF UnloadReady, core, host, gates, bounds, BInv, RestOK
<1>2. Twin(entry[e], s)
  <2>1. "unload" \in Drains /\ "check" \in DrainStage /\ "check" \notin {"run", "unseal", "over"} /\ entry[e] \in Reserved
    BY UsedReserved DEF Drains, DrainStage
  <2> QED BY <2>1, StageTwin
<1> HIDE DEF s
<1> QED
  BY <1>1, <1>2, TwinEnqueues

LEMMA StepDrainsSetup == ASSUME BInv, NEW e \in Used, NEW d \in Drains, DrainsSetup(e, d) PROVE BInv' /\ Calm
<1> DEFINE r == [entry[e] EXCEPT !.at[d] = "ops"]
           s == [r EXCEPT !.draining = TRUE]
<1>1. entry' = [entry EXCEPT ![e] = s] /\ UNCHANGED core /\ UNCHANGED writer /\ RestOK'
  BY DEF DrainsSetup, core, host, gates, bounds, BInv, RestOK
<1>2. Twin(entry[e], r)
  <2>1. "ops" \in DrainStage /\ "ops" \notin {"run", "unseal", "over"} /\ entry[e] \in Reserved
    BY UsedReserved DEF DrainStage
  <2> QED BY <2>1, StageTwin
<1>3. Twin(r, s)
  <2>1. r \in Reserved
    BY <1>2 DEF Twin, Kin
  <2> HIDE DEF r
  <2> QED BY <2>1, FieldTwin
<1> HIDE DEF r, s
<1> QED
  BY <1>1, <1>2, <1>3, UsedReserved, TwinIsTwin, TwinAction

LEMMA StepDrainsOps == ASSUME BInv, NEW e \in Used, NEW d \in Drains, DrainsOps(e, d) PROVE BInv' /\ Calm
<1> DEFINE s == [entry[e] EXCEPT !.at[d] = "seal"]
<1>1. entry' = [entry EXCEPT ![e] = s] /\ UNCHANGED core /\ Enqueue(d, e) /\ RestOK'
  BY DEF DrainsOps, core, host, gates, bounds, BInv, RestOK
<1>2. Twin(entry[e], s)
  <2>1. "seal" \in DrainStage /\ "seal" \notin {"run", "unseal", "over"} /\ entry[e] \in Reserved
    BY UsedReserved DEF DrainStage
  <2> QED BY <2>1, StageTwin
<1> HIDE DEF s
<1>3. d \in Drains \cup {"idle", "unseal"} /\ d # "unseal"
  BY DEF Drains
<1> QED
  BY <1>1, <1>2, <1>3, TwinEnqueues

LEMMA StepDrainsRuntime == ASSUME BInv, NEW e \in Used, NEW d \in Drains, DrainsRuntime(e, d) PROVE BInv' /\ Calm
<1> DEFINE r == [entry[e] EXCEPT !.at[d] = "run"]
           x == IF entry[e].disposal = "failed" THEN r.spoilt \cup {d} ELSE r.spoilt
           s == [r EXCEPT !.spoilt = x]
<1>1. UNCHANGED core /\ UNCHANGED writer /\ RestOK' /\ Done(entry[e]) /\ entry[e] \in Reserved /\ e \in Entry
  BY UsedReserved DEF DrainsRuntime, Done, core, host, gates, bounds, BInv, RestOK
<1>2. entry' = [entry EXCEPT ![e] = s]
  BY <1>1 DEF DrainsRuntime, Reserved
<1>3. Twin(entry[e], r)
  BY <1>1, StageTwin DEF DrainStage
<1>4. Twin(r, s)
  <2>1. r \in Reserved
    BY <1>3 DEF Twin, Kin
  <2> HIDE DEF r
  <2>2. x \in SUBSET Drains
    BY <2>1 DEF Reserved
  <2> HIDE DEF x
  <2> QED BY <2>1, <2>2, FieldTwin
<1> HIDE DEF r, s
<1> QED
  BY <1>1, <1>2, <1>3, <1>4, TwinIsTwin, TwinAction

(* What is left of a drain whose reservation has been disposed of. *)
LEMMA DrainOverEvolves ==
  ASSUME BInv, NEW e \in Used, NEW d \in Drains, Done(entry[e]), DrainOver(e, d),
         UNCHANGED <<host, moving, move, known>>
  PROVE  /\ Evolves /\ Calm /\ Succeeds /\ Onward /\ CoreOK' /\ EndOK'
         /\ \A f \in Entry : Twin(entry[f], entry'[f])
         /\ readmit' \subseteq Branch /\ outcomes' \in BOOLEAN
<1> DEFINE s == [entry[e] EXCEPT !.at[d] = "over"]
           b == entry[e].branch
<1>1. e \in Entry /\ entry[e] \in Reserved /\ b \in Branch
  BY UsedReserved DEF Reserved
<1>2. Twin(entry[e], s)
  BY <1>1, StageTwin DEF DrainStage
<1>3. entry' = [entry EXCEPT ![e] = s]
  BY DEF DrainOver
<1>4. Onward
  BY DEF Onward, DrainOver, ClosesWhenDrained, Accepting, host
<1> HIDE DEF s
<1>5. Evolves /\ Calm
  BY <1>1, <1>2, <1>3, <1>4, TwinEvolves
<1>6. \A f \in Entry : Twin(entry[f], entry'[f])
  BY <1>2, <1>3, TwinIsTwin DEF BInv, CoreOK
<1>7. entry' \in [Entry -> Reserved]
  BY <1>5, <1>6 DEF Evolves, Twin, Kin
<1>8. CASE live[b] # e
  <2>1. UNCHANGED <<phase, live, outcomes, admitted, readmit>>
    BY <1>8 DEF DrainOver
  <2>2. CoreOK' /\ Succeeds /\ EndOK' /\ readmit' \subseteq Branch /\ outcomes' \in BOOLEAN
    BY <1>7, <2>1, SameLive DEF BInv, CoreOK, RestOK, EndOK, Accepting, host
  <2> QED
    BY <1>4, <1>5, <1>6, <2>2
<1>9. CASE live[b] = e
  <2>1. live' = [live EXCEPT ![b] = 0] /\ outcomes' = TRUE
        /\ admitted' = [admitted EXCEPT ![b] = IF d \in entry[e].spoilt THEN "broken" ELSE "absent"]
        /\ readmit' \subseteq Branch
        /\ phase' = IF /\ Accepting /\ moving = {} /\ held # "held" /\ \A c \in Branch : live'[c] = 0
                    THEN "closing" ELSE phase
    BY <1>1, <1>9 DEF DrainOver, ClosesWhenDrained, BInv, RestOK
  <2> HIDE DEF b
  <2>2. CoreOK'
    BY <1>1, <1>7, <2>1 DEF BInv, CoreOK, host
  <2>3. Succeeds
    <3>1. \A c \in Branch : live'[c] = IF c = b THEN 0 ELSE live[c]
      BY <1>1, <2>1 DEF BInv, CoreOK
    <3>2. \A c \in Branch : c # b => admitted'[c] = admitted[c]
      BY <1>1, <2>1 DEF BInv, CoreOK
    <3>3. admitted'[b] # "claimed"
      BY <1>1, <2>1 DEF BInv, CoreOK
    <3> QED BY <1>9, <3>1, <3>2, <3>3 DEF Succeeds, BInv, LiveOK
  <2>4. EndOK'
    <3>1. \A c \in Branch : live'[c] = live[c] \/ live'[c] = 0
      BY <1>1, <2>1 DEF BInv, CoreOK
    <3> QED BY <2>1, <3>1 DEF BInv, EndOK, Accepting, host
  <2> QED
    BY <1>4, <1>5, <1>6, <2>1, <2>2, <2>3, <2>4
<1> QED
  BY <1>8, <1>9

LEMMA StepDrainsRun == ASSUME BInv, NEW e \in Used, NEW d \in Drains, DrainsRun(e, d) PROVE BInv' /\ Calm
<1>1. e \in Entry /\ entry[e] \in Reserved /\ Past(entry[e], d) /\ Done(entry[e])
  BY UsedReserved DEF DrainsRun, Past, BInv, ReadyOK
<1>2. CASE d = "unload" /\ d \notin entry[e].spoilt
  <2> DEFINE s == [entry[e] EXCEPT !.at[d] = "unseal"]
  <2>1. entry' = [entry EXCEPT ![e] = s] /\ Enqueue("unseal", e) /\ UNCHANGED core /\ RestOK'
    BY <1>2 DEF DrainsRun, core, host, bounds, BInv, RestOK
  <2>2. Twin(entry[e], s)
    BY <1>1, StageTwin DEF DrainStage
  <2> HIDE DEF s
  <2> QED
    BY <1>1, <2>1, <2>2, TwinEnqueues
<1>3. CASE ~(d = "unload" /\ d \notin entry[e].spoilt)
  <2>1. DrainOver(e, d) /\ UNCHANGED writer /\ UNCHANGED <<host, known, sealed, moving, op, move, bounds>>
    BY <1>3 DEF DrainsRun
  <2>2. /\ Evolves /\ Calm /\ Succeeds /\ Onward /\ CoreOK' /\ EndOK'
        /\ \A f \in Entry : Twin(entry[f], entry'[f])
        /\ readmit' \subseteq Branch /\ outcomes' \in BOOLEAN
    BY <1>1, <2>1, DrainOverEvolves
  <2>3. RestOK'
    BY <2>1, <2>2 DEF BInv, RestOK, host, bounds
  <2>4. QueueOK'
    <3>1. \A t \in Steps(writer) : Kept(t)
      BY <2>1, <2>2, KeptTwins
    <3> QED BY <2>1, <2>2, <3>1, QueueStays
  <2>5. MovesOK'
    BY <2>1, <2>2, MovesStay DEF host
  <2> QED
    BY <2>2, <2>3, <2>4, <2>5, StepLiveReady DEF BInv
<1> QED
  BY <1>2, <1>3

LEMMA StepSettled == ASSUME BInv, NEW e \in Used, Settled(e) PROVE BInv' /\ Calm
<1> DEFINE b == entry[e].branch
<1>1. e \in Entry /\ entry[e] \in Reserved /\ b \in Branch /\ Done(entry[e])
  BY UsedReserved DEF Settled, Done, Reserved
<1>2. CASE ~Accepting \/ live[b] # e
  <2> DEFINE s == [entry[e] EXCEPT !.settle = "over"]
  <2>1. entry' = [entry EXCEPT ![e] = s] /\ UNCHANGED core /\ UNCHANGED writer /\ RestOK'
    BY <1>2 DEF Settled, core, host, bounds, BInv, RestOK
  <2>2. Twin(entry[e], s)
    BY <1>1, FieldTwin
  <2> HIDE DEF s
  <2> QED
    BY <1>1, <2>1, <2>2, TwinAction
<1>3. CASE Accepting /\ live[b] = e
  <2> DEFINE result == IF entry[e].disposal = "failed" THEN "failed" ELSE entry[e].outcome
             last == held # "held" /\ \A c \in Branch : [live EXCEPT ![b] = 0][c] = 0
             x == IF last THEN "aggregate" ELSE "over"
             r == [entry[e] EXCEPT !.settle = x]
             s == [r EXCEPT !.outcome = result]
  <2>1. /\ entry' = [entry EXCEPT ![e] = s]
        /\ live' = [live EXCEPT ![b] = 0] /\ outcomes' = TRUE
        /\ admitted' = [admitted EXCEPT ![b] = IF result = "failed" THEN "failed" ELSE admitted[b]]
        /\ phase' = IF last THEN "closing" ELSE phase
        /\ UNCHANGED <<host, known, readmit, sealed, moving, writer, op, move, bounds>>
    BY <1>3 DEF Settled
  <2>2. result \in {"none", "complete", "failed"} /\ x \in {"no", "ops", "dispose", "aggregate", "over"}
    BY <1>1 DEF Reserved
  <2>3. last => \A c \in Branch : live'[c] = 0
    BY <2>1
  <2> HIDE DEF result, last, x
  <2>4. Twin(entry[e], r)
    BY <1>1, <2>2, FieldTwin
  <2>5. Twin(r, s)
    <3>1. r \in Reserved
      BY <2>4 DEF Twin, Kin
    <3> HIDE DEF r
    <3> QED BY <2>2, <3>1, FieldTwin
  <2> HIDE DEF r, s
  <2>6. Twin(entry[e], s)
    BY <2>4, <2>5, TwinIsTwin
  <2>7. Onward
    BY <2>1 DEF Onward, Accepting, host
  <2>8. Evolves /\ Calm
    BY <1>1, <2>1, <2>6, <2>7, TwinEvolves
  <2>9. \A f \in Entry : Twin(entry[f], entry'[f])
    BY <2>1, <2>6, TwinIsTwin DEF BInv, CoreOK
  <2>10. entry' \in [Entry -> Reserved]
    BY <2>8, <2>9 DEF Evolves, Twin, Kin
  <2> HIDE DEF b
  <2>11. admitted[b] = "taken" /\ \A c \in Branch : live'[c] = IF c = b THEN 0 ELSE live[c]
    <3>1. live[b] # 0
      BY <1>1, <1>3, BranchesAssumption
    <3> QED BY <1>1, <2>1, <3>1 DEF BInv, CoreOK, LiveOK
  <2>12. CoreOK'
    BY <1>1, <2>1, <2>10, <2>11 DEF BInv, CoreOK, host
  <2>13. Succeeds
    <3>1. \A c \in Branch : c # b => admitted'[c] = admitted[c]
      BY <1>1, <2>1 DEF BInv, CoreOK
    <3>2. admitted'[b] # "claimed"
      BY <1>1, <2>1, <2>11 DEF BInv, CoreOK
    <3> QED BY <1>1, <1>3, <2>11, <3>1, <3>2 DEF Succeeds, BInv, LiveOK
  <2>14. EndOK'
    BY <1>3, <2>1, <2>3 DEF EndOK, Accepting, BInv
  <2>15. RestOK'
    BY <2>1 DEF BInv, RestOK, host, bounds
  <2>16. QueueOK'
    <3>1. \A t \in Steps(writer) : Kept(t)
      BY <2>1, <2>9, KeptTwins
    <3> QED BY <2>1, <2>8, <3>1, QueueStays
  <2>17. MovesOK'
    BY <2>1, <2>8, <2>13, MovesStay DEF host
  <2> QED
    BY <2>7, <2>8, <2>12, <2>13, <2>14, <2>15, <2>16, <2>17, StepLiveReady DEF BInv
<1> QED
  BY <1>2, <1>3

-----------------------------------------------------------------------------
(* Calls of hosts. *)

LEMMA LiveUsed ==
  ASSUME BInv, NEW b \in Branch, live[b] # 0
  PROVE  live[b] \in Used /\ live[b] \in Entry /\ entry[live[b]] \in Reserved
BY DEF BInv, LiveOK, CoreOK, Used

LEMMA StepStopAndDrain == ASSUME BInv, NEW b \in Branch, StopAndDrain(b) PROVE BInv' /\ Calm
<1> DEFINE e == live[b]
           s == Stopped(entry[e])
<1>1. entry' = [entry EXCEPT ![e] = s] /\ UNCHANGED core /\ UNCHANGED writer /\ RestOK'
  BY CallRest DEF StopAndDrain, core, host, gates, bounds, BInv, RestOK
<1>2. e \in Entry /\ Twin(entry[e], s)
  BY LiveUsed, StoppedTwin DEF StopAndDrain
<1> HIDE DEF e, s
<1> QED
  BY <1>1, <1>2, TwinAction

(* Two fields changed at once are two changes of one record. *)
LEMMA ShutAt ==
  ASSUME NEW e \in Entry, NEW x \in BOOLEAN, NEW y,
         entry' = [entry EXCEPT ![e].shut = x, ![e].at["unload"] = y]
  PROVE  entry' = [entry EXCEPT ![e] = [[entry[e] EXCEPT !.shut = x] EXCEPT !.at["unload"] = y]]
OBVIOUS

LEMMA StepUnload == ASSUME BInv, NEW b \in Branch, Unload(b) PROVE BInv' /\ Calm
<1> DEFINE e == live[b]
           r == [entry[e] EXCEPT !.shut = TRUE]
           s == [r EXCEPT !.at["unload"] = "ready"]
<1>1. UNCHANGED core /\ UNCHANGED writer /\ RestOK'
  BY CallRest DEF Unload, core, host, gates, bounds, BInv, RestOK
<1>2. e \in Entry /\ entry[e] \in Reserved
  BY LiveUsed DEF Unload
<1>3. entry' = [entry EXCEPT ![e] = s]
  <2>1. entry' = [entry EXCEPT ![e].shut = TRUE, ![e].at["unload"] = "ready"]
    BY DEF Unload
  <2> HIDE DEF e
  <2> QED BY <1>2, <2>1, ShutAt
<1> HIDE DEF e
<1>4. Twin(entry[e], r)
  BY <1>2, FieldTwin
<1>5. Twin(r, s)
  <2>1. r \in Reserved /\ "unload" \in Drains /\ "ready" \in DrainStage /\ "ready" \notin {"run", "unseal", "over"}
    BY <1>4 DEF Twin, Kin, Drains, DrainStage
  <2> HIDE DEF r
  <2> QED BY <2>1, StageTwin
<1> HIDE DEF r, s
<1> QED
  BY <1>1, <1>2, <1>3, <1>4, <1>5, TwinIsTwin, TwinAction

(* Reservations that are made after the start. *)
LEMMA ReservationMade ==
  ASSUME NEW b \in Branch, NEW mode \in {"dynamic", "readmit"}
  PROVE  LET s == Reservation(b, mode) IN
         /\ s \in Reserved /\ ~s.ready /\ ~Done(s) /\ s.runtime = "none" /\ s.branch = b /\ s.mode = mode
         /\ \A d \in Drains : ~Past(s, d)
BY DEF Reservation, Reserved, SetupStage, DrainStage, Done, Past, Drains

LEMMA ReserveEvolves ==
  ASSUME BInv, NEW b \in Branch, NEW mode \in {"dynamic", "readmit"}, Reserve(b, mode),
         Accepting, started, b \notin moving, admitted[b] # "taken",
         UNCHANGED <<phase, host, known, moving, move>>
  PROVE  Evolves /\ Calm /\ Succeeds /\ Onward /\ CoreOK' /\ EndOK' /\ \A t \in Steps(writer) : Kept(t)
<1>1. PICK e \in Entry :
        e \notin Used /\ entry' = [entry EXCEPT ![e] = Reservation(b, mode)] /\ live' = [live EXCEPT ![b] = e]
  BY DEF Reserve
<1> DEFINE s == Reservation(b, mode)
<1>2. /\ s \in Reserved /\ ~s.ready /\ ~Done(s) /\ s.runtime = "none" /\ s.branch = b /\ s.mode = mode
      /\ \A d \in Drains : ~Past(s, d)
  BY ReservationMade
<1> HIDE DEF s
<1>3. entry' = [entry EXCEPT ![e] = s] /\ \A f \in Entry : entry'[f] = IF f = e THEN s ELSE entry[f]
  BY <1>1 DEF s, BInv, CoreOK
<1>4. Onward
  BY DEF Onward, Accepting, host
<1>5. Made(e)
  BY <1>2, <1>3 DEF Made, host
<1>6. Evolves /\ Calm
  <2>1. Calm
    BY <1>1, <1>2, <1>3 DEF Calm, Works, Used
  <2> QED BY <1>1, <1>3, <1>4, <1>5, <2>1, FollowsOne
<1>7. admitted' = [admitted EXCEPT ![b] = "taken"] /\ admitted' \in [Branch -> {"absent", "taken", "claimed", "failed", "broken"}]
  BY DEF Reserve, BInv, CoreOK
<1>8. CoreOK'
  <2>1. entry' \in [Entry -> Reserved] /\ live' \in [Branch -> Entry \cup {0}]
    BY <1>1, <1>2, <1>3 DEF BInv, CoreOK
  <2> QED BY <1>7, <2>1 DEF BInv, CoreOK, host
<1>9. Succeeds
  <2>1. live[b] = 0
    BY DEF BInv, LiveOK
  <2>2. \A c \in Branch : live'[c] = (IF c = b THEN e ELSE live[c]) /\ admitted'[c] = (IF c = b THEN "taken" ELSE admitted[c])
    BY <1>1, <1>7 DEF BInv, CoreOK
  <2>3. mode # "unused"
    OBVIOUS
  <2> QED BY <1>1, <1>2, <1>3, <2>1, <2>2, <2>3 DEF Succeeds, BInv, LiveOK
<1>10. EndOK'
  BY DEF EndOK, Accepting, host
<1>11. ASSUME NEW t \in Steps(writer) PROVE Kept(t)
  <2>1. t.kind \in SetupKind => t.who \in Used
    BY DEF BInv, QueueOK, Timely
  <2> QED BY <1>1, <1>3, <2>1 DEF Kept, Used
<1> QED
  BY <1>4, <1>6, <1>8, <1>9, <1>10, <1>11

LEMMA ReserveStep ==
  ASSUME BInv, NEW b \in Branch, NEW mode \in {"dynamic", "readmit"}, Reserve(b, mode),
         Accepting, started, b \notin moving, admitted[b] # "taken",
         UNCHANGED <<phase, host, known, moving, writer, move>>, RestOK'
  PROVE  BInv' /\ Calm
<1>1. Evolves /\ Calm /\ Succeeds /\ Onward /\ CoreOK' /\ EndOK' /\ \A t \in Steps(writer) : Kept(t)
  BY ReserveEvolves
<1>2. QueueOK'
  BY <1>1, QueueStays
<1>3. MovesOK'
  BY <1>1, MovesStay DEF host
<1> QED
  BY <1>1, <1>2, <1>3, StepLiveReady DEF BInv

LEMMA StepStartBranch == ASSUME BInv, NEW b \in Branch, StartBranch(b) PROVE BInv' /\ Calm
<1> DEFINE mode == IF b \in readmit THEN "readmit" ELSE "dynamic"
<1>1. Reserve(b, mode) /\ Accepting /\ started /\ b \notin moving /\ admitted[b] # "taken"
      /\ UNCHANGED <<phase, host, known, moving, writer, move>> /\ RestOK'
  BY CallRest DEF StartBranch, BInv, RestOK, host
<1>2. mode \in {"dynamic", "readmit"}
  OBVIOUS
<1> HIDE DEF mode
<1> QED
  BY <1>1, <1>2, ReserveStep

(* A step that touches no reservation and leaves everything but admissions. *)
LEMMA AdmissionStep ==
  ASSUME BInv, UNCHANGED <<phase, host, live, known, moving, entry, writer, move>>, RestOK',
         NEW b \in Branch, NEW x \in {"absent", "claimed", "failed"}, admitted[b] # "taken",
         admitted' = [admitted EXCEPT ![b] = x], x = "claimed" => started
  PROVE  BInv' /\ Calm
<1>1. Onward
  BY DEF Onward, Accepting, host
<1>2. Evolves /\ Calm
  BY <1>1, SameEntries
<1>3. \A c \in Branch : admitted'[c] = IF c = b THEN x ELSE admitted[c]
  BY DEF BInv, CoreOK
<1>4. Succeeds
  BY <1>3 DEF Succeeds, BInv, LiveOK
<1>5. CoreOK'
  BY DEF BInv, CoreOK, host
<1>6. QueueOK'
  BY <1>2, QueueStays DEF Kept
<1>7. MovesOK' /\ EndOK'
  BY <1>2, <1>4, <1>5, MovesStay, EndStays DEF host
<1> QED
  BY <1>1, <1>2, <1>4, <1>5, <1>6, <1>7, StepLiveReady DEF BInv

LEMMA StepClaimFailed == ASSUME BInv, NEW b \in Branch, ClaimFailed(b) PROVE BInv' /\ Calm
BY AdmissionStep, CallRest DEF ClaimFailed, BInv, RestOK, host

LEMMA StepReconsider == ASSUME BInv, NEW b \in Branch, Reconsider(b) PROVE BInv' /\ Calm
<1>1. admitted[b] = "claimed" /\ started
  BY DEF Reconsider, BInv, ReadyOK
<1>2. UNCHANGED <<phase, host, known, sealed, moving, writer, op, move, bounds, outcomes>>
  BY DEF Reconsider
<1>3. RestOK'
  BY DEF Reconsider, BInv, RestOK, host, bounds
<1>4. CASE admitted' = [admitted EXCEPT ![b] = "failed"] /\ UNCHANGED <<live, entry, readmit>>
  BY <1>1, <1>2, <1>3, <1>4, AdmissionStep
<1>5. CASE admitted' = [admitted EXCEPT ![b] = "absent"] /\ UNCHANGED <<live, entry>>
  BY <1>1, <1>2, <1>3, <1>5, AdmissionStep
<1>6. CASE Accepting /\ b \notin moving /\ Reserve(b, "readmit")
  BY <1>1, <1>2, <1>3, <1>6, ReserveStep
<1> QED
  BY <1>4, <1>5, <1>6 DEF Reconsider

LEMMA StepStart == ASSUME BInv, Start PROVE BInv' /\ Calm
<1>1. /\ ~started /\ started' /\ started' \in BOOLEAN /\ move.stage = "idle" /\ RestOK' /\ Onward
      /\ UNCHANGED <<phase, closing, live, known, admitted, moving, writer, move>>
  BY DEF Start, BInv, RestOK, gates, bounds, Onward, Accepting
<1>2. entry' = [e \in Entry |-> IF Accepting /\ e \in Initials THEN [entry[e] EXCEPT !.setup = "replaying"] ELSE entry[e]]
  BY DEF Start, BInv, CoreOK
<1>3. ASSUME NEW e \in Entry
      PROVE  Kin(entry[e], entry'[e]) /\ entry'[e].ready = entry[e].ready
             /\ (entry'[e].setup # entry[e].setup => Accepting /\ e \in Used)
  <2>1. entry[e] \in Reserved
    BY DEF BInv, CoreOK
  <2>2. CASE Accepting /\ e \in Initials
    BY <1>2, <2>1, <2>2, SetupKin DEF SetupStage, Initials
  <2>3. CASE ~(Accepting /\ e \in Initials)
    BY <1>2, <2>1, <2>3, TwinIsTwin DEF Twin
  <2> QED
    BY <2>2, <2>3
<1>4. ASSUME NEW e \in Used PROVE Follows(e) /\ entry[e].setup = "none"
  <2>1. e \in Entry /\ entry[e].setup = "none" /\ (entry[e].ready => Prepared(entry[e]) \/ ~Accepting)
    BY <1>1 DEF Used, BInv, ReadyOK
  <2>2. entry'[e].ready => ~Accepting'
    BY <1>1, <1>3, <2>1 DEF Prepared, Accepting
  <2> QED
    BY <1>1, <1>3, <2>1, <2>2 DEF Follows, Kin
<1>5. Evolves /\ Calm
  <2>1. \A e \in Entry \ Used : Unmade(e)
    BY <1>3 DEF Unmade, Used, Kin
  <2>2. entry' = [e \in Entry |-> entry'[e]]
    BY <1>2
  <2>3. Calm
    BY <1>3 DEF Calm, Works, Kin
  <2> QED BY <1>4, <2>1, <2>2, <2>3 DEF Evolves
<1>6. \A t \in Steps(writer) : Kept(t)
  <2> SUFFICES ASSUME NEW t \in Steps(writer) PROVE Kept(t)
    OBVIOUS
  <2>1. t.kind \in SetupKind => t.who \in Used /\ entry[t.who].setup = t.kind
    BY DEF BInv, QueueOK, Timely
  <2>2. t.kind \notin SetupKind
    BY <1>4, <2>1 DEF SetupKind
  <2> QED BY <1>1, <2>2 DEF Kept
<1>7. CoreOK'
  BY <1>1, <1>2, <1>3 DEF BInv, CoreOK, Kin
<1>8. Succeeds
  BY <1>1, SameLive
<1>9. QueueOK' /\ MovesOK' /\ EndOK'
  BY <1>1, <1>5, <1>6, <1>7, <1>8, QueueStays, MovesStay, EndStays
<1> QED
  BY <1>1, <1>5, <1>7, <1>8, <1>9, StepLiveReady DEF BInv

(* Steps that touch no reservation. *)
LEMMA ApartStep ==
  ASSUME BInv, UNCHANGED core, UNCHANGED entry, UNCHANGED writer, RestOK'
  PROVE  BInv' /\ Calm
<1>1. Onward /\ move' = move
  BY DEF core, Onward, Accepting
<1>2. Evolves /\ Calm
  BY <1>1, SameEntries
<1>3. QueueOK'
  BY <1>1, <1>2, QueueStays DEF Kept
<1> QED
  BY <1>2, <1>3, QuietStep

LEMMA OpEnqueues ==
  ASSUME BInv, Evolves, \A t \in Steps(writer) : Kept(t), NEW o \in Op, Enqueue("op", o)
  PROVE  QueueOK'
<1> DEFINE x == Step("op", o)
<1>1. x \in WriterSteps /\ x.kind = "op" /\ x.who = o /\ writer' = Append(writer, x)
  BY DEF Step, Enqueue, WriterSteps, StepKind
<1>2. "op" \notin MoveKind \cup SetupKind \cup Drains \cup {"idle", "unseal"}
  BY DEF MoveKind, SetupKind, Drains
<1> HIDE DEF x
<1>3. Timely(x)'
  BY <1>1, <1>2 DEF Timely, MoveKind
<1>4. \A t \in Steps(writer) : ~Clash(t, x)
  BY <1>1, <1>2 DEF Clash
<1> QED
  BY <1>1, <1>3, <1>4, QueueGrows

LEMMA StepRespond == ASSUME BInv, NEW o \in Op, NEW b \in Branch, Respond(o, b) PROVE BInv' /\ Calm
<1>1. UNCHANGED core /\ UNCHANGED entry /\ UNCHANGED writer
  BY DEF Respond, core, host, gates
<1>2. op' \in [Op -> OpRecord]
  <2>1. op[o] \in OpRecord /\ live[b] \in Entry \cup {0}
    BY DEF BInv, RestOK, CoreOK
  <2>2. [op[o] EXCEPT !.stage = "get", !.kind = "respond", !.branch = b, !.entry = live[b]] \in OpRecord
    BY <2>1 DEF OpRecord
  <2> QED BY <2>2 DEF Respond, BInv, RestOK
<1>3. RestOK'
  BY <1>2, CallRest DEF Respond, BInv, RestOK, host, gates
<1> QED
  BY <1>1, <1>3, ApartStep

LEMMA StepFork == ASSUME BInv, NEW o \in Op, NEW b \in Branch, NEW new \in Branch, Fork(o, b, new) PROVE BInv' /\ Calm
<1>1. UNCHANGED core /\ UNCHANGED entry /\ Onward /\ move' = move
  BY DEF Fork, core, host, gates, Onward, Accepting
<1>2. op' \in [Op -> OpRecord]
  <2>1. op[o] \in OpRecord /\ live[b] \in Entry \cup {0}
    BY DEF BInv, RestOK, CoreOK
  <2>2. [op[o] EXCEPT !.stage = "queued", !.kind = "fork", !.branch = b, !.target = new, !.entry = live[b]] \in OpRecord
    BY <2>1 DEF OpRecord
  <2> QED BY <2>2 DEF Fork, BInv, RestOK
<1>3. RestOK'
  BY <1>2, CallRest DEF Fork, BInv, RestOK, host, gates
<1>4. Evolves /\ Calm
  BY <1>1, SameEntries
<1>5. QueueOK'
  BY <1>1, <1>4, OpEnqueues DEF Fork, Kept
<1> QED
  BY <1>1, <1>3, <1>4, <1>5, QuietStep

LEMMA StageOp ==
  ASSUME BInv, NEW o \in Op, NEW x \in {"ready", "queued", "over"}
  PROVE  /\ [op EXCEPT ![o].stage = x] \in [Op -> OpRecord]
         /\ \A l \in Entry : [op EXCEPT ![o].stage = x, ![o].awaits = l] \in [Op -> OpRecord]
<1>1. op[o] \in OpRecord
  BY DEF BInv, RestOK
<1>2. [op[o] EXCEPT !.stage = x] \in OpRecord /\ \A l \in Entry : [op[o] EXCEPT !.stage = x, !.awaits = l] \in OpRecord
  BY <1>1 DEF OpRecord
<1> QED
  BY <1>2 DEF BInv, RestOK

LEMMA StepOpLooks == ASSUME BInv, NEW o \in Op, OpLooks(o) PROVE BInv' /\ Calm
<1>1. UNCHANGED core /\ UNCHANGED entry /\ Onward /\ move' = move
  BY DEF OpLooks, core, host, gates, Onward, Accepting
<1>2. Evolves /\ Calm
  BY <1>1, SameEntries
<1>3. CASE op' = [op EXCEPT ![o].stage = "queued"] /\ Enqueue("op", o)
  <2>1. RestOK'
    BY <1>3, StageOp DEF OpLooks, BInv, RestOK, host, gates, bounds
  <2>2. QueueOK'
    BY <1>1, <1>2, <1>3, OpEnqueues DEF Kept
  <2> QED BY <1>1, <1>2, <2>1, <2>2, QuietStep
<1>4. CASE live[op[o].branch] # 0 /\ op' = [op EXCEPT ![o].stage = "ready", ![o].awaits = live[op[o].branch]] /\ UNCHANGED writer
  <2>1. live[op[o].branch] \in Entry
    BY <1>4 DEF BInv, RestOK, CoreOK, OpRecord
  <2>2. RestOK'
    BY <1>4, <2>1, StageOp DEF OpLooks, BInv, RestOK, host, gates, bounds
  <2> QED BY <1>1, <1>4, <2>2, ApartStep
<1> QED
  BY <1>3, <1>4 DEF OpLooks

LEMMA OpFailsTwins ==
  ASSUME BInv, NEW o \in Op, OpFails(o)
  PROVE  /\ entry' = [e \in Entry |-> entry'[e]] /\ \A e \in Entry : Twin(entry[e], entry'[e])
         /\ op' \in [Op -> OpRecord]
<1>1. \A e \in Entry : Twin(entry[e], entry[e]) /\ Twin(entry[e], Rejected(entry[e]))
  BY TwinIsTwin, RejectedTwin DEF BInv, CoreOK
<1> QED
  BY <1>1, StageOp DEF OpFails

LEMMA StepOpReady == ASSUME BInv, NEW o \in Op, OpReady(o) PROVE BInv' /\ Calm
<1>1. UNCHANGED core /\ Onward /\ move' = move
  BY DEF OpReady, core, host, gates, Onward, Accepting
<1>2. CASE op' = [op EXCEPT ![o].stage = "queued"] /\ Enqueue("op", o) /\ UNCHANGED entry
  <2>1. RestOK'
    BY <1>2, StageOp DEF OpReady, BInv, RestOK, host, gates, bounds
  <2>2. Evolves /\ Calm
    BY <1>1, <1>2, SameEntries
  <2>3. QueueOK'
    BY <1>1, <1>2, <2>2, OpEnqueues DEF Kept
  <2> QED BY <1>1, <2>1, <2>2, <2>3, QuietStep
<1>3. CASE OpFails(o) /\ UNCHANGED writer
  <2>1. RestOK'
    BY <1>3, OpFailsTwins DEF OpReady, BInv, RestOK, host, gates, bounds
  <2>2. Evolves /\ Calm
    BY <1>1, <1>3, OpFailsTwins, FollowsTwins
  <2>3. QueueOK'
    BY <1>1, <1>3, <2>2, OpFailsTwins, KeptTwins, QueueStays
  <2> QED BY <1>1, <2>1, <2>2, <2>3, QuietStep
<1> QED
  BY <1>2, <1>3 DEF OpReady

-----------------------------------------------------------------------------
(* Moves and the end of the run. *)

(* While no step of a move is queued. *)
LEMMA MoveEnqueues ==
  ASSUME BInv, Evolves, NEW kind \in MoveKind, Enqueue(kind, 0), UNCHANGED entry,
         move.stage \in {"idle", "draining"},
         kind = "moveSeal" => move'.stage = "sealing",
         kind = "moveHead" => move'.stage = "committing",
         kind = "moveEnd" => move'.stage = "ending"
  PROVE  QueueOK'
<1> DEFINE x == Step(kind, 0)
<1>1. x \in WriterSteps /\ x.kind = kind /\ writer' = Append(writer, x)
  BY DEF Step, Enqueue, WriterSteps, StepKind
<1>2. kind \notin SetupKind \cup Drains \cup {"op", "idle", "unseal"}
  BY DEF Drains, MoveKind, SetupKind
<1> HIDE DEF x
<1>3. Timely(x)'
  BY <1>1, <1>2 DEF Timely
<1>4. \A t \in Steps(writer) : t.kind \notin MoveKind
  BY DEF BInv, QueueOK, Timely, MoveKind
<1>5. \A t \in Steps(writer) : ~Clash(t, x)
  BY <1>1, <1>2, <1>4 DEF Clash
<1>6. \A t \in Steps(writer) : Kept(t)
  BY <1>4 DEF Kept
<1> QED
  BY <1>1, <1>3, <1>5, <1>6, QueueGrows

LEMMA StepMove == ASSUME BInv, NEW b \in Branch, Move(b) PROVE BInv' /\ Calm
<1> DEFINE m == [IdleMove EXCEPT !.stage = "sealing", !.branch = b]
<1>1. /\ move.stage = "idle" /\ b \in known /\ move' = m /\ Enqueue("moveSeal", 0)
      /\ UNCHANGED <<phase, host, live, gates, moving, entry, op, outcomes>> /\ RestOK'
  BY CallRest DEF Move, BInv, RestOK, host, gates
<1>2. m \in MoveRecord /\ m.stage = "sealing" /\ m.branch = b
  BY BranchesAssumption DEF IdleMove, MoveRecord
<1> HIDE DEF m
<1>3. Onward /\ Succeeds
  BY <1>1, SameLive DEF Onward, Accepting, gates, host
<1>4. Evolves /\ Calm
  BY <1>1, <1>3, SameEntries
<1>5. QueueOK'
  BY <1>1, <1>2, <1>4, MoveEnqueues DEF MoveKind
<1>6. CoreOK'
  BY <1>1, <1>2 DEF BInv, CoreOK, host, gates
<1>7. MovesOK'
  BY <1>1, <1>2 DEF BInv, MovesOK, gates
<1>8. EndOK'
  BY <1>1, <1>3, <1>6, EndStays DEF host
<1> QED
  BY <1>1, <1>3, <1>4, <1>5, <1>6, <1>7, <1>8, StepLiveReady DEF BInv

LEMMA StepMoveDrained == ASSUME BInv, MoveDrained PROVE BInv' /\ Calm
<1>1. /\ move.stage = "draining" /\ \A x \in move.drains : Drained(x)
      /\ UNCHANGED <<phase, host, live, gates, moving, entry, op, bounds, outcomes>> /\ RestOK'
  BY DEF MoveDrained, BInv, RestOK, host, gates, bounds
<1>2. PICK stage \in {"committing", "ending"} :
        /\ move' = [move EXCEPT !.stage = stage]
        /\ Enqueue(IF stage = "ending" THEN "moveEnd" ELSE "moveHead", 0)
  <2>1. CASE \E x \in move.drains : x[2] \in entry[x[1]].spoilt
    <3>1. move' = [move EXCEPT !.stage = "ending"] /\ Enqueue("moveEnd", 0)
      BY <2>1 DEF MoveDrained
    <3> QED BY <3>1
  <2>2. CASE ~\E x \in move.drains : x[2] \in entry[x[1]].spoilt
    <3>1. move' = [move EXCEPT !.stage = "committing"] /\ Enqueue("moveHead", 0)
      BY <2>2 DEF MoveDrained
    <3> QED BY <3>1
  <2> QED BY <2>1, <2>2
<1>3. /\ move' \in MoveRecord /\ move'.stage = stage /\ move'.branch = move.branch
      /\ move'.affected = move.affected /\ move'.drains = move.drains
  BY <1>2 DEF BInv, CoreOK, MoveRecord
<1>4. Onward /\ Succeeds
  BY <1>1, SameLive DEF Onward, Accepting, gates, host
<1>5. Evolves /\ Calm
  BY <1>1, <1>4, SameEntries
<1>6. QueueOK'
  BY <1>1, <1>2, <1>3, <1>5, MoveEnqueues DEF MoveKind
<1>7. CoreOK'
  BY <1>1, <1>3 DEF BInv, CoreOK, host, gates
<1>8. ASSUME NEW b \in moving, live[b] # 0 PROVE Done(entry[live[b]])
  <2>1. PICK x \in move.drains : x[1] = live[b]
    BY <1>1, <1>8 DEF BInv, MovesOK
  <2>2. x[2] \in Drains /\ Past(entry[x[1]], x[2]) /\ live[b] \in Used
    BY <1>1, <1>8, <2>1 DEF BInv, CoreOK, MoveRecord, LiveOK, Drained, Past
  <2> QED BY <2>1, <2>2 DEF BInv, ReadyOK
<1>9. MovesOK'
  BY <1>1, <1>3, <1>8 DEF BInv, MovesOK, gates
<1>10. EndOK'
  BY <1>1, <1>4, <1>7, EndStays DEF host
<1> QED
  BY <1>1, <1>4, <1>5, <1>6, <1>7, <1>9, <1>10, StepLiveReady DEF BInv

LEMMA StepAcquireHold == ASSUME BInv, AcquireHold PROVE BInv' /\ Calm
BY ApartStep, CallRest DEF AcquireHold, core, gates, BInv, RestOK

(* Steps that change how far the run is from its end, and reservations in  *)
(* nothing that matters.                                                    *)
LEMMA EndStep ==
  ASSUME BInv, phase' \in {"accepting", "closing", "closed"}, Onward, Evolves, Succeeds, live' \in [Branch -> Entry \cup {0}],
         \A e \in Entry : entry'[e] \in Reserved /\ entry'[e].setup = entry[e].setup,
         UNCHANGED <<started, gates, moving, writer, move>>, RestOK', EndOK'
  PROVE  BInv'
<1>1. CoreOK'
  BY DEF BInv, CoreOK, gates, Evolves
<1>2. ASSUME NEW t \in Steps(writer) PROVE Kept(t)
  <2>1. t.kind \in SetupKind => t.who \in Used
    BY DEF BInv, QueueOK, Timely
  <2> QED BY <2>1 DEF Kept, Used
<1>3. QueueOK'
  BY <1>2, QueueStays
<1>4. MovesOK'
  BY MovesStay DEF gates
<1> QED
  BY <1>1, <1>3, <1>4, StepLiveReady DEF BInv

LEMMA StepReleaseHold == ASSUME BInv, ReleaseHold PROVE BInv' /\ Calm
<1>1. /\ held' = "released" /\ UNCHANGED <<started, closing, live, gates, moving, entry, writer, op, move, bounds, outcomes>>
      /\ phase' = IF Accepting /\ outcomes /\ moving = {} /\ \A b \in Branch : live[b] = 0 THEN "closing" ELSE phase
  BY DEF ReleaseHold, ClosesWhenDrained
<1>2. Onward /\ phase' \in {"accepting", "closing", "closed"}
  BY <1>1 DEF Onward, Accepting, BInv, CoreOK
<1>3. Evolves /\ Calm /\ Succeeds
  BY <1>1, <1>2, SameEntries, SameLive DEF gates
<1>4. RestOK' /\ EndOK'
  BY <1>1 DEF BInv, RestOK, EndOK, Accepting, gates, bounds
<1>5. live' \in [Branch -> Entry \cup {0}] /\ \A e \in Entry : entry'[e] \in Reserved /\ entry'[e].setup = entry[e].setup
  BY <1>1 DEF BInv, CoreOK
<1> QED
  BY <1>1, <1>2, <1>3, <1>4, <1>5, EndStep

LEMMA StepFinishAggregate == ASSUME BInv, FinishAggregate PROVE BInv' /\ Calm
<1>1. /\ phase = "closing" /\ closing = "no" /\ phase' = "closed"
      /\ UNCHANGED <<host, live, gates, moving, writer, op, move, bounds, outcomes>>
      /\ entry' = [e \in Entry |-> IF entry[e].settle = "aggregate" THEN [entry[e] EXCEPT !.settle = "over"] ELSE entry[e]]
  BY DEF FinishAggregate
<1>2. Onward
  BY <1>1 DEF Onward, Accepting, host
<1>3. \A e \in Entry : Twin(entry[e], entry'[e])
  <2>1. \A r \in Reserved : Twin(r, r) /\ Twin(r, [r EXCEPT !.settle = "over"])
    BY FieldTwin, TwinIsTwin
  <2> QED BY <1>1, <2>1 DEF BInv, CoreOK
<1>4. entry' = [e \in Entry |-> entry'[e]]
  BY <1>1
<1>5. Evolves /\ Calm /\ Succeeds
  BY <1>1, <1>2, <1>3, <1>4, FollowsTwins, SameLive DEF gates
<1>6. RestOK' /\ EndOK'
  BY <1>1 DEF BInv, RestOK, EndOK, Accepting, gates, bounds, host
<1>7. live' \in [Branch -> Entry \cup {0}] /\ \A e \in Entry : entry'[e] \in Reserved /\ entry'[e].setup = entry[e].setup
  BY <1>1, <1>3 DEF BInv, CoreOK, Twin, Kin
<1> QED
  BY <1>1, <1>2, <1>5, <1>6, <1>7, EndStep DEF host

LEMMA StepClose == ASSUME BInv, Close PROVE BInv' /\ Calm
<1>1. /\ Accepting /\ phase' = "closing" /\ closing' = "setups" /\ held' = "released"
      /\ UNCHANGED <<started, live, gates, moving, writer, op, move, outcomes>>
      /\ entry' = [e \in Entry |-> IF e \in LiveEntries
           THEN [entry[e] EXCEPT !.shut = TRUE, !.draining = TRUE, !.ready = entry[e].ready \/ SetupReserved(entry[e])] ELSE entry[e]]
  BY DEF Close
<1>2. Onward /\ ~Accepting'
  BY <1>1 DEF Onward, Accepting
<1>3. ASSUME NEW r \in Reserved, NEW x \in BOOLEAN, NEW s,
             s = [r EXCEPT !.shut = TRUE, !.draining = TRUE, !.ready = x]
      PROVE  Kin(r, s) /\ s.setup = r.setup /\ s.ready = x
  <2> DEFINE u == [r EXCEPT !.shut = TRUE]
             v == [u EXCEPT !.draining = TRUE]
             w == [v EXCEPT !.ready = x]
  <2>1. Twin(r, u)
    BY FieldTwin
  <2>2. Twin(u, v)
    <3>1. u \in Reserved
      BY <2>1 DEF Twin, Kin
    <3> HIDE DEF u
    <3> QED BY <3>1, FieldTwin
  <2>3. Kin(v, w) /\ w.setup = v.setup /\ w.ready = x
    <3>1. v \in Reserved
      BY <2>2 DEF Twin, Kin
    <3> HIDE DEF v
    <3> QED BY <3>1, ReadyKin
  <2>4. s = w
    BY <1>3
  <2> HIDE DEF u, v, w
  <2> QED BY <2>1, <2>2, <2>3, <2>4 DEF Twin, Kin
<1>4. ASSUME NEW e \in Entry
      PROVE  Kin(entry[e], entry'[e]) /\ entry'[e].setup = entry[e].setup /\ (entry[e].ready => entry'[e].ready)
  <2> DEFINE x == entry[e].ready \/ SetupReserved(entry[e])
  <2>1. entry[e] \in Reserved
    BY DEF BInv, CoreOK
  <2>2. x \in BOOLEAN /\ (entry[e].ready => x)
    OBVIOUS
  <2>3. CASE e \in LiveEntries
    <3>1. entry'[e] = [entry[e] EXCEPT !.shut = TRUE, !.draining = TRUE, !.ready = x]
      BY <1>1, <2>3
    <3>2. Kin(entry[e], entry'[e]) /\ entry'[e].setup = entry[e].setup /\ entry'[e].ready = x
      BY <1>3, <2>1, <2>2, <3>1
    <3> QED BY <2>2, <3>2
  <2>4. CASE e \notin LiveEntries
    BY <1>1, <2>1, <2>4, TwinIsTwin DEF Twin
  <2> QED BY <2>3, <2>4
<1>5. Evolves /\ Calm
  <2>1. \A e \in Used : Follows(e)
    BY <1>1, <1>2, <1>4 DEF Follows, Kin, Used
  <2>2. \A e \in Entry \ Used : Unmade(e)
    BY <1>4 DEF Unmade, Used, Kin
  <2>3. entry' = [e \in Entry |-> entry'[e]]
    BY <1>1
  <2>4. Calm
    BY <1>4 DEF Calm, Works, Kin
  <2> QED BY <2>1, <2>2, <2>3, <2>4 DEF Evolves
<1>6. Succeeds /\ RestOK'
  BY <1>1, SameLive, CallRest DEF Close, gates, BInv, RestOK
<1>7. EndOK'
  BY <1>1 DEF EndOK
<1>8. live' \in [Branch -> Entry \cup {0}] /\ \A e \in Entry : entry'[e] \in Reserved /\ entry'[e].setup = entry[e].setup
  BY <1>1, <1>4 DEF BInv, CoreOK, Kin
<1> QED
  BY <1>1, <1>2, <1>5, <1>6, <1>7, <1>8, EndStep

LEMMA StepCloseSettles == ASSUME BInv, CloseSettles PROVE BInv' /\ Calm
<1>1. /\ closing' = "disposals"
      /\ UNCHANGED <<phase, started, held, live, gates, moving, writer, op, move, bounds, outcomes>>
      /\ entry' = [e \in Entry |-> IF e \in LiveEntries THEN Asked(entry[e]) ELSE entry[e]]
  BY DEF CloseSettles
<1>2. Onward
  BY <1>1 DEF Onward, Accepting
<1>3. \A e \in Entry : Twin(entry[e], entry'[e])
  BY <1>1, AskedTwin, TwinIsTwin DEF BInv, CoreOK
<1>4. entry' = [e \in Entry |-> entry'[e]]
  BY <1>1
<1>5. Evolves /\ Calm /\ Succeeds
  BY <1>1, <1>2, <1>3, <1>4, FollowsTwins, SameLive DEF gates
<1>6. RestOK' /\ EndOK'
  BY <1>1 DEF BInv, RestOK, EndOK, Accepting, gates, bounds
<1>7. live' \in [Branch -> Entry \cup {0}] /\ \A e \in Entry : entry'[e] \in Reserved /\ entry'[e].setup = entry[e].setup
  BY <1>1, <1>3 DEF BInv, CoreOK, Twin, Kin
<1> QED
  BY <1>1, <1>2, <1>5, <1>6, <1>7, EndStep DEF BInv, CoreOK

LEMMA StepClosed == ASSUME BInv, Closed PROVE BInv' /\ Calm
<1>1. /\ phase = "closing" /\ phase' = "closed" /\ live' = [b \in Branch |-> 0]
      /\ UNCHANGED <<host, gates, moving, entry, writer, op, move, bounds, outcomes>>
      /\ \A e \in LiveEntries : Done(entry[e])
  BY DEF Closed, Done
<1>2. Onward
  BY <1>1 DEF Onward, Accepting, host
<1>3. Evolves /\ Calm
  BY <1>1, <1>2, SameEntries
<1>4. \A b \in Branch : live[b] # 0 => Done(entry[live[b]])
  BY <1>1 DEF LiveEntries, BInv, LiveOK
<1>5. Succeeds
  BY <1>1, <1>4 DEF Succeeds, gates
<1>6. RestOK' /\ EndOK'
  BY <1>1 DEF BInv, RestOK, EndOK, gates, bounds, host
<1>7. live' \in [Branch -> Entry \cup {0}] /\ \A e \in Entry : entry'[e] \in Reserved /\ entry'[e].setup = entry[e].setup
  BY <1>1 DEF BInv, CoreOK
<1> QED
  BY <1>1, <1>2, <1>3, <1>5, <1>6, <1>7, EndStep DEF host

-----------------------------------------------------------------------------
(* The writer chain. *)

LEMMA FrontOf ==
  ASSUME BInv, NEW kind, Takes(kind)
  PROVE  /\ writer # <<>> /\ First.kind = kind /\ writer' = Tail(writer)
         /\ Timely(First) /\ \A t \in Steps(Tail(writer)) : t \in Steps(writer) /\ ~Clash(First, t)
BY FrontStep DEF Takes

(* The front step works on a reservation whose setup does not change. *)
LEMMA TwinTakes ==
  ASSUME BInv, NEW kind, Takes(kind), NEW e \in Entry, NEW s, entry' = [entry EXCEPT ![e] = s], Twin(entry[e], s),
         UNCHANGED core, RestOK'
  PROVE  BInv' /\ Calm
<1>1. Onward /\ move' = move
  BY DEF core, Onward, Accepting
<1>2. Evolves /\ Calm
  BY <1>1, TwinEvolves
<1>3. \A t \in Steps(Tail(writer)) : Kept(t)
  BY <1>1, FrontOf, KeptOne DEF Twin
<1> QED
  BY <1>2, <1>3, FrontOf, QueueShrinks, QuietStep

(* The front step is one of a setup. *)
LEMMA SetupTakes ==
  ASSUME BInv, NEW kind \in SetupKind, Takes(kind), Evolves, NEW s, entry' = [entry EXCEPT ![First.who] = s],
         UNCHANGED move
  PROVE  QueueOK'
<1>1. /\ writer # <<>> /\ First.kind = kind /\ writer' = Tail(writer) /\ First.who \in Entry
      /\ \A t \in Steps(Tail(writer)) : t \in Steps(writer) /\ ~Clash(First, t)
  BY FrontOf DEF Timely, Used
<1>2. ASSUME NEW t \in Steps(Tail(writer)) PROVE Kept(t)
  <2>1. t.kind \in SetupKind => t.who \in Used /\ t.who # First.who
    BY <1>1 DEF Clash, BInv, QueueOK, Timely
  <2>2. \A f \in Entry : f # First.who => entry'[f] = entry[f]
    BY DEF BInv, CoreOK
  <2> QED BY <2>1, <2>2 DEF Kept, Used
<1> QED
  BY <1>1, <1>2, QueueShrinks

LEMMA StepDrainSeals == ASSUME BInv, DrainSeals PROVE BInv' /\ Calm
<1>1. PICK d \in Drains :
        /\ Takes(d) /\ sealed' = sealed \cup {entry[First.who].branch}
        /\ entry' = [entry EXCEPT ![First.who] = [Asked(@) EXCEPT !.at[d] = "dispose"]]
        /\ UNCHANGED <<phase, host, live, known, admitted, readmit, moving, op, move, bounds, outcomes>>
  BY DEF DrainSeals
<1> DEFINE e == First.who
<1>2. e \in Used /\ e \in Entry /\ entry[e] \in Reserved
  <2>1. e \in Used
    BY <1>1, FrontOf DEF Timely
  <2> QED BY <2>1, UsedReserved
<1> HIDE DEF e
<1> DEFINE r == Asked(entry[e])
           s == [r EXCEPT !.at[d] = "dispose"]
<1>3. entry' = [entry EXCEPT ![e] = s] /\ UNCHANGED core
  BY <1>1 DEF core, host, e
<1>4. RestOK'
  <2>1. entry[e].branch \in Branch
    BY <1>2 DEF Reserved
  <2> QED BY <1>1, <2>1 DEF BInv, RestOK, host, bounds, e
<1>5. Twin(entry[e], r)
  BY <1>2, AskedTwin
<1>6. Twin(r, s)
  <2>1. r \in Reserved /\ "dispose" \in DrainStage /\ "dispose" \notin {"run", "unseal", "over"}
    BY <1>5 DEF Twin, Kin, DrainStage
  <2> HIDE DEF r
  <2> QED BY <2>1, StageTwin
<1> HIDE DEF r, s
<1>7. Twin(entry[e], s)
  BY <1>5, <1>6, TwinIsTwin
<1> QED
  BY <1>1, <1>2, <1>3, <1>4, <1>7, TwinTakes

LEMMA StepUnloadUnseals == ASSUME BInv, UnloadUnseals PROVE BInv' /\ Calm
<1> DEFINE e == First.who
<1>1. /\ Takes("unseal") /\ sealed' = sealed \ {entry[e].branch} /\ DrainOver(e, "unload")
      /\ UNCHANGED <<host, known, moving, op, move, bounds>>
  BY DEF UnloadUnseals
<1>2. e \in Used /\ Done(entry[e]) /\ "unload" \in Drains
  BY <1>1, FrontOf DEF Timely, Drains
<1> HIDE DEF e
<1>3. /\ Evolves /\ Calm /\ Succeeds /\ Onward /\ CoreOK' /\ EndOK'
      /\ \A f \in Entry : Twin(entry[f], entry'[f])
      /\ readmit' \subseteq Branch /\ outcomes' \in BOOLEAN
  BY <1>1, <1>2, DrainOverEvolves
<1>4. RestOK'
  BY <1>1, <1>3 DEF BInv, RestOK, host, bounds
<1>5. QueueOK'
  <2>1. \A t \in Steps(Tail(writer)) : Kept(t)
    BY <1>1, <1>3, FrontOf, KeptTwins
  <2> QED BY <1>1, <1>3, <2>1, FrontOf, QueueShrinks
<1>6. MovesOK'
  BY <1>1, <1>3, MovesStay DEF host
<1> QED
  BY <1>3, <1>4, <1>5, <1>6, StepLiveReady DEF BInv

LEMMA StepReseal == ASSUME BInv, Reseal PROVE BInv' /\ Calm
<1> DEFINE e == First.who
           s == IF Runnable(e) THEN [entry[e] EXCEPT !.setup = "replaying"] ELSE Leaves(entry[e])
<1>1. /\ Takes("reseal") /\ sealed' = sealed \cup {entry[e].branch} /\ entry' = [entry EXCEPT ![e] = s]
      /\ UNCHANGED <<phase, host, live, known, admitted, readmit, moving, op, move, bounds, outcomes>>
  BY DEF Reseal
<1>2. e \in Used /\ entry[e].setup = "reseal" /\ e \in Entry /\ entry[e] \in Reserved /\ "reseal" \in SetupKind
  <2>1. e \in Used /\ entry[e].setup = "reseal"
    BY <1>1, FrontOf DEF Timely, SetupKind
  <2> QED BY <2>1, UsedReserved DEF SetupKind
<1>3. Kin(entry[e], s) /\ (entry[e].ready => s.ready) /\ (s.ready => Prepared(s) \/ entry[e].ready)
  <2> HIDE DEF e
  <2>1. CASE Runnable(e)
    <3>1. s = [entry[e] EXCEPT !.setup = "replaying"] /\ "replaying" \in SetupStage
      BY <2>1 DEF SetupStage
    <3> HIDE DEF s
    <3> QED BY <1>2, <3>1, SetupKin
  <2>2. CASE ~Runnable(e)
    <3>1. s = Leaves(entry[e])
      BY <2>2
    <3>2. Kin(entry[e], Leaves(entry[e])) /\ Leaves(entry[e]).setup = "over" /\ Leaves(entry[e]).ready
      BY <1>2, LeavesKin
    <3> HIDE DEF s
    <3> QED BY <3>1, <3>2 DEF Prepared
  <2> QED BY <2>1, <2>2
<1> HIDE DEF s
<1>4. UNCHANGED core /\ Onward /\ move' = move /\ started' = started /\ started
  BY <1>1, <1>2 DEF core, host, Onward, Accepting, BInv, ReadyOK
<1>5. Evolves /\ Calm
  <2> HIDE DEF e
  <2> QED BY <1>1, <1>2, <1>3, <1>4, KinEvolves DEF Prepared
<1>6. QueueOK'
  BY <1>1, <1>2, <1>4, <1>5, SetupTakes
<1>7. RestOK'
  <2>1. entry[e].branch \in Branch
    BY <1>2 DEF Reserved
  <2> QED BY <1>1, <2>1 DEF BInv, RestOK, host, bounds
<1> QED
  BY <1>4, <1>5, <1>6, <1>7, QuietStep

LEMMA StepActivate == ASSUME BInv, Activate PROVE BInv' /\ (Calm \/ Begins(First.who))
<1> DEFINE e == First.who
           b == entry[e].branch
<1>1. /\ Takes("activate")
      /\ UNCHANGED <<phase, host, live, known, admitted, moving, op, move, bounds, outcomes>>
  BY DEF Activate
<1>2. e \in Used /\ entry[e].setup = "activate" /\ e \in Entry /\ entry[e] \in Reserved /\ "activate" \in SetupKind
  <2>1. e \in Used /\ entry[e].setup = "activate"
    BY <1>1, FrontOf DEF Timely, SetupKind
  <2> QED BY <2>1, UsedReserved DEF SetupKind
<1>3. PICK s : /\ s \in {Leaves(entry[e]), GivesUp(entry[e], TRUE)} \/ (Runnable(e) /\ s = Runs(entry[e]))
               /\ entry' = [entry EXCEPT ![e] = s]
               /\ readmit' \subseteq readmit /\ sealed' \subseteq sealed
  <2> HIDE DEF e
  <2> DEFINE F(s) == /\ s \in {Leaves(entry[e]), GivesUp(entry[e], TRUE)} \/ (Runnable(e) /\ s = Runs(entry[e]))
                     /\ entry' = [entry EXCEPT ![e] = s]
                     /\ readmit' \subseteq readmit /\ sealed' \subseteq sealed
  <2>1. CASE ~Runnable(e) \/ b \in moving
    <3>1. entry' = [entry EXCEPT ![e] = Leaves(entry[e])] /\ UNCHANGED <<readmit, sealed>>
      BY <2>1 DEF Activate, e
    <3>2. F(Leaves(entry[e]))
      BY <3>1
    <3> HIDE DEF F
    <3>3. \E s : F(s)
      BY <3>2
    <3> QED BY <3>3 DEF F
  <2>2. CASE Runnable(e) /\ b \notin moving /\ entry[e].view = "behind"
    <3>1. entry' = [entry EXCEPT ![e] = GivesUp(entry[e], TRUE)] /\ UNCHANGED <<readmit, sealed>>
      BY <2>2 DEF Activate, e
    <3>2. F(GivesUp(entry[e], TRUE))
      BY <3>1
    <3> HIDE DEF F
    <3>3. \E s : F(s)
      BY <3>2
    <3> QED BY <3>3 DEF F
  <2>3. CASE Runnable(e) /\ b \notin moving /\ entry[e].view # "behind"
    <3>1. entry' = [entry EXCEPT ![e] = Runs(entry[e])] /\ readmit' = readmit \ {b} /\ sealed' = sealed \ {b}
      BY <2>3 DEF Activate, e
    <3>2. F(Runs(entry[e]))
      BY <2>3, <3>1
    <3> HIDE DEF F
    <3>3. \E s : F(s)
      BY <3>2
    <3> QED BY <3>3 DEF F
  <2> QED BY <2>1, <2>2, <2>3
<1>4. UNCHANGED core /\ Onward /\ move' = move /\ started' = started /\ started
  BY <1>1, <1>2 DEF core, host, Onward, Accepting, BInv, ReadyOK
<1>5. Evolves /\ (Calm \/ Begins(e))
  <2> HIDE DEF e
  <2>1. CASE s = Leaves(entry[e])
    <3>1. Kin(entry[e], s) /\ s.setup = "over" /\ s.ready
      BY <1>2, <2>1, LeavesKin
    <3> QED BY <1>2, <1>3, <1>4, <3>1, KinEvolves DEF Prepared
  <2>2. CASE s = GivesUp(entry[e], TRUE)
    <3>1. Kin(entry[e], s) /\ s.setup = "settling" /\ s.ready
      BY <1>2, <2>2, GivesUpKin
    <3> QED BY <1>2, <1>3, <1>4, <3>1, KinEvolves DEF Prepared
  <2>3. CASE Runnable(e) /\ s = Runs(entry[e])
    BY <1>2, <1>3, <1>4, <2>3, RunsEvolves
  <2> QED BY <1>3, <2>1, <2>2, <2>3
<1>6. QueueOK'
  BY <1>1, <1>2, <1>3, <1>4, <1>5, SetupTakes
<1>7. RestOK'
  BY <1>1, <1>3 DEF BInv, RestOK, host, bounds
<1> QED
  BY <1>4, <1>5, <1>6, <1>7, QuietStep

LEMMA StepUnloadChecks == ASSUME BInv, UnloadChecks PROVE BInv' /\ Calm
<1> DEFINE e == First.who
<1>1. Takes("idle") /\ UNCHANGED core /\ RestOK'
  BY DEF UnloadChecks, core, host, gates, bounds, BInv, RestOK
<1>2. e \in Used /\ e \in Entry /\ entry[e] \in Reserved
  <2>1. e \in Used
    BY <1>1, FrontOf DEF Timely
  <2> QED BY <2>1, UsedReserved
<1>3. \/ entry' = [entry EXCEPT ![e].shut = FALSE, ![e].at["unload"] = "no"]
      \/ entry' = [entry EXCEPT ![e] = [Draining(entry[e], "unload") EXCEPT !.draining = TRUE, !.shut = entry[e].shut]]
  BY DEF UnloadChecks
<1> HIDE DEF e
<1>4. CASE entry' = [entry EXCEPT ![e].shut = FALSE, ![e].at["unload"] = "no"]
  <2> DEFINE r == [entry[e] EXCEPT !.shut = FALSE]
             s == [r EXCEPT !.at["unload"] = "no"]
  <2>1. entry' = [entry EXCEPT ![e] = s]
    BY <1>2, <1>4, ShutAt
  <2>2. Twin(entry[e], r)
    BY <1>2, FieldTwin
  <2>3. Twin(r, s)
    <3>1. r \in Reserved /\ "unload" \in Drains /\ "no" \in DrainStage /\ "no" \notin {"run", "unseal", "over"}
      BY <2>2 DEF Twin, Kin, Drains, DrainStage
    <3> HIDE DEF r
    <3> QED BY <3>1, StageTwin
  <2> HIDE DEF r, s
  <2> QED BY <1>1, <1>2, <2>1, <2>2, <2>3, TwinIsTwin, TwinTakes
<1>5. CASE entry' = [entry EXCEPT ![e] = [Draining(entry[e], "unload") EXCEPT !.draining = TRUE, !.shut = entry[e].shut]]
  <2> DEFINE x == entry[e].shut
             q == Draining(entry[e], "unload")
             r == [q EXCEPT !.draining = TRUE]
             s == [r EXCEPT !.shut = x]
  <2>1. entry' = [entry EXCEPT ![e] = s]
    BY <1>5
  <2>2. Twin(entry[e], q) /\ x \in BOOLEAN
    BY <1>2, DrainingTwin DEF Drains, Reserved
  <2> HIDE DEF x, q
  <2>3. Twin(q, r)
    <3>1. q \in Reserved
      BY <2>2 DEF Twin, Kin
    <3> QED BY <3>1, FieldTwin
  <2> HIDE DEF r
  <2>4. Twin(r, s)
    <3>1. r \in Reserved
      BY <2>3 DEF Twin, Kin
    <3> QED BY <2>2, <3>1, FieldTwin
  <2> HIDE DEF s
  <2> QED BY <1>1, <1>2, <2>1, <2>2, <2>3, <2>4, TwinIsTwin, TwinTakes
<1> QED
  BY <1>3, <1>4, <1>5

LEMMA OpRunsTwins ==
  ASSUME BInv, OpRuns
  PROVE  /\ entry' = [e \in Entry |-> entry'[e]] /\ \A e \in Entry : Twin(entry[e], entry'[e])
         /\ RestOK' /\ known \subseteq known' /\ known' \subseteq Branch
<1> DEFINE o == First.who
           b == op[o].branch
<1>1. /\ Takes("op") /\ o \in Op
      /\ UNCHANGED <<phase, host, live, admitted, readmit, sealed, moving, move, outcomes>>
      /\ moves' \in Nat /\ calls' \in Nat /\ fails' \in Nat
  <2>1. Takes("op") /\ UNCHANGED <<phase, host, live, admitted, readmit, sealed, moving, move, outcomes>>
    BY DEF OpRuns
  <2>2. o \in Op
    BY <2>1, FrontOf DEF Timely
  <2>3. moves' \in Nat /\ calls' \in Nat /\ fails' \in Nat
    BY FailRest DEF OpRuns, BInv, RestOK, bounds
  <2> QED BY <2>1, <2>2, <2>3
<1>2. /\ entry \in [Entry -> Reserved] /\ op[o] \in OpRecord
      /\ \A r \in Reserved : Twin(r, r) /\ Twin(r, Missed(r))
  BY <1>1, TwinIsTwin, MissedTwin DEF BInv, CoreOK, RestOK
<1>3. CASE OpFails(o) /\ UNCHANGED known
  BY <1>1, <1>3, OpFailsTwins DEF BInv, RestOK, CoreOK, host
<1>4. CASE /\ op' = [op EXCEPT ![o].stage = "over"] /\ UNCHANGED known
           /\ entry' = [e \in Entry |-> IF e = live[b] THEN Missed(entry[e]) ELSE entry[e]]
  <2> HIDE DEF b
  <2>1. op' \in [Op -> OpRecord]
    BY <1>1, <1>4, StageOp
  <2>2. entry' = [e \in Entry |-> entry'[e]] /\ \A e \in Entry : Twin(entry[e], entry'[e])
    BY <1>2, <1>4
  <2> QED BY <1>1, <1>4, <2>1, <2>2 DEF BInv, RestOK, CoreOK, host
<1>5. CASE /\ op' = [op EXCEPT ![o].stage = "over"] /\ known' = known \cup {op[o].target} /\ UNCHANGED entry
  <2>1. op' \in [Op -> OpRecord] /\ op[o].target \in Branch
    BY <1>1, <1>2, <1>5, StageOp DEF OpRecord
  <2>2. entry' = [e \in Entry |-> entry'[e]] /\ \A e \in Entry : Twin(entry[e], entry'[e])
    BY <1>2, <1>5
  <2> QED BY <1>1, <1>5, <2>1, <2>2 DEF BInv, RestOK, CoreOK, host
<1>6. \/ OpFails(o) /\ UNCHANGED known
      \/ /\ op' = [op EXCEPT ![o].stage = "over"] /\ UNCHANGED known
         /\ entry' = [e \in Entry |-> IF e = live[b] THEN Missed(entry[e]) ELSE entry[e]]
      \/ op' = [op EXCEPT ![o].stage = "over"] /\ known' = known \cup {op[o].target} /\ UNCHANGED entry
  BY DEF OpRuns
<1> QED
  BY <1>3, <1>4, <1>5, <1>6

LEMMA StepOpRuns == ASSUME BInv, OpRuns PROVE BInv' /\ Calm
<1>1. /\ Takes("op")
      /\ UNCHANGED <<phase, host, live, admitted, readmit, sealed, moving, move, outcomes>>
  BY DEF OpRuns
<1>2. /\ entry' = [e \in Entry |-> entry'[e]] /\ \A e \in Entry : Twin(entry[e], entry'[e])
      /\ RestOK' /\ known \subseteq known' /\ known' \subseteq Branch
  BY OpRunsTwins
<1>3. Onward /\ Succeeds
  BY <1>1, SameLive DEF Onward, Accepting, host
<1>4. Evolves /\ Calm
  BY <1>2, <1>3, FollowsTwins
<1>5. CoreOK'
  BY <1>1, <1>2 DEF BInv, CoreOK, host, Twin, Kin
<1>6. QueueOK'
  <2>1. \A t \in Steps(Tail(writer)) : Kept(t)
    BY <1>1, <1>2, FrontOf, KeptTwins
  <2> QED BY <1>1, <1>4, <2>1, FrontOf, QueueShrinks
<1>7. MovesOK' /\ EndOK'
  BY <1>1, <1>2, <1>3, <1>4, <1>5, MovesStay, EndStays DEF host
<1> QED
  BY <1>2, <1>3, <1>4, <1>5, <1>6, <1>7, StepLiveReady DEF BInv

(* Behind a step of a move there is no other. *)
LEMMA MoveAlone ==
  ASSUME BInv, Evolves, writer # <<>>, First.kind \in MoveKind, \A e \in Entry : entry'[e].setup = entry[e].setup
  PROVE  /\ \A t \in Steps(Tail(writer)) : t.kind \notin MoveKind /\ Kept(t)
         /\ First.kind = "moveSeal" => move.stage = "sealing"
         /\ First.kind = "moveHead" => move.stage = "committing"
         /\ First.kind = "moveEnd" => move.stage = "ending"
<1>1. /\ Timely(First)
      /\ \A t \in Steps(Tail(writer)) : t \in Steps(writer) /\ Timely(t) /\ ~Clash(First, t)
  BY FrontStep
<1>2. ASSUME NEW t \in Steps(Tail(writer)) PROVE t.kind \notin MoveKind /\ Kept(t)
  <2>1. t.kind \notin MoveKind
    BY <1>1 DEF Clash
  <2> QED BY <1>1, <2>1 DEF Timely, Kept, Used
<1> QED
  BY <1>1, <1>2 DEF Timely

LEMMA MoveTurns ==
  ASSUME BInv, Evolves, writer # <<>>, First.kind \in MoveKind, \A e \in Entry : entry'[e].setup = entry[e].setup,
         NEW kind \in {"moveHead", "moveEnd"}, writer' = Append(Tail(writer), Step(kind, 0)),
         kind = "moveHead" => move'.stage = "committing", kind = "moveEnd" => move'.stage = "ending"
  PROVE  QueueOK'
<1> DEFINE x == Step(kind, 0)
<1>1. x \in WriterSteps /\ x.kind = kind /\ writer' = Append(Tail(writer), x)
  BY DEF Step, WriterSteps, StepKind, MoveKind
<1>2. kind \notin SetupKind \cup Drains \cup {"op", "idle", "unseal", "moveSeal"}
  BY DEF Drains, SetupKind
<1> HIDE DEF x
<1>3. Timely(x)'
  BY <1>1, <1>2 DEF Timely
<1>4. \A t \in Steps(Tail(writer)) : Kept(t) /\ ~Clash(t, x)
  BY <1>1, <1>2, MoveAlone DEF Clash
<1> QED
  BY <1>1, <1>3, <1>4, QueueTurns

LEMMA StepMoveSeals == ASSUME BInv, MoveSeals PROVE BInv' /\ Calm
<1> DEFINE subtree == Subtree(move.branch)
           stopped == {live[b] : b \in {c \in subtree : live[c] # 0}}
           sealing == [move EXCEPT !.affected = subtree, !.kept = subtree \cap sealed]
<1>1. /\ writer # <<>> /\ First.kind = "moveSeal" /\ move.stage = "sealing"
      /\ sealed' = sealed \cup subtree /\ moving' = moving \cup subtree
      /\ UNCHANGED <<phase, host, live, known, admitted, readmit, op, bounds, outcomes>>
  BY FrontStep DEF MoveSeals, Timely
<1>2. subtree \subseteq Branch /\ move.branch \in subtree /\ moving = {} /\ move.branch \in known /\ move \in MoveRecord
  BY <1>1, BranchesAssumption DEF BInv, MovesOK, CoreOK, MoveRecord, Subtree
<1>3. sealing \in MoveRecord /\ sealing.affected = subtree /\ sealing.branch = move.branch
  <2>1. subtree \cap sealed \in SUBSET Branch /\ subtree \in SUBSET Branch
    BY <1>2
  <2> HIDE DEF subtree
  <2> QED BY <1>2, <2>1 DEF MoveRecord
<1>4. PICK stage \in {"draining", "committing", "ending"}, drains \in SUBSET (Entry \X Drains) :
        /\ move' = [sealing EXCEPT !.stage = stage, !.drains = drains]
        /\ stage = "draining" => /\ \A b \in subtree : live[b] # 0 => \E x \in drains : x[1] = live[b]
                                 /\ writer' = Tail(writer)
        /\ stage = "committing" /\ started => \A b \in subtree : live[b] = 0
        /\ stage = "committing" => writer' = Append(Tail(writer), Step("moveHead", 0))
        /\ stage = "ending" => writer' = Append(Tail(writer), Step("moveEnd", 0))
        /\ entry' = [e \in Entry |-> entry'[e]] /\ \A e \in Entry : Twin(entry[e], entry'[e])
  <2> DEFINE F(stage, drains) ==
        /\ move' = [sealing EXCEPT !.stage = stage, !.drains = drains]
        /\ stage = "draining" => /\ \A b \in subtree : live[b] # 0 => \E x \in drains : x[1] = live[b]
                                 /\ writer' = Tail(writer)
        /\ stage = "committing" /\ started => \A b \in subtree : live[b] = 0
        /\ stage = "committing" => writer' = Append(Tail(writer), Step("moveHead", 0))
        /\ stage = "ending" => writer' = Append(Tail(writer), Step("moveEnd", 0))
        /\ entry' = [e \in Entry |-> entry'[e]] /\ \A e \in Entry : Twin(entry[e], entry'[e])
  <2>0. /\ entry \in [Entry -> Reserved] /\ \A r \in Reserved : Twin(r, r) /\ Twin(r, Stopped(r))
        /\ sealing.drains \in SUBSET (Entry \X Drains)
    BY <1>3, TwinIsTwin, StoppedTwin DEF BInv, CoreOK, MoveRecord
  <2>1. CASE started /\ stopped # {} /\ Accepting
    <3> DEFINE drains == {<<e, DrainOf(entry[e])>> : e \in stopped}
    <3>1. /\ entry' = [e \in Entry |-> IF e \in stopped THEN Stopped(entry[e]) ELSE entry[e]]
          /\ move' = [sealing EXCEPT !.stage = "draining", !.drains = drains] /\ writer' = Tail(writer)
      BY <2>1 DEF MoveSeals
    <3>2. \A e \in Entry : DrainOf(entry[e]) \in Drains
      BY <2>0 DEF DrainOf, Reserved, Drains
    <3>3. stopped \subseteq Entry
      BY <1>2 DEF BInv, CoreOK
    <3>4. drains \in SUBSET (Entry \X Drains)
      <4> HIDE DEF stopped
      <4> QED BY <3>2, <3>3
    <3>5. \A b \in subtree : live[b] # 0 => \E x \in drains : x[1] = live[b]
      <4> SUFFICES ASSUME NEW b \in subtree, live[b] # 0 PROVE \E x \in drains : x[1] = live[b]
        OBVIOUS
      <4>1. live[b] \in stopped
        OBVIOUS
      <4> HIDE DEF stopped
      <4>2. <<live[b], DrainOf(entry[live[b]])>> \in drains
        BY <4>1
      <4> QED BY <4>2
    <3>6. \A e \in Entry : Twin(entry[e], entry'[e])
      <4> HIDE DEF stopped
      <4> QED BY <2>0, <3>1
    <3> HIDE DEF drains, stopped, sealing
    <3>7. F("draining", drains)
      BY <3>1, <3>5, <3>6
    <3> HIDE DEF F
    <3>8. \E stage \in {"draining", "committing", "ending"}, ds \in SUBSET (Entry \X Drains) : F(stage, ds)
      BY <3>4, <3>7
    <3> QED BY <3>8 DEF F
  <2>2. CASE started /\ stopped # {} /\ ~Accepting
    <3>1. move' = [sealing EXCEPT !.stage = "ending"] /\ writer' = Append(Tail(writer), Step("moveEnd", 0)) /\ UNCHANGED entry
      BY <2>2 DEF MoveSeals
    <3>2. move' = [sealing EXCEPT !.stage = "ending", !.drains = sealing.drains]
      <4> HIDE DEF sealing
      <4> QED BY <1>3, <3>1 DEF MoveRecord
    <3> HIDE DEF sealing, stopped
    <3>3. F("ending", sealing.drains)
      BY <2>0, <3>1, <3>2
    <3> HIDE DEF F
    <3>4. \E stage \in {"draining", "committing", "ending"}, ds \in SUBSET (Entry \X Drains) : F(stage, ds)
      BY <2>0, <3>3
    <3> QED BY <3>4 DEF F
  <2>3. CASE ~(started /\ stopped # {})
    <3>1. move' = [sealing EXCEPT !.stage = "committing"] /\ writer' = Append(Tail(writer), Step("moveHead", 0)) /\ UNCHANGED entry
      BY <2>3 DEF MoveSeals
    <3>2. move' = [sealing EXCEPT !.stage = "committing", !.drains = sealing.drains]
      <4> HIDE DEF sealing
      <4> QED BY <1>3, <3>1 DEF MoveRecord
    <3>3. started => \A b \in subtree : live[b] = 0
      BY <2>3
    <3> HIDE DEF sealing, stopped
    <3>4. F("committing", sealing.drains)
      BY <2>0, <3>1, <3>2, <3>3
    <3> HIDE DEF F
    <3>5. \E stage \in {"draining", "committing", "ending"}, ds \in SUBSET (Entry \X Drains) : F(stage, ds)
      BY <2>0, <3>4
    <3> QED BY <3>5 DEF F
  <2> QED BY <2>1, <2>2, <2>3
<1> HIDE DEF stopped, sealing, subtree
<1>5. /\ move' \in MoveRecord /\ move'.stage = stage /\ move'.branch = move.branch
      /\ move'.affected = subtree /\ move'.drains = drains
  BY <1>3, <1>4 DEF MoveRecord
<1>6. Onward /\ Succeeds
  BY <1>1, SameLive DEF Onward, Accepting, host
<1>7. Evolves /\ Calm
  BY <1>4, <1>6, FollowsTwins
<1>8. CoreOK'
  BY <1>1, <1>2, <1>4, <1>5 DEF BInv, CoreOK, host, Twin, Kin
<1>9. QueueOK'
  <2>1. \A e \in Entry : entry'[e].setup = entry[e].setup
    BY <1>4 DEF Twin
  <2>2. "moveSeal" \in MoveKind /\ writer # <<>>
    BY <1>1 DEF MoveKind
  <2>3. CASE stage = "draining"
    BY <1>1, <1>4, <1>7, <2>1, <2>2, <2>3, MoveAlone, QueueShrinks
  <2>4. CASE stage = "committing"
    BY <1>1, <1>4, <1>5, <1>7, <2>1, <2>2, <2>4, MoveTurns
  <2>5. CASE stage = "ending"
    BY <1>1, <1>4, <1>5, <1>7, <2>1, <2>2, <2>5, MoveTurns
  <2> QED BY <2>3, <2>4, <2>5
<1>10. MovesOK'
  <2>1. moving' = subtree /\ move.branch \in known'
    BY <1>1, <1>2
  <2> QED BY <1>1, <1>2, <1>4, <1>5, <2>1 DEF MovesOK, host
<1>11. EndOK'
  BY <1>1, <1>6, <1>8, EndStays DEF host
<1>12. RestOK'
  BY <1>1, <1>2 DEF BInv, RestOK, host, bounds
<1> QED
  BY <1>6, <1>7, <1>8, <1>9, <1>10, <1>11, <1>12, StepLiveReady DEF BInv

LEMMA StepMoveHead == ASSUME BInv, MoveHead PROVE BInv' /\ Calm
<1>1. /\ writer # <<>> /\ First.kind = "moveHead" /\ move.stage = "committing" /\ First.kind \in MoveKind
      /\ writer' = Append(Tail(writer), Step("moveEnd", 0)) /\ move' = [move EXCEPT !.stage = "ending"]
      /\ UNCHANGED <<phase, host, live, gates, moving, op, outcomes>>
  BY FrontStep DEF MoveHead, Timely, MoveKind
<1>2. /\ move' \in MoveRecord /\ move'.stage = "ending" /\ move'.branch = move.branch
      /\ move'.affected = move.affected /\ move'.drains = move.drains
  BY <1>1 DEF BInv, CoreOK, MoveRecord
<1>3. entry' = [e \in Entry |-> entry'[e]] /\ \A e \in Entry : Twin(entry[e], entry'[e])
  <2>1. entry \in [Entry -> Reserved] /\ \A r \in Reserved : Twin(r, r) /\ Twin(r, [r EXCEPT !.view = "behind"])
    BY FieldTwin, TwinIsTwin DEF BInv, CoreOK
  <2>2. CASE entry' = [e \in Entry |-> IF e = live[move.branch] /\ entry[e].view = "current"
                                       THEN [entry[e] EXCEPT !.view = "behind"] ELSE entry[e]]
    BY <2>1, <2>2
  <2>3. CASE UNCHANGED entry
    BY <2>1, <2>3
  <2> QED BY <2>2, <2>3 DEF MoveHead
<1>4. Onward /\ Succeeds
  BY <1>1, SameLive DEF Onward, Accepting, gates, host
<1>5. Evolves /\ Calm
  BY <1>3, <1>4, FollowsTwins
<1>6. CoreOK'
  BY <1>1, <1>2, <1>3 DEF BInv, CoreOK, host, gates, Twin, Kin
<1>7. QueueOK'
  BY <1>1, <1>2, <1>3, <1>5, MoveTurns DEF Twin
<1>8. MovesOK'
  BY <1>1, <1>2 DEF BInv, MovesOK, gates
<1>9. EndOK'
  BY <1>1, <1>4, <1>6, EndStays DEF host
<1>10. RestOK'
  <2>1. moves' \in Nat /\ calls' \in Nat /\ fails' \in Nat
    BY FailRest DEF MoveHead, BInv, RestOK
  <2> QED BY <1>1, <2>1 DEF BInv, RestOK, host, gates
<1> QED
  BY <1>4, <1>5, <1>6, <1>7, <1>8, <1>9, <1>10, StepLiveReady DEF BInv

LEMMA StepMoveEnds == ASSUME BInv, MoveEnds PROVE BInv' /\ Calm
<1>1. /\ writer # <<>> /\ First.kind = "moveEnd" /\ move.stage = "ending" /\ First.kind \in MoveKind
      /\ writer' = Tail(writer) /\ moving' = moving \ move.affected /\ move' = IdleMove
      /\ sealed' = sealed \ (move.affected \ move.kept)
      /\ UNCHANGED <<phase, host, live, known, admitted, readmit, entry, op, bounds, outcomes>>
  BY FrontStep DEF MoveEnds, Takes, Timely, MoveKind
<1>2. moving' = {} /\ IdleMove \in MoveRecord /\ IdleMove.stage = "idle"
  BY <1>1, BranchesAssumption DEF BInv, MovesOK, IdleMove, MoveRecord
<1>3. Onward /\ Succeeds
  BY <1>1, SameLive DEF Onward, Accepting, host
<1>4. Evolves /\ Calm
  BY <1>1, <1>3, SameEntries
<1>5. CoreOK'
  BY <1>1, <1>2 DEF BInv, CoreOK, host
<1>6. QueueOK'
  BY <1>1, <1>4, MoveAlone, QueueShrinks
<1>7. MovesOK'
  BY <1>1, <1>2 DEF MovesOK
<1>8. EndOK'
  BY <1>1, <1>3, <1>5, EndStays DEF host
<1>9. RestOK'
  BY <1>1 DEF BInv, RestOK, host, bounds
<1> QED
  BY <1>3, <1>4, <1>5, <1>6, <1>7, <1>8, <1>9, StepLiveReady DEF BInv

LEMMA InitBInv == Init => BInv
<1> SUFFICES ASSUME Init PROVE BInv
  OBVIOUS
<1>1. /\ Len(Launch) \in Nat /\ Len(Launch) > 0 /\ \A i \in 1 .. Len(Launch) : Launch[i] \in Branch /\ i \in Entry
      /\ Launch[1] \in Branch /\ Entry \subseteq Nat \ {0}
  BY BranchesAssumption
<1>2. ASSUME NEW b \in Branch, NEW mode \in {"unused", "initial"}
      PROVE  LET s == Reservation(b, mode) IN
             /\ s \in Reserved /\ s.branch = b /\ s.mode = mode /\ ~s.ready /\ ~Done(s) /\ s.runtime = "none"
             /\ (mode = "initial" => s.setup = "none") /\ \A d \in Drains : ~Past(s, d)
  BY DEF Reservation, Reserved, SetupStage, DrainStage, Done, Past, Drains
<1> DEFINE R(e) == IF e <= Len(Launch) THEN Reservation(Launch[e], "initial") ELSE Reservation(Launch[1], "unused")
<1>3. ASSUME NEW e \in Entry
      PROVE  /\ R(e) \in Reserved /\ ~R(e).ready /\ ~Done(R(e)) /\ R(e).runtime = "none"
             /\ \A d \in Drains : ~Past(R(e), d)
             /\ R(e).mode # "unused" => R(e).setup = "none"
             /\ e \in 1 .. Len(Launch) => R(e).mode = "initial" /\ R(e).branch = Launch[e]
  <2>1. CASE e <= Len(Launch)
    <3>1. R(e) = Reservation(Launch[e], "initial") /\ Launch[e] \in Branch
      BY <1>1, <2>1
    <3> HIDE DEF R
    <3> QED BY <1>2, <3>1
  <2>2. CASE ~(e <= Len(Launch))
    <3>1. R(e) = Reservation(Launch[1], "unused") /\ e \notin 1 .. Len(Launch)
      BY <1>1, <2>2
    <3> HIDE DEF R
    <3> QED BY <1>1, <1>2, <3>1
  <2> QED BY <2>1, <2>2
<1>4. entry = [e \in Entry |-> R(e)]
  BY DEF Init
<1> HIDE DEF R
<1>5. \A b \in Branch : live[b] # 0 => live[b] \in 1 .. Len(Launch) /\ Launch[live[b]] = b /\ admitted[b] = "taken"
  <2> SUFFICES ASSUME NEW b \in Branch, live[b] # 0
               PROVE  live[b] \in 1 .. Len(Launch) /\ Launch[live[b]] = b /\ admitted[b] = "taken"
    OBVIOUS
  <2>1. b \in Launched /\ live[b] = CHOOSE i \in 1 .. Len(Launch) : Launch[i] = b
    BY DEF Init
  <2>2. \E i \in 1 .. Len(Launch) : Launch[i] = b
    BY <2>1 DEF Launched
  <2>3. live[b] \in 1 .. Len(Launch) /\ Launch[live[b]] = b
    BY <2>1, <2>2
  <2> QED BY <2>1, <2>3 DEF Init
<1>6. CoreOK
  <2>1. known \subseteq Branch
    BY BranchesAssumption DEF Init
  <2>2. live = [b \in Branch |-> live[b]] /\ \A b \in Branch : live[b] \in Entry \cup {0}
    BY <1>1, <1>5 DEF Init
  <2>3. move \in MoveRecord
    BY <1>1 DEF Init, IdleMove, MoveRecord
  <2>4. admitted \in [Branch -> {"absent", "taken", "claimed", "failed", "broken"}]
    BY DEF Init
  <2>5. entry \in [Entry -> Reserved]
    BY <1>3, <1>4
  <2> QED BY <2>1, <2>2, <2>3, <2>4, <2>5 DEF Init, CoreOK
<1>7. RestOK
  BY <1>1 DEF Init, RestOK, IdleOp, OpRecord
<1>8. LiveOK
  BY <1>1, <1>3, <1>4, <1>5 DEF LiveOK, Used
<1>9. ReadyOK
  BY <1>3, <1>4 DEF ReadyOK, Used, Init
<1>10. QueueOK
  BY DEF Init, QueueOK, Distinct, Steps
<1>11. MovesOK /\ EndOK
  BY DEF Init, MovesOK, EndOK, IdleMove, Accepting
<1> QED
  BY <1>6, <1>7, <1>8, <1>9, <1>10, <1>11 DEF BInv
-----------------------------------------------------------------------------
(* Every step preserves the invariant, and starts or disposes of one       *)
(* runtime at most.                                                         *)
MoveStep == MoveSeals \/ MoveHead \/ MoveEnds
Runtimes == Calm \/ \E e \in Entry : Begins(e) \/ Ends(e)

LEMMA HostCallsStep == ASSUME BInv, HostCalls PROVE BInv' /\ Calm
<1>1. CASE Start \/ AcquireHold \/ ReleaseHold \/ Close
  BY <1>1, StepStart, StepAcquireHold, StepReleaseHold, StepClose
<1>2. ASSUME NEW b \in Branch, StopAndDrain(b) \/ Unload(b) \/ StartBranch(b) \/ ClaimFailed(b) \/ Move(b)
      PROVE  BInv' /\ Calm
  BY <1>2, StepStopAndDrain, StepUnload, StepStartBranch, StepClaimFailed, StepMove
<1>3. ASSUME NEW b \in Branch, NEW o \in Op, Respond(o, b) \/ \E new \in Branch : Fork(o, b, new)
      PROVE  BInv' /\ Calm
  BY <1>3, StepRespond, StepFork
<1> QED
  BY <1>1, <1>2, <1>3 DEF HostCalls

LEMMA WriterStepStep == ASSUME BInv, WriterStep PROVE BInv' /\ Runtimes
<1>1. CASE Activate
  <2>1. First.who \in Entry \/ Calm
    BY <1>1, StepActivate DEF Begins, Alone, Used
  <2> QED BY <1>1, <2>1, StepActivate DEF Runtimes
<1>2. CASE DrainSeals \/ UnloadUnseals \/ Reseal \/ UnloadChecks \/ OpRuns \/ MoveSeals \/ MoveHead \/ MoveEnds
  BY <1>2, StepDrainSeals, StepUnloadUnseals, StepReseal, StepUnloadChecks, StepOpRuns, StepMoveSeals,
     StepMoveHead, StepMoveEnds DEF Runtimes
<1> QED
  BY <1>1, <1>2 DEF WriterStep

LEMMA ContinueStep == ASSUME BInv, NEW e \in Used, Continue(e) PROVE BInv' /\ Runtimes
<1>1. CASE Built(e) \/ Dispose(e)
  BY <1>1, StepBuilt, StepDispose DEF Runtimes, Used
<1>2. CASE PassBarrier(e) \/ Snapshot(e) \/ Replayed(e) \/ TakeTurn(e) \/ SetupReturns(e)
  BY <1>2, StepPassBarrier, StepSnapshot, StepReplayed, StepTakeTurn, StepSetupReturns DEF Runtimes
<1>3. CASE RunReturns(e) \/ SettleOps(e) \/ Settled(e) \/ UnloadReady(e)
  BY <1>3, StepRunReturns, StepSettleOps, StepSettled, StepUnloadReady DEF Runtimes
<1>4. ASSUME NEW d \in Drains, DrainsSetup(e, d) \/ DrainsOps(e, d) \/ DrainsRuntime(e, d) \/ DrainsRun(e, d)
      PROVE  BInv' /\ Runtimes
  BY <1>4, StepDrainsSetup, StepDrainsOps, StepDrainsRuntime, StepDrainsRun DEF Runtimes
<1> QED
  BY <1>1, <1>2, <1>3, <1>4 DEF Continue

LEMMA NextBInv == BInv /\ [Next]_vars => BInv' /\ Runtimes
<1> SUFFICES ASSUME BInv, [Next]_vars PROVE BInv' /\ Runtimes
  OBVIOUS
<1>1. CASE UNCHANGED vars
  BY <1>1, ApartStep DEF vars, core, host, gates, bounds, BInv, RestOK, Runtimes
<1>2. CASE HostCalls \/ WriterStep
  BY <1>2, HostCallsStep, WriterStepStep DEF Runtimes
<1>3. CASE MoveDrained \/ FinishAggregate \/ CloseSettles \/ Closed
  BY <1>3, StepMoveDrained, StepFinishAggregate, StepCloseSettles, StepClosed DEF Runtimes
<1>4. CASE \E b \in Branch : Reconsider(b)
  BY <1>4, StepReconsider DEF Runtimes
<1>5. CASE \E o \in Op : OpLooks(o) \/ OpReady(o)
  BY <1>5, StepOpLooks, StepOpReady DEF Runtimes
<1>6. ASSUME NEW e \in Used, RunEnds(e) \/ Continue(e) PROVE BInv' /\ Runtimes
  BY <1>6, StepRunEnds, ContinueStep DEF Runtimes
<1> QED
  BY <1>1, <1>2, <1>3, <1>4, <1>5, <1>6 DEF Next

LEMMA SpecBInv == Spec => []BInv
<1>1. BInv /\ [Next]_vars => BInv'
  BY NextBInv
<1> QED
  BY InitBInv, <1>1, PTL DEF Spec

(* Types, and a branch is live under a reservation of its own, whatever the *)
(* set of branches and however many reservations a run makes.  (startBranch, *)
(* settle, drainEntry)                                                      *)
THEOREM SpecTypeOK == Spec => []TypeOK
<1>1. BInv => TypeOK
  BY DEF BInv, CoreOK, RestOK, LiveOK, TypeOK, Typed
<1> QED
  BY SpecBInv, <1>1, PTL

(* No branch leaves the run while its runtime is up, and a closed run has   *)
(* no branch left.  (drainEntry, settle, close)                             *)
THEOREM SpecLeavesDisposed == Spec => []LeavesDisposed
<1>1. BInv => LeavesDisposed
  <2> SUFFICES ASSUME BInv PROVE LeavesDisposed
    OBVIOUS
  <2>1. \A e \in Used \ LiveEntries : entry[e].runtime # "up"
    BY DEF BInv, LiveOK, LiveEntries
  <2>2. phase = "closed" => LiveEntries = {}
    <3>1. ASSUME phase = "closed", NEW e \in Used PROVE live[entry[e].branch] # e
      <4>1. e \in Entry /\ entry[e].branch \in Branch
        BY UsedReserved DEF Reserved
      <4>2. live[entry[e].branch] = 0 /\ e # 0
        BY <3>1, <4>1, BranchesAssumption DEF BInv, EndOK
      <4> QED BY <4>2
    <3> QED BY <3>1 DEF LiveEntries
  <2> QED BY <2>1, <2>2 DEF LeavesDisposed
<1> QED
  BY SpecBInv, <1>1, PTL

-----------------------------------------------------------------------------
(* The refinement. *)

Workers == {<<e, entry[e].branch>> : e \in {f \in Used : entry[f].runtime = "up"}}

(* Only three steps of a move touch what the promise says of moves. *)
LEMMA MovesApart ==
  ASSUME BInv, [Next]_vars, ~MoveStep
  PROVE  UNCHANGED <<moving, moves>>
<1>1. CASE UNCHANGED vars
  BY <1>1 DEF vars, bounds
<1>2. CASE HostCalls
  BY <1>2 DEF HostCalls, Start, AcquireHold, ReleaseHold, Close, StopAndDrain, Unload, StartBranch, ClaimFailed, Move,
     Respond, Fork, Call, bounds
<1>3. CASE WriterStep
  <2>1. CASE OpRuns
    BY <2>1 DEF OpRuns, MayFail, bounds
  <2>2. CASE DrainSeals \/ UnloadUnseals \/ Reseal \/ Activate \/ UnloadChecks
    BY <2>2 DEF DrainSeals, UnloadUnseals, Reseal, Activate, UnloadChecks, bounds
  <2> QED BY <1>3, <2>1, <2>2 DEF WriterStep, MoveStep
<1>4. CASE MoveDrained \/ FinishAggregate \/ CloseSettles \/ Closed
  BY <1>4 DEF MoveDrained, FinishAggregate, CloseSettles, Closed, bounds
<1>5. CASE \E b \in Branch : Reconsider(b)
  BY <1>5 DEF Reconsider, bounds
<1>6. CASE \E o \in Op : OpLooks(o) \/ OpReady(o)
  BY <1>6 DEF OpLooks, OpReady, bounds
<1>7. ASSUME NEW e \in Used, RunEnds(e) \/ Continue(e) PROVE UNCHANGED <<moving, moves>>
  <2>1. CASE RunEnds(e) \/ PassBarrier(e) \/ Snapshot(e) \/ TakeTurn(e) \/ SetupReturns(e) \/ RunReturns(e)
    BY <2>1 DEF RunEnds, PassBarrier, Snapshot, TakeTurn, SetupReturns, RunReturns, bounds
  <2>2. CASE Replayed(e) \/ Built(e) \/ Dispose(e)
    BY <2>2 DEF Replayed, Built, Dispose, MayFail, bounds
  <2>3. CASE SettleOps(e) \/ Settled(e) \/ UnloadReady(e)
    BY <2>3 DEF SettleOps, Settled, UnloadReady, bounds
  <2>4. ASSUME NEW d \in Drains, DrainsSetup(e, d) \/ DrainsOps(e, d) \/ DrainsRuntime(e, d) \/ DrainsRun(e, d)
        PROVE  UNCHANGED <<moving, moves>>
    BY <2>4 DEF DrainsSetup, DrainsOps, DrainsRuntime, DrainsRun, bounds
  <2> QED BY <1>7, <2>1, <2>2, <2>3, <2>4 DEF Continue
<1> QED
  BY <1>1, <1>2, <1>3, <1>4, <1>5, <1>6, <1>7 DEF Next

LEMMA CalmWorkers == ASSUME BInv, Calm PROVE Workers' = Workers
<1>1. \A e \in Entry : (e \in Used' /\ entry'[e].runtime = "up") <=> (e \in Used /\ entry[e].runtime = "up")
  BY DEF Calm, Works, Used
<1>2. \A e \in Entry : e \in Used /\ entry[e].runtime = "up" => entry'[e].branch = entry[e].branch
  BY DEF Calm, Works, Used
<1>3. Workers \subseteq Workers' /\ Workers' \subseteq Workers
  BY <1>1, <1>2 DEF Workers, Used
<1> QED
  BY <1>3

LEMMA EndsWorkers ==
  ASSUME BInv, NEW e \in Entry, Ends(e)
  PROVE  Workers' = Workers \/ \E w \in Workers : Workers' = Workers \ {w}
<1> DEFINE w == <<e, entry[e].branch>>
<1>1. \A f \in Entry : f # e => entry'[f] = entry[f]
  BY DEF Ends, Alone
<1>2. ~(e \in Used' /\ entry'[e].runtime = "up")
  BY DEF Ends, Works, Used
<1>3. Workers' = Workers \ {w}
  <2>1. \A x \in Workers' : x \in Workers /\ x # w
    BY <1>1, <1>2 DEF Workers, Used
  <2>2. \A x \in Workers : x # w => x \in Workers'
    BY <1>1 DEF Workers, Used
  <2> QED BY <2>1, <2>2
<1>4. w \in Workers \/ Workers \ {w} = Workers
  OBVIOUS
<1> QED
  BY <1>3, <1>4

LEMMA BeginsWorkers ==
  ASSUME BInv, NEW e \in Entry, Begins(e)
  PROVE  Workers' = Workers \/ \E b \in Branch : /\ Workers' = Workers \cup {<<e, b>>}
                                                 /\ \A w \in Workers : w[2] # b
<1> DEFINE b == entry[e].branch
<1>1. e \in Used /\ live[b] = e /\ b \in Branch /\ \A f \in Entry : f # e => entry'[f] = entry[f]
  BY UsedReserved DEF Begins, Alone, Runnable, Reserved
<1>2. e \in Used' /\ entry'[e].runtime = "up" /\ entry'[e].branch = b
  BY DEF Begins, Works, Used
<1> HIDE DEF b
<1>3. Workers' = Workers \cup {<<e, b>>}
  <2>1. <<e, b>> \in Workers'
    BY <1>2 DEF Workers
  <2>2. \A x \in Workers : x \in Workers'
    BY <1>1, <1>2 DEF Workers, Used, b
  <2>3. \A x \in Workers' : x \in Workers \/ x = <<e, b>>
    BY <1>1, <1>2 DEF Workers, Used
  <2> QED BY <2>1, <2>2, <2>3
<1>4. CASE entry[e].runtime = "up"
  BY <1>1, <1>3, <1>4 DEF Workers, b
<1>5. CASE entry[e].runtime # "up"
  <2>1. ASSUME NEW f \in Used, entry[f].runtime = "up" PROVE entry[f].branch # b
    BY <1>1, <1>5, <2>1 DEF BInv, LiveOK
  <2>2. \A w \in Workers : w[2] # b
    BY <2>1 DEF Workers
  <2> QED BY <1>1, <1>3, <2>2
<1> QED
  BY <1>4, <1>5

(* The controller implements BranchOwnership: a branch is worked on by one  *)
(* runtime at a time, moves are one at a time, and a head is moved while no *)
(* runtime works on the branches moved, however drains, unloads,            *)
(* settlements and moves overlap.  (startBranch, setupReadmittedEntry,      *)
(* performBranchMove, drainEntry)                                           *)
THEOREM SpecBranchesAreOwned == Spec => BranchesAreOwned
<1>1. Init => Ownership!Init
  <2> SUFFICES ASSUME Init PROVE Ownership!Init
    OBVIOUS
  <2>1. \A e \in Used : entry[e].runtime # "up"
    BY InitBInv DEF BInv, ReadyOK, Init
  <2> QED BY <2>1 DEF Ownership!Init, Init
<1>2. BInv /\ [Next]_vars => [Ownership!Next]_(Ownership!vars)
  <2> SUFFICES ASSUME BInv, [Next]_vars PROVE [Ownership!Next]_(Ownership!vars)
    OBVIOUS
  <2> DEFINE O(w, m, k) == Ownership!vars = <<w, m, k>>
  <2>0. Ownership!vars = <<Workers, moving, moves>>
    BY DEF Ownership!vars, Workers
  <2>1. CASE MoveSeals
    <3>1. Workers' = Workers /\ moving = {} /\ moves' = moves
      BY <2>1, StepMoveSeals, CalmWorkers, FrontStep DEF MoveSeals, bounds, Timely, BInv, MovesOK
    <3>2. moving' \in SUBSET Branch /\ moving' = moving'
      BY <2>1, StepMoveSeals DEF BInv, CoreOK
    <3>3. Ownership!Fence(moving')
      BY <3>1 DEF Ownership!Fence, Workers
    <3> QED BY <3>2, <3>3 DEF Ownership!Next
  <2>2. CASE MoveHead
    <3>1. Workers' = Workers /\ moving' = moving /\ move.stage = "committing" /\ moving # {}
      BY <2>2, StepMoveHead, CalmWorkers, FrontStep DEF MoveHead, Timely, BInv, MovesOK
    <3>2. ASSUME NEW e \in Used, entry[e].runtime = "up" PROVE entry[e].branch \notin moving
      <4>1. live[entry[e].branch] = e /\ e # 0 /\ ~Done(entry[e]) /\ started
        BY <3>2, UsedReserved, BranchesAssumption DEF BInv, LiveOK, ReadyOK
      <4> QED BY <3>1, <4>1 DEF BInv, MovesOK
    <3>3. \A w \in Workers : w[2] \notin moving
      BY <3>2 DEF Workers
    <3>4. CASE moves' = moves + 1
      <4>1. Ownership!MoveHead
        BY <3>1, <3>3, <3>4 DEF Ownership!MoveHead, Workers
      <4> QED BY <4>1 DEF Ownership!Next
    <3>5. CASE moves' = moves
      BY <2>0, <3>1, <3>5 DEF Ownership!vars, Workers
    <3> QED BY <2>2, <3>4, <3>5 DEF MoveHead, MayFail
  <2>3. CASE MoveEnds
    <3>1. Workers' = Workers /\ moving' = {} /\ moves' = moves
      BY <2>3, StepMoveEnds, CalmWorkers, FrontStep DEF MoveEnds, Takes, bounds, Timely, BInv, MovesOK
    <3>2. Ownership!Unfence
      BY <3>1 DEF Ownership!Unfence, Workers
    <3> QED BY <3>2 DEF Ownership!Next
  <2>4. CASE ~MoveStep
    <3>1. UNCHANGED <<moving, moves>> /\ Runtimes
      BY <2>4, MovesApart, NextBInv
    <3>2. CASE Workers' = Workers
      BY <3>1, <3>2 DEF Ownership!vars, Workers
    <3>3. ASSUME NEW w \in Workers, Workers' = Workers \ {w} PROVE [Ownership!Next]_(Ownership!vars)
      <4>1. Ownership!Finish(w)
        BY <3>1, <3>3 DEF Ownership!Finish, Workers
      <4> QED BY <4>1 DEF Ownership!Next, Workers
    <3>4. ASSUME NEW e \in Entry, NEW b \in Branch, Workers' = Workers \cup {<<e, b>>}, \A w \in Workers : w[2] # b
          PROVE  [Ownership!Next]_(Ownership!vars)
      <4>1. Ownership!Begin(e, b)
        BY <3>1, <3>4 DEF Ownership!Begin, Workers
      <4> QED BY <4>1 DEF Ownership!Next
    <3> QED BY <3>1, <3>2, <3>3, <3>4, CalmWorkers, EndsWorkers, BeginsWorkers DEF Runtimes
  <2> QED BY <2>1, <2>2, <2>3, <2>4 DEF MoveStep
<1> QED
  BY <1>1, <1>2, SpecBInv, PTL DEF Spec, BranchesAreOwned, Ownership!Spec

-----------------------------------------------------------------------------
(***************************************************************************)
(* The seals, however drains, unloads, readmissions and moves overlap: who *)
(* may find a branch sealed, and that a seal left behind can be lifted.    *)
(*                                                                         *)
(* A reservation outlives its place in `live', and its drain may still     *)
(* have a seal to set.  A readmission waits for such a drain: it takes its *)
(* snapshot when nothing is due, so every drain of a predecessor has its   *)
(* seal in the writer chain before the readmission can put its activation  *)
(* there.  The one drain it does not wait for is a drain that a settlement *)
(* has overtaken: the branch is free before the drain has got that far.    *)
(*                                                                         *)
(* SealStep says what a step of the controller may do to reservations,     *)
(* seals and marks; such steps preserve SInv, and every action is one.     *)
(***************************************************************************)
(* What one reservation says of itself: how far its setup must have come,   *)
(* and what a drain or a settlement has set before it got anywhere.         *)
Early == {"no", "ready", "check"}
RecOK(r) ==
  /\ \A d \in Drains : r.at[d] \notin Early => r.drain # "no"
  /\ r.at["unload"] # "no" => r.shut
  /\ r.at["stop"] \notin {"ready", "check"}
  /\ r.runtime # "none" \/ r.run # "none" => r.setup = "over"
  /\ r.setup \in SetupKind => r.mode = "readmit"
  /\ r.setup \in {"turn", "building", "activate"} \/ r.runtime # "none" => r.view # "none"
  /\ r.settle # "no" => Prepared(r)
  /\ r.settle \in {"ops", "dispose"} => r.outcome # "none"
  /\ r.run = "on" => r.settle = "no"
  /\ r.mode # "initial" => r.setup # "none"
Gone(e) == e \in Used /\ live[entry[e].branch] # e
Fresh(b) == \A e \in Used : entry[e].branch # b
Waiting == {"ready", "check", "setup", "ops"}
Sealing == {"seal", "dispose", "run", "unseal", "over"}

(* Every reservation, and the run before it is started. *)
RecsOK ==
  /\ \A e \in Used : RecOK(entry[e])
  /\ ~started => /\ \A e \in Used : entry[e].drain = "no" /\ \A d \in Drains : entry[e].at[d] = "no"
                 /\ sealed \subseteq moving /\ move.kept = {}
  /\ started /\ Accepting => \A e \in Used : entry[e].setup # "none"
(* A reservation that has left has been disposed of, and its setup waits    *)
(* for nobody; one that drained without an outcome of its own is drained.   *)
GoneOK ==
  Accepting => \A e \in Used :
    /\ Gone(e) => Done(entry[e])
    /\ Gone(e) /\ entry[e].setup = "settling" => entry[e].settle = "over"
    /\ Gone(e) /\ entry[e].outcome = "none" => \E d \in Drains : entry[e].at[d] = "over"
    /\ \A d \in Drains : entry[e].at[d] \notin Early \cup {"setup"} => entry[e].setup = "over"
    /\ \A c, d \in Drains : entry[e].at[c] \in Sealing /\ entry[e].at[d] \in Waiting => OpsOf(e) = {}
(* A drain waits for the step it has put in the writer chain, and puts in *)
(* no other meanwhile.                                                      *)
DrainSteps == Drains \cup {"idle", "unseal"}
ItsDrain(kind) == IF kind \in Drains THEN kind ELSE "unload"
AtStep(kind) == IF kind \in Drains THEN "seal" ELSE IF kind = "idle" THEN "check" ELSE "unseal"
Halted(s) == s.who \in Used /\ entry[s.who].at[ItsDrain(s.kind)] = AtStep(s.kind)
ChainOK ==
  /\ \A s \in Steps(writer) : s.kind \in DrainSteps => started /\ Halted(s)
  /\ \A i, j \in 1 .. Len(writer) : writer[i] = writer[j] /\ writer[i].kind \in DrainSteps => i = j
(* Who is readmitted has waited for the drains of its predecessors, unless *)
(* they were overtaken: none of them is still to be sealed when it has its *)
(* view, and their seals come before it is activated.                       *)
Awaited(e, f) ==
  \A d \in Drains :
    /\ entry[e].view # "none" => entry[f].at[d] \notin {"setup", "ops"}
    /\ entry[e].runtime # "none" => Step(d, f) \notin Steps(writer)
    /\ \A i, j \in 1 .. Len(writer) : writer[i] = Step("activate", e) /\ writer[j] = Step(d, f) => j < i
HeirsOK ==
  \A e \in LiveEntries, f \in Used : Kindred(e, f) =>
    /\ entry[e].mode = "readmit"
    /\ Accepting /\ ~Overtaken(f) => Awaited(e, f)
(* Seals and the marks to lift them. *)
SealsOK ==
  /\ \A b \in Branch : admitted[b] = "absent" => b \in readmit \/ Fresh(b)
  /\ \A b \in Branch : Fresh(b) => (b \in sealed => b \in moving) /\ b \notin move.kept
  /\ Accepting /\ started =>
       \A e \in LiveEntries : entry[e].mode # "readmit" /\ entry[e].drain = "no" => entry[e].branch \notin sealed

SInv == RecsOK /\ GoneOK /\ ChainOK /\ HeirsOK /\ SealsOK /\ SealedOnlyByOvertaken

-----------------------------------------------------------------------------
(* What a step may do. *)

(* The step of the writer chain that this step of the run carries out. *)
Taken(s) == writer # <<>> /\ First = s /\ writer' = Tail(writer)
(* A drain of a reservation goes on. *)
Advances(e, d) ==
  LET r == entry[e]
      s == entry'[e]
  IN
  \/ s.at[d] = r.at[d]
  \/ s.at[d] = "ready" /\ r.at[d] = "no" /\ r.drain = "no" /\ started
  \/ s.at[d] = "check" /\ r.at[d] = "ready"
  \/ s.at[d] = "no" /\ r.at[d] = "check" /\ Taken(Step("idle", e))
  \/ s.at[d] = "setup" /\ r.at[d] = "check" /\ live[r.branch] = e /\ Taken(Step("idle", e))
  \/ s.at[d] = "setup" /\ r.at[d] = "no" /\ r.drain = "no" /\ live[r.branch] = e /\ started
  \/ s.at[d] = "ops" /\ r.at[d] = "setup" /\ r.setup \in {"none", "over"}
  \/ s.at[d] = "seal" /\ r.at[d] = "ops" /\ OpsOf(e) = {}
  \/ /\ s.at[d] \in Sealing \ {"seal"} /\ r.at[d] \in Sealing \ {"over"}
     /\ r.at[d] = "seal" => Taken(Step(d, e))
     /\ r.at[d] = "unseal" => Taken(Step("unseal", e))
(* The runtime of a reservation is started: by its setup, or at the front   *)
(* of the writer chain, with the seal taken off.                            *)
Starts(e) ==
  /\ live[entry[e].branch] = e /\ started
  /\ \/ entry[e].mode # "readmit" /\ UNCHANGED sealed
     \/ Taken(Step("activate", e)) /\ entry[e].branch \notin sealed'
Steady(e) ==
  LET r == entry[e]
      s == entry'[e]
  IN
  /\ s.branch = r.branch /\ s.mode = r.mode /\ RecOK(s)
  /\ \A d \in Drains : Advances(e, d)
  /\ r.drain # "no" => s.drain # "no"
  /\ s.drain # "no" => r.drain # "no" \/ started
  /\ r.outcome # "none" => s.outcome # "none"
  /\ r.settle = "over" => s.settle = "over"
  /\ Done(r) => Done(s)
  /\ r.setup = "over" => s.setup = "over"
  /\ s.setup = "none" => r.setup = "none" /\ (started' /\ Accepting' => started)
  /\ s.view # "none" => r.view # "none" \/ NothingDue
  /\ s.runtime # "none" => (r.runtime # "none" /\ (s.runtime = "up" => r.runtime = "up")) \/ Starts(e)
  /\ r.shut => OpsOf(e)' \subseteq OpsOf(e)
(* A reservation is made. *)
Newly(e) ==
  \E b \in Branch, mode \in {"dynamic", "readmit"} :
    /\ entry'[e] = Reservation(b, mode) /\ started /\ live[b] = 0 /\ live'[b] = e
    /\ mode = "dynamic" => admitted[b] = "absent" /\ b \notin readmit /\ b \notin sealed'
(* One leaves the run. *)
Leaving(e) ==
  /\ Done(entry[e])
  /\ \/ entry'[e].settle = "over" /\ entry'[e].outcome # "none"
     \/ \E d \in Drains : entry[e].at[d] \in Sealing /\ entry'[e].at[d] = "over"
Lives(b) ==
  \/ live'[b] = live[b]
  \/ live'[b] = 0 /\ (Accepting' /\ live[b] # 0 => Leaving(live[b]))
  \/ live[b] = 0 /\ live'[b] \in Used' \ Used
(* A step joins the writer chain. *)
Enters(s) ==
  /\ s.kind \in Drains => s.who \in Used /\ entry[s.who].at[s.kind] = "ops"
  /\ s.kind \in DrainSteps => started /\ s.who \in Used /\ ~Halted(s) /\ Halted(s)'
Entering == {s \in WriterSteps : Enters(s)}
Chains ==
  \/ UNCHANGED writer
  \/ writer # <<>> /\ writer' = Tail(writer)
  \/ \E s \in WriterSteps : Enters(s) /\ writer' = Append(writer, s)
  \/ \E s \in WriterSteps : Enters(s) /\ writer # <<>> /\ writer' = Append(Tail(writer), s) /\ First.kind \notin DrainSteps
(* A branch is sealed, by a drain, a readmission or a move. *)
Seals(b) ==
  \/ writer # <<>> /\ First.kind \in Drains \cup {"reseal"} /\ entry[First.who].branch = b
  \/ b \in moving' /\ (started /\ Accepting' /\ live[b] # 0 => entry'[live[b]].drain # "no")
Marks(b) ==
  /\ b \in sealed' => b \in sealed \/ Seals(b)
  /\ b \in sealed' => b \in moving' \/ (b \in sealed /\ b \notin moving) \/ b \in move.kept \/ (started /\ ~Fresh(b))
  /\ b \in move'.kept => b \in move.kept \/ (b \in sealed /\ b \notin moving)
  /\ admitted'[b] = "absent" /\ b \notin readmit' => admitted[b] = "absent" /\ b \notin readmit
SealStep ==
  /\ \A e \in Used : e \in Used' /\ Steady(e)
  /\ \A e \in Used' \ Used : Newly(e)
  /\ \A b \in Branch : Lives(b) /\ Marks(b)
  /\ Chains
  /\ Accepting' => Accepting
  /\ started => started'
  /\ started' /\ ~started => moving = {} /\ UNCHANGED sealed

-----------------------------------------------------------------------------
(* Such a step preserves the invariant. *)

LEMMA Basics ==
  ASSUME BInv
  PROVE  /\ 0 \notin Entry
         /\ \A e \in Used : e \in Entry /\ entry[e] \in Reserved /\ entry[e].branch \in Branch
         /\ \A b \in Branch : live[b] # 0 => live[b] \in Used /\ entry[live[b]].branch = b
BY BranchesAssumption, UsedReserved DEF BInv, LiveOK, Reserved

LEMMA NewlyFields ==
  ASSUME NEW e \in Entry, Newly(e)
  PROVE  LET s == entry'[e] IN
         /\ s.view = "none" /\ s.runtime = "none" /\ s.run = "none" /\ s.settle = "no" /\ s.outcome = "none"
         /\ s.drain = "no" /\ s.setup = "barrier" /\ s.mode \in {"dynamic", "readmit"} /\ ~Done(s)
         /\ \A d \in Drains : s.at[d] = "no"
         /\ RecOK(s)
         /\ s.branch \in Branch /\ live[s.branch] = 0 /\ live'[s.branch] = e /\ started
         /\ s.mode # "readmit" => admitted[s.branch] = "absent" /\ s.branch \notin readmit /\ s.branch \notin sealed'
<1>1. PICK b \in Branch, mode \in {"dynamic", "readmit"} :
        /\ entry'[e] = Reservation(b, mode) /\ started /\ live[b] = 0 /\ live'[b] = e
        /\ mode = "dynamic" => admitted[b] = "absent" /\ b \notin readmit /\ b \notin sealed'
  BY DEF Newly
<1> DEFINE s == Reservation(b, mode)
<1>2. /\ s.view = "none" /\ s.runtime = "none" /\ s.run = "none" /\ s.settle = "no" /\ s.outcome = "none"
      /\ s.drain = "no" /\ s.setup = "barrier" /\ s.mode = mode /\ s.disposal = "no" /\ s.branch = b
      /\ \A d \in Drains : s.at[d] = "no"
  BY DEF Reservation
<1>3. RecOK(s)
  BY <1>2 DEF RecOK, Early, SetupKind, Drains
<1> HIDE DEF s
<1> QED
  BY <1>1, <1>2, <1>3 DEF s, Done

(* Who is used, live or gone after a step was so before, or is new, or has *)
(* just left.                                                               *)
LEMMA Before ==
  ASSUME BInv, BInv', SealStep
  PROVE  /\ \A e \in Used : e \in Used' /\ Steady(e) /\ entry'[e].branch = entry[e].branch
         /\ \A e \in Used' \ Used : e \in Entry /\ Newly(e)
         /\ \A e \in LiveEntries' : e \in LiveEntries \/ e \in Used' \ Used
         /\ \A e \in Used' : Gone(e)' /\ Accepting' => e \in Used /\ (Gone(e) \/ Leaving(e))
         /\ \A b \in Branch : Fresh(b)' => Fresh(b)
         /\ \A e \in LiveEntries', f \in Used' :
              Kindred(e, f)' => f \in Used /\ (e \in Used => e \in LiveEntries /\ Kindred(e, f)) /\ Gone(f)'
<1> USE Basics
<1>1. \A e \in Used : e \in Used' /\ Steady(e) /\ entry'[e].branch = entry[e].branch
  BY DEF SealStep, Steady
<1>2. \A e \in Used' \ Used : e \in Entry /\ Newly(e)
  BY DEF SealStep, Used
<1>3. ASSUME NEW e \in LiveEntries', e \notin Used' \ Used PROVE e \in LiveEntries
  <2>1. e \in Used /\ live'[entry[e].branch] = e /\ Lives(entry[e].branch) /\ e # 0
    BY <1>1, <1>3 DEF LiveEntries, SealStep
  <2> QED BY <1>3, <2>1 DEF Lives, LiveEntries
<1>4. ASSUME NEW e \in Used', Gone(e)', Accepting' PROVE e \in Used /\ (Gone(e) \/ Leaving(e))
  <2>1. e \in Used
    BY <1>2, <1>4, NewlyFields DEF Gone
  <2>2. Lives(entry[e].branch) /\ e # 0 /\ live'[entry[e].branch] # e
    BY <1>1, <1>4, <2>1 DEF Gone, SealStep
  <2> QED BY <1>4, <2>1, <2>2 DEF Lives, Gone
<1>5. \A b \in Branch : Fresh(b)' => Fresh(b)
  BY <1>1 DEF Fresh
<1>6. ASSUME NEW e \in LiveEntries', NEW f \in Used', Kindred(e, f)'
      PROVE  f \in Used /\ (e \in Used => e \in LiveEntries /\ Kindred(e, f)) /\ Gone(f)'
  <2>1. live'[entry'[f].branch] = e /\ f # e
    BY <1>6 DEF Kindred, LiveEntries
  <2>2. f \in Used
    BY <1>2, <2>1, NewlyFields
  <2> QED BY <1>1, <1>3, <1>6, <2>1, <2>2 DEF Kindred, Gone
<1> QED
  BY <1>1, <1>2, <1>3, <1>4, <1>5, <1>6

LEMMA NextRecs ==
  ASSUME BInv, BInv', SInv, SealStep
  PROVE  RecsOK'
<1> USE Basics
<1>1. ASSUME NEW e \in Used' PROVE RecOK(entry'[e])
  BY <1>1, Before, NewlyFields DEF Steady
<1>2. ASSUME ~started', NEW e \in Used'
      PROVE  entry'[e].drain = "no" /\ \A d \in Drains : entry'[e].at[d] = "no"
  <2>1. ~started /\ e \in Used /\ Steady(e) /\ entry[e].drain = "no" /\ \A d \in Drains : entry[e].at[d] = "no"
    BY <1>2, Before, NewlyFields DEF SealStep, SInv, RecsOK
  <2>2. entry'[e].drain = "no"
    BY <2>1 DEF Steady
  <2>3. ASSUME NEW d \in Drains PROVE entry'[e].at[d] = "no"
    BY <2>1 DEF Steady, Advances, Sealing
  <2> QED BY <2>2, <2>3
<1>3. ASSUME ~started' PROVE sealed' \subseteq moving' /\ move'.kept = {}
  <2>1. ~started /\ sealed \subseteq moving /\ move.kept = {} /\ \A b \in Branch : Marks(b)
    BY <1>3 DEF SealStep, SInv, RecsOK
  <2>2. sealed' \subseteq Branch /\ move'.kept \subseteq Branch
    BY DEF BInv, RestOK, CoreOK, MoveRecord
  <2> QED BY <2>1, <2>2 DEF Marks
<1>4. ASSUME started', Accepting', NEW e \in Used' PROVE entry'[e].setup # "none"
  BY <1>4, Before, NewlyFields DEF Steady, SealStep, SInv, RecsOK
<1> QED
  BY <1>1, <1>2, <1>3, <1>4, Zenon DEF RecsOK

LEMMA NextGone ==
  ASSUME BInv, BInv', SInv, SealStep
  PROVE  GoneOK'
<1> USE Basics
<1> SUFFICES ASSUME Accepting', NEW e \in Used'
             PROVE  /\ Gone(e)' => Done(entry'[e])
                    /\ Gone(e)' /\ entry'[e].setup = "settling" => entry'[e].settle = "over"
                    /\ Gone(e)' /\ entry'[e].outcome = "none" => \E d \in Drains : entry'[e].at[d] = "over"
                    /\ \A d \in Drains : entry'[e].at[d] \notin Early \cup {"setup"} => entry'[e].setup = "over"
                    /\ \A c, d \in Drains : entry'[e].at[c] \in Sealing /\ entry'[e].at[d] \in Waiting => OpsOf(e)' = {}
  BY Zenon DEF GoneOK
<1>0. Accepting
  BY DEF SealStep
<1>1. CASE e \notin Used
  <2>1. Newly(e) /\ e \in Entry
    BY <1>1, Before
  <2>2. ~Gone(e)' /\ \A d \in Drains : entry'[e].at[d] = "no"
    BY <2>1, NewlyFields DEF Gone
  <2> QED BY <2>2 DEF Early, Sealing
<1>2. CASE e \in Used
  <2>1. Steady(e) /\ RecOK(entry[e]) /\ (started => entry[e].setup # "none")
    BY <1>0, <1>2, Before DEF SInv, RecsOK
  <2>2. /\ Gone(e) => Done(entry[e])
        /\ Gone(e) /\ entry[e].setup = "settling" => entry[e].settle = "over"
        /\ Gone(e) /\ entry[e].outcome = "none" => \E d \in Drains : entry[e].at[d] = "over"
        /\ \A d \in Drains : entry[e].at[d] \notin Early \cup {"setup"} => entry[e].setup = "over"
        /\ \A c, d \in Drains : entry[e].at[c] \in Sealing /\ entry[e].at[d] \in Waiting => OpsOf(e) = {}
    BY <1>0, <1>2 DEF SInv, GoneOK
  <2>3. Gone(e)' => Gone(e) \/ Leaving(e)
    BY Before
  <2>4. Gone(e)' => Done(entry'[e])
    BY <2>1, <2>2, <2>3 DEF Leaving, Steady
  <2>5. ASSUME Gone(e)', entry'[e].setup = "settling" PROVE entry'[e].settle = "over"
    <3>1. Done(entry[e])
      BY <2>2, <2>3, <2>5 DEF Leaving
    <3>2. entry[e].setup = "settling"
      BY <1>0, <1>2, <2>1, <2>5, <3>1 DEF BInv, ReadyOK, Prepared, Steady
    <3>3. CASE Gone(e)
      BY <2>1, <2>2, <3>2, <3>3 DEF Steady
    <3>4. ASSUME NEW d \in Drains, entry[e].at[d] \in Sealing PROVE FALSE
      BY <2>2, <3>2, <3>4 DEF Sealing, Early
    <3> QED BY <2>3, <2>5, <3>3, <3>4 DEF Leaving
  <2>6. ASSUME Gone(e)', entry'[e].outcome = "none" PROVE \E d \in Drains : entry'[e].at[d] = "over"
    <3>1. CASE Gone(e)
      <4>1. entry[e].outcome = "none"
        BY <2>1, <2>6 DEF Steady
      <4>2. PICK d \in Drains : entry[e].at[d] = "over"
        BY <2>2, <3>1, <4>1
      <4>3. Advances(e, d)
        BY <2>1 DEF Steady
      <4> QED BY <4>2, <4>3 DEF Advances, Sealing
    <3>2. CASE Leaving(e)
      BY <2>6, <3>2 DEF Leaving
    <3> QED BY <2>3, <2>6, <3>1, <3>2
  <2>7. ASSUME NEW d \in Drains, entry'[e].at[d] \notin Early \cup {"setup"} PROVE entry'[e].setup = "over"
    <3>1. Advances(e, d)
      BY <2>1 DEF Steady
    <3>2. entry[e].at[d] \notin Early \cup {"setup"} \/ (entry[e].at[d] = "setup" /\ entry[e].setup \in {"none", "over"})
      BY <2>7, <3>1 DEF Advances, Early, Sealing
    <3>3. entry[e].at[d] = "setup" => started
      BY <1>2 DEF SInv, RecsOK
    <3>4. entry[e].setup = "over"
      BY <2>1, <2>2, <3>2, <3>3
    <3> QED BY <2>1, <3>4 DEF Steady
  <2>8. ASSUME NEW c \in Drains, NEW d \in Drains, entry'[e].at[c] \in Sealing, entry'[e].at[d] \in Waiting
        PROVE  OpsOf(e)' = {}
    <3>1. Advances(e, c) /\ Advances(e, d)
      BY <2>1 DEF Steady
    <3>2. (entry[e].at[c] = "ops" /\ OpsOf(e) = {}) \/ entry[e].at[c] \in Sealing
      BY <2>8, <3>1 DEF Advances, Sealing
    <3>3. entry[e].drain # "no"
      BY <2>1, <3>2 DEF RecOK, Early, Sealing
    <3>4. entry[e].at[d] \in Waiting
      BY <2>8, <3>1, <3>3 DEF Advances, Waiting, Sealing
    <3>5. OpsOf(e) = {}
      BY <2>2, <3>2, <3>4
    <3>6. c # d
      BY <2>8 DEF Sealing, Waiting
    <3>7. entry[e].at["unload"] # "no"
      BY <3>2, <3>4, <3>6 DEF Drains, Sealing, Waiting
    <3> QED BY <2>1, <3>5, <3>7 DEF RecOK, Steady
  <2> QED BY <2>4, <2>5, <2>6, <2>7, <2>8
<1> QED
  BY <1>1, <1>2

(* The steps of the writer chain before and after: they keep their order,   *)
(* and one that joins comes last.                                           *)
LEMMA Positions ==
  ASSUME BInv, SealStep
  PROVE  \E k \in {0, 1} : \A i \in 1 .. Len(writer') :
           \/ i + k \in 1 .. Len(writer) /\ writer'[i] = writer[i + k]
           \/ i = Len(writer') /\ writer'[i] \in Entering
<1> DEFINE Right(k) == \A i \in 1 .. Len(writer') : \/ i + k \in 1 .. Len(writer) /\ writer'[i] = writer[i + k]
                                                    \/ i = Len(writer') /\ writer'[i] \in Entering
<1>1. writer \in Seq(WriterSteps) /\ Len(writer) \in Nat
  BY LenProperties DEF BInv, QueueOK
<1>2. CASE UNCHANGED writer
  <2>1. Right(0)
    BY <1>1, <1>2
  <2> QED BY <2>1
<1>3. writer # <<>> => /\ Tail(writer) \in Seq(WriterSteps) /\ Len(Tail(writer)) = Len(writer) - 1 /\ Len(writer) > 0
                       /\ \A i \in 1 .. Len(writer) - 1 : Tail(writer)[i] = writer[i + 1]
  BY <1>1, HeadTailProperties, EmptySeq
<1>4. CASE writer # <<>> /\ writer' = Tail(writer)
  <2>1. Right(1)
    BY <1>1, <1>3, <1>4
  <2> QED BY <2>1
<1>5. ASSUME NEW s \in WriterSteps, Enters(s), writer' = Append(writer, s) PROVE Right(0)
  <2>1. /\ Len(writer') = Len(writer) + 1 /\ writer'[Len(writer) + 1] = s
        /\ \A i \in 1 .. Len(writer) : writer'[i] = writer[i]
    BY <1>1, <1>5, AppendProperties
  <2> QED BY <1>1, <1>5, <2>1 DEF Entering
<1>6. ASSUME NEW s \in WriterSteps, Enters(s), writer # <<>>, writer' = Append(Tail(writer), s) PROVE Right(1)
  <2> DEFINE w == Tail(writer)
  <2>1. w \in Seq(WriterSteps) /\ Len(w) = Len(writer) - 1 /\ Len(writer) > 0
        /\ \A i \in 1 .. Len(writer) - 1 : w[i] = writer[i + 1]
    BY <1>3, <1>6
  <2> HIDE DEF w
  <2>2. /\ Len(writer') = Len(w) + 1 /\ writer'[Len(w) + 1] = s
        /\ \A i \in 1 .. Len(w) : writer'[i] = w[i]
    BY <1>6, <2>1, AppendProperties DEF w
  <2> QED BY <1>1, <1>6, <2>1, <2>2 DEF Entering
<1> HIDE DEF Right
<1>7. Right(0) \/ Right(1)
  BY <1>2, <1>4, <1>5, <1>6 DEF SealStep, Chains, Right
<1> QED
  BY <1>7 DEF Right

LEMMA Enqueued ==
  ASSUME BInv, SealStep
  PROVE  \A s \in Steps(writer') : s \in Steps(writer) \/ (s \in Entering /\ writer'[Len(writer')] = s)
<1>1. PICK k \in {0, 1} : \A i \in 1 .. Len(writer') :
           \/ i + k \in 1 .. Len(writer) /\ writer'[i] = writer[i + k]
           \/ i = Len(writer') /\ writer'[i] \in Entering
  BY Positions
<1> QED
  BY <1>1 DEF Steps

(* A step that is carried out was the first of all. *)
LEMMA TakenFirst ==
  ASSUME BInv, NEW s, Taken(s)
  PROVE  /\ Len(writer) \in Nat /\ 1 \in 1 .. Len(writer) /\ writer[1] = s /\ s \in Steps(writer) /\ s \in WriterSteps
         /\ \A t \in Steps(writer') : \E j \in 2 .. Len(writer) : writer[j] = t
<1>1. writer \in Seq(WriterSteps) /\ Len(writer) \in Nat /\ Len(writer) > 0
  BY LenProperties, EmptySeq DEF BInv, QueueOK, Taken
<1>2. /\ Len(Tail(writer)) = Len(writer) - 1 /\ Head(writer) = writer[1]
      /\ \A i \in 1 .. Len(writer) - 1 : Tail(writer)[i] = writer[i + 1]
  BY <1>1, HeadTailProperties DEF Taken
<1>3. 1 \in 1 .. Len(writer) /\ writer[1] = s
  BY <1>1, <1>2 DEF Taken, First
<1>4. ASSUME NEW t \in Steps(writer') PROVE \E j \in 2 .. Len(writer) : writer[j] = t
  <2>1. PICK i \in 1 .. Len(writer) - 1 : writer[i + 1] = t
    BY <1>1, <1>2 DEF Taken, Steps
  <2>2. i + 1 \in 2 .. Len(writer)
    BY <1>1
  <2> QED BY <2>1, <2>2
<1> QED
  BY <1>1, <1>3, <1>4, ElementOfSeq DEF Steps

LEMMA NextChain ==
  ASSUME BInv, BInv', SInv, SealStep
  PROVE  ChainOK'
<1> USE Basics
<1>0. ChainOK /\ RecsOK
  BY DEF SInv
<1>1. \A s \in Steps(writer) : Timely(s) /\ s \in WriterSteps
  BY ElementOfSeq DEF BInv, QueueOK, Steps
<1>2. ASSUME NEW s \in Steps(writer'), s.kind \in DrainSteps PROVE started' /\ Halted(s)'
  <2>1. CASE Enters(s)
    BY <1>2, <2>1 DEF Enters, SealStep
  <2>2. CASE s \in Steps(writer)
    <3> DEFINE e == s.who
               d == ItsDrain(s.kind)
    <3>1. started /\ e \in Used /\ entry[e].at[d] = AtStep(s.kind) /\ s = Step(s.kind, e)
      BY <1>0, <1>1, <1>2, <2>2 DEF ChainOK, Halted, WriterSteps, Step
    <3>2. d \in Drains /\ (s.kind \notin Drains => d = "unload")
      BY DEF ItsDrain, Drains
    <3> HIDE DEF d, e
    <3>3. Advances(e, d) /\ e \in Used' /\ started'
      BY <3>1, <3>2 DEF SealStep, Steady
    <3>4. ~Taken(s)
      <4> SUFFICES ASSUME Taken(s) PROVE FALSE
        OBVIOUS
      <4>1. 1 \in 1 .. Len(writer) /\ writer[1] = s /\ \E j \in 2 .. Len(writer) : writer[j] = s
        BY TakenFirst
      <4> QED BY <1>0, <1>2, <4>1, TakenFirst DEF ChainOK
    <3>5. entry'[e].at[d] = AtStep(s.kind)
      <4>1. CASE s.kind \in Drains
        BY <3>1, <3>3, <3>4, <4>1 DEF Advances, AtStep, Sealing, d, ItsDrain
      <4>2. CASE s.kind = "idle"
        BY <3>1, <3>3, <3>4, <4>2 DEF Advances, AtStep, Sealing, Drains
      <4>3. CASE s.kind = "unseal"
        BY <3>1, <3>3, <3>4, <4>3 DEF Advances, AtStep, Sealing, Drains
      <4> QED BY <1>2, <4>1, <4>2, <4>3 DEF DrainSteps
    <3> QED BY <3>3, <3>5 DEF Halted, e, d
  <2> QED BY <2>1, <2>2, Enqueued DEF Entering
<1>5. ASSUME NEW i \in 1 .. Len(writer'), NEW j \in 1 .. Len(writer'), writer'[i] = writer'[j], writer'[i].kind \in DrainSteps
      PROVE  i = j
  <2>1. PICK k \in {0, 1} : \A l \in 1 .. Len(writer') :
           \/ l + k \in 1 .. Len(writer) /\ writer'[l] = writer[l + k]
           \/ l = Len(writer') /\ writer'[l] \in Entering
    BY Positions
  <2>2. ASSUME NEW l \in 1 .. Len(writer), NEW s \in Entering, writer[l] = s, s.kind \in DrainSteps PROVE FALSE
    BY <1>0, <2>2 DEF ChainOK, Entering, Enters, Steps
  <2>3. CASE i + k \in 1 .. Len(writer) /\ writer'[i] = writer[i + k] /\ j + k \in 1 .. Len(writer) /\ writer'[j] = writer[j + k]
    <3>1. i + k = j + k
      BY <1>0, <1>5, <2>3 DEF ChainOK
    <3> QED BY <3>1
  <2> QED BY <1>5, <2>1, <2>2, <2>3
<1> QED
  BY <1>2, <1>5, Zenon DEF ChainOK

(* With nothing due, no drain of a reservation that has left is still on its *)
(* way to the writer chain: its setup and its operations are over.          *)
LEMMA GoneDrains ==
  ASSUME BInv, GoneOK, RecsOK, Accepting, NothingDue, NEW f \in Used, Gone(f), ~Overtaken(f), NEW d \in Drains
  PROVE  entry[f].at[d] \notin {"setup", "ops"}
<1>1. /\ Prepared(entry[f]) /\ RecOK(entry[f]) /\ ~IsDue(entry[f], f)
      /\ entry[f].setup = "settling" => entry[f].settle = "over"
  BY DEF GoneOK, BInv, ReadyOK, RecsOK, NothingDue
<1>2. CASE entry[f].drain = "no"
  BY <1>1, <1>2 DEF RecOK, Early
<1>3. CASE entry[f].outcome = "none"
  <2>1. PICK c \in Drains : entry[f].at[c] = "over"
    BY <1>3 DEF GoneOK
  <2>2. ASSUME entry[f].at[d] = "setup" PROVE FALSE
    BY <1>1, <2>2 DEF IsDue, Prepared
  <2>3. ASSUME entry[f].at[d] = "ops" PROVE FALSE
    <3>1. OpsOf(f) = {}
      BY <2>1, <2>3 DEF GoneOK, Sealing, Waiting
    <3>2. entry[f].at["stop"] = "ops" \/ entry[f].at["unload"] = "ops"
      BY <2>3 DEF Drains
    <3> QED BY <1>1, <3>1, <3>2 DEF IsDue
  <2> QED BY <2>2, <2>3
<1> QED
  BY <1>2, <1>3 DEF Overtaken

LEMMA NextHeirs ==
  ASSUME BInv, BInv', SInv, SealStep
  PROVE  HeirsOK'
<1> USE Basics
<1>0. HeirsOK /\ RecsOK /\ GoneOK /\ ChainOK /\ SealsOK
  BY DEF SInv
<1> SUFFICES ASSUME NEW e \in LiveEntries', NEW f \in Used', Kindred(e, f)'
             PROVE  entry'[e].mode = "readmit" /\ (Accepting' /\ ~Overtaken(f)' => Awaited(e, f)')
  BY Zenon DEF HeirsOK
<1>1. /\ f \in Used /\ Steady(f) /\ Gone(f)' /\ e \in Used' /\ e \in Entry /\ f \in Entry
      /\ e \in Used => e \in LiveEntries /\ Kindred(e, f) /\ Steady(e) /\ Gone(f)
  <2>1. e \in Used' /\ e \in Entry /\ f \in Used /\ f \in Entry
    BY Before DEF LiveEntries, Used
  <2>2. e \in Used => e \in LiveEntries /\ Kindred(e, f) /\ Steady(e) /\ Gone(f)
    BY <2>1, Before DEF LiveEntries, Kindred, Gone
  <2> QED BY <2>1, <2>2, Before
<1>2. CASE e \notin Used
  <2>1. Newly(e)
    BY <1>1, <1>2, Before
  <2>2. entry'[e].branch = entry[f].branch
    BY <1>1 DEF Kindred, Steady
  <2>3. entry'[e].mode = "readmit"
    <3>1. ~Fresh(entry'[e].branch)
      BY <1>1, <2>2 DEF Fresh
    <3> QED BY <1>0, <1>1, <2>1, <3>1, NewlyFields DEF SealsOK
  <2>4. entry'[e].view = "none" /\ entry'[e].runtime = "none" /\ entry'[e].setup = "barrier"
    BY <1>1, <2>1, NewlyFields
  <2>5. Step("activate", e) \notin Steps(writer')
    BY <2>4 DEF BInv, QueueOK, Timely, Step, SetupKind
  <2> QED BY <2>3, <2>4, <2>5 DEF Awaited, Steps
<1>3. CASE e \in Used
  <2>1. entry[e].mode = "readmit" /\ entry'[e].mode = "readmit" /\ (Accepting /\ ~Overtaken(f) => Awaited(e, f))
    BY <1>0, <1>1, <1>3 DEF HeirsOK, Steady
  <2> SUFFICES ASSUME Accepting', ~Overtaken(f)' PROVE Awaited(e, f)'
    BY <2>1
  <2>2. Accepting /\ ~Overtaken(f) /\ Awaited(e, f) /\ e \in LiveEntries /\ Steady(e)
    BY <1>1, <1>3, <2>1 DEF SealStep, Steady, Overtaken
  <2>3. RecOK(entry[e]) /\ RecOK(entry'[e]) /\ RecOK(entry[f])
    BY <1>0, <1>1, <1>3, <2>2 DEF RecsOK, Steady
  <2>a. live[entry[f].branch] # f
    BY <1>1, <1>3 DEF Gone
  <2> SUFFICES ASSUME NEW d \in Drains
      PROVE  /\ entry'[e].view # "none" => entry'[f].at[d] \notin {"setup", "ops"}
             /\ entry'[e].runtime # "none" => Step(d, f) \notin Steps(writer')
             /\ \A i, j \in 1 .. Len(writer') : writer'[i] = Step("activate", e) /\ writer'[j] = Step(d, f) => j < i
    BY Zenon DEF Awaited
  <2>4. Advances(f, d)
    BY <1>1 DEF Steady
  <2>5. ASSUME entry'[e].view # "none" PROVE entry'[f].at[d] \notin {"setup", "ops"}
    <3>1. entry[f].at[d] \notin {"setup", "ops"}
      <4>1. CASE entry[e].view # "none"
        BY <2>2, <4>1 DEF Awaited
      <4>2. CASE NothingDue
        BY <1>0, <1>1, <1>3, <2>2, <4>2, GoneDrains
      <4> QED BY <2>2, <2>5, <4>1, <4>2 DEF Steady
    <3> QED BY <2>4, <2>a, <3>1 DEF Advances, Sealing
  <2>6. ASSUME NEW s \in Steps(writer'), s = Step(d, f), s \notin Steps(writer)
        PROVE  entry[e].view = "none"
    <3>1. Enters(s) /\ s.kind = d /\ s.who = f
      BY <2>6, Enqueued DEF Step, Entering
    <3>2. entry[f].at[d] = "ops"
      BY <3>1 DEF Enters
    <3> QED BY <2>2, <3>2 DEF Awaited
  <2>7. ASSUME entry'[e].runtime # "none", Step(d, f) \in Steps(writer') PROVE FALSE
    <3>1. CASE entry[e].runtime # "none"
      <4>1. Step(d, f) \notin Steps(writer)
        BY <2>2, <3>1 DEF Awaited
      <4> QED BY <2>3, <2>6, <2>7, <3>1, <4>1 DEF RecOK
    <3>2. CASE entry[e].runtime = "none"
      <4>1. Taken(Step("activate", e))
        BY <2>1, <2>2, <2>7, <3>2 DEF Steady, Starts
      <4>2. PICK j \in 2 .. Len(writer) : writer[j] = Step(d, f)
        BY <2>7, <4>1, TakenFirst
      <4>3. 1 \in 1 .. Len(writer) /\ writer[1] = Step("activate", e) /\ Len(writer) \in Nat
        BY <4>1, TakenFirst
      <4> QED BY <2>2, <4>2, <4>3 DEF Awaited
    <3> QED BY <3>1, <3>2
  <2>8. ASSUME NEW i \in 1 .. Len(writer'), NEW j \in 1 .. Len(writer'),
               writer'[i] = Step("activate", e), writer'[j] = Step(d, f)
        PROVE  j < i
    <3>1. PICK k \in {0, 1} : \A l \in 1 .. Len(writer') :
             \/ l + k \in 1 .. Len(writer) /\ writer'[l] = writer[l + k]
             \/ l = Len(writer') /\ writer'[l] \in Entering
      BY Positions
    <3>2. i # j
      BY <2>8 DEF Step, Drains
    <3>3. Len(writer') \in Nat
      BY LenProperties DEF BInv, QueueOK
    <3>4. CASE i + k \in 1 .. Len(writer) /\ writer'[i] = writer[i + k]
      <4>1. entry[e].view # "none"
        <5>1. Step("activate", e) \in Steps(writer)
          BY <2>8, <3>4 DEF Steps
        <5> QED BY <2>3, <5>1 DEF BInv, QueueOK, Timely, Step, SetupKind, RecOK
      <4>2. j + k \in 1 .. Len(writer) /\ writer'[j] = writer[j + k]
        <5>1. ~Enters(Step(d, f))
          <6>1. entry[f].at[d] # "ops"
            BY <2>2, <4>1 DEF Awaited
          <6> QED BY <6>1 DEF Enters, Step
        <5> QED BY <2>8, <3>1, <5>1 DEF Entering
      <4>3. j + k < i + k
        BY <2>2, <2>8, <3>4, <4>2 DEF Awaited
      <4> QED BY <4>3
    <3>5. CASE i = Len(writer')
      BY <3>2, <3>3, <3>5
    <3> QED BY <3>1, <3>4, <3>5
  <2> QED BY <2>5, <2>7, <2>8
<1> QED
  BY <1>2, <1>3

LEMMA NextSeals ==
  ASSUME BInv, BInv', SInv, SealStep
  PROVE  SealsOK'
<1> USE Basics
<1>0. HeirsOK /\ RecsOK /\ GoneOK /\ ChainOK /\ SealsOK
  BY DEF SInv
<1>1. \A b \in Branch : Marks(b)
  BY DEF SealStep
<1>2. ASSUME NEW b \in Branch, admitted'[b] = "absent" PROVE b \in readmit' \/ Fresh(b)'
  <2> SUFFICES ASSUME b \notin readmit' PROVE Fresh(b)'
    OBVIOUS
  <2>1. Fresh(b)
    BY <1>0, <1>1, <1>2 DEF Marks, SealsOK
  <2>2. live'[b] = 0
    BY <1>2 DEF BInv, LiveOK
  <2>3. ASSUME NEW e \in Used' PROVE entry'[e].branch # b
    <3>1. CASE e \in Used
      BY <2>1, <3>1, Before DEF Fresh
    <3>2. CASE e \notin Used
      BY <2>2, <3>2, Before, NewlyFields
    <3> QED BY <3>1, <3>2
  <2> QED BY <2>3 DEF Fresh
<1>3. ASSUME NEW b \in Branch, Fresh(b)' PROVE (b \in sealed' => b \in moving') /\ b \notin move'.kept
  <2>1. Fresh(b) /\ (b \in sealed => b \in moving) /\ b \notin move.kept
    BY <1>0, <1>3, Before DEF SealsOK
  <2> QED BY <1>1, <2>1 DEF Marks
<1>4. ASSUME Accepting', started', NEW e \in LiveEntries', entry'[e].mode # "readmit", entry'[e].drain = "no",
             entry'[e].branch \in sealed'
      PROVE  FALSE
  <2>1. CASE e \in Used' \ Used
    BY <1>4, <2>1, Before, NewlyFields
  <2>2. CASE e \in LiveEntries
    <3> DEFINE b == entry[e].branch
    <3>1. /\ e \in Used /\ b \in Branch /\ entry'[e].branch = b /\ entry[e].mode # "readmit" /\ entry[e].drain = "no"
          /\ live[b] = e /\ e # 0
      BY <1>4, <2>2, Before DEF LiveEntries, Steady
    <3> HIDE DEF b
    <3>2. CASE ~started
      <4>1. sealed \subseteq moving /\ moving = {} /\ sealed' = sealed
        BY <1>0, <1>4, <3>2 DEF RecsOK, SealStep
      <4> QED BY <1>4, <3>1, <4>1
    <3>3. CASE started
      <4>1. b \notin sealed
        BY <1>0, <1>4, <2>2, <3>1, <3>3 DEF SealsOK, SealStep, b
      <4>2. Seals(b)
        BY <1>1, <1>4, <3>1, <4>1 DEF Marks
      <4>3. ASSUME writer # <<>>, First.kind \in Drains \cup {"reseal"}, entry[First.who].branch = b PROVE FALSE
        <5>1. First \in Steps(writer) /\ Timely(First)
          BY <4>3, TailSteps DEF BInv, QueueOK, First
        <5>2. First.who \in Used
          BY <4>3, <5>1 DEF Timely, SetupKind
        <5>3. First.who # e
          <6>1. CASE First.kind \in Drains
            <7>1. entry[First.who].at[First.kind] = "seal"
              BY <1>0, <5>1, <6>1 DEF ChainOK, DrainSteps, Halted, ItsDrain, AtStep
            <7> QED BY <1>0, <3>1, <5>2, <6>1, <7>1 DEF RecsOK, RecOK, Early
          <6>2. CASE First.kind = "reseal"
            BY <1>0, <3>1, <5>1, <5>2, <6>2 DEF Timely, SetupKind, RecsOK, RecOK
          <6> QED BY <4>3, <6>1, <6>2
        <5>4. Kindred(e, First.who)
          BY <3>1, <4>3, <5>3 DEF Kindred, b
        <5> QED BY <1>0, <2>2, <3>1, <5>2, <5>4 DEF HeirsOK
      <4> QED BY <1>4, <3>1, <3>3, <4>2, <4>3 DEF Seals
    <3> QED BY <3>2, <3>3
  <2> QED BY <2>1, <2>2, Before
<1> QED
  BY <1>2, <1>3, <1>4, Zenon DEF SealsOK

LEMMA NextSealed ==
  ASSUME BInv, BInv', SInv, SealStep
  PROVE  SealedOnlyByOvertaken'
<1> USE Basics
<1>0. HeirsOK /\ RecsOK /\ GoneOK /\ ChainOK /\ SealsOK /\ SealedOnlyByOvertaken
  BY DEF SInv
<1> SUFFICES ASSUME NEW e \in LiveEntries', Sealed(e)'
             PROVE  \E f \in Used' : Kindred(e, f)' /\ Overtaken(f)'
  BY Zenon DEF SealedOnlyByOvertaken
<1>1. /\ Accepting /\ e \in LiveEntries /\ e \in Used /\ Steady(e) /\ RecOK(entry[e]) /\ entry[e].drain = "no" /\ started
      /\ entry'[e].branch = entry[e].branch /\ entry'[e].runtime = "up"
  <2>1. Accepting /\ e \in Used
    <3>1. e \in Used'
      BY DEF LiveEntries
    <3> QED BY <3>1, Before, NewlyFields DEF Sealed, SealStep
  <2>2. e \in LiveEntries /\ Steady(e) /\ RecOK(entry[e]) /\ entry'[e].branch = entry[e].branch
    BY <1>0, <2>1, Before DEF RecsOK
  <2>3. entry[e].drain = "no" /\ entry'[e].runtime = "up"
    BY <2>2 DEF Sealed, Steady
  <2>4. started
    BY <2>1, <2>2, <2>3 DEF BInv, ReadyOK, Steady, Starts
  <2> QED BY <2>1, <2>2, <2>3, <2>4
<1> DEFINE b == entry[e].branch
<1>2. ASSUME NEW f \in Used, Kindred(e, f), Overtaken(f) PROVE f \in Used' /\ Kindred(e, f)' /\ Overtaken(f)'
  BY <1>1, <1>2, Before DEF Kindred, Overtaken, Steady
<1>3. b \in Branch /\ b \in sealed' /\ Marks(b) /\ live[b] = e /\ e # 0
  BY <1>1 DEF SealStep, Sealed, LiveEntries
<1>4. CASE Sealed(e)
  BY <1>0, <1>1, <1>2, <1>4 DEF SealedOnlyByOvertaken
<1>5. CASE entry[e].runtime # "up"
  <2>1. Starts(e)
    BY <1>1, <1>5 DEF Steady
  <2>2. entry[e].mode # "readmit" /\ b \in sealed
    BY <1>3, <2>1 DEF Starts
  <2> QED BY <1>0, <1>1, <2>2 DEF SealsOK
<1>6. CASE entry[e].runtime = "up" /\ b \notin sealed
  <2>1. Seals(b)
    BY <1>3, <1>6 DEF Marks
  <2>2. entry'[e].drain = "no" /\ Accepting'
    BY DEF Sealed
  <2>3. writer # <<>> /\ First.kind \in Drains \cup {"reseal"} /\ entry[First.who].branch = b
    BY <1>1, <1>3, <2>1, <2>2 DEF Seals
  <2> DEFINE w == First.who
  <2>4. First \in Steps(writer) /\ First \in WriterSteps /\ Timely(First)
    BY <2>3, TailSteps DEF BInv, QueueOK, First
  <2>5. First.kind = "reseal" => w \in Used /\ entry[w].setup = "reseal"
    BY <2>4 DEF Timely, SetupKind
  <2>6. First.kind \in Drains => w \in Used /\ entry[w].drain # "no"
    <3> SUFFICES ASSUME First.kind \in Drains PROVE w \in Used /\ entry[w].drain # "no"
      OBVIOUS
    <3>1. w \in Used /\ entry[w].at[First.kind] = "seal"
      BY <1>0, <2>4 DEF ChainOK, DrainSteps, Halted, ItsDrain, AtStep
    <3> QED BY <1>0, <3>1 DEF RecsOK, RecOK, Early
  <2>7. w # e
    BY <1>1, <1>6, <2>3, <2>5, <2>6 DEF RecOK
  <2>8. w \in Used /\ Kindred(e, w) /\ Gone(w)
    BY <1>1, <1>3, <2>3, <2>5, <2>6, <2>7 DEF Kindred, Gone
  <2>9. First.kind \in Drains
    <3>1. Prepared(entry[w])
      BY <1>0, <1>1, <2>8 DEF GoneOK, BInv, ReadyOK
    <3> QED BY <2>3, <2>5, <3>1 DEF Prepared
  <2>10. First = Step(First.kind, w)
    BY <2>4 DEF WriterSteps, Step
  <2>11. Overtaken(w)
    <3> SUFFICES ASSUME ~Overtaken(w) PROVE FALSE
      OBVIOUS
    <3>1. Awaited(e, w)
      BY <1>0, <1>1, <2>8 DEF HeirsOK
    <3> QED BY <1>6, <2>4, <2>9, <2>10, <3>1 DEF Awaited
  <2> QED BY <1>2, <2>8, <2>11
<1> QED
  BY <1>1, <1>4, <1>5, <1>6 DEF Sealed

LEMMA NextSInv ==
  ASSUME BInv, BInv', SInv, SealStep
  PROVE  SInv'
BY NextRecs, NextGone, NextChain, NextHeirs, NextSeals, NextSealed DEF SInv

-----------------------------------------------------------------------------
(* What the operators on reservations change, and what they keep. *)

SameWho(r, s) == s.branch = r.branch /\ s.mode = r.mode /\ s.disposal = r.disposal
SameSetup(r, s) == s.setup = r.setup /\ s.view = r.view
SameWork(r, s) == s.runtime = r.runtime /\ s.run = r.run
SameEnd(r, s) == s.settle = r.settle /\ s.outcome = r.outcome
SameDrain(r, s) == s.shut = r.shut /\ s.drain = r.drain /\ s.at = r.at

LEMMA LeavesFields ==
  ASSUME NEW r \in Reserved
  PROVE  LET s == Leaves(r) IN
         /\ SameWho(r, s) /\ SameWork(r, s) /\ SameEnd(r, s) /\ SameDrain(r, s)
         /\ s.setup = "over" /\ s.view = r.view
BY DEF Leaves, Reserved, SameWho, SameWork, SameEnd, SameDrain

LEMMA RunsFields ==
  ASSUME NEW r \in Reserved
  PROVE  LET s == Runs(r) IN
         /\ SameWho(r, s) /\ SameEnd(r, s) /\ SameDrain(r, s)
         /\ s.setup = "over" /\ s.view = r.view /\ s.runtime = "up"
BY DEF Runs, Reserved, SameWho, SameEnd, SameDrain

LEMMA AskedFields ==
  ASSUME NEW r \in Reserved
  PROVE  LET s == Asked(r) IN
         /\ s.branch = r.branch /\ s.mode = r.mode /\ (Done(r) => Done(s))
         /\ SameSetup(r, s) /\ SameWork(r, s) /\ SameEnd(r, s) /\ SameDrain(r, s)
BY DEF Asked, Reserved, Done, SameSetup, SameWork, SameEnd, SameDrain

LEMMA MissedFields ==
  ASSUME NEW r \in Reserved
  PROVE  LET s == Missed(r) IN
         /\ SameWho(r, s) /\ SameWork(r, s) /\ SameEnd(r, s) /\ SameDrain(r, s)
         /\ s.setup = r.setup /\ (s.view = "none" <=> r.view = "none")
BY DEF Missed, Reserved, SameWho, SameWork, SameEnd, SameDrain

LEMMA RejectedFields ==
  ASSUME NEW r \in Reserved
  PROVE  LET s == Rejected(r) IN
         /\ SameWho(r, s) /\ SameSetup(r, s) /\ SameWork(r, s) /\ SameDrain(r, s)
         /\ s.settle = r.settle /\ s.outcome = IF r.settle = "ops" THEN "failed" ELSE r.outcome
BY DEF Rejected, Reserved, SameWho, SameSetup, SameWork, SameDrain

LEMMA SettlingFields ==
  ASSUME NEW r \in Reserved, NEW on, NEW result
  PROVE  LET s == Settling(r, on, result) IN
         /\ SameWho(r, s) /\ SameSetup(r, s) /\ SameWork(r, s)
         /\ s.drain = r.drain /\ s.at = r.at
         /\ \/ s.settle = "ops" /\ s.outcome = result /\ s.shut /\ on /\ r.drain = "no"
            \/ s.settle = (IF r.settle = "no" THEN "over" ELSE r.settle) /\ s.outcome = r.outcome /\ s.shut = r.shut
<1>1. CASE on /\ r.drain = "no"
  BY <1>1 DEF Settling, Reserved, SameWho, SameSetup, SameWork
<1>2. CASE ~(on /\ r.drain = "no")
  BY <1>2 DEF Settling, Reserved, SameWho, SameSetup, SameWork
<1> QED
  BY <1>1, <1>2

LEMMA GivesUpFields ==
  ASSUME NEW r \in Reserved, NEW on
  PROVE  LET s == GivesUp(r, on) IN
         /\ SameWho(r, s) /\ SameWork(r, s)
         /\ s.drain = r.drain /\ s.at = r.at /\ s.setup = "settling" /\ s.view = r.view
         /\ \/ s.settle = "ops" /\ s.outcome = "failed" /\ s.shut /\ on /\ r.drain = "no"
            \/ s.settle = (IF r.settle = "no" THEN "over" ELSE r.settle) /\ s.outcome = r.outcome /\ s.shut = r.shut
<1> DEFINE t == [r EXCEPT !.ready = TRUE]
           u == Settling(t, on, "failed")
<1>1. t \in Reserved /\ SameWho(r, t) /\ SameSetup(r, t) /\ SameWork(r, t) /\ SameEnd(r, t) /\ SameDrain(r, t)
  BY DEF Reserved, SameWho, SameSetup, SameWork, SameEnd, SameDrain
<1> HIDE DEF t
<1>2. /\ u \in Reserved /\ SameWho(t, u) /\ SameSetup(t, u) /\ SameWork(t, u)
      /\ u.drain = t.drain /\ u.at = t.at
      /\ \/ u.settle = "ops" /\ u.outcome = "failed" /\ u.shut /\ on /\ t.drain = "no"
         \/ u.settle = (IF t.settle = "no" THEN "over" ELSE t.settle) /\ u.outcome = t.outcome /\ u.shut = t.shut
  BY <1>1, SettlingFields, SettlingTwin DEF Twin, Kin
<1>3. GivesUp(r, on) = [u EXCEPT !.setup = "settling"]
  BY DEF GivesUp, t
<1> HIDE DEF u
<1>4. LET s == [u EXCEPT !.setup = "settling"] IN
      /\ SameWho(u, s) /\ SameWork(u, s) /\ SameEnd(u, s) /\ SameDrain(u, s) /\ s.setup = "settling" /\ s.view = u.view
  BY <1>2 DEF Reserved, SameWho, SameWork, SameEnd, SameDrain
<1> QED
  BY <1>1, <1>2, <1>3, <1>4 DEF SameWho, SameSetup, SameWork, SameEnd, SameDrain

LEMMA DrainingFields ==
  ASSUME NEW r \in Reserved, NEW d \in Drains
  PROVE  LET s == Draining(r, d) IN
         /\ SameWho(r, s) /\ SameSetup(r, s) /\ SameWork(r, s) /\ SameEnd(r, s)
         /\ s.shut /\ s.drain = d
         /\ \A c \in Drains : s.at[c] = IF c = d THEN "setup" ELSE r.at[c]
BY DEF Draining, Reserved, SameWho, SameSetup, SameWork, SameEnd

-----------------------------------------------------------------------------
(* Steps that change one reservation, or none. *)

LEMMA SteadyStill ==
  ASSUME BInv, SInv, NEW e \in Used, entry'[e] = entry[e], started' = started,
         entry[e].shut => OpsOf(e)' \subseteq OpsOf(e)
  PROVE  e \in Used' /\ Steady(e)
<1>1. e \in Used' /\ RecOK(entry[e])
  BY DEF SInv, RecsOK, Used
<1>2. \A d \in Drains : Advances(e, d)
  BY DEF Advances
<1> QED
  BY <1>1, <1>2 DEF Steady

LEMMA SameOps ==
  ASSUME UNCHANGED op
  PROVE  \A e : OpsOf(e)' = OpsOf(e)
BY DEF OpsOf, Pending

(* The part of a step that concerns who is live, moves, seals and marks. *)
Apart == UNCHANGED <<phase, started, live, admitted, readmit, sealed, moving, move>>

LEMMA ApartMarks ==
  ASSUME Apart
  PROVE  /\ \A b \in Branch : Lives(b) /\ Marks(b)
         /\ (Accepting' <=> Accepting) /\ started' = started
BY DEF Apart, Lives, Marks, Accepting

LEMMA OneStep ==
  ASSUME BInv, BInv', SInv, NEW e \in Used, NEW s, entry' = [entry EXCEPT ![e] = s],
         Apart, UNCHANGED op, Chains, Steady(e)
  PROVE  SealStep
<1>1. entry \in [Entry -> Reserved] /\ e \in Entry
  BY DEF BInv, CoreOK, Used
<1>2. \A f \in Entry : f # e => entry'[f] = entry[f]
  BY <1>1
<1>3. \A f \in Entry : entry'[f].mode = entry[f].mode
  BY <1>2 DEF Steady
<1>4. \A f \in Used : f \in Used' /\ Steady(f)
  BY <1>2, <1>3, SameOps, SteadyStill DEF Apart, Used
<1>5. Used' \ Used = {}
  BY <1>3 DEF Used
<1> QED
  BY <1>4, <1>5, ApartMarks DEF SealStep

(* What is known of the reservation such a step works on. *)
LEMMA OneKnown ==
  ASSUME BInv, SInv, NEW e \in Used
  PROVE  /\ entry[e] \in Reserved /\ e \in Entry /\ RecOK(entry[e])
         /\ \A s : entry' = [entry EXCEPT ![e] = s] => entry'[e] = s
BY DEF BInv, CoreOK, Used, SInv, RecsOK

LEMMA SealSnapshot == ASSUME BInv, BInv', SInv, NEW e \in Used, Snapshot(e) PROVE SealStep
<1> DEFINE s == [entry[e] EXCEPT !.view = "current"]
<1>1. entry' = [entry EXCEPT ![e] = s] /\ Apart /\ UNCHANGED op /\ Chains
  BY DEF Snapshot, Apart, Chains, host, gates
<1>2. /\ SameWho(entry[e], s) /\ SameWork(entry[e], s) /\ SameEnd(entry[e], s) /\ SameDrain(entry[e], s)
      /\ s.setup = entry[e].setup /\ s.view = "current"
  BY OneKnown DEF Reserved, SameWho, SameWork, SameEnd, SameDrain
<1> HIDE DEF s
<1>3. Steady(e)
  <2>1. entry'[e] = s /\ RecOK(entry[e])
    BY <1>1, OneKnown
  <2> QED
    BY <1>1, <1>2, <2>1, SameOps DEF Steady, RecOK, Advances, SameWho, SameWork, SameEnd, SameDrain, Snapshot, Done,
       Apart, Prepared
<1> QED
  BY <1>1, <1>3, OneStep

Alike(r, s) == SameWho(r, s) /\ SameSetup(r, s) /\ SameWork(r, s) /\ SameEnd(r, s) /\ SameDrain(r, s)
(* A setup that is not over yet goes on, leaves or gives up. *)
GoesOn(r, s) ==
  /\ SameWho(r, s) /\ SameWork(r, s) /\ s.drain = r.drain /\ s.at = r.at /\ s.view = r.view
  /\ s.setup # "none"
  /\ s.setup \in SetupKind => r.mode = "readmit"
  /\ s.setup \in {"turn", "building", "activate"} => r.view # "none"
  /\ \/ SameEnd(r, s) /\ s.shut = r.shut
     \/ s.setup = "settling" /\ s.settle = "ops" /\ s.outcome = "failed" /\ s.shut
     \/ /\ s.setup = "settling" /\ s.outcome = r.outcome /\ s.shut = r.shut
        /\ s.settle = IF r.settle = "no" THEN "over" ELSE r.settle

LEMMA SteadySetup ==
  ASSUME BInv, SInv, NEW e \in Used, NEW s, entry' = [entry EXCEPT ![e] = s], started' = started, UNCHANGED op,
         ~Prepared(entry[e]), GoesOn(entry[e], s)
  PROVE  Steady(e)
<1>1. entry'[e] = s /\ RecOK(entry[e])
  BY OneKnown
<1>2. entry[e].settle = "no" /\ entry[e].runtime = "none" /\ entry[e].run = "none"
  BY <1>1 DEF RecOK, Prepared
<1>3. RecOK(s)
  BY <1>1, <1>2 DEF RecOK, GoesOn, SameWho, SameWork, SameEnd, Prepared
<1>4. \A d \in Drains : Advances(e, d)
  BY <1>1 DEF Advances, GoesOn
<1> QED
  BY <1>1, <1>2, <1>3, <1>4, SameOps DEF Steady, GoesOn, SameWho, SameWork, SameEnd, Prepared, Done

LEMMA GatedGoesOn ==
  ASSUME NEW r \in Reserved, NEW on, r.view # "none"
  PROVE  GoesOn(r, Gated(r, on))
<1>1. GoesOn(r, Leaves(r))
  BY LeavesFields DEF GoesOn, SameDrain, SetupKind
<1>2. GoesOn(r, GivesUp(r, on))
  BY GivesUpFields DEF GoesOn, SetupKind
<1>3. GoesOn(r, [r EXCEPT !.setup = "building"])
  BY DEF GoesOn, Reserved, SameWho, SameWork, SameEnd, SetupKind
<1> QED
  BY <1>1, <1>2, <1>3 DEF Gated

LEMMA SetupStep ==
  ASSUME BInv, BInv', SInv, NEW e \in Used, NEW s, entry' = [entry EXCEPT ![e] = s], GoesOn(entry[e], s),
         ~Prepared(entry[e]), Apart, UNCHANGED op, Chains
  PROVE  SealStep
BY OneStep, SteadySetup DEF Apart

LEMMA SealReplayed == ASSUME BInv, BInv', SInv, NEW e \in Used, Replayed(e) PROVE SealStep
<1>1. PICK g \in {"good", "bad"} : entry' = [entry EXCEPT ![e] =
            LET r == [entry[e] EXCEPT !.gate = g] IN
            IF r.mode = "initial" THEN [r EXCEPT !.setup = "turn"] ELSE Gated(r, Runnable(e))]
  BY DEF Replayed
<1> DEFINE r == [entry[e] EXCEPT !.gate = g]
           s == IF r.mode = "initial" THEN [r EXCEPT !.setup = "turn"] ELSE Gated(r, Runnable(e))
<1>2. r \in Reserved /\ Alike(entry[e], r) /\ r.view # "none" /\ ~Prepared(entry[e])
  BY OneKnown DEF Reserved, Alike, SameWho, SameSetup, SameWork, SameEnd, SameDrain, Replayed, Prepared
<1>3. entry' = [entry EXCEPT ![e] = s] /\ Apart /\ UNCHANGED op /\ Chains
  BY <1>1 DEF Replayed, Apart, Chains, host, gates
<1> HIDE DEF r
<1>4. GoesOn(r, s)
  <2>1. GoesOn(r, [r EXCEPT !.setup = "turn"])
    BY <1>2 DEF GoesOn, Reserved, SameWho, SameWork, SameEnd, SetupKind
  <2> QED BY <1>2, <2>1, GatedGoesOn
<1> HIDE DEF s
<1>5. GoesOn(entry[e], s)
  BY <1>2, <1>4 DEF GoesOn, Alike, SameWho, SameSetup, SameWork, SameEnd, SameDrain
<1> QED
  BY <1>2, <1>3, <1>5, SetupStep

LEMMA SealTakeTurn == ASSUME BInv, BInv', SInv, NEW e \in Used, TakeTurn(e) PROVE SealStep
<1> DEFINE s == Gated(entry[e], Runnable(e))
<1>1. entry' = [entry EXCEPT ![e] = s] /\ Apart /\ UNCHANGED op /\ Chains /\ ~Prepared(entry[e])
  BY DEF TakeTurn, Apart, Chains, host, gates, Prepared
<1>2. GoesOn(entry[e], s)
  BY OneKnown, GatedGoesOn DEF TakeTurn, RecOK
<1> HIDE DEF s
<1> QED
  BY <1>1, <1>2, SetupStep

LEMMA SealPassBarrier == ASSUME BInv, BInv', SInv, NEW e \in Used, PassBarrier(e) PROVE SealStep
<1>1. Apart /\ UNCHANGED op /\ ~Prepared(entry[e]) /\ entry[e] \in Reserved
  BY OneKnown DEF PassBarrier, Apart, host, gates, Prepared
<1>2. CASE entry[e].mode = "readmit"
  <2> DEFINE s == [entry[e] EXCEPT !.setup = "reseal"]
  <2>1. entry' = [entry EXCEPT ![e] = s] /\ writer' = Append(writer, Step("reseal", e))
    BY <1>2 DEF PassBarrier, Enqueue
  <2>2. GoesOn(entry[e], s)
    BY <1>1, <1>2 DEF GoesOn, Reserved, SameWho, SameWork, SameEnd, SetupKind
  <2>3. Step("reseal", e) \in WriterSteps /\ Enters(Step("reseal", e))
    BY OneKnown DEF WriterSteps, StepKind, SetupKind, Step, Enters, Drains, DrainSteps
  <2>4. Chains
    BY <2>1, <2>3 DEF Chains
  <2> HIDE DEF s
  <2> QED BY <1>1, <2>1, <2>2, <2>4, SetupStep
<1>3. CASE entry[e].mode # "readmit"
  <2> DEFINE s == IF Runnable(e) THEN [entry[e] EXCEPT !.setup = "replaying"] ELSE Leaves(entry[e])
  <2>1. entry' = [entry EXCEPT ![e] = s] /\ UNCHANGED writer
    BY <1>3 DEF PassBarrier
  <2>2. GoesOn(entry[e], s)
    <3>1. GoesOn(entry[e], [entry[e] EXCEPT !.setup = "replaying"])
      BY <1>1 DEF GoesOn, Reserved, SameWho, SameWork, SameEnd, SetupKind
    <3>2. GoesOn(entry[e], Leaves(entry[e]))
      BY <1>1, LeavesFields DEF GoesOn, SameDrain, SetupKind
    <3> QED BY <3>1, <3>2
  <2> HIDE DEF s
  <2> QED BY <1>1, <2>1, <2>2, SetupStep DEF Chains
<1> QED
  BY <1>2, <1>3

(* A step of one reservation that leaves its setup and its drains alone.    *)
LEMMA SteadyWork ==
  ASSUME BInv, SInv, NEW e \in Used, NEW s, entry' = [entry EXCEPT ![e] = s], started' = started, UNCHANGED op,
         s.branch = entry[e].branch, s.mode = entry[e].mode, SameSetup(entry[e], s), SameDrain(entry[e], s),
         RecOK(s), Done(entry[e]) => Done(s), entry[e].outcome # "none" => s.outcome # "none",
         entry[e].settle = "over" => s.settle = "over", s.runtime # "none" => entry[e].runtime # "none",
         s.runtime = "up" => entry[e].runtime = "up"
  PROVE  Steady(e)
<1>1. entry'[e] = s
  BY OneKnown
<1>2. \A d \in Drains : Advances(e, d)
  BY <1>1 DEF Advances, SameDrain
<1> QED
  BY <1>1, <1>2, SameOps DEF Steady, SameSetup, SameDrain

LEMMA SealSetupReturns == ASSUME BInv, BInv', SInv, NEW e \in Used, SetupReturns(e) PROVE SealStep
<1> DEFINE s == [entry[e] EXCEPT !.setup = "over"]
<1>1. entry' = [entry EXCEPT ![e] = s] /\ Apart /\ UNCHANGED op /\ Chains
  BY DEF SetupReturns, Apart, Chains, host, gates
<1>2. /\ SameWho(entry[e], s) /\ SameWork(entry[e], s) /\ SameEnd(entry[e], s) /\ SameDrain(entry[e], s)
      /\ s.setup = "over" /\ s.view = entry[e].view
  BY OneKnown DEF Reserved, SameWho, SameWork, SameEnd, SameDrain
<1> HIDE DEF s
<1>3. Steady(e)
  <2>1. entry'[e] = s /\ RecOK(entry[e])
    BY <1>1, OneKnown
  <2>2. RecOK(s)
    BY <1>2, <2>1 DEF RecOK, SameWho, SameWork, SameEnd, SameDrain, Prepared, SetupKind
  <2>3. \A d \in Drains : Advances(e, d)
    BY <1>2, <2>1 DEF Advances, SameDrain
  <2> QED
    BY <1>1, <1>2, <2>1, <2>2, <2>3, SameOps DEF Steady, SameWho, SameWork, SameEnd, SameDrain, Done, Apart
<1> QED
  BY <1>1, <1>3, OneStep

LEMMA SealRunEnds == ASSUME BInv, BInv', SInv, NEW e \in Used, RunEnds(e) PROVE SealStep
<1>1. PICK result \in {"complete", "failed"} :
        entry' = [entry EXCEPT ![e] = [Settling(entry[e], Runnable(e), result) EXCEPT !.run = "settling"]]
  BY DEF RunEnds
<1> DEFINE r == entry[e]
           t == Settling(r, Runnable(e), result)
           s == [t EXCEPT !.run = "settling"]
<1>2. entry' = [entry EXCEPT ![e] = s] /\ Apart /\ UNCHANGED op /\ Chains
  BY <1>1 DEF RunEnds, Apart, Chains, host, gates
<1>3. r \in Reserved /\ RecOK(r) /\ r.run = "on"
  BY OneKnown DEF RunEnds
<1>4. t \in Reserved
  BY <1>3, SettlingTwin DEF Twin, Kin
<1>5. /\ SameWho(r, t) /\ SameSetup(r, t) /\ SameWork(r, t) /\ t.drain = r.drain /\ t.at = r.at
      /\ \/ t.settle = "ops" /\ t.outcome = result /\ t.shut
         \/ t.settle = "over" /\ t.outcome = r.outcome /\ t.shut = r.shut
  <2>1. r.settle = "no"
    BY <1>3 DEF RecOK
  <2> HIDE DEF r
  <2> QED BY <1>3, <2>1, SettlingFields
<1> HIDE DEF r, t
<1>6. s.branch = t.branch /\ s.mode = t.mode /\ s.disposal = t.disposal /\ SameSetup(t, s) /\ SameDrain(t, s) /\ SameEnd(t, s)
      /\ s.runtime = t.runtime /\ s.run = "settling"
  BY <1>4 DEF Reserved, SameSetup, SameDrain, SameEnd
<1> HIDE DEF s
<1>7. entry'[e] = s
  BY <1>2, OneKnown
<1>8. RecOK(s)
  BY <1>3, <1>5, <1>6 DEF RecOK, SameWho, SameSetup, SameWork, SameEnd, SameDrain, Prepared
<1>9. \A d \in Drains : Advances(e, d)
  BY <1>5, <1>6, <1>7 DEF Advances, SameDrain, r
<1>10. /\ s.branch = r.branch /\ s.mode = r.mode /\ (Done(r) => Done(s)) /\ s.setup = r.setup /\ s.view = r.view
       /\ s.drain = r.drain /\ s.runtime = r.runtime /\ (r.outcome # "none" => s.outcome # "none") /\ r.settle = "no"
  BY <1>3, <1>5, <1>6 DEF SameWho, SameSetup, SameWork, SameEnd, SameDrain, Done, RecOK
<1>11. OpsOf(e)' = OpsOf(e)
  BY <1>2, SameOps
<1>12. Steady(e)
  BY <1>2, <1>7, <1>8, <1>9, <1>10, <1>11 DEF Steady, Apart, r
<1> QED
  BY <1>2, <1>12, OneStep

LEMMA SealRunReturns == ASSUME BInv, BInv', SInv, NEW e \in Used, RunReturns(e) PROVE SealStep
<1> DEFINE s == [entry[e] EXCEPT !.run = "over"]
<1>1. entry' = [entry EXCEPT ![e] = s] /\ Apart /\ UNCHANGED op /\ Chains
  BY DEF RunReturns, Apart, Chains, host, gates
<1>2. /\ SameWho(entry[e], s) /\ SameEnd(entry[e], s) /\ SameDrain(entry[e], s) /\ SameSetup(entry[e], s)
      /\ s.run = "over" /\ s.runtime = entry[e].runtime
  BY OneKnown DEF Reserved, SameWho, SameEnd, SameDrain, SameSetup
<1> HIDE DEF s
<1>3. RecOK(s)
  BY <1>2, OneKnown DEF RecOK, SameWho, SameSetup, SameEnd, SameDrain, Prepared, RunReturns
<1>4. Steady(e)
  BY <1>1, <1>2, <1>3, SteadyWork DEF Apart, SameWho, SameEnd, Done
<1> QED
  BY <1>1, <1>4, OneStep

LEMMA SealSettleOps == ASSUME BInv, BInv', SInv, NEW e \in Used, SettleOps(e) PROVE SealStep
<1> DEFINE r == entry[e]
           t == Asked(r)
           s == [t EXCEPT !.settle = "dispose"]
<1>1. entry' = [entry EXCEPT ![e] = s] /\ Apart /\ UNCHANGED op /\ Chains
  BY DEF SettleOps, Apart, Chains, host, gates
<1>2. r \in Reserved /\ RecOK(r) /\ r.settle = "ops"
  BY OneKnown DEF SettleOps
<1>3. t \in Reserved /\ t.branch = r.branch /\ t.mode = r.mode /\ (Done(r) => Done(t))
      /\ SameSetup(r, t) /\ SameWork(r, t) /\ SameEnd(r, t) /\ SameDrain(r, t)
  BY <1>2, AskedFields, AskedTwin DEF Twin, Kin
<1> HIDE DEF t
<1>4. /\ SameWho(t, s) /\ SameSetup(t, s) /\ SameWork(t, s) /\ SameDrain(t, s)
      /\ s.settle = "dispose" /\ s.outcome = t.outcome
  BY <1>3 DEF Reserved, SameWho, SameSetup, SameWork, SameDrain
<1> HIDE DEF s
<1>5. /\ s.branch = r.branch /\ s.mode = r.mode /\ (Done(r) => Done(s)) /\ SameSetup(r, s) /\ SameWork(r, s)
      /\ SameDrain(r, s) /\ s.settle = "dispose" /\ s.outcome = r.outcome
  BY <1>3, <1>4 DEF SameWho, SameSetup, SameWork, SameEnd, SameDrain, Done
<1> HIDE DEF r
<1>6. RecOK(s)
  BY <1>2, <1>5 DEF RecOK, SameSetup, SameWork, SameDrain, Prepared
<1>7. Steady(e)
  BY <1>1, <1>2, <1>5, <1>6, SteadyWork DEF Apart, SameWork, r
<1> QED
  BY <1>1, <1>7, OneStep

LEMMA SealDispose == ASSUME BInv, BInv', SInv, NEW e \in Used, Dispose(e) PROVE SealStep
<1>1. PICK failed \in BOOLEAN :
       entry' = [entry EXCEPT ![e].disposal = IF failed THEN "failed" ELSE "done",
                              ![e].runtime = CASE failed -> "stuck" [] ~failed /\ @ = "up" -> "gone" [] OTHER -> @]
         /\ (failed => entry[e].runtime = "up")
  BY DEF Dispose
<1> DEFINE s == entry'[e]
<1>2. Apart /\ UNCHANGED op /\ Chains
  BY DEF Dispose, Apart, Chains, host, gates
<1>3. entry[e] \in Reserved /\ e \in Entry /\ RecOK(entry[e]) /\ entry \in [Entry -> Reserved]
  BY OneKnown DEF BInv, CoreOK
<1>4. entry' = [entry EXCEPT ![e] = s]
  BY <1>1, <1>3
<1>5. /\ s.branch = entry[e].branch /\ s.mode = entry[e].mode /\ Done(s) /\ SameSetup(entry[e], s) /\ SameEnd(entry[e], s)
      /\ SameDrain(entry[e], s) /\ s.run = entry[e].run /\ s.runtime # "up" /\ (s.runtime # "none" => entry[e].runtime # "none")
  BY <1>1, <1>3 DEF Reserved, SameSetup, SameEnd, SameDrain, Done
<1> HIDE DEF s
<1>6. RecOK(s)
  BY <1>3, <1>5 DEF RecOK, SameSetup, SameEnd, SameDrain, Prepared
<1>7. Steady(e)
  BY <1>2, <1>4, <1>5, <1>6, SteadyWork DEF Apart, SameEnd
<1> QED
  BY <1>2, <1>4, <1>7, OneStep

(* The same for a step that also concerns who is live, seals or marks. *)
LEMMA OneMoves ==
  ASSUME BInv, BInv', SInv, NEW e \in Used, NEW s, entry' = [entry EXCEPT ![e] = s], UNCHANGED <<started, op>>,
         Chains, Steady(e), \A b \in Branch : Lives(b) /\ Marks(b), Accepting' => Accepting
  PROVE  SealStep
<1>1. entry \in [Entry -> Reserved] /\ e \in Entry
  BY DEF BInv, CoreOK, Used
<1>2. \A f \in Entry : f # e => entry'[f] = entry[f]
  BY <1>1
<1>3. \A f \in Entry : entry'[f].mode = entry[f].mode
  BY <1>2 DEF Steady
<1>4. \A f \in Used : f \in Used' /\ Steady(f)
  BY <1>2, <1>3, SameOps, SteadyStill DEF Used
<1>5. Used' \ Used = {}
  BY <1>3 DEF Used
<1> QED
  BY <1>4, <1>5 DEF SealStep

(* Seals and moves as they were; a mark goes only with a new one. *)
LEMMA SameMarks ==
  ASSUME UNCHANGED <<sealed, moving, move>>,
         \A b \in Branch : admitted'[b] = "absent" /\ b \notin readmit' => admitted[b] = "absent" /\ b \notin readmit
  PROVE  \A b \in Branch : Marks(b)
BY DEF Marks

LEMMA SealSettled == ASSUME BInv, BInv', SInv, NEW e \in Used, Settled(e) PROVE SealStep
<1> DEFINE b == entry[e].branch
           r == entry[e]
           s == entry'[e]
<1>1. /\ UNCHANGED <<started, op, writer, sealed, moving, move, readmit>> /\ Chains
      /\ r.settle = "dispose" /\ r.disposal \in {"done", "failed"} /\ (Accepting' => Accepting)
  BY DEF Settled, Chains, host, Accepting
<1>2. r \in Reserved /\ e \in Entry /\ RecOK(r) /\ entry \in [Entry -> Reserved] /\ b \in Branch
  BY OneKnown, Basics DEF BInv, CoreOK
<1>3. entry' = [entry EXCEPT ![e] = s]
  BY <1>2 DEF Settled
<1>4. /\ SameWho(r, s) /\ SameSetup(r, s) /\ SameWork(r, s) /\ SameDrain(r, s)
      /\ s.settle \in {"aggregate", "over"} /\ (r.outcome # "none" => s.outcome # "none")
  BY <1>2 DEF Settled, Reserved, SameWho, SameSetup, SameWork, SameDrain
<1>5. Steady(e)
  <2>1. r.outcome # "none" /\ s.outcome # "none"
    BY <1>1, <1>2, <1>4 DEF RecOK
  <2>2. RecOK(s)
    <3> HIDE DEF r, s
    <3> QED BY <1>1, <1>2, <1>4, <2>1 DEF RecOK, SameWho, SameSetup, SameWork, SameDrain, Prepared
  <2>3. s.branch = r.branch /\ s.mode = r.mode /\ (Done(r) => Done(s)) /\ s.runtime = r.runtime
    BY <1>4 DEF SameWho, SameWork, Done
  <2> QED
    BY <1>1, <1>3, <1>4, <2>1, <2>2, <2>3, SteadyWork
<1>6. \/ live' = live
      \/ live' = [live EXCEPT ![b] = 0] /\ live[b] = e /\ (Accepting' => s.settle = "over" /\ s.outcome # "none")
  <2>1. CASE ~Accepting \/ live[b] # e
    BY <2>1 DEF Settled
  <2>2. CASE Accepting /\ live[b] = e
    <3>1. live' = [live EXCEPT ![b] = 0]
      BY <2>2 DEF Settled
    <3>2. ASSUME Accepting' PROVE s.settle = "over"
      BY <1>2, <2>2, <3>2 DEF Settled, Accepting, Reserved
    <3> QED BY <1>1, <1>2, <1>4, <2>2, <3>1, <3>2 DEF RecOK
  <2> QED BY <2>1, <2>2
<1>7. \A c \in Branch : Lives(c)
  <2>1. Done(r)
    BY <1>1 DEF Done
  <2>2. live \in [Branch -> Entry \cup {0}]
    BY DEF BInv, CoreOK
  <2> QED BY <1>2, <1>6, <2>1, <2>2 DEF Lives, Leaving
<1>8. \A c \in Branch : admitted'[c] = "absent" => admitted[c] = "absent"
  <2>1. admitted \in [Branch -> {"absent", "taken", "claimed", "failed", "broken"}]
    BY DEF BInv, CoreOK
  <2> QED BY <2>1 DEF Settled
<1>9. \A c \in Branch : Marks(c)
  BY <1>1, <1>8, SameMarks
<1> HIDE DEF s
<1> QED
  BY <1>1, <1>3, <1>5, <1>7, <1>9, OneMoves

LEMMA SealUnloadReady == ASSUME BInv, BInv', SInv, NEW e \in Used, UnloadReady(e) PROVE SealStep
<1> DEFINE s == [entry[e] EXCEPT !.at["unload"] = "check"]
<1>1. entry' = [entry EXCEPT ![e] = s] /\ Apart /\ UNCHANGED op /\ entry[e].at["unload"] = "ready"
      /\ writer' = Append(writer, Step("idle", e))
  <2>1. entry[e] \in Reserved /\ entry \in [Entry -> Reserved]
    BY OneKnown DEF BInv, CoreOK
  <2> QED BY <2>1 DEF UnloadReady, Apart, host, gates, Enqueue
<1>2. /\ SameWho(entry[e], s) /\ SameWork(entry[e], s) /\ SameEnd(entry[e], s) /\ SameSetup(entry[e], s)
      /\ s.shut = entry[e].shut /\ s.drain = entry[e].drain
      /\ \A d \in Drains : s.at[d] = IF d = "unload" THEN "check" ELSE entry[e].at[d]
  BY OneKnown DEF Reserved, SameWho, SameWork, SameEnd, SameSetup
<1> HIDE DEF s
<1>3. entry'[e] = s /\ RecOK(entry[e]) /\ e \in Entry
  BY <1>1, OneKnown
<1>4. Chains
  <2>1. Step("idle", e) \in WriterSteps
    BY <1>3 DEF WriterSteps, StepKind, Step
  <2>2. started
    BY <1>1 DEF SInv, RecsOK, Drains
  <2>3. Enters(Step("idle", e))
    <3>1. entry[e].at["unload"] = "ready" /\ entry'[e].at["unload"] = "check" /\ e \in Used /\ e \in Used'
      BY <1>1, <1>2, <1>3 DEF Used, SameWho, Drains
    <3>2. LET x == Step("idle", e) IN
          x.kind = "idle" /\ x.who = e /\ "idle" \notin Drains /\ ItsDrain("idle") = "unload" /\ AtStep("idle") = "check"
      BY DEF Step, ItsDrain, AtStep, Drains
    <3> QED BY <2>2, <3>1, <3>2 DEF Enters, Halted
  <2> QED BY <1>1, <2>1, <2>3 DEF Chains
<1>5. Steady(e)
  <2>1. \A d \in Drains : Advances(e, d)
    BY <1>1, <1>2, <1>3 DEF Advances
  <2>2. RecOK(s)
    BY <1>1, <1>2, <1>3 DEF RecOK, SameWho, SameWork, SameEnd, SameSetup, Prepared, Early, Drains
  <2> QED
    BY <1>1, <1>2, <1>3, <2>1, <2>2, SameOps DEF Steady, SameWho, SameWork, SameEnd, SameSetup, Done, Apart
<1> QED
  BY <1>1, <1>4, <1>5, OneStep

(* A drain of a reservation goes on. *)
DrainGoes(e, d, s) ==
  /\ SameWho(entry[e], s) /\ SameWork(entry[e], s) /\ SameEnd(entry[e], s) /\ SameSetup(entry[e], s)
  /\ s.shut = entry[e].shut /\ s.drain = entry[e].drain
  /\ \A c \in Drains : c # d => s.at[c] = entry[e].at[c]
  /\ entry[e].at[d] \notin Early

LEMMA SteadyDrains ==
  ASSUME BInv, SInv, NEW e \in Used, NEW d \in Drains, NEW s, entry' = [entry EXCEPT ![e] = s], UNCHANGED <<started, op>>,
         DrainGoes(e, d, s), Advances(e, d)
  PROVE  Steady(e)
<1>1. entry'[e] = s /\ RecOK(entry[e]) /\ e \in Entry
  BY OneKnown
<1>2. \A c \in Drains : Advances(e, c)
  BY <1>1 DEF Advances, DrainGoes
<1>3. RecOK(s)
  <2>1. entry[e].drain # "no"
    BY <1>1 DEF DrainGoes, RecOK
  <2>2. s.at["unload"] # "no" => s.shut
    BY <1>1 DEF DrainGoes, RecOK, Early, Drains
  <2>3. s.at["stop"] \notin {"ready", "check"}
    BY <1>1, <1>2 DEF Advances, DrainGoes, RecOK, Early, Drains, Sealing
  <2> QED
    BY <1>1, <2>1, <2>2, <2>3 DEF RecOK, DrainGoes, SameWho, SameWork, SameEnd, SameSetup, Prepared
<1> QED
  BY <1>1, <1>2, <1>3, SameOps DEF Steady, DrainGoes, SameWho, SameWork, SameEnd, SameSetup, Done

LEMMA SealDrainsSetup == ASSUME BInv, BInv', SInv, NEW e \in Used, NEW d \in Drains, DrainsSetup(e, d) PROVE SealStep
<1> DEFINE s == [entry[e] EXCEPT !.at[d] = "ops", !.draining = TRUE]
<1>1. entry[e] \in Reserved /\ entry \in [Entry -> Reserved] /\ e \in Entry
  BY OneKnown DEF BInv, CoreOK
<1>2. entry' = [entry EXCEPT ![e] = s] /\ Apart /\ UNCHANGED op /\ Chains
  BY <1>1 DEF DrainsSetup, Apart, host, gates, Chains
<1>3. DrainGoes(e, d, s) /\ s.at[d] = "ops"
  BY <1>1 DEF DrainsSetup, DrainGoes, Reserved, SameWho, SameWork, SameEnd, SameSetup, Early
<1> HIDE DEF s
<1>4. Advances(e, d)
  BY <1>1, <1>2, <1>3 DEF Advances, DrainsSetup
<1> QED
  BY <1>2, <1>3, <1>4, SteadyDrains, OneStep DEF Apart

LEMMA SealDrainsOps == ASSUME BInv, BInv', SInv, NEW e \in Used, NEW d \in Drains, DrainsOps(e, d) PROVE SealStep
<1> DEFINE s == [entry[e] EXCEPT !.at[d] = "seal"]
<1>1. entry[e] \in Reserved /\ entry \in [Entry -> Reserved] /\ e \in Entry
  BY OneKnown DEF BInv, CoreOK
<1>2. entry' = [entry EXCEPT ![e] = s] /\ Apart /\ UNCHANGED op /\ writer' = Append(writer, Step(d, e))
  BY <1>1 DEF DrainsOps, Apart, host, gates, Enqueue
<1>3. DrainGoes(e, d, s) /\ s.at[d] = "seal"
  BY <1>1 DEF DrainsOps, DrainGoes, Reserved, SameWho, SameWork, SameEnd, SameSetup, Early
<1> HIDE DEF s
<1>4. Advances(e, d)
  BY <1>1, <1>2, <1>3 DEF Advances, DrainsOps
<1>5. Chains
  <2>1. Step(d, e) \in WriterSteps
    BY <1>1 DEF WriterSteps, StepKind, Step
  <2>2. entry[e].at[d] = "ops" /\ entry'[e].at[d] = "seal" /\ e \in Used /\ e \in Used'
    BY <1>1, <1>2, <1>3 DEF Used, DrainGoes, SameWho, DrainsOps
  <2>3. started
    BY <2>2 DEF SInv, RecsOK
  <2>4. LET x == Step(d, e) IN x.kind = d /\ x.who = e /\ ItsDrain(d) = d /\ AtStep(d) = "seal"
    BY DEF Step, ItsDrain, AtStep
  <2>5. Enters(Step(d, e))
    BY <2>2, <2>3, <2>4 DEF Enters, Halted
  <2> QED BY <1>2, <2>1, <2>5 DEF Chains
<1> QED
  BY <1>2, <1>3, <1>4, <1>5, SteadyDrains, OneStep DEF Apart

LEMMA SealDrainsRuntime == ASSUME BInv, BInv', SInv, NEW e \in Used, NEW d \in Drains, DrainsRuntime(e, d) PROVE SealStep
<1> DEFINE s == [entry[e] EXCEPT !.at[d] = "run", !.spoilt = IF entry[e].disposal = "failed" THEN @ \cup {d} ELSE @]
<1>1. entry[e] \in Reserved /\ entry \in [Entry -> Reserved] /\ e \in Entry
  BY OneKnown DEF BInv, CoreOK
<1>2. entry' = [entry EXCEPT ![e] = s] /\ Apart /\ UNCHANGED op /\ Chains
  BY <1>1 DEF DrainsRuntime, Apart, host, gates, Chains
<1>3. DrainGoes(e, d, s) /\ s.at[d] = "run"
  BY <1>1 DEF DrainsRuntime, DrainGoes, Reserved, SameWho, SameWork, SameEnd, SameSetup, Early
<1> HIDE DEF s
<1>4. Advances(e, d)
  BY <1>1, <1>2, <1>3 DEF Advances, DrainsRuntime, Sealing
<1> QED
  BY <1>2, <1>3, <1>4, SteadyDrains, OneStep DEF Apart

(* A drain that ends takes its branch out of the run, if it is live, with   *)
(* the mark to lift its seal.                                               *)
LEMMA DrainOverMoves ==
  ASSUME BInv, NEW e \in Used, NEW d \in Drains, DrainOver(e, d), entry[e].at[d] \in {"run", "unseal"},
         entry[e].at[d] = "unseal" => Taken(Step("unseal", e))
  PROVE  /\ \A b \in Branch : Lives(b)
         /\ \A b \in Branch : admitted'[b] = "absent" /\ b \notin readmit' => admitted[b] = "absent" /\ b \notin readmit
         /\ DrainGoes(e, d, entry'[e]) /\ Advances(e, d) /\ entry' = [entry EXCEPT ![e] = entry'[e]]
         /\ Accepting' => Accepting
<1> DEFINE s == [entry[e] EXCEPT !.at[d] = "over"]
           b == entry[e].branch
<1>1. entry[e] \in Reserved /\ entry \in [Entry -> Reserved] /\ e \in Entry /\ b \in Branch
  BY Basics DEF BInv, CoreOK
<1>2. entry' = [entry EXCEPT ![e] = s] /\ entry'[e] = s
  BY <1>1 DEF DrainOver
<1>3. DrainGoes(e, d, s) /\ s.at[d] = "over"
  BY <1>1 DEF DrainGoes, Reserved, SameWho, SameWork, SameEnd, SameSetup, Early
<1> HIDE DEF s
<1>4. Advances(e, d)
  BY <1>2, <1>3 DEF Advances, Sealing
<1>5. Done(entry[e])
  BY DEF BInv, ReadyOK, Past
<1>6. /\ live \in [Branch -> Entry \cup {0}] /\ readmit \subseteq Branch
      /\ admitted \in [Branch -> {"absent", "taken", "claimed", "failed", "broken"}]
  BY DEF BInv, CoreOK, RestOK
<1>7. \A c \in Branch : Lives(c)
  <2>1. live' = live \/ (live[b] = e /\ live' = [live EXCEPT ![b] = 0])
    BY DEF DrainOver
  <2>2. Leaving(e)
    BY <1>2, <1>3, <1>5 DEF Leaving, Sealing
  <2> QED BY <1>6, <2>1, <2>2 DEF Lives
<1>8. \A c \in Branch : admitted'[c] = "absent" /\ c \notin readmit' => admitted[c] = "absent" /\ c \notin readmit
  BY <1>1, <1>6 DEF DrainOver
<1>9. Accepting' => Accepting
  BY DEF DrainOver, ClosesWhenDrained, Accepting
<1> QED
  BY <1>2, <1>3, <1>4, <1>7, <1>8, <1>9

LEMMA SealDrainsRun == ASSUME BInv, BInv', SInv, NEW e \in Used, NEW d \in Drains, DrainsRun(e, d) PROVE SealStep
<1>1. UNCHANGED <<started, op, sealed, moving, move>> /\ entry[e].at[d] = "run"
  BY DEF DrainsRun, host
<1>2. CASE d = "unload" /\ d \notin entry[e].spoilt
  <2> DEFINE s == [entry[e] EXCEPT !.at[d] = "unseal"]
  <2>1. entry[e] \in Reserved /\ entry \in [Entry -> Reserved] /\ e \in Entry
    BY OneKnown DEF BInv, CoreOK
  <2>2. entry' = [entry EXCEPT ![e] = s] /\ Apart /\ writer' = Append(writer, Step("unseal", e))
    BY <1>2, <2>1 DEF DrainsRun, Apart, host, Enqueue
  <2>3. DrainGoes(e, d, s) /\ s.at[d] = "unseal"
    BY <1>1, <2>1 DEF DrainGoes, Reserved, SameWho, SameWork, SameEnd, SameSetup, Early
  <2> HIDE DEF s
  <2>4. Advances(e, d)
    BY <1>1, <2>1, <2>2, <2>3 DEF Advances, Sealing
  <2>5. started
    BY <1>1 DEF SInv, RecsOK
  <2>6. Chains
    <3>1. Step("unseal", e) \in WriterSteps
      BY <2>1 DEF WriterSteps, StepKind, Step
    <3>2. entry[e].at["unload"] = "run" /\ entry'[e].at["unload"] = "unseal" /\ e \in Used /\ e \in Used'
      BY <1>1, <1>2, <2>1, <2>2, <2>3 DEF Used, DrainGoes, SameWho
    <3>3. LET x == Step("unseal", e) IN
          /\ x.kind = "unseal" /\ x.who = e /\ "unseal" \notin Drains
          /\ ItsDrain("unseal") = "unload" /\ AtStep("unseal") = "unseal"
      BY DEF Step, ItsDrain, AtStep, Drains
    <3>4. Enters(Step("unseal", e))
      BY <2>5, <3>2, <3>3 DEF Enters, Halted
    <3> QED BY <2>2, <3>1, <3>4 DEF Chains
  <2> QED BY <1>1, <2>2, <2>3, <2>4, <2>6, SteadyDrains, OneStep DEF Apart
<1>3. CASE ~(d = "unload" /\ d \notin entry[e].spoilt)
  <2>1. DrainOver(e, d) /\ Chains
    BY <1>3 DEF DrainsRun, Chains
  <2>2. \A b \in Branch : Lives(b) /\ Marks(b)
    BY <1>1, <2>1, DrainOverMoves, SameMarks
  <2>3. Steady(e)
    BY <1>1, <2>1, DrainOverMoves, SteadyDrains
  <2> QED BY <1>1, <2>1, <2>2, <2>3, DrainOverMoves, OneMoves
<1> QED
  BY <1>2, <1>3

(* A reservation whose setup ends with its runtime up. *)
LEMMA SteadyRuns ==
  ASSUME BInv, SInv, NEW e \in Used, entry' = [entry EXCEPT ![e] = Runs(entry[e])], UNCHANGED <<started, op>>,
         entry[e].setup \in {"building", "activate"}, Starts(e)
  PROVE  Steady(e)
<1> DEFINE r == entry[e]
           s == Runs(r)
<1>1. entry'[e] = s /\ RecOK(r) /\ r \in Reserved /\ ~Prepared(r)
  BY OneKnown DEF Prepared
<1>2. SameWho(r, s) /\ SameEnd(r, s) /\ SameDrain(r, s) /\ s.setup = "over" /\ s.view = r.view /\ s.runtime = "up"
  BY <1>1, RunsFields
<1> HIDE DEF s
<1>3. RecOK(s)
  BY <1>1, <1>2 DEF RecOK, SameWho, SameEnd, SameDrain, SetupKind, Prepared
<1>4. \A d \in Drains : Advances(e, d)
  BY <1>1, <1>2 DEF Advances, SameDrain
<1>5. OpsOf(e)' = OpsOf(e)
  BY SameOps
<1> QED
  BY <1>1, <1>2, <1>3, <1>4, <1>5 DEF Steady, SameWho, SameEnd, SameDrain, Done

LEMMA SealBuilt == ASSUME BInv, BInv', SInv, NEW e \in Used, Built(e) PROVE SealStep
<1>1. Apart /\ UNCHANGED op /\ ~Prepared(entry[e]) /\ entry[e] \in Reserved /\ RecOK(entry[e]) /\ entry[e].setup = "building"
  BY OneKnown DEF Built, Apart, host, gates, Prepared
<1>2. CASE entry' = [entry EXCEPT ![e] = GivesUp(@, TRUE)] /\ UNCHANGED writer
  <2>1. GoesOn(entry[e], GivesUp(entry[e], TRUE))
    BY <1>1, GivesUpFields DEF GoesOn, SetupKind
  <2> QED BY <1>1, <1>2, <2>1, SetupStep DEF Chains
<1>3. CASE entry' = [entry EXCEPT ![e] = Leaves(@)] /\ UNCHANGED writer
  <2>1. GoesOn(entry[e], Leaves(entry[e]))
    BY <1>1, LeavesFields DEF GoesOn, SameDrain, SetupKind
  <2> QED BY <1>1, <1>3, <2>1, SetupStep DEF Chains
<1>4. CASE Runnable(e) /\ entry[e].mode # "readmit" /\ entry' = [entry EXCEPT ![e] = Runs(@)] /\ UNCHANGED writer
  <2>1. Starts(e)
    BY <1>1, <1>4 DEF Starts, Runnable, BInv, ReadyOK, Apart
  <2>2. Steady(e)
    BY <1>1, <1>4, <2>1, SteadyRuns DEF Apart
  <2> QED BY <1>1, <1>4, <2>2, OneStep DEF Chains
<1>5. CASE /\ Runnable(e) /\ entry[e].mode = "readmit"
           /\ entry' = [entry EXCEPT ![e].setup = "activate"] /\ Enqueue("activate", e)
  <2> DEFINE s == [entry[e] EXCEPT !.setup = "activate"]
  <2>1. entry \in [Entry -> Reserved] /\ e \in Entry
    BY OneKnown DEF BInv, CoreOK
  <2>2. entry' = [entry EXCEPT ![e] = s] /\ writer' = Append(writer, Step("activate", e))
    BY <1>5, <2>1 DEF Enqueue
  <2>3. GoesOn(entry[e], s)
    BY <1>1, <1>5 DEF GoesOn, Reserved, SameWho, SameWork, SameEnd, SetupKind, RecOK
  <2>4. Chains
    <3>1. Step("activate", e) \in WriterSteps /\ Enters(Step("activate", e))
      BY <2>1 DEF WriterSteps, StepKind, SetupKind, Step, Enters, Drains, DrainSteps
    <3> QED BY <2>2, <3>1 DEF Chains
  <2> HIDE DEF s
  <2> QED BY <1>1, <2>2, <2>3, <2>4, SetupStep
<1> QED
  BY <1>2, <1>3, <1>4, <1>5 DEF Built

-----------------------------------------------------------------------------
(* Steps that concern several reservations, or operations. *)

LEMMA ManyMoves ==
  ASSUME BInv, BInv', SInv, \A e \in Entry : entry'[e].mode = entry[e].mode, \A e \in Used : Steady(e),
         Chains, \A b \in Branch : Lives(b) /\ Marks(b), Accepting' => Accepting, started => started',
         started' /\ ~started => moving = {} /\ UNCHANGED sealed
  PROVE  SealStep
<1>1. Used' = Used
  BY DEF Used
<1> QED
  BY <1>1 DEF SealStep

(* A reservation of which only its readiness, its disposal or its admission *)
(* of operations changed.                                                   *)
LEMMA SteadyAlike ==
  ASSUME BInv, SInv, NEW e \in Used, NEW s, entry'[e] = s, started' = started,
         s.branch = entry[e].branch, s.mode = entry[e].mode, SameSetup(entry[e], s), SameWork(entry[e], s),
         s.settle = entry[e].settle, entry[e].outcome # "none" => s.outcome # "none", s.drain = entry[e].drain,
         s.at = entry[e].at, entry[e].shut => s.shut, Done(entry[e]) => Done(s),
         entry[e].shut => OpsOf(e)' \subseteq OpsOf(e)
  PROVE  Steady(e)
<1>1. RecOK(entry[e])
  BY OneKnown
<1>2. RecOK(s)
  BY <1>1 DEF RecOK, SameSetup, SameWork, Prepared
<1>3. \A d \in Drains : Advances(e, d)
  BY DEF Advances
<1> QED
  BY <1>1, <1>2, <1>3 DEF Steady, SameSetup, SameWork

LEMMA Still ==
  ASSUME BInv, BInv', SInv, UNCHANGED <<entry, started>>, \A e \in Used : entry[e].shut => OpsOf(e)' \subseteq OpsOf(e),
         Chains, \A b \in Branch : Lives(b) /\ Marks(b), Accepting' => Accepting
  PROVE  SealStep
BY SteadyStill, ManyMoves

LEMMA SealAcquireHold == ASSUME BInv, BInv', SInv, AcquireHold PROVE SealStep
<1>1. Apart /\ UNCHANGED <<entry, op>> /\ Chains
  BY DEF AcquireHold, Apart, gates, Chains
<1> QED
  BY <1>1, SameOps, ApartMarks, Still DEF Apart

LEMMA SealReleaseHold == ASSUME BInv, BInv', SInv, ReleaseHold PROVE SealStep
<1>1. UNCHANGED <<entry, op, started, live, admitted, readmit, sealed, moving, move>> /\ Chains
  BY DEF ReleaseHold, gates, Chains
<1>2. Accepting' => Accepting
  BY DEF ReleaseHold, ClosesWhenDrained, Accepting
<1>3. \A b \in Branch : Lives(b) /\ Marks(b)
  BY <1>1 DEF Lives, Marks
<1> QED
  BY <1>1, <1>2, <1>3, SameOps, Still

LEMMA SealClosed == ASSUME BInv, BInv', SInv, Closed PROVE SealStep
<1>1. UNCHANGED <<entry, op, started, admitted, readmit, sealed, moving, move>> /\ Chains
  BY DEF Closed, host, gates, Chains
<1>2. ~Accepting' /\ \A b \in Branch : live'[b] = 0
  BY DEF Closed, Accepting
<1>3. \A b \in Branch : Lives(b) /\ Marks(b)
  BY <1>1, <1>2 DEF Lives, Marks
<1> QED
  BY <1>1, <1>2, <1>3, SameOps, Still

LEMMA SealClaimFailed == ASSUME BInv, BInv', SInv, NEW b \in Branch, ClaimFailed(b) PROVE SealStep
<1>1. UNCHANGED <<entry, op, phase, started, live, readmit, sealed, moving, move>> /\ Chains
  BY DEF ClaimFailed, host, Chains
<1>2. \A c \in Branch : admitted'[c] = "absent" => admitted[c] = "absent"
  BY DEF ClaimFailed, BInv, CoreOK
<1>3. \A c \in Branch : Lives(c) /\ Marks(c)
  BY <1>1, <1>2, SameMarks DEF Lives
<1> QED
  BY <1>1, <1>3, SameOps, Still DEF Accepting

LEMMA SealMove == ASSUME BInv, BInv', SInv, NEW b \in Branch, Move(b) PROVE SealStep
<1>1. UNCHANGED <<entry, op, phase, started, live, readmit, admitted, sealed, moving>> /\ move'.kept = {}
  BY DEF Move, host, gates, IdleMove
<1>2. Chains
  <2>1. Step("moveSeal", 0) \in WriterSteps /\ Enters(Step("moveSeal", 0))
    BY DEF WriterSteps, StepKind, MoveKind, Step, Enters, Drains, DrainSteps
  <2> QED BY <2>1 DEF Chains, Move, Enqueue
<1>3. \A c \in Branch : Lives(c) /\ Marks(c)
  BY <1>1 DEF Lives, Marks
<1> QED
  BY <1>1, <1>2, <1>3, SameOps, Still DEF Accepting

LEMMA SealMoveDrained == ASSUME BInv, BInv', SInv, MoveDrained PROVE SealStep
<1>1. UNCHANGED <<entry, op, phase, started, live, readmit, admitted, sealed, moving>>
  BY DEF MoveDrained, host, gates
<1>2. move'.kept = move.kept
  BY DEF MoveDrained, BInv, CoreOK, MoveRecord
<1>3. Chains
  <2>1. \A k \in {"moveHead", "moveEnd"} : Step(k, 0) \in WriterSteps /\ Enters(Step(k, 0))
    BY DEF WriterSteps, StepKind, MoveKind, Step, Enters, Drains, DrainSteps
  <2> QED BY <2>1 DEF Chains, MoveDrained, Enqueue
<1>4. \A c \in Branch : Lives(c) /\ Marks(c)
  BY <1>1, <1>2 DEF Lives, Marks
<1> QED
  BY <1>1, <1>3, <1>4, SameOps, Still DEF Accepting

(* Operations are asked for by hosts, and answered. *)
LEMMA AsksFor ==
  ASSUME BInv, NEW o \in Op, NEW b \in Branch, Admits(b), op[o].stage = "idle",
         op' = [op EXCEPT ![o] = op'[o]], op'[o].entry = live[b]
  PROVE  \A e \in Used : entry[e].shut => OpsOf(e)' \subseteq OpsOf(e)
<1> SUFFICES ASSUME NEW e \in Used, entry[e].shut, NEW p \in OpsOf(e)' PROVE p \in OpsOf(e)
  OBVIOUS
<1>1. p # o
  <2>1. op'[o].entry # e
    BY Basics DEF Admits
  <2> QED BY <2>1 DEF OpsOf
<1>2. op'[p] = op[p] /\ p \in Op
  BY <1>1 DEF BInv, RestOK, OpsOf
<1> QED
  BY <1>2 DEF OpsOf, Pending

LEMMA SealRespond == ASSUME BInv, BInv', SInv, NEW o \in Op, NEW b \in Branch, Respond(o, b) PROVE SealStep
<1>1. Apart /\ UNCHANGED entry /\ Chains
  BY DEF Respond, Apart, host, gates, Chains
<1>2. op[o] \in OpRecord /\ op \in [Op -> OpRecord]
  BY DEF BInv, RestOK
<1>3. op' = [op EXCEPT ![o] = op'[o]] /\ op'[o].entry = live[b] /\ Admits(b) /\ op[o].stage = "idle"
  BY <1>2 DEF Respond, OpRecord
<1> QED
  BY <1>1, <1>3, AsksFor, ApartMarks, Still DEF Apart

LEMMA SealFork ==
  ASSUME BInv, BInv', SInv, NEW o \in Op, NEW b \in Branch, NEW new \in Branch, Fork(o, b, new)
  PROVE  SealStep
<1>1. Apart /\ UNCHANGED entry
  BY DEF Fork, Apart, host, gates
<1>2. op[o] \in OpRecord /\ op \in [Op -> OpRecord]
  BY DEF BInv, RestOK
<1>3. op' = [op EXCEPT ![o] = op'[o]] /\ op'[o].entry = live[b] /\ Admits(b) /\ op[o].stage = "idle"
  BY <1>2 DEF Fork, OpRecord
<1>4. Chains
  <2>1. Step("op", o) \in WriterSteps /\ Enters(Step("op", o))
    BY DEF WriterSteps, StepKind, Step, Enters, Drains, DrainSteps
  <2> QED BY <2>1 DEF Chains, Fork, Enqueue
<1> QED
  BY <1>1, <1>3, <1>4, AsksFor, ApartMarks, Still DEF Apart

LEMMA StageKept ==
  ASSUME BInv, NEW o \in Op, op[o].stage \in {"get", "ready", "queued"}, op' = [op EXCEPT ![o] = op'[o]],
         op'[o].entry = op[o].entry
  PROVE  \A e \in Used : OpsOf(e)' \subseteq OpsOf(e)
<1>1. \A p \in Op : p # o => op'[p] = op[p]
  BY DEF BInv, RestOK
<1> QED
  BY <1>1 DEF OpsOf, Pending

LEMMA SealOpLooks == ASSUME BInv, BInv', SInv, NEW o \in Op, OpLooks(o) PROVE SealStep
<1>1. Apart /\ UNCHANGED entry
  BY DEF OpLooks, Apart, host, gates
<1>2. op[o] \in OpRecord /\ op \in [Op -> OpRecord]
  BY DEF BInv, RestOK
<1>3. op' = [op EXCEPT ![o] = op'[o]] /\ op'[o].entry = op[o].entry /\ op[o].stage = "get"
  BY <1>2 DEF OpLooks, OpRecord
<1>4. Chains
  <2>1. Step("op", o) \in WriterSteps /\ Enters(Step("op", o))
    BY DEF WriterSteps, StepKind, Step, Enters, Drains, DrainSteps
  <2> QED BY <2>1 DEF Chains, OpLooks, Enqueue
<1> QED
  BY <1>1, <1>3, <1>4, StageKept, ApartMarks, Still DEF Apart

LEMMA OpFailsSteady ==
  ASSUME BInv, SInv, NEW o \in Op, op[o].stage \in {"get", "ready", "queued"}, OpFails(o), started' = started
  PROVE  (\A e \in Entry : entry'[e].mode = entry[e].mode) /\ \A e \in Used : Steady(e)
<1>1. op[o] \in OpRecord /\ op \in [Op -> OpRecord]
  BY DEF BInv, RestOK
<1>2. op' = [op EXCEPT ![o] = op'[o]] /\ op'[o].entry = op[o].entry
  BY <1>1 DEF OpFails, OpRecord
<1>3. \A e \in Used : OpsOf(e)' \subseteq OpsOf(e)
  BY <1>2, StageKept
<1>4. \A e \in Entry : entry[e] \in Reserved /\ entry'[e] \in {entry[e], Rejected(entry[e])}
  BY DEF OpFails, BInv, CoreOK
<1>5. \A e \in Entry : entry'[e].mode = entry[e].mode
  BY <1>4, RejectedFields DEF SameWho
<1>6. ASSUME NEW e \in Used, entry'[e] = Rejected(entry[e]) PROVE Steady(e)
  <2> DEFINE s == Rejected(entry[e])
  <2>1. /\ SameWho(entry[e], s) /\ SameSetup(entry[e], s) /\ SameWork(entry[e], s) /\ SameDrain(entry[e], s)
        /\ s.settle = entry[e].settle /\ (entry[e].outcome # "none" => s.outcome # "none")
    BY <1>4, RejectedFields DEF Used
  <2> HIDE DEF s
  <2> QED BY <1>3, <1>6, <2>1, SteadyAlike DEF SameWho, SameDrain, Done, s
<1> QED
  BY <1>3, <1>4, <1>5, <1>6, SteadyStill DEF Used

LEMMA SealOpReady == ASSUME BInv, BInv', SInv, NEW o \in Op, OpReady(o) PROVE SealStep
<1>1. Apart /\ op[o].stage = "ready"
  BY DEF OpReady, Apart, host, gates
<1>2. CASE op' = [op EXCEPT ![o].stage = "queued"] /\ Enqueue("op", o) /\ UNCHANGED entry
  <2>1. op[o] \in OpRecord /\ op \in [Op -> OpRecord]
    BY DEF BInv, RestOK
  <2>2. op' = [op EXCEPT ![o] = op'[o]] /\ op'[o].entry = op[o].entry
    BY <1>2, <2>1 DEF OpRecord
  <2>3. Chains
    <3>1. Step("op", o) \in WriterSteps /\ Enters(Step("op", o))
      BY DEF WriterSteps, StepKind, Step, Enters, Drains, DrainSteps
    <3> QED BY <1>2, <3>1 DEF Chains, Enqueue
  <2> QED BY <1>1, <1>2, <2>2, <2>3, StageKept, ApartMarks, Still DEF Apart
<1>3. CASE OpFails(o) /\ UNCHANGED writer
  BY <1>1, <1>3, OpFailsSteady, ApartMarks, ManyMoves DEF Chains, Apart
<1> QED
  BY <1>2, <1>3 DEF OpReady

LEMMA SealStart == ASSUME BInv, BInv', SInv, Start PROVE SealStep
<1>1. /\ ~started /\ started' /\ UNCHANGED <<phase, op, live, admitted, readmit, sealed, moving, move>> /\ Chains
      /\ moving = {}
  BY DEF Start, gates, Chains, BInv, MovesOK
<1>2. \A b \in Branch : Lives(b) /\ Marks(b)
  BY <1>1 DEF Lives, Marks
<1>3. \A e \in Entry : entry[e] \in Reserved /\ entry'[e].mode = entry[e].mode
  BY DEF Start, BInv, CoreOK, Reserved
<1>4. ASSUME NEW e \in Used PROVE Steady(e)
  <2> DEFINE r == entry[e]
             s == IF Accepting /\ e \in Initials THEN [r EXCEPT !.setup = "replaying"] ELSE r
  <2>1. entry'[e] = s /\ RecOK(r) /\ r \in Reserved /\ r.setup = "none" /\ r.runtime # "up" /\ e \in Entry
    BY <1>1, OneKnown DEF Start, Used, BInv, ReadyOK
  <2>2. /\ SameWho(r, s) /\ SameWork(r, s) /\ SameEnd(r, s) /\ SameDrain(r, s) /\ s.view = r.view
        /\ s.setup \in {"none", "replaying"}
    BY <2>1 DEF Reserved, SameWho, SameWork, SameEnd, SameDrain
  <2>3. s.setup = "none" => ~Accepting
    <3>1. r.mode = "initial"
      BY <2>1 DEF RecOK
    <3> QED BY <2>1, <3>1 DEF Initials, Reserved
  <2> HIDE DEF s
  <2>4. RecOK(s)
    BY <2>1, <2>2 DEF RecOK, SameWho, SameWork, SameEnd, SameDrain, Prepared, SetupKind
  <2>5. \A d \in Drains : Advances(e, d)
    BY <2>1, <2>2 DEF Advances, SameDrain
  <2>6. OpsOf(e)' = OpsOf(e) /\ (Accepting' <=> Accepting)
    BY <1>1, SameOps DEF Accepting
  <2>7. r.runtime = "none"
    BY <2>1 DEF RecOK
  <2> QED
    BY <1>1, <2>1, <2>2, <2>3, <2>4, <2>5, <2>6, <2>7
       DEF Steady, SameWho, SameWork, SameEnd, SameDrain, Done
<1> QED
  BY <1>1, <1>2, <1>3, <1>4, ManyMoves DEF Accepting

LEMMA SealClose == ASSUME BInv, BInv', SInv, Close PROVE SealStep
<1>1. /\ UNCHANGED <<started, op, live, admitted, readmit, sealed, moving, move>> /\ Chains /\ ~Accepting'
  BY DEF Close, gates, Chains, Accepting
<1>2. \A b \in Branch : Lives(b) /\ Marks(b)
  BY <1>1 DEF Lives, Marks
<1> DEFINE Stops(r) == [r EXCEPT !.shut = TRUE, !.draining = TRUE, !.ready = @ \/ SetupReserved(r)]
<1>3. \A r \in Reserved :
        LET s == Stops(r) IN
        /\ SameWho(r, s) /\ SameSetup(r, s) /\ SameWork(r, s) /\ SameEnd(r, s) /\ s.shut
        /\ s.drain = r.drain /\ s.at = r.at
  BY DEF Reserved, SameWho, SameSetup, SameWork, SameEnd
<1>4. \A e \in Entry : entry[e] \in Reserved /\ entry'[e] \in {entry[e], Stops(entry[e])}
  BY DEF Close, BInv, CoreOK
<1> HIDE DEF Stops
<1>5. \A e \in Entry : entry'[e].mode = entry[e].mode
  BY <1>3, <1>4 DEF SameWho
<1>6. ASSUME NEW e \in Used PROVE Steady(e)
  <2>1. OpsOf(e)' = OpsOf(e) /\ e \in Entry
    BY <1>1, SameOps DEF Used
  <2>2. CASE entry'[e] = Stops(entry[e])
    <3> DEFINE s == Stops(entry[e])
    <3>1. /\ SameWho(entry[e], s) /\ SameSetup(entry[e], s) /\ SameWork(entry[e], s) /\ SameEnd(entry[e], s) /\ s.shut
          /\ s.drain = entry[e].drain /\ s.at = entry[e].at
      BY <1>3, <1>4, <2>1
    <3> HIDE DEF s
    <3> QED BY <1>1, <2>1, <2>2, <3>1, SteadyAlike DEF SameWho, SameEnd, Done, s
  <2> QED BY <1>1, <1>4, <2>1, <2>2, SteadyStill
<1> QED
  BY <1>1, <1>2, <1>5, <1>6, ManyMoves

LEMMA SealCloseSettles == ASSUME BInv, BInv', SInv, CloseSettles PROVE SealStep
<1>1. Apart /\ UNCHANGED op /\ Chains
  BY DEF CloseSettles, Apart, gates, Chains
<1>2. \A e \in Entry : entry[e] \in Reserved /\ entry'[e] \in {entry[e], Asked(entry[e])}
  BY DEF CloseSettles, BInv, CoreOK
<1>3. \A e \in Entry : entry'[e].mode = entry[e].mode
  BY <1>2, AskedFields
<1>4. ASSUME NEW e \in Used PROVE Steady(e)
  <2>1. OpsOf(e)' = OpsOf(e) /\ e \in Entry /\ started' = started
    BY <1>1, SameOps DEF Used, Apart
  <2>2. CASE entry'[e] = Asked(entry[e])
    <3> DEFINE s == Asked(entry[e])
    <3>1. /\ s.branch = entry[e].branch /\ s.mode = entry[e].mode /\ (Done(entry[e]) => Done(s))
          /\ SameSetup(entry[e], s) /\ SameWork(entry[e], s) /\ SameEnd(entry[e], s) /\ SameDrain(entry[e], s)
      BY <1>2, <2>1, AskedFields
    <3> HIDE DEF s
    <3> QED BY <2>1, <2>2, <3>1, SteadyAlike DEF SameEnd, SameDrain, s
  <2> QED BY <1>2, <2>1, <2>2, SteadyStill
<1> QED
  BY <1>1, <1>3, <1>4, ApartMarks, ManyMoves

LEMMA SealFinishAggregate == ASSUME BInv, BInv', SInv, FinishAggregate PROVE SealStep
<1>1. UNCHANGED <<started, op, live, admitted, readmit, sealed, moving, move>> /\ Chains /\ ~Accepting'
  BY DEF FinishAggregate, host, gates, Chains, Accepting
<1>2. \A b \in Branch : Lives(b) /\ Marks(b)
  BY <1>1 DEF Lives, Marks
<1> DEFINE Ended(r) == [r EXCEPT !.settle = "over"]
<1>3. \A r \in Reserved :
        LET s == Ended(r) IN
        /\ SameWho(r, s) /\ SameSetup(r, s) /\ SameWork(r, s) /\ SameDrain(r, s) /\ s.settle = "over" /\ s.outcome = r.outcome
  BY DEF Reserved, SameWho, SameSetup, SameWork, SameDrain
<1>4. \A e \in Entry : /\ entry[e] \in Reserved
                       /\ entry'[e] = entry[e] \/ (entry[e].settle = "aggregate" /\ entry'[e] = Ended(entry[e]))
  BY DEF FinishAggregate, BInv, CoreOK
<1> HIDE DEF Ended
<1>5. \A e \in Entry : entry'[e].mode = entry[e].mode
  BY <1>3, <1>4 DEF SameWho
<1>6. ASSUME NEW e \in Used PROVE Steady(e)
  <2>1. OpsOf(e)' = OpsOf(e) /\ e \in Entry
    BY <1>1, SameOps DEF Used
  <2>2. CASE entry[e].settle = "aggregate" /\ entry'[e] = Ended(entry[e])
    <3> DEFINE r == entry[e]
               s == Ended(r)
    <3>1. /\ SameWho(r, s) /\ SameSetup(r, s) /\ SameWork(r, s) /\ SameDrain(r, s) /\ s.settle = "over"
          /\ s.outcome = r.outcome /\ entry'[e] = s /\ r.settle = "aggregate" /\ RecOK(r)
      BY <1>3, <1>4, <2>1, <2>2, OneKnown
    <3> HIDE DEF s
    <3>2. RecOK(s)
      BY <3>1 DEF RecOK, SameWho, SameSetup, SameWork, SameDrain, Prepared
    <3>3. \A d \in Drains : Advances(e, d)
      BY <3>1 DEF Advances, SameDrain
    <3> QED
      BY <1>1, <2>1, <3>1, <3>2, <3>3 DEF Steady, SameWho, SameSetup, SameWork, SameDrain, Done
  <2> QED BY <1>1, <1>4, <2>1, <2>2, SteadyStill
<1> QED
  BY <1>1, <1>2, <1>5, <1>6, ManyMoves

(* A live reservation is told to drain. *)
LEMMA SteadyStopped ==
  ASSUME BInv, SInv, NEW e \in Used, started, started' = started, UNCHANGED op, live[entry[e].branch] = e,
         entry'[e] = Stopped(entry[e])
  PROVE  Steady(e) /\ entry'[e].mode = entry[e].mode /\ entry'[e].drain # "no"
<1> DEFINE r == entry[e]
           s == Stopped(r)
<1>0. RecOK(r) /\ r \in Reserved
  BY OneKnown
<1>1. CASE r.drain # "no"
  BY <1>1, SameOps, SteadyStill DEF Stopped
<1>2. CASE r.drain = "no"
  <2>0. entry'[e] = s
    OBVIOUS
  <2>1. /\ SameWho(r, s) /\ SameSetup(r, s) /\ SameWork(r, s) /\ SameEnd(r, s)
        /\ s.shut /\ s.drain = "stop"
        /\ \A c \in Drains : s.at[c] = IF c = "stop" THEN "setup" ELSE r.at[c]
    <3> HIDE DEF r
    <3> QED BY <1>0, <1>2, DrainingFields DEF Stopped, Drains
  <2> HIDE DEF r, s
  <2>2. RecOK(s)
    BY <1>0, <1>2, <2>1 DEF RecOK, SameWho, SameSetup, SameWork, SameEnd, Prepared, Early, Drains
  <2>3. r.at["stop"] = "no"
    BY <1>0, <1>2 DEF RecOK, Early, Drains
  <2>4. \A c \in Drains : Advances(e, c)
    BY <1>2, <2>0, <2>1, <2>3 DEF Advances, r
  <2>5. OpsOf(e)' = OpsOf(e)
    BY SameOps
  <2> QED
    BY <1>0, <1>2, <2>0, <2>1, <2>2, <2>4, <2>5 DEF r, Steady, SameWho, SameSetup, SameWork, SameEnd, Done
<1> QED
  BY <1>1, <1>2

LEMMA SealStopAndDrain == ASSUME BInv, BInv', SInv, NEW b \in Branch, StopAndDrain(b) PROVE SealStep
<1> DEFINE e == live[b]
           s == Stopped(entry[e])
<1>1. Apart /\ UNCHANGED op /\ Chains /\ started /\ entry' = [entry EXCEPT ![e] = s]
  BY DEF StopAndDrain, Apart, host, gates, Chains
<1>2. e \in Used /\ entry[e].branch = b /\ live[b] = e
  BY Basics DEF StopAndDrain
<1> HIDE DEF e
<1>3. entry'[e] = s
  BY <1>1, <1>2, OneKnown
<1>4. Steady(e)
  BY <1>1, <1>2, <1>3, SteadyStopped DEF Apart
<1> HIDE DEF s
<1> QED
  BY <1>1, <1>2, <1>4, OneStep

LEMMA SteadyUnloads ==
  ASSUME BInv, SInv, NEW e \in Used, started, started' = started, UNCHANGED op,
         entry[e].drain = "no", entry[e].at["unload"] = "no",
         entry' = [entry EXCEPT ![e].shut = TRUE, ![e].at["unload"] = "ready"]
  PROVE  Steady(e) /\ entry' = [entry EXCEPT ![e] = entry'[e]]
<1> DEFINE r == entry[e]
           s == [[r EXCEPT !.shut = TRUE] EXCEPT !.at["unload"] = "ready"]
<1>1. RecOK(r) /\ r \in Reserved /\ e \in Entry /\ entry \in [Entry -> Reserved]
  BY OneKnown DEF BInv, CoreOK
<1>2. entry' = [entry EXCEPT ![e] = s]
  BY <1>1, ShutAt
<1>3. entry'[e] = s /\ entry' = [entry EXCEPT ![e] = entry'[e]]
  BY <1>1, <1>2
<1>4. /\ SameWho(r, s) /\ SameSetup(r, s) /\ SameWork(r, s) /\ SameEnd(r, s) /\ s.shut /\ s.drain = r.drain
      /\ \A c \in Drains : s.at[c] = IF c = "unload" THEN "ready" ELSE r.at[c]
  BY <1>1 DEF Reserved, SameWho, SameSetup, SameWork, SameEnd
<1> HIDE DEF s
<1>5. RecOK(s)
  BY <1>1, <1>4 DEF RecOK, SameWho, SameSetup, SameWork, SameEnd, Prepared, Early, Drains
<1>6. \A c \in Drains : Advances(e, c)
  BY <1>3, <1>4 DEF Advances
<1>7. OpsOf(e)' = OpsOf(e)
  BY SameOps
<1> QED
  BY <1>3, <1>4, <1>5, <1>6, <1>7 DEF Steady, SameWho, SameSetup, SameWork, SameEnd, Done

LEMMA SealUnload == ASSUME BInv, BInv', SInv, NEW b \in Branch, Unload(b) PROVE SealStep
<1>1. Apart /\ UNCHANGED op /\ Chains
  BY DEF Unload, Apart, host, gates, Chains
<1>2. live[b] \in Used /\ Steady(live[b]) /\ entry' = [entry EXCEPT ![live[b]] = entry'[live[b]]]
  BY <1>1, Basics, SteadyUnloads DEF Unload, Apart
<1> QED
  BY <1>1, <1>2, OneStep

(* A reservation is made. *)
LEMMA SealReserves ==
  ASSUME BInv, BInv', SInv, NEW b \in Branch, NEW mode \in {"dynamic", "readmit"}, Reserve(b, mode), started,
         live[b] = 0, mode = "dynamic" => admitted[b] = "absent" /\ b \notin readmit /\ b \notin sealed,
         UNCHANGED <<phase, started, op, writer, sealed, moving, move>>, readmit \subseteq readmit'
  PROVE  SealStep
<1>1. PICK e \in Entry :
        e \notin Used /\ entry' = [entry EXCEPT ![e] = Reservation(b, mode)] /\ live' = [live EXCEPT ![b] = e]
  BY DEF Reserve
<1>2. entry \in [Entry -> Reserved] /\ live \in [Branch -> Entry \cup {0}]
  BY DEF BInv, CoreOK
<1>3. \A f \in Entry : f # e => entry'[f] = entry[f]
  BY <1>1, <1>2
<1>4. \A f \in Used : f \in Used' /\ Steady(f)
  BY <1>1, <1>3, SameOps, SteadyStill DEF Used
<1>5. Reservation(b, mode).mode = mode
  BY DEF Reservation
<1>6. Used' \ Used = {e}
  BY <1>1, <1>2, <1>3, <1>5 DEF Used
<1>7. Newly(e)
  BY <1>1, <1>2 DEF Newly
<1>8. \A c \in Branch : Lives(c)
  BY <1>1, <1>2, <1>6 DEF Lives
<1>9. \A c \in Branch : admitted'[c] = "absent" => admitted[c] = "absent"
  BY DEF Reserve, BInv, CoreOK
<1>10. \A c \in Branch : Marks(c)
  BY <1>9, SameMarks
<1> QED
  BY <1>4, <1>6, <1>7, <1>8, <1>10 DEF SealStep, Chains, Accepting

LEMMA SealStartBranch == ASSUME BInv, BInv', SInv, NEW b \in Branch, StartBranch(b) PROVE SealStep
<1> DEFINE mode == IF b \in readmit THEN "readmit" ELSE "dynamic"
<1>1. /\ Reserve(b, mode) /\ started /\ admitted[b] = "absent" /\ (mode = "dynamic" => b \notin readmit /\ b \notin sealed)
      /\ UNCHANGED <<phase, started, op, writer, sealed, moving, move, readmit>>
  BY DEF StartBranch, host
<1>2. live[b] = 0
  BY <1>1 DEF BInv, LiveOK
<1>3. mode \in {"dynamic", "readmit"}
  OBVIOUS
<1> HIDE DEF mode
<1> QED
  BY <1>1, <1>2, <1>3, SealReserves

LEMMA SealReconsider == ASSUME BInv, BInv', SInv, NEW b \in Branch, Reconsider(b) PROVE SealStep
<1>1. UNCHANGED <<phase, started, op, writer, sealed, moving, move>> /\ admitted[b] = "claimed"
  BY DEF Reconsider, host
<1>2. started /\ live[b] = 0
  BY <1>1 DEF BInv, ReadyOK, LiveOK
<1>3. CASE UNCHANGED <<live, entry, readmit>> /\ admitted' = [admitted EXCEPT ![b] = "failed"]
  <2>1. \A c \in Branch : admitted'[c] = "absent" => admitted[c] = "absent"
    BY <1>3 DEF BInv, CoreOK
  <2>2. \A c \in Branch : Lives(c) /\ Marks(c)
    BY <1>1, <1>3, <2>1, SameMarks DEF Lives
  <2> QED BY <1>1, <1>3, <2>2, SameOps, Still DEF Chains, Accepting
<1>4. CASE UNCHANGED <<live, entry>> /\ readmit' = readmit \cup {b} /\ admitted' = [admitted EXCEPT ![b] = "absent"]
  <2>1. \A c \in Branch : admitted'[c] = "absent" /\ c \notin readmit' => admitted[c] = "absent" /\ c \notin readmit
    BY <1>4 DEF BInv, CoreOK
  <2>2. \A c \in Branch : Lives(c) /\ Marks(c)
    BY <1>1, <1>4, <2>1, SameMarks DEF Lives
  <2> QED BY <1>1, <1>4, <2>2, SameOps, Still DEF Chains, Accepting
<1>5. CASE readmit' = readmit \cup {b} /\ Reserve(b, "readmit")
  BY <1>1, <1>2, <1>5, SealReserves
<1> QED
  BY <1>3, <1>4, <1>5 DEF Reconsider

-----------------------------------------------------------------------------
(* The writer chain. *)

LEMMA TakesStep ==
  ASSUME BInv, SInv, NEW kind, Takes(kind)
  PROVE  /\ Chains /\ Timely(First) /\ writer # <<>> /\ First.kind = kind
         /\ First = Step(kind, First.who) /\ Taken(Step(kind, First.who))
         /\ kind \in DrainSteps => started /\ Halted(First)
<1>1. writer # <<>> /\ First.kind = kind /\ writer' = Tail(writer) /\ Timely(First) /\ First \in WriterSteps
  BY FrontOf, FrontStep
<1>2. First = Step(kind, First.who)
  BY <1>1 DEF WriterSteps, Step
<1>3. First \in Steps(writer)
  BY <1>1, TailSteps DEF BInv, QueueOK, First
<1> QED
  BY <1>1, <1>2, <1>3 DEF Chains, Taken, SInv, ChainOK

(* A step of the chain that seals the branch of its reservation. *)
LEMMA MarksSealed ==
  ASSUME BInv, SInv, NEW b \in Branch, UNCHANGED <<admitted, readmit, moving, move>>, sealed' \subseteq sealed \cup {b},
         b \in sealed' => writer # <<>> /\ First.kind \in Drains \cup {"reseal"} /\ First.who \in Used /\ entry[First.who].branch = b
                          /\ started
  PROVE  \A c \in Branch : Marks(c)
BY DEF Marks, Seals, Fresh

LEMMA SteadySealed ==
  ASSUME BInv, SInv, NEW e \in Used, NEW d \in Drains, UNCHANGED <<started, op>>,
         entry' = [entry EXCEPT ![e] = [Asked(@) EXCEPT !.at[d] = "dispose"]],
         entry[e].at[d] = "seal", Taken(Step(d, e))
  PROVE  Steady(e) /\ entry' = [entry EXCEPT ![e] = entry'[e]]
<1> DEFINE r == entry[e]
           t == Asked(r)
           s == [t EXCEPT !.at[d] = "dispose"]
<1>1. r \in Reserved /\ RecOK(r)
  BY OneKnown
<1>2. entry'[e] = s /\ entry' = [entry EXCEPT ![e] = entry'[e]]
  BY OneKnown
<1>3. t \in Reserved /\ t.branch = r.branch /\ t.mode = r.mode /\ (Done(r) => Done(t))
      /\ SameSetup(r, t) /\ SameWork(r, t) /\ SameEnd(r, t) /\ SameDrain(r, t)
  BY <1>1, AskedFields, AskedTwin DEF Twin, Kin
<1> HIDE DEF t
<1>4. /\ SameWho(t, s) /\ SameSetup(t, s) /\ SameWork(t, s) /\ SameEnd(t, s) /\ s.shut = t.shut /\ s.drain = t.drain
      /\ \A c \in Drains : s.at[c] = IF c = d THEN "dispose" ELSE t.at[c]
  BY <1>3 DEF Reserved, SameWho, SameSetup, SameWork, SameEnd
<1> HIDE DEF s
<1>5. /\ s.branch = r.branch /\ s.mode = r.mode /\ (Done(r) => Done(s)) /\ SameSetup(r, s) /\ SameWork(r, s)
      /\ SameEnd(r, s) /\ s.shut = r.shut /\ s.drain = r.drain
      /\ \A c \in Drains : s.at[c] = IF c = d THEN "dispose" ELSE r.at[c]
  BY <1>3, <1>4 DEF SameWho, SameSetup, SameWork, SameEnd, SameDrain, Done
<1>6. RecOK(s)
  <2>1. r.drain # "no" /\ r.at[d] = "seal"
    BY <1>1 DEF RecOK, Early
  <2>2. (s.at["unload"] # "no" => s.shut) /\ s.at["stop"] \notin {"ready", "check"}
    BY <1>1, <1>5, <2>1 DEF RecOK, Drains
  <2> QED BY <1>1, <1>5, <2>1, <2>2 DEF RecOK, SameSetup, SameWork, SameEnd, Prepared
<1>7. ASSUME NEW c \in Drains PROVE Advances(e, c)
  <2>1. CASE c = d
    BY <1>2, <1>5, <2>1 DEF Advances, Sealing
  <2>2. CASE c # d
    BY <1>2, <1>5, <2>2 DEF Advances
  <2> QED BY <2>1, <2>2
<1>8. OpsOf(e)' = OpsOf(e)
  BY SameOps
<1> QED
  BY <1>2, <1>5, <1>6, <1>7, <1>8 DEF Steady, SameSetup, SameWork, SameEnd

LEMMA SealDrainSeals == ASSUME BInv, BInv', SInv, DrainSeals PROVE SealStep
<1>1. PICK d \in Drains :
        /\ Takes(d) /\ sealed' = sealed \cup {entry[First.who].branch}
        /\ entry' = [entry EXCEPT ![First.who] = [Asked(@) EXCEPT !.at[d] = "dispose"]]
  BY DEF DrainSeals
<1>2. UNCHANGED <<phase, started, live, admitted, readmit, moving, op, move>>
  BY DEF DrainSeals, host
<1> DEFINE e == First.who
<1>3. /\ Chains /\ writer # <<>> /\ First.kind = d /\ Taken(Step(d, e)) /\ e \in Used /\ started /\ entry[e].at[d] = "seal"
  BY <1>1, TakesStep DEF DrainSteps, Halted, ItsDrain, AtStep
<1>4. \A c \in Branch : Lives(c) /\ Marks(c)
  BY <1>1, <1>2, <1>3, Basics, MarksSealed DEF Lives
<1>5. Steady(e) /\ entry' = [entry EXCEPT ![e] = entry'[e]]
  BY <1>1, <1>2, <1>3, SteadySealed
<1> HIDE DEF e
<1> QED
  BY <1>2, <1>3, <1>4, <1>5, OneMoves DEF Accepting

LEMMA SealUnloadUnseals == ASSUME BInv, BInv', SInv, UnloadUnseals PROVE SealStep
<1> DEFINE e == First.who
           b == entry[e].branch
<1>1. Takes("unseal") /\ UNCHANGED <<started, op, moving, move>> /\ sealed' = sealed \ {b} /\ DrainOver(e, "unload")
  BY DEF UnloadUnseals, host
<1>2. /\ Chains /\ Taken(Step("unseal", e)) /\ e \in Used /\ entry[e].at["unload"] = "unseal" /\ "unload" \in Drains
  BY <1>1, TakesStep DEF DrainSteps, Halted, ItsDrain, AtStep, Drains
<1> HIDE DEF e
<1>3. /\ \A c \in Branch : Lives(c)
      /\ \A c \in Branch : admitted'[c] = "absent" /\ c \notin readmit' => admitted[c] = "absent" /\ c \notin readmit
      /\ DrainGoes(e, "unload", entry'[e]) /\ Advances(e, "unload") /\ entry' = [entry EXCEPT ![e] = entry'[e]]
      /\ Accepting' => Accepting
  BY <1>1, <1>2, DrainOverMoves
<1>4. \A c \in Branch : Marks(c)
  BY <1>1, <1>3 DEF Marks
<1>5. Steady(e)
  BY <1>1, <1>2, <1>3, SteadyDrains
<1> QED
  BY <1>1, <1>2, <1>3, <1>4, <1>5, OneMoves

LEMMA SealReseal == ASSUME BInv, BInv', SInv, Reseal PROVE SealStep
<1> DEFINE e == First.who
           r == entry[e]
           s == IF Runnable(e) THEN [r EXCEPT !.setup = "replaying"] ELSE Leaves(r)
<1>1. /\ Takes("reseal") /\ sealed' = sealed \cup {r.branch} /\ entry' = [entry EXCEPT ![e] = s]
      /\ UNCHANGED <<phase, started, live, admitted, readmit, moving, op, move>>
  BY DEF Reseal, host
<1>2. Chains /\ writer # <<>> /\ First.kind = "reseal" /\ e \in Used /\ r.setup = "reseal"
  BY <1>1, TakesStep DEF Timely, SetupKind
<1>3. r \in Reserved /\ RecOK(r) /\ r.branch \in Branch /\ started
  BY <1>2, OneKnown, Basics DEF BInv, ReadyOK
<1>4. \A c \in Branch : Lives(c) /\ Marks(c)
  BY <1>1, <1>2, <1>3, MarksSealed DEF Lives
<1> HIDE DEF r, e
<1>5. GoesOn(r, s)
  <2>1. GoesOn(r, [r EXCEPT !.setup = "replaying"])
    BY <1>3 DEF GoesOn, Reserved, SameWho, SameWork, SameEnd, SetupKind
  <2>2. GoesOn(r, Leaves(r))
    BY <1>3, LeavesFields DEF GoesOn, SameDrain, SetupKind
  <2> QED BY <2>1, <2>2
<1> HIDE DEF s
<1>6. Steady(e)
  BY <1>1, <1>2, <1>5, SteadySetup DEF Prepared, r
<1> QED
  BY <1>1, <1>2, <1>4, <1>6, OneMoves DEF Accepting

LEMMA SealActivate == ASSUME BInv, BInv', SInv, Activate PROVE SealStep
<1> DEFINE e == First.who
           r == entry[e]
<1>1. Takes("activate") /\ UNCHANGED <<phase, started, live, admitted, moving, op, move>>
  BY DEF Activate, host
<1>2. Chains /\ Taken(Step("activate", e)) /\ e \in Used /\ r.setup = "activate" /\ ~Prepared(r)
  BY <1>1, TakesStep DEF Timely, SetupKind, Prepared
<1>3. r \in Reserved /\ RecOK(r) /\ r.branch \in Branch /\ started
  BY <1>2, OneKnown, Basics DEF BInv, ReadyOK
<1>4. CASE entry' = [entry EXCEPT ![e] = Leaves(@)] /\ UNCHANGED <<readmit, sealed>>
  <2>1. GoesOn(r, Leaves(r))
    <3> HIDE DEF r
    <3> QED BY <1>3, LeavesFields DEF GoesOn, SameDrain, SetupKind
  <2> HIDE DEF e
  <2> QED BY <1>1, <1>2, <1>4, <2>1, SetupStep DEF Apart
<1>5. CASE entry' = [entry EXCEPT ![e] = GivesUp(@, TRUE)] /\ UNCHANGED <<readmit, sealed>>
  <2>1. GoesOn(r, GivesUp(r, TRUE))
    <3> HIDE DEF r
    <3> QED BY <1>3, GivesUpFields DEF GoesOn, SetupKind
  <2> HIDE DEF e
  <2> QED BY <1>1, <1>2, <1>5, <2>1, SetupStep DEF Apart
<1>6. CASE /\ Runnable(e) /\ entry' = [entry EXCEPT ![e] = Runs(@)]
           /\ readmit' = readmit \ {r.branch} /\ sealed' = sealed \ {r.branch}
  <2>1. Starts(e)
    BY <1>2, <1>3, <1>6 DEF Starts, Runnable
  <2>2. Steady(e)
    <3> HIDE DEF e
    <3> QED BY <1>1, <1>2, <1>6, <2>1, SteadyRuns
  <2>3. live[r.branch] = e /\ admitted[r.branch] # "absent"
    <3>1. live[r.branch] = e /\ e # 0
      BY <1>2, <1>6, Basics DEF Runnable
    <3> QED BY <1>3, <3>1 DEF BInv, LiveOK
  <2>4. \A c \in Branch : Lives(c) /\ Marks(c)
    BY <1>1, <1>3, <1>6, <2>3 DEF Lives, Marks
  <2> HIDE DEF e
  <2> QED BY <1>1, <1>2, <1>6, <2>2, <2>4, OneMoves DEF Accepting
<1> QED
  BY <1>2, <1>4, <1>5, <1>6 DEF Activate

(* A branch is found idle, and its unloading goes on, or it is not.          *)
LEMMA SteadyUnloading ==
  ASSUME BInv, SInv, NEW e \in Used, NEW s, entry' = [entry EXCEPT ![e] = s], UNCHANGED <<started, op>>, started,
         entry[e].at["unload"] = "check", Taken(Step("idle", e)),
         SameWho(entry[e], s), SameSetup(entry[e], s), SameWork(entry[e], s), SameEnd(entry[e], s),
         s.at["stop"] = entry[e].at["stop"],
         \/ s.at["unload"] = "no" /\ s.drain = entry[e].drain
         \/ s.at["unload"] = "setup" /\ s.drain = "unload" /\ s.shut /\ live[entry[e].branch] = e
  PROVE  Steady(e)
<1>1. entry'[e] = s /\ RecOK(entry[e])
  BY OneKnown
<1>2. entry[e].shut
  BY <1>1 DEF RecOK
<1>3. RecOK(s)
  <2>1. \A d \in Drains : s.at[d] \notin Early => s.drain # "no"
    BY <1>1 DEF RecOK, Drains, Early
  <2> QED BY <1>1, <2>1 DEF RecOK, SameWho, SameSetup, SameWork, SameEnd, Prepared
<1>4. \A d \in Drains : Advances(e, d)
  BY <1>1 DEF Advances, Drains
<1>5. OpsOf(e)' = OpsOf(e)
  BY SameOps
<1> QED
  BY <1>1, <1>3, <1>4, <1>5 DEF Steady, SameWho, SameSetup, SameWork, SameEnd, Done

LEMMA SealUnloadChecks == ASSUME BInv, BInv', SInv, UnloadChecks PROVE SealStep
<1> DEFINE e == First.who
           r == entry[e]
<1>1. Takes("idle") /\ UNCHANGED op /\ Apart
  BY DEF UnloadChecks, Apart, host, gates
<1>2. Chains /\ Taken(Step("idle", e)) /\ e \in Used /\ r.at["unload"] = "check" /\ started
  BY <1>1, TakesStep DEF DrainSteps, Halted, ItsDrain, AtStep, Drains
<1>3. r \in Reserved /\ RecOK(r) /\ e \in Entry /\ entry \in [Entry -> Reserved]
  BY <1>2, OneKnown DEF BInv, CoreOK
<1>4. \/ entry' = [entry EXCEPT ![e].shut = FALSE, ![e].at["unload"] = "no"]
      \/ live[r.branch] = e /\ entry' = [entry EXCEPT ![e] = [Draining(r, "unload") EXCEPT !.draining = TRUE, !.shut = r.shut]]
  BY DEF UnloadChecks
<1> HIDE DEF e
<1>5. CASE entry' = [entry EXCEPT ![e].shut = FALSE, ![e].at["unload"] = "no"]
  <2> DEFINE s == [[r EXCEPT !.shut = FALSE] EXCEPT !.at["unload"] = "no"]
  <2>1. entry' = [entry EXCEPT ![e] = s]
    BY <1>3, <1>5, ShutAt
  <2>2. /\ SameWho(r, s) /\ SameSetup(r, s) /\ SameWork(r, s) /\ SameEnd(r, s) /\ s.drain = r.drain
        /\ s.at["unload"] = "no" /\ s.at["stop"] = r.at["stop"]
    BY <1>3 DEF Reserved, SameWho, SameSetup, SameWork, SameEnd, Drains
  <2> HIDE DEF s
  <2>3. Steady(e)
    BY <1>1, <1>2, <2>1, <2>2, SteadyUnloading DEF Apart
  <2> QED BY <1>1, <1>2, <2>1, <2>3, OneStep
<1>6. CASE live[r.branch] = e /\ entry' = [entry EXCEPT ![e] = [Draining(r, "unload") EXCEPT !.draining = TRUE, !.shut = r.shut]]
  <2> DEFINE t == Draining(r, "unload")
             s == [t EXCEPT !.draining = TRUE, !.shut = r.shut]
  <2>1. entry' = [entry EXCEPT ![e] = s]
    BY <1>6
  <2>2. r.shut /\ "unload" \in Drains
    BY <1>2, <1>3 DEF RecOK, Drains
  <2> HIDE DEF r
  <2>3. t \in Reserved /\ SameWho(r, t) /\ SameSetup(r, t) /\ SameWork(r, t) /\ SameEnd(r, t) /\ t.drain = "unload"
        /\ \A c \in Drains : t.at[c] = IF c = "unload" THEN "setup" ELSE r.at[c]
    BY <1>3, <2>2, DrainingFields, DrainingTwin DEF Twin, Kin
  <2> HIDE DEF t
  <2>4. /\ SameWho(t, s) /\ SameSetup(t, s) /\ SameWork(t, s) /\ SameEnd(t, s) /\ s.drain = t.drain /\ s.at = t.at /\ s.shut = r.shut
    BY <2>3 DEF Reserved, SameWho, SameSetup, SameWork, SameEnd
  <2> HIDE DEF s
  <2>5. SameWho(r, s) /\ SameSetup(r, s) /\ SameWork(r, s) /\ SameEnd(r, s)
    BY <2>3, <2>4 DEF SameWho, SameSetup, SameWork, SameEnd
  <2>6. s.at["stop"] = r.at["stop"] /\ s.at["unload"] = "setup" /\ s.drain = "unload" /\ s.shut
    BY <2>2, <2>3, <2>4 DEF Drains
  <2>7. Steady(e)
    BY <1>1, <1>2, <1>6, <2>1, <2>5, <2>6, SteadyUnloading DEF Apart, r
  <2> QED BY <1>1, <1>2, <2>1, <2>7, OneStep
<1> QED
  BY <1>4, <1>5, <1>6

LEMMA SealOpRuns == ASSUME BInv, BInv', SInv, OpRuns PROVE SealStep
<1> DEFINE o == First.who
<1>1. Takes("op") /\ Apart
  BY DEF OpRuns, Apart, host
<1>2. Chains /\ o \in Op
  BY <1>1, TakesStep DEF Timely
<1>3. \/ OpFails(o)
      \/ op' = [op EXCEPT ![o].stage = "over"] /\ \A e \in Entry : entry'[e] \in {entry[e], Missed(entry[e])}
  BY DEF OpRuns
<1> HIDE DEF o
<1>4. op \in [Op -> OpRecord]
  BY DEF BInv, RestOK
<1>5. \A e : OpsOf(e)' \subseteq OpsOf(e)
  <2>1. \A p \in Op : p # o => op'[p] = op[p]
    BY <1>2, <1>3, <1>4 DEF OpFails
  <2>2. op'[o].stage = "over"
    BY <1>2, <1>3, <1>4 DEF OpFails, OpRecord
  <2> QED BY <2>1, <2>2 DEF OpsOf, Pending
<1>6. \A e \in Entry : entry[e] \in Reserved /\ entry'[e] \in {entry[e], Rejected(entry[e]), Missed(entry[e])}
  BY <1>3 DEF OpFails, BInv, CoreOK
<1>7. \A e \in Entry : entry'[e].mode = entry[e].mode
  BY <1>6, RejectedFields, MissedFields DEF SameWho
<1>8. ASSUME NEW e \in Used PROVE Steady(e)
  <2>1. started' = started /\ OpsOf(e)' \subseteq OpsOf(e) /\ e \in Entry
    BY <1>1, <1>5 DEF Apart, Used
  <2>2. CASE entry'[e] = Rejected(entry[e])
    <3> DEFINE s == Rejected(entry[e])
    <3>1. /\ SameWho(entry[e], s) /\ SameSetup(entry[e], s) /\ SameWork(entry[e], s) /\ SameDrain(entry[e], s)
          /\ s.settle = entry[e].settle /\ (entry[e].outcome # "none" => s.outcome # "none")
      BY <1>6, <2>1, RejectedFields
    <3> HIDE DEF s
    <3> QED BY <2>1, <2>2, <3>1, SteadyAlike DEF SameWho, SameDrain, Done, s
  <2>3. CASE entry'[e] = Missed(entry[e])
    <3> DEFINE r == entry[e]
               s == Missed(r)
    <3>1. /\ SameWho(r, s) /\ SameWork(r, s) /\ SameEnd(r, s) /\ SameDrain(r, s) /\ RecOK(r)
          /\ s.setup = r.setup /\ (s.view = "none" <=> r.view = "none")
      BY <1>6, <2>1, MissedFields, OneKnown
    <3> HIDE DEF s
    <3>2. entry'[e] = s
      BY <2>3 DEF s
    <3>3. RecOK(s)
      BY <3>1 DEF RecOK, SameWho, SameWork, SameEnd, SameDrain, Prepared
    <3>4. \A d \in Drains : Advances(e, d)
      BY <3>1, <3>2 DEF Advances, SameDrain
    <3> QED BY <2>1, <3>1, <3>2, <3>3, <3>4 DEF Steady, SameWho, SameWork, SameEnd, SameDrain, Done
  <2> QED BY <1>6, <2>1, <2>2, <2>3, SteadyStill
<1> QED
  BY <1>1, <1>2, <1>7, <1>8, ApartMarks, ManyMoves

LEMMA SealMoveSeals == ASSUME BInv, BInv', SInv, MoveSeals PROVE SealStep
<1> DEFINE subtree == Subtree(move.branch)
           stopped == {live[b] : b \in {c \in subtree : live[c] # 0}}
<1>1. /\ writer # <<>> /\ First.kind = "moveSeal" /\ move.stage = "sealing" /\ moving = {}
      /\ sealed' = sealed \cup subtree /\ moving' = moving \cup subtree
      /\ UNCHANGED <<phase, started, live, admitted, readmit, op>>
  BY FrontStep DEF MoveSeals, Timely, host, BInv, MovesOK
<1>2. move'.kept = subtree \cap sealed
  BY DEF MoveSeals, BInv, CoreOK, MoveRecord
<1>3. \/ /\ started /\ Accepting /\ writer' = Tail(writer)
         /\ entry' = [e \in Entry |-> IF e \in stopped THEN Stopped(entry[e]) ELSE entry[e]]
      \/ /\ ~(started /\ stopped # {} /\ Accepting) /\ UNCHANGED entry
         /\ \E k \in {"moveEnd", "moveHead"} : writer' = Append(Tail(writer), Step(k, 0))
  BY DEF MoveSeals
<1>4. subtree \subseteq Branch
  BY DEF Subtree, BInv, CoreOK
<1>5. \A b \in subtree : live[b] # 0 => live[b] \in stopped
  OBVIOUS
<1>6. \A e \in stopped : e \in Used /\ live[entry[e].branch] = e
  BY <1>4, Basics
<1> HIDE DEF subtree, stopped
<1>7. Chains
  <2>1. \A k \in {"moveHead", "moveEnd"} : Step(k, 0) \in WriterSteps /\ Enters(Step(k, 0))
    BY DEF WriterSteps, StepKind, MoveKind, Step, Enters, Drains, DrainSteps
  <2>2. First.kind \notin DrainSteps
    BY <1>1 DEF DrainSteps, Drains
  <2> QED BY <1>1, <1>3, <2>1, <2>2 DEF Chains
<1>8. ASSUME NEW e \in Used PROVE Steady(e) /\ entry'[e].mode = entry[e].mode /\ (started /\ Accepting /\ e \in stopped => entry'[e].drain # "no")
  <2>1. CASE started /\ Accepting /\ e \in stopped
    <3>1. entry'[e] = Stopped(entry[e])
      BY <1>3, <2>1 DEF Used
    <3> QED BY <1>1, <1>6, <2>1, <3>1, SteadyStopped
  <2>2. CASE ~(started /\ Accepting /\ e \in stopped)
    <3>1. entry'[e] = entry[e] /\ started' = started
      BY <1>1, <1>3, <2>2 DEF Used
    <3>2. OpsOf(e)' = OpsOf(e)
      BY <1>1, SameOps
    <3> QED BY <2>2, <3>1, <3>2, SteadyStill
  <2> QED BY <2>1, <2>2
<1>9. \A e \in Entry : entry'[e].mode = entry[e].mode
  <2>1. ASSUME NEW e \in Entry \ Used PROVE entry'[e] = entry[e]
    BY <1>3, <1>6
  <2> QED BY <1>8, <2>1
<1>10. ASSUME NEW b \in Branch PROVE Lives(b) /\ Marks(b)
  <2>1. ASSUME b \in subtree, started, Accepting', live[b] # 0 PROVE entry'[live[b]].drain # "no"
    <3>1. Accepting /\ live[b] \in stopped /\ live[b] \in Used
      BY <1>1, <1>5, <1>6, <2>1 DEF Accepting
    <3> QED BY <1>8, <2>1, <3>1
  <2> QED BY <1>1, <1>2, <2>1 DEF Lives, Marks, Seals
<1> QED
  BY <1>1, <1>7, <1>8, <1>9, <1>10, ManyMoves DEF Accepting

LEMMA SealMoveHead == ASSUME BInv, BInv', SInv, MoveHead PROVE SealStep
<1>1. /\ writer # <<>> /\ First.kind = "moveHead" /\ writer' = Append(Tail(writer), Step("moveEnd", 0))
      /\ UNCHANGED <<phase, started, live, admitted, readmit, sealed, moving, op>>
  BY DEF MoveHead, host, gates
<1>2. move'.kept = move.kept
  BY DEF MoveHead, BInv, CoreOK, MoveRecord
<1>3. Chains
  <2>1. Step("moveEnd", 0) \in WriterSteps /\ Enters(Step("moveEnd", 0))
    BY DEF WriterSteps, StepKind, MoveKind, Step, Enters, Drains, DrainSteps
  <2>2. First.kind \notin DrainSteps
    BY <1>1 DEF DrainSteps, Drains
  <2> QED BY <1>1, <2>1, <2>2 DEF Chains
<1>4. \A b \in Branch : Lives(b) /\ Marks(b)
  BY <1>1, <1>2 DEF Lives, Marks
<1> DEFINE Behind(r) == [r EXCEPT !.view = "behind"]
<1>5. \A r \in Reserved :
        LET s == Behind(r) IN
        /\ SameWho(r, s) /\ SameWork(r, s) /\ SameEnd(r, s) /\ SameDrain(r, s) /\ s.setup = r.setup /\ s.view = "behind"
  BY DEF Reserved, SameWho, SameWork, SameEnd, SameDrain
<1>6. \A e \in Entry : /\ entry[e] \in Reserved
                       /\ entry'[e] = entry[e] \/ (entry[e].view = "current" /\ entry'[e] = Behind(entry[e]))
  BY DEF MoveHead, BInv, CoreOK
<1> HIDE DEF Behind
<1>7. \A e \in Entry : entry'[e].mode = entry[e].mode
  BY <1>5, <1>6 DEF SameWho
<1>8. ASSUME NEW e \in Used PROVE Steady(e)
  <2>1. started' = started /\ OpsOf(e)' = OpsOf(e) /\ e \in Entry
    BY <1>1, SameOps DEF Used
  <2>2. CASE entry[e].view = "current" /\ entry'[e] = Behind(entry[e])
    <3> DEFINE r == entry[e]
               s == Behind(r)
    <3>1. /\ SameWho(r, s) /\ SameWork(r, s) /\ SameEnd(r, s) /\ SameDrain(r, s) /\ RecOK(r)
          /\ s.setup = r.setup /\ s.view = "behind" /\ entry'[e] = s /\ r.view = "current"
      BY <1>5, <1>6, <2>1, <2>2, OneKnown
    <3> HIDE DEF s
    <3>2. RecOK(s)
      BY <3>1 DEF RecOK, SameWho, SameWork, SameEnd, SameDrain, Prepared
    <3>3. \A d \in Drains : Advances(e, d)
      BY <3>1 DEF Advances, SameDrain
    <3> QED BY <2>1, <3>1, <3>2, <3>3 DEF Steady, SameWho, SameWork, SameEnd, SameDrain, Done
  <2> QED BY <1>6, <2>1, <2>2, SteadyStill
<1> QED
  BY <1>1, <1>3, <1>4, <1>7, <1>8, ManyMoves DEF Accepting

LEMMA SealMoveEnds == ASSUME BInv, BInv', SInv, MoveEnds PROVE SealStep
<1>1. /\ Takes("moveEnd") /\ UNCHANGED <<phase, started, live, admitted, readmit, entry, op>>
      /\ moving' = moving \ move.affected /\ sealed' = sealed \ (move.affected \ move.kept) /\ move' = IdleMove
  BY DEF MoveEnds, host
<1>2. move.stage = "ending" /\ Chains
  BY <1>1, TakesStep DEF Timely
<1>3. moving = move.affected /\ move'.kept = {}
  BY <1>1, <1>2 DEF BInv, MovesOK, IdleMove
<1>4. \A b \in Branch : Lives(b) /\ Marks(b)
  BY <1>1, <1>3 DEF Lives, Marks
<1> QED
  BY <1>1, <1>2, <1>4, SameOps, Still DEF Accepting

-----------------------------------------------------------------------------
LEMMA SealContinue == ASSUME BInv, BInv', SInv, NEW e \in Used, Continue(e) PROVE SealStep
BY SealPassBarrier, SealSnapshot, SealReplayed, SealTakeTurn, SealBuilt, SealSetupReturns, SealRunReturns, SealSettleOps,
   SealDispose, SealSettled, SealUnloadReady, SealDrainsSetup, SealDrainsOps, SealDrainsRuntime, SealDrainsRun DEF Continue

LEMMA SealHostCalls == ASSUME BInv, BInv', SInv, HostCalls PROVE SealStep
BY SealStart, SealAcquireHold, SealReleaseHold, SealClose, SealStopAndDrain, SealUnload, SealStartBranch, SealClaimFailed,
   SealMove, SealRespond, SealFork DEF HostCalls

LEMMA SealWriterStep == ASSUME BInv, BInv', SInv, WriterStep PROVE SealStep
BY SealDrainSeals, SealUnloadUnseals, SealReseal, SealActivate, SealUnloadChecks, SealOpRuns, SealMoveSeals, SealMoveHead,
   SealMoveEnds DEF WriterStep

LEMMA NextSealStep == ASSUME BInv, BInv', SInv, [Next]_vars PROVE SealStep
<1>1. CASE UNCHANGED vars
  <2>1. Apart /\ UNCHANGED <<entry, op>> /\ Chains
    BY <1>1 DEF vars, host, gates, Apart, Chains
  <2> QED BY <2>1, SameOps, ApartMarks, Still DEF Apart
<1>2. CASE HostCalls \/ WriterStep
  BY <1>2, SealHostCalls, SealWriterStep
<1>3. CASE MoveDrained \/ FinishAggregate \/ CloseSettles \/ Closed
  BY <1>3, SealMoveDrained, SealFinishAggregate, SealCloseSettles, SealClosed
<1>4. CASE \E b \in Branch : Reconsider(b)
  BY <1>4, SealReconsider
<1>5. CASE \E o \in Op : OpLooks(o) \/ OpReady(o)
  BY <1>5, SealOpLooks, SealOpReady
<1>6. ASSUME NEW e \in Used, RunEnds(e) \/ Continue(e) PROVE SealStep
  BY <1>6, SealRunEnds, SealContinue
<1> QED
  BY <1>1, <1>2, <1>3, <1>4, <1>5, <1>6 DEF Next

(* At first there is one reservation for every branch launched, and nothing *)
(* is sealed.                                                               *)
LEMMA InitSInv == Init => SInv
<1> SUFFICES ASSUME Init PROVE SInv
  OBVIOUS
<1>1. BInv
  BY InitBInv
<1> DEFINE first(e) == IF e <= Len(Launch) THEN Reservation(Launch[e], "initial") ELSE Reservation(Launch[1], "unused")
<1>2. \A e \in Entry : entry[e] = first(e)
  BY DEF Init
<1>3. ASSUME NEW e \in Used
      PROVE  LET r == entry[e] IN
             /\ RecOK(r) /\ r.drain = "no" /\ r.runtime = "none" /\ (\A d \in Drains : r.at[d] = "no") /\ r.outcome = "none"
             /\ e \in 1 .. Len(Launch) /\ r.branch = Launch[e]
  <2>1. e \in Entry /\ e \in Nat /\ e # 0 /\ Len(Launch) \in Nat
    BY LenProperties, BranchesAssumption DEF Used
  <2>2. e <= Len(Launch)
    <3> SUFFICES ASSUME ~(e <= Len(Launch)) PROVE FALSE
      OBVIOUS
    <3>1. entry[e] = Reservation(Launch[1], "unused")
      BY <1>2, <2>1
    <3> QED BY <3>1 DEF Used, Reservation
  <2>3. entry[e] = Reservation(Launch[e], "initial")
    BY <1>2, <2>1, <2>2
  <2> QED BY <2>1, <2>2, <2>3 DEF Reservation, RecOK, Early, SetupKind, Drains
<1>4. RecsOK
  BY <1>3 DEF RecsOK, Init, IdleMove
<1>5. \A e \in Used : live[entry[e].branch] = e
  <2> SUFFICES ASSUME NEW e \in Used PROVE live[entry[e].branch] = e
    OBVIOUS
  <2> DEFINE b == entry[e].branch
  <2>1. e \in 1 .. Len(Launch) /\ b = Launch[e] /\ b \in Branch
    BY <1>1, <1>3, Basics
  <2> HIDE DEF b
  <2>2. live[b] = CHOOSE i \in 1 .. Len(Launch) : Launch[i] = b
    BY <2>1 DEF Init, Launched
  <2>3. \A i \in 1 .. Len(Launch) : Launch[i] = b => i = e
    BY <2>1, BranchesAssumption
  <2>4. live[b] \in 1 .. Len(Launch) /\ Launch[live[b]] = b
    BY <2>1, <2>2
  <2> QED BY <2>3, <2>4 DEF b
<1>6. GoneOK
  <2>1. \A e \in Used : ~Gone(e) /\ \A d \in Drains : entry[e].at[d] = "no"
    BY <1>3, <1>5 DEF Gone
  <2> QED BY <2>1, Zenon DEF GoneOK, Early, Sealing
<1>7. ChainOK
  BY DEF Init, ChainOK, Steps
<1>8. HeirsOK /\ SealedOnlyByOvertaken
  <2>1. \A e, f \in Used : ~Kindred(e, f)
    BY <1>5 DEF Kindred
  <2>2. \A e \in Used : ~Sealed(e)
    BY <1>3 DEF Sealed
  <2> QED BY <2>1, <2>2 DEF HeirsOK, SealedOnlyByOvertaken, LiveEntries
<1>9. SealsOK
  <2>1. ASSUME NEW b \in Branch, admitted[b] = "absent" PROVE Fresh(b)
    <3> SUFFICES ASSUME NEW e \in Used, entry[e].branch = b PROVE FALSE
      BY DEF Fresh
    <3>1. live[b] = e /\ e # 0
      BY <1>1, <1>5, Basics
    <3> QED BY <1>1, <2>1, <3>1 DEF BInv, LiveOK
  <2>2. sealed = {} /\ move.kept = {} /\ ~started
    BY DEF Init, IdleMove
  <2> QED BY <2>1, <2>2 DEF SealsOK
<1> QED
  BY <1>4, <1>6, <1>7, <1>8, <1>9 DEF SInv

LEMMA SpecSInv == Spec => [](BInv /\ SInv)
<1>1. Init => BInv /\ SInv
  BY InitBInv, InitSInv
<1>2. BInv /\ SInv /\ [Next]_vars => (BInv /\ SInv)'
  BY NextBInv, NextSealStep, NextSInv
<1> QED
  BY <1>1, <1>2, PTL DEF Spec

(* However drains, unloads, readmissions and moves overlap, a branch at     *)
(* rest is never left sealed without the mark that lets startBranch lift    *)
(* the seal.  (drainEntry, unloadBranch, setupReadmittedEntry,              *)
(* performBranchMove)                                                       *)
THEOREM SpecSealsCanBeLifted == Spec => []SealsCanBeLifted
<1>1. SInv => SealsCanBeLifted
  <2> SUFFICES ASSUME SInv, NEW b \in Branch, AtRest(b), b \in sealed, admitted[b] = "absent" PROVE b \in readmit
    BY DEF SealsCanBeLifted
  <2> QED BY DEF SInv, SealsOK, AtRest
<1> QED
  BY SpecSInv, <1>1, PTL

(* A reservation at work that nobody drains is refused an append only where *)
(* an earlier one of its branch was settled while a drain of it was under   *)
(* way: every other drain has been waited for by the readmission.           *)
(* (drainEntry, settle, setupReadmittedEntry)                               *)
THEOREM SpecSealedOnlyByOvertaken == Spec => []SealedOnlyByOvertaken
<1>1. SInv => SealedOnlyByOvertaken
  BY DEF SInv
<1> QED
  BY SpecSInv, <1>1, PTL

=============================================================================
