---------------------------- MODULE FanOutProofs ----------------------------
(***************************************************************************)
(* FanOut for every chart, however many items, actors and workers there    *)
(* are and however far the machine is behind the log: its types, the gate  *)
(* of the map, the order of the accepts on their way, that a scope is over *)
(* with nothing left behind, and that a run fails over a message only when *)
(* nobody can take it.                                                     *)
(*                                                                         *)
(* The machine admits an instance by its own projection: whoever has work  *)
(* pending, and the first of those that wait, as many as there are slots   *)
(* left.  Every invocation that is on its way is of an admitted instance,  *)
(* so the log holds no other; and what the machine learns from the log     *)
(* only ever takes a slot from an instance that is through.  The proof     *)
(* follows the projections between the machine's and the log's, one for    *)
(* each event of the queue.                                                *)
(*                                                                         *)
(* Of the actors each of these projections is in order: a message is in    *)
(* one place, a reply is settled as long as its call waits, an idle worker *)
(* rests, an actor that stopped has no work and no caller.  A stop is      *)
(* decided on an older projection, so a call that the log knows and the    *)
(* machine does not must not be answered yet, and one that the machine     *)
(* resolves in the same output must come first.                            *)
(***************************************************************************)
EXTENDS FanOut, FiniteSetTheorems, FunctionTheorems, SequenceTheorems, TLAPS

(* A projection, as the log leads to it: the part of the instances, where   *)
(* leaves are those of a map that has been entered and pending work is the  *)
(* work of a leaf,                                                          *)
Chart == {"map", "each", "end", "done"}
Leaf == [key : Key, at : State]
LeavesOK(v) ==
  /\ v.leaves \in Seq(Leaf)
  /\ \A i, j \in Leaves(v) : v.leaves[i].key = v.leaves[j].key => i = j
ItemsOK(v) ==
  /\ v.chart \in Chart /\ v.rounds \in Nat \ {0} /\ v.failed \in BOOLEAN
  /\ LeavesOK(v)
  /\ v.leaves # <<>> => v.chart = "each"
  /\ v.pending \in [Producer -> Nat] /\ v.visits \in [Producer -> Nat]
  /\ \A p \in Producer : v.pending[p] <= v.visits[p]
  /\ \A k \in Holders(v) : At(v, Item(k)) # "none" /\ Kind[At(v, Item(k))] = "work"

(* and the part of the actors.                                              *)
Asking == {c \in Calls : Kind[c.at] = "call"}
ActorsOK(v) ==
  /\ v.status \in [Endpoint -> {"none", "open", "closing", "stopped"}]
  /\ v.mailbox \in [Endpoint -> Seq(Messages)]
  /\ DOMAIN v.at = Endpoint /\ DOMAIN v.current = Endpoint
  /\ \A e \in Endpoint : /\ v.at[e] \in [1 .. Workers[e] -> State]
                        /\ v.current[e] \in [1 .. Workers[e] -> Messages \cup {NoMessage}]
  /\ v.sends \in [Producer -> Nat]
  /\ v.calls \subseteq Asking /\ IsFiniteSet(v.calls) /\ v.settled \subseteq Messages
Fields == {"chart", "leaves", "rounds", "failed", "status", "mailbox", "at", "current", "pending", "visits",
           "sends", "calls", "settled"}
View(v) == DOMAIN v = Fields /\ ItemsOK(v) /\ ActorsOK(v)

-----------------------------------------------------------------------------
(* Producers and where they are. *)

LEMMA Producers ==
  /\ \A k \in Key : Item(k) \in Producer /\ IsItem(Item(k)) /\ Item(k)[2] = k
  /\ \A e \in Endpoint : \A i \in 1 .. Workers[e] : Worker(e, i) \in Producer /\ ~IsItem(Worker(e, i))
  /\ \A p \in Producer : IsItem(p) => p[2] \in Key /\ p = Item(p[2])
  /\ \A p \in Producer : ~IsItem(p) => p[2] \in Endpoint /\ p[3] \in 1 .. Workers[p[2]] /\ p = Worker(p[2], p[3])
<1>1. \A k \in Key : Item(k) \in Producer /\ IsItem(Item(k)) /\ Item(k)[2] = k
  BY DEF Producer, Item, IsItem
<1>2. \A e \in Endpoint : \A i \in 1 .. Workers[e] : Worker(e, i) \in Producer /\ ~IsItem(Worker(e, i))
  BY DEF Producer, Worker, IsItem
<1>3. ASSUME NEW p \in Producer
      PROVE  \/ \E k \in Key : p = Item(k)
             \/ \E e \in Endpoint : \E i \in 1 .. Workers[e] : p = Worker(e, i)
  BY <1>3 DEF Producer
<1>4. ASSUME NEW p \in Producer, IsItem(p)
      PROVE  p[2] \in Key /\ p = Item(p[2])
  BY <1>3, <1>4 DEF Item, Worker, IsItem
<1>5. ASSUME NEW p \in Producer, ~IsItem(p)
      PROVE  p[2] \in Endpoint /\ p[3] \in 1 .. Workers[p[2]] /\ p = Worker(p[2], p[3])
  BY <1>3, <1>5 DEF Item, Worker, IsItem
<1>. QED
  BY <1>1, <1>2, <1>4, <1>5

(* The leaf of a key, and the state an instance is at. *)
LEMMA LeafAt ==
  ASSUME NEW v, LeavesOK(v)
  PROVE  /\ \A j \in Leaves(v) : /\ v.leaves[j].key \in Key /\ v.leaves[j].at \in State
                                 /\ LeafOf(v, v.leaves[j].key) = j
                                 /\ At(v, Item(v.leaves[j].key)) = v.leaves[j].at
         /\ \A k \in Key : At(v, Item(k)) # "none" =>
              /\ LeafOf(v, k) \in Leaves(v) /\ v.leaves[LeafOf(v, k)].key = k
              /\ At(v, Item(k)) = v.leaves[LeafOf(v, k)].at /\ At(v, Item(k)) \in State
<1>1. ASSUME NEW j \in Leaves(v)
      PROVE  v.leaves[j].key \in Key /\ v.leaves[j].at \in State /\ LeafOf(v, v.leaves[j].key) = j
  <2>1. v.leaves[j] \in Leaf
    BY DEF LeavesOK, Leaves
  <2>2. \A i \in Leaves(v) : v.leaves[i].key = v.leaves[j].key => i = j
    BY DEF LeavesOK
  <2>. QED
    BY <2>1, <2>2 DEF Leaf, LeafOf
<1>2. ASSUME NEW k \in Key
      PROVE  At(v, Item(k)) = IF \E j \in Leaves(v) : v.leaves[j].key = k THEN v.leaves[LeafOf(v, k)].at ELSE "none"
  BY Producers DEF At
<1>3. ASSUME NEW k \in Key, At(v, Item(k)) # "none"
      PROVE  /\ LeafOf(v, k) \in Leaves(v) /\ v.leaves[LeafOf(v, k)].key = k
             /\ At(v, Item(k)) = v.leaves[LeafOf(v, k)].at /\ At(v, Item(k)) \in State
  <2>1. PICK j \in Leaves(v) : v.leaves[j].key = k
    BY <1>2, <1>3
  <2>. QED
    BY <1>1, <1>2, <2>1
<1>. QED
  BY <1>1, <1>2, <1>3

LEMMA AtType ==
  ASSUME NEW v, View(v), NEW p \in Producer
  PROVE  At(v, p) \in State \cup {"none"}
<1>1. CASE IsItem(p)
  <2>1. LeavesOK(v)
    BY DEF View, ItemsOK
  <2>2. p[2] \in Key /\ p = Item(p[2])
    BY <1>1, Producers
  <2>3. At(v, Item(p[2])) \in State \cup {"none"}
    BY <2>1, <2>2, LeafAt
  <2>. QED
    BY <2>2, <2>3
<1>2. CASE ~IsItem(p)
  BY <1>2, Producers DEF View, ActorsOK, At
<1>. QED
  BY <1>1, <1>2

-----------------------------------------------------------------------------
(* A leaf that moves. *)

Shifted(t, s, j, x) ==
  /\ Len(t) = Len(s)
  /\ \A i \in 1 .. Len(s) : t[i] = IF i = Len(s) THEN x ELSE IF i < j THEN s[i] ELSE s[i + 1]

LEMMA Removal ==
  ASSUME NEW S, NEW s \in Seq(S), NEW j \in 1 .. Len(s), NEW x \in S, NEW t, t = Append(RemoveAt(s, j), x)
  PROVE  t \in Seq(S) /\ Shifted(t, s, j, x)
<1> DEFINE a == SubSeq(s, 1, j - 1)
           b == SubSeq(s, j + 1, Len(s))
<1>1. a \in Seq(S) /\ Len(a) = j - 1 /\ \A i \in 1 .. j - 1 : a[i] = s[i]
  OBVIOUS
<1>2. b \in Seq(S) /\ Len(b) = Len(s) - j /\ \A i \in 1 .. Len(s) - j : b[i] = s[j + i]
  OBVIOUS
<1>3. RemoveAt(s, j) = a \o b
  BY DEF RemoveAt
<1> HIDE DEF a, b
<1>4. a \o b \in Seq(S) /\ Len(a \o b) = Len(s) - 1
  <2>1. Len(s) \in Nat /\ j \in Nat
    OBVIOUS
  <2>2. a \o b \in Seq(S) /\ Len(a \o b) = Len(a) + Len(b)
    BY <1>1, <1>2, ConcatProperties
  <2>. QED
    BY <2>1, <2>2, <1>1, <1>2
<1>5. ASSUME NEW i \in 1 .. Len(s) - 1
      PROVE  (a \o b)[i] = IF i < j THEN s[i] ELSE s[i + 1]
  <2>1. (a \o b)[i] = IF i <= Len(a) THEN a[i] ELSE b[i - Len(a)]
    BY <1>1, <1>2
  <2>. QED
    BY <2>1, <1>1, <1>2
<1> DEFINE c == a \o b
<1>0. t = Append(c, x)
  BY <1>3
<1>6. c \in Seq(S) /\ Len(c) = Len(s) - 1 /\ Len(s) \in Nat
  BY <1>4
<1> HIDE DEF c
<1>7. t \in Seq(S) /\ Len(t) = Len(s) /\ t[Len(s)] = x /\ \A i \in 1 .. Len(s) - 1 : t[i] = c[i]
  <2>1. Len(t) = Len(c) + 1 /\ t[Len(c) + 1] = x /\ \A i \in 1 .. Len(c) : t[i] = c[i]
    BY <1>0, <1>6, AppendProperties
  <2>2. t \in Seq(S)
    BY <1>0, <1>6, AppendProperties
  <2>. QED
    BY <2>1, <2>2, <1>6
<1>8. \A i \in 1 .. Len(s) : t[i] = IF i = Len(s) THEN x ELSE IF i < j THEN s[i] ELSE s[i + 1]
  <2>1. \A i \in 1 .. Len(s) - 1 : t[i] = IF i < j THEN s[i] ELSE s[i + 1]
    BY <1>5, <1>7 DEF c
  <2>2. \A i \in 1 .. Len(s) : i # Len(s) => i \in 1 .. Len(s) - 1
    BY <1>6
  <2>. QED
    BY <2>1, <2>2, <1>7
<1>. QED
  BY <1>7, <1>8 DEF Shifted

Moved(v, w, k, s) ==
  /\ LeavesOK(w) /\ w.leaves # <<>> /\ At(w, Item(k)) = s
  /\ \A q \in Key \ {k} : At(w, Item(q)) = At(v, Item(q))
  /\ \A q \in Key \ {k} : At(v, Item(q)) # "none" => LeafOf(w, q) < LeafOf(w, k)
  /\ \A q, r \in Key \ {k} :
       At(v, Item(q)) # "none" /\ At(v, Item(r)) # "none" =>
         (LeafOf(w, q) < LeafOf(w, r) <=> LeafOf(v, q) < LeafOf(v, r))

LEMMA MovedLeaf ==
  ASSUME NEW v, LeavesOK(v), NEW k \in Key, At(v, Item(k)) # "none", NEW s \in State,
         NEW w, w.leaves = Append(RemoveAt(v.leaves, LeafOf(v, k)), [key |-> k, at |-> s])
  PROVE  Moved(v, w, k, s)
<1> DEFINE l == LeafOf(v, k)
           n == Len(v.leaves)
           new == [key |-> k, at |-> s]
           to(i) == IF i < l THEN i ELSE i - 1
           from(i) == IF i < l THEN i ELSE i + 1
<1>1. l \in 1 .. n /\ n \in Nat /\ v.leaves[l].key = k /\ v.leaves \in Seq(Leaf) /\ Leaves(v) = 1 .. n
  BY LeafAt DEF LeavesOK, Leaves
<1>2. /\ w.leaves \in Seq(Leaf) /\ Len(w.leaves) = n
      /\ \A i \in 1 .. n : w.leaves[i] = IF i = n THEN new ELSE v.leaves[from(i)]
  <2>1. new \in Leaf
    BY DEF Leaf
  <2> HIDE DEF new, l
  <2>2. w.leaves = Append(RemoveAt(v.leaves, l), new)
    BY DEF new, l
  <2>3. v.leaves \in Seq(Leaf) /\ l \in 1 .. Len(v.leaves)
    BY <1>1
  <2>4. w.leaves \in Seq(Leaf) /\ Shifted(w.leaves, v.leaves, l, new)
    BY <2>1, <2>2, <2>3, Removal
  <2>. QED
    BY <2>4 DEF Shifted
<1>3. Leaves(w) = 1 .. n
  BY <1>2 DEF Leaves
<1>4. \A i \in 1 .. n : i # l => v.leaves[i].key # k
  BY <1>1 DEF LeavesOK
<1>5. \A i \in 1 .. n - 1 : from(i) \in 1 .. n /\ from(i) # l
  BY <1>1
<1>6. \A i, j \in 1 .. n - 1 : from(i) = from(j) => i = j
  BY <1>1
<1>7. \A i \in 1 .. n - 1 : w.leaves[i].key = v.leaves[from(i)].key /\ w.leaves[i].key # k
  BY <1>2, <1>4, <1>5
<1>8. w.leaves[n].key = k /\ w.leaves[n].at = s
  BY <1>1, <1>2
<1>9. LeavesOK(w)
  <2>1. ASSUME NEW i \in 1 .. n, NEW j \in 1 .. n, w.leaves[i].key = w.leaves[j].key
        PROVE  i = j
    <3>1. CASE i = n \/ j = n
      BY <2>1, <3>1, <1>7, <1>8
    <3>2. CASE i # n /\ j # n
      <4>1. v.leaves[from(i)].key = v.leaves[from(j)].key
        BY <2>1, <3>2, <1>7, SMTT(60)
      <4>2. from(i) \in Leaves(v) /\ from(j) \in Leaves(v) /\ i \in 1 .. n - 1 /\ j \in 1 .. n - 1
        BY <3>2, <1>1, <1>5
      <4>3. \A x, y \in Leaves(v) : v.leaves[x].key = v.leaves[y].key => x = y
        BY DEF LeavesOK
      <4>4. from(i) = from(j)
        BY <4>1, <4>2, <4>3
      <4>. QED
        BY <4>2, <4>4, <1>6
    <3>. QED
      BY <3>1, <3>2
  <2>. QED
    BY <1>2, <1>3, <2>1 DEF LeavesOK
<1>10. LeafOf(w, k) = n /\ At(w, Item(k)) = s
  <2>1. n \in Leaves(w)
    BY <1>1, <1>3
  <2>. QED
    BY <1>8, <1>9, <2>1, LeafAt
<1>11. ASSUME NEW q \in Key \ {k}, At(v, Item(q)) # "none"
       PROVE  /\ LeafOf(v, q) \in 1 .. n \ {l} /\ to(LeafOf(v, q)) \in 1 .. n - 1
              /\ LeafOf(w, q) = to(LeafOf(v, q)) /\ At(w, Item(q)) = At(v, Item(q))
  <2> DEFINE i == LeafOf(v, q)
  <2>1. i \in 1 .. n /\ v.leaves[i].key = q /\ At(v, Item(q)) = v.leaves[i].at
    BY <1>1, <1>11, LeafAt
  <2>2. i # l
    BY <2>1, <1>1
  <2>3. PICK h \in 1 .. n - 1 : h = to(i) /\ from(h) = i
    BY <2>1, <2>2, <1>1
  <2>4. w.leaves[h] = v.leaves[i]
    BY <2>3, <1>2
  <2>5. h \in Leaves(w)
    BY <1>1, <1>3
  <2>6. LeafOf(w, q) = h /\ At(w, Item(q)) = v.leaves[i].at
    <3>1. w.leaves[h].key = q /\ w.leaves[h].at = v.leaves[i].at
      BY <2>1, <2>4
    <3>. QED
      BY <3>1, <2>5, <1>9, LeafAt
  <2>. QED
    BY <2>1, <2>2, <2>3, <2>6
<1>12. ASSUME NEW q \in Key \ {k}, At(v, Item(q)) = "none"
       PROVE  At(w, Item(q)) = "none"
  <2>1. SUFFICES ASSUME At(w, Item(q)) # "none" PROVE FALSE
    OBVIOUS
  <2>2. PICK i \in 1 .. n : w.leaves[i].key = q
    <3>1. LeafOf(w, q) \in Leaves(w) /\ w.leaves[LeafOf(w, q)].key = q
      BY <2>1, <1>9, LeafAt
    <3>. QED
      BY <3>1, <1>3
  <2>3. i \in 1 .. n - 1
    <3>1. i # n
      BY <2>2, <1>8
    <3>. QED
      BY <3>1, <1>1
  <2>4. v.leaves[from(i)].key = q /\ from(i) \in Leaves(v)
    BY <2>2, <2>3, <1>1, <1>5, <1>7
  <2>5. At(v, Item(q)) = v.leaves[from(i)].at /\ v.leaves[from(i)].at \in State
    BY <2>4, LeafAt
  <2>. QED
    BY <2>5, <1>12, FanOutAssumption
<1>13. w.leaves # <<>>
  BY <1>1, <1>2
<1>14. \A q \in Key \ {k} : At(v, Item(q)) # "none" => LeafOf(w, q) < LeafOf(w, k)
  BY <1>10, <1>11, <1>1
<1>15. ASSUME NEW q \in Key \ {k}, NEW r \in Key \ {k}, At(v, Item(q)) # "none", At(v, Item(r)) # "none"
       PROVE  LeafOf(w, q) < LeafOf(w, r) <=> LeafOf(v, q) < LeafOf(v, r)
  <2>1. /\ LeafOf(v, q) \in 1 .. n \ {l} /\ LeafOf(w, q) = to(LeafOf(v, q))
        /\ LeafOf(v, r) \in 1 .. n \ {l} /\ LeafOf(w, r) = to(LeafOf(v, r))
    BY <1>11, <1>15
  <2>. QED
    BY <2>1, <1>1
<1>. QED
  BY <1>9, <1>10, <1>11, <1>12, <1>13, <1>14, <1>15 DEF Moved

-----------------------------------------------------------------------------
(* The gate: who waits, who is ahead of whom, and whom the machine admits. *)

Waits(v) == {k \in Key : At(v, Item(k)) # "none" /\ Kind[At(v, Item(k))] = "work" /\ k \notin Holders(v)}
Ahead(v, k) == {q \in Waits(v) : LeafOf(v, q) < LeafOf(v, k)}
Admitted(v) == Holders(v) \cup {k \in Waits(v) : Cardinality(Holders(v)) + Cardinality(Ahead(v, k)) < Limit}

LEMMA LeastNumber ==
  ASSUME NEW T \in SUBSET Nat, T # {}
  PROVE  \E n \in T : \A m \in T : n <= m
<1>1. IsWellFoundedOn(OpToRel(<, Nat), Nat)
  BY NatLessThanWellFounded
<1>2. PICK n \in T : \A m \in T : ~(<<m, n>> \in OpToRel(<, Nat))
  BY <1>1, WFMin
<1>3. \A m \in T : ~(m < n)
  BY <1>2 DEF OpToRel
<1>. QED
  BY <1>3

LEMMA GreatestNumber ==
  ASSUME NEW n \in Nat, NEW T \in SUBSET (1 .. n), T # {}
  PROVE  \E m \in T : \A t \in T : t <= m
<1> DEFINE Bounds == {b \in 0 .. n : \A t \in T : t <= b}
<1>1. n \in Bounds
  OBVIOUS
<1>2. PICK b \in Bounds : \A c \in Bounds : b <= c
  <2>1. Bounds \in SUBSET Nat /\ Bounds # {}
    BY <1>1
  <2>. QED
    BY <2>1, LeastNumber
<1>3. b \in T
  <2>1. SUFFICES ASSUME b \notin T PROVE FALSE
    OBVIOUS
  <2>2. b - 1 \in Bounds
    <3>1. \A t \in T : t <= b /\ t # b /\ t \in Nat /\ t >= 1
      BY <1>2, <2>1
    <3>2. PICK t \in T : TRUE
      OBVIOUS
    <3>3. b \in Nat /\ b >= 1 /\ b <= n
      BY <1>2, <3>1, <3>2
    <3>4. \A x \in T : x <= b - 1
      BY <3>1, <3>3
    <3>. QED
      BY <3>3, <3>4
  <2>. QED
    BY <1>2, <2>2
<1>. QED
  BY <1>2, <1>3

LEMMA KeysAreFinite ==
  /\ Key \subseteq Nat /\ IsFiniteSet(Key)
  /\ \A S \in SUBSET Key : IsFiniteSet(S) /\ Cardinality(S) \in Nat
<1>1. Key \subseteq Nat /\ IsFiniteSet(Key)
  BY FanOutAssumption, FS_Interval DEF Key
<1>. QED
  BY <1>1, FS_Subset, FS_CardinalityType

(* Sets of keys: sizes of disjoint unions and of parts. *)
LEMMA Sizing ==
  ASSUME NEW A \in SUBSET Key, NEW B \in SUBSET Key
  PROVE  /\ A \cap B = {} => Cardinality(A \cup B) = Cardinality(A) + Cardinality(B)
         /\ A \subseteq B => Cardinality(A) <= Cardinality(B)
         /\ Cardinality(A) \in Nat /\ Cardinality(B) \in Nat
         /\ \A k \in Key : Cardinality(A \cup {k}) <= Cardinality(A) + 1
<1>1. IsFiniteSet(A) /\ IsFiniteSet(B) /\ Cardinality(A) \in Nat /\ Cardinality(B) \in Nat
  BY KeysAreFinite
<1>2. ASSUME A \cap B = {}
      PROVE  Cardinality(A \cup B) = Cardinality(A) + Cardinality(B)
  <2>1. Cardinality(A \cup B) = Cardinality(A) + Cardinality(B) - Cardinality(A \cap B)
    BY <1>1, FS_Union
  <2>2. Cardinality(A \cap B) = 0
    BY <1>2, FS_EmptySet
  <2>. QED
    BY <1>1, <2>1, <2>2
<1>3. ASSUME A \subseteq B
      PROVE  Cardinality(A) <= Cardinality(B)
  BY <1>1, <1>3, FS_Subset
<1>4. ASSUME NEW k \in Key
      PROVE  Cardinality(A \cup {k}) <= Cardinality(A) + 1
  <2>1. Cardinality(A \cup {k}) = IF k \in A THEN Cardinality(A) ELSE Cardinality(A) + 1
    BY <1>1, FS_AddElement
  <2>. QED
    BY <2>1, <1>1
<1>. QED
  BY <1>1, <1>2, <1>3, <1>4

(* Leaves of different keys are at different places; the last of a few. *)
LEMMA Places ==
  ASSUME NEW v, LeavesOK(v)
  PROVE  /\ \A k \in Waits(v) : LeafOf(v, k) \in 1 .. Len(v.leaves) /\ v.leaves[LeafOf(v, k)].key = k
         /\ \A S \in SUBSET Waits(v) : S # {} => \E l \in S : \A k \in S : k # l => LeafOf(v, k) < LeafOf(v, l)
<1>0. Len(v.leaves) \in Nat /\ Leaves(v) = 1 .. Len(v.leaves)
  BY DEF LeavesOK, Leaves
<1>1. ASSUME NEW k \in Waits(v)
      PROVE  LeafOf(v, k) \in 1 .. Len(v.leaves) /\ v.leaves[LeafOf(v, k)].key = k
  BY <1>0, <1>1, LeafAt DEF Waits
<1>2. ASSUME NEW S \in SUBSET Waits(v), S # {}
      PROVE  \E l \in S : \A k \in S : k # l => LeafOf(v, k) < LeafOf(v, l)
  <2> DEFINE T == {LeafOf(v, k) : k \in S}
  <2>1. T \in SUBSET (1 .. Len(v.leaves)) /\ T # {}
    BY <1>1, <1>2
  <2>2. PICK m \in T : \A t \in T : t <= m
    BY <1>0, <2>1, GreatestNumber
  <2>3. PICK l \in S : m = LeafOf(v, l)
    BY <2>2
  <2>4. ASSUME NEW k \in S, k # l
        PROVE  LeafOf(v, k) < LeafOf(v, l)
    <3>1. LeafOf(v, k) <= LeafOf(v, l) /\ LeafOf(v, k) # LeafOf(v, l)
      BY <1>1, <2>2, <2>3, <2>4
    <3>. QED
      BY <1>0, <1>1, <3>1
  <2>. QED
    BY <2>4
<1>. QED
  BY <1>1, <1>2

(* The places of Waiting are those of the keys that wait.                   *)
LEMMA AheadCount ==
  ASSUME NEW v, LeavesOK(v), NEW j \in Waiting(v)
  PROVE  /\ v.leaves[j].key \in Waits(v)
         /\ Cardinality({i \in Waiting(v) : Earlier(v, i, j)}) = Cardinality(Ahead(v, v.leaves[j].key))
<1> DEFINE S == {i \in Waiting(v) : Earlier(v, i, j)}
           T == Ahead(v, v.leaves[j].key)
           f == [k \in T |-> LeafOf(v, k)]
<1>0. Len(v.leaves) \in Nat /\ Leaves(v) = 1 .. Len(v.leaves)
  BY DEF LeavesOK, Leaves
<1>1. ASSUME NEW i \in Waiting(v)
      PROVE  v.leaves[i].key \in Waits(v) /\ LeafOf(v, v.leaves[i].key) = i
  <2>1. /\ i \in Leaves(v) /\ Kind[v.leaves[i].at] = "work" /\ v.leaves[i].key \notin Holders(v)
    BY DEF Waiting
  <2>2. /\ v.leaves[i].key \in Key /\ v.leaves[i].at \in State /\ LeafOf(v, v.leaves[i].key) = i
        /\ At(v, Item(v.leaves[i].key)) = v.leaves[i].at
    BY <2>1, LeafAt
  <2>. QED
    BY <2>1, <2>2, FanOutAssumption DEF Waits
<1>2. ASSUME NEW k \in Waits(v)
      PROVE  LeafOf(v, k) \in Waiting(v) /\ v.leaves[LeafOf(v, k)].key = k
  <2>1. /\ k \in Key /\ At(v, Item(k)) # "none" /\ Kind[At(v, Item(k))] = "work" /\ k \notin Holders(v)
    BY DEF Waits
  <2>2. /\ LeafOf(v, k) \in Leaves(v) /\ v.leaves[LeafOf(v, k)].key = k
        /\ At(v, Item(k)) = v.leaves[LeafOf(v, k)].at
    BY <2>1, LeafAt
  <2>. QED
    BY <2>1, <2>2 DEF Waiting
<1>3. f \in Bijection(T, S)
  <2>1. \A k \in T : f[k] \in S
    BY <1>1, <1>2 DEF Ahead, Earlier
  <2>2. \A k, q \in T : f[k] = f[q] => k = q
    BY <1>2 DEF Ahead
  <2>3. \A i \in S : \E k \in T : f[k] = i
    <3>1. ASSUME NEW i \in S
          PROVE  v.leaves[i].key \in T /\ f[v.leaves[i].key] = i
      BY <1>1 DEF Ahead, Earlier
    <3>. QED
      BY <3>1
  <2>. QED
    BY <2>1, <2>2, <2>3, Fun_IsBij
<1>4. IsFiniteSet(T) /\ T \subseteq Key
  BY KeysAreFinite DEF Ahead, Waits
<1>5. Cardinality(S) = Cardinality(T)
  BY <1>3, <1>4, FS_Bijection DEF ExistsBijection
<1>. QED
  BY <1>1, <1>5

(* Whoever is due holds nothing and is admitted. *)
LEMMA DueAreAdmitted ==
  ASSUME NEW v, View(v), NEW x \in DueInvokes(v), IsItem(x[1])
  PROVE  x[1][2] \in Admitted(v) \ Holders(v) /\ x[1] = Item(x[1][2])
<1>1. PICK p \in Producer : /\ x = <<p, At(v, p)>> /\ p \in Doing(v, "work") /\ p \notin Blocked(v)
                            /\ v.pending[p] = 0
  BY DEF DueInvokes, Doing
<1>2. p[2] \in Key /\ p = Item(p[2]) /\ x[1] = p
  BY <1>1, Producers
<1> DEFINE k == p[2]
<1>3. k \in Waits(v)
  BY <1>1, <1>2 DEF Doing, Waits, Holders
<1>4. LeavesOK(v)
  BY DEF View, ItemsOK
<1>5. LeafOf(v, k) \in Leaves(v) /\ v.leaves[LeafOf(v, k)].key = k /\ LeafOf(v, k) \in Waiting(v)
  <2>1. LeafOf(v, k) \in Leaves(v) /\ v.leaves[LeafOf(v, k)].key = k /\ At(v, Item(k)) = v.leaves[LeafOf(v, k)].at
    BY <1>3, <1>4, LeafAt DEF Waits
  <2>. QED
    BY <1>3, <2>1 DEF Waits, Waiting
<1>6. ~(Cardinality(Holders(v)) + Cardinality({i \in Waiting(v) : Earlier(v, i, LeafOf(v, k))}) >= Limit)
  BY <1>1, <1>2, <1>5 DEF Blocked
<1>7. Cardinality({i \in Waiting(v) : Earlier(v, i, LeafOf(v, k))}) = Cardinality(Ahead(v, k))
  BY <1>4, <1>5, AheadCount
<1>8. Cardinality(Holders(v)) \in Nat /\ Cardinality(Ahead(v, k)) \in Nat
  BY KeysAreFinite DEF Holders, Ahead, Waits
<1>9. Cardinality(Holders(v)) + Cardinality(Ahead(v, k)) < Limit
  BY <1>6, <1>7, <1>8, FanOutAssumption
<1>. QED
  BY <1>2, <1>3, <1>9 DEF Admitted, Waits

(* No more are admitted than there are slots. *)
LEMMA AdmittedFit ==
  ASSUME NEW v, LeavesOK(v), Cardinality(Holders(v)) <= Limit
  PROVE  Cardinality(Admitted(v)) <= Limit
<1> DEFINE A == Admitted(v) \ Holders(v)
           H == Holders(v)
<1>1. H \in SUBSET Key /\ A \in SUBSET Key /\ A \in SUBSET Waits(v) /\ Limit \in Nat
  BY FanOutAssumption DEF Admitted, Holders, Waits
<1>2. CASE A = {}
  <2>1. Admitted(v) = H
    BY <1>2 DEF Admitted
  <2>. QED
    BY <2>1
<1>3. CASE A # {}
  <2>1. PICK l \in A : \A k \in A : k # l => LeafOf(v, k) < LeafOf(v, l)
    BY <1>1, <1>3, Places
  <2>2. A \subseteq Ahead(v, l) \cup {l} /\ Ahead(v, l) \in SUBSET Key /\ l \in Key
    BY <1>1, <2>1 DEF Ahead, Waits
  <2>3. Cardinality(A) <= Cardinality(Ahead(v, l)) + 1
    <3>1. Cardinality(Ahead(v, l) \cup {l}) <= Cardinality(Ahead(v, l)) + 1
      BY <2>2, Sizing
    <3>2. Ahead(v, l) \cup {l} \in SUBSET Key
      BY <2>2
    <3>3. Cardinality(A) <= Cardinality(Ahead(v, l) \cup {l})
      BY <1>1, <2>2, <3>2, Sizing
    <3>. QED
      BY <1>1, <2>2, <3>1, <3>2, <3>3, KeysAreFinite
  <2>4. Cardinality(H) + Cardinality(Ahead(v, l)) < Limit
    BY <2>1 DEF Admitted
  <2>5. Cardinality(H \cup A) = Cardinality(H) + Cardinality(A)
    <3>1. H \cap A = {}
      OBVIOUS
    <3>. QED
      BY <3>1, <1>1, Sizing
  <2>6. Admitted(v) = H \cup A
    BY DEF Admitted
  <2>. QED
    <3>1. Cardinality(H) \in Nat /\ Cardinality(A) \in Nat /\ Cardinality(Ahead(v, l)) \in Nat
      BY <1>1, <2>2, KeysAreFinite
    <3> HIDE DEF A, H
    <3>. QED
      BY <1>1, <2>3, <2>4, <2>5, <2>6, <3>1
<1>. QED
  BY <1>2, <1>3

(* What a step from one projection to the next may do to those that wait:   *)
(* all but k keep their places.                                             *)
KeepsPlaces(v, w, k) == \A q \in Waits(v) \ {k} : q \in Waits(w) /\ Ahead(w, q) \subseteq Ahead(v, q) \ {k}

LEMMA AdmittedStay ==
  ASSUME NEW v, NEW w, NEW k, KeepsPlaces(v, w, k), Holders(w) = Holders(v) \ {k}
  PROVE  Admitted(v) \ {k} \subseteq Admitted(w)
<1>1. Cardinality(Holders(w)) <= Cardinality(Holders(v)) /\ Cardinality(Holders(w)) \in Nat /\ Cardinality(Holders(v)) \in Nat
  BY Sizing DEF Holders
<1>2. ASSUME NEW q \in Waits(v), q # k, Cardinality(Holders(v)) + Cardinality(Ahead(v, q)) < Limit
      PROVE  q \in Admitted(w)
  <2>1. q \in Waits(w) /\ Ahead(w, q) \subseteq Ahead(v, q)
    BY <1>2 DEF KeepsPlaces
  <2>2. /\ Cardinality(Ahead(w, q)) <= Cardinality(Ahead(v, q))
        /\ Cardinality(Ahead(w, q)) \in Nat /\ Cardinality(Ahead(v, q)) \in Nat
    <3>1. Ahead(w, q) \in SUBSET Key /\ Ahead(v, q) \in SUBSET Key
      BY DEF Ahead, Waits
    <3>. QED
      BY <2>1, <3>1, Sizing
  <2>3. Cardinality(Holders(w)) + Cardinality(Ahead(w, q)) < Limit
    BY <1>1, <1>2, <2>1, <2>2, FanOutAssumption
  <2>. QED
    BY <2>1, <2>3 DEF Admitted
<1>3. Holders(w) \subseteq Admitted(w)
  BY DEF Admitted
<1>. QED
  BY <1>2, <1>3 DEF Admitted

(* Some of those that are admitted get their slots.                         *)
LEMMA AdmittedBegin ==
  ASSUME NEW v, LeavesOK(v), NEW w, w.leaves = v.leaves, NEW G \in SUBSET (Admitted(v) \ Holders(v)),
         Holders(w) = Holders(v) \cup G
  PROVE  Admitted(v) \subseteq Admitted(w)
<1> DEFINE H == Holders(v)
<1>1. H \in SUBSET Key /\ G \in SUBSET Key /\ G \in SUBSET Waits(v) /\ Limit \in Nat
  BY FanOutAssumption DEF Admitted, Holders, Waits
<1>2. Cardinality(Holders(w)) = Cardinality(H) + Cardinality(G) /\ Cardinality(H) \in Nat /\ Cardinality(G) \in Nat
  <2>1. H \cap G = {}
    OBVIOUS
  <2>. QED
    BY <2>1, <1>1, Sizing
<1>3. Waits(w) = Waits(v) \ G /\ \A k : LeafOf(w, k) = LeafOf(v, k)
  <2>1. \A k \in Key : At(w, Item(k)) = At(v, Item(k))
    BY Producers DEF At, Leaves, LeafOf
  <2>2. \A k : LeafOf(w, k) = LeafOf(v, k)
    BY DEF Leaves, LeafOf
  <2>. QED
    BY <2>1, <2>2 DEF Waits
<1>4. \A k : Ahead(w, k) = Ahead(v, k) \ G
  BY <1>3 DEF Ahead
<1>5. ASSUME NEW k \in Waits(v), k \notin G, Cardinality(H) + Cardinality(Ahead(v, k)) < Limit
      PROVE  k \in Admitted(w)
  <2>1. PICK l \in G \cup {k} : \A q \in G \cup {k} : q # l => LeafOf(v, q) < LeafOf(v, l)
    <3>1. G \cup {k} \in SUBSET Waits(v)
      BY <1>1
    <3>. QED
      BY <3>1, Places
  <2> DEFINE A == Ahead(v, k) \ G
  <2>2. /\ l \in Waits(v) /\ Cardinality(H) + Cardinality(Ahead(v, l)) < Limit
        /\ Ahead(v, l) \in SUBSET Key /\ A \in SUBSET Key /\ k \in Key /\ k \notin A /\ k \notin G
    <3>1. /\ l \in Waits(v) /\ Cardinality(H) + Cardinality(Ahead(v, l)) < Limit
      BY <2>1, <1>1, <1>5 DEF Admitted
    <3>2. k \notin A
      BY Places DEF Ahead
    <3>. QED
      BY <3>1, <3>2, <1>5 DEF Ahead, Waits
  <2>3. A \cup G \cup {k} \subseteq Ahead(v, l) \cup {l}
    <3>1. G \cup {k} \subseteq Ahead(v, l) \cup {l}
      BY <2>1, <1>1, <1>5 DEF Ahead
    <3>2. ASSUME NEW q \in A
          PROVE  q \in Ahead(v, l) \cup {l}
      <4>1. LeafOf(v, q) < LeafOf(v, k) /\ q \in Waits(v)
        BY <3>2 DEF Ahead
      <4>2. k = l \/ LeafOf(v, k) < LeafOf(v, l)
        BY <2>1
      <4>3. LeafOf(v, q) \in Nat /\ LeafOf(v, k) \in Nat /\ LeafOf(v, l) \in Nat
        BY <4>1, <1>5, <2>2, Places
      <4>4. LeafOf(v, q) < LeafOf(v, l)
        BY <4>1, <4>2, <4>3
      <4>. QED
        BY <4>1, <4>4 DEF Ahead
    <3>. QED
      BY <3>1, <3>2
  <2>4. Cardinality(A) + Cardinality(G) + 1 <= Cardinality(Ahead(v, l)) + 1
    <3>1. Cardinality(A \cup G) = Cardinality(A) + Cardinality(G)
      <4>1. A \cap G = {}
        OBVIOUS
      <4>. QED
        BY <4>1, <1>1, <2>2, Sizing
    <3>2. Cardinality((A \cup G) \cup {k}) = Cardinality(A \cup G) + 1
      <4>1. IsFiniteSet(A \cup G) /\ k \notin A \cup G
        BY <1>1, <2>2, KeysAreFinite
      <4>. QED
        BY <4>1, FS_AddElement
    <3>3. Cardinality((A \cup G) \cup {k}) <= Cardinality(Ahead(v, l) \cup {l})
      <4>1. (A \cup G) \cup {k} \in SUBSET Key /\ Ahead(v, l) \cup {l} \in SUBSET Key
        BY <1>1, <2>2 DEF Waits
      <4>. QED
        BY <4>1, <2>3, Sizing
    <3>4. Cardinality(Ahead(v, l) \cup {l}) <= Cardinality(Ahead(v, l)) + 1 /\ l \in Key
      BY <2>2, Sizing DEF Waits
    <3>5. /\ Cardinality(A) \in Nat /\ Cardinality(G) \in Nat /\ Cardinality(A \cup G) \in Nat
          /\ Cardinality((A \cup G) \cup {k}) \in Nat /\ Cardinality(Ahead(v, l)) \in Nat
          /\ Cardinality(Ahead(v, l) \cup {l}) \in Nat
      BY <1>1, <2>2, <3>4, KeysAreFinite
    <3>. QED
      BY <3>1, <3>2, <3>3, <3>4, <3>5
  <2>5. Cardinality(A) \in Nat /\ Cardinality(Ahead(v, l)) \in Nat
    BY <2>2, KeysAreFinite
  <2>6. Cardinality(Holders(w)) + Cardinality(Ahead(w, k)) < Limit
    <3>1. Ahead(w, k) = A
      BY <1>4
    <3> HIDE DEF A, H
    <3>. QED
      BY <1>1, <1>2, <2>2, <2>4, <2>5, <3>1
  <2>. QED
    BY <1>3, <1>5, <2>6 DEF Admitted
<1>. QED
  BY <1>5 DEF Admitted

-----------------------------------------------------------------------------
(* Where nothing of the instances changes, nothing of them breaks.          *)
SameItems(v, w) ==
  /\ w.leaves = v.leaves /\ w.rounds = v.rounds /\ w.pending = v.pending /\ w.visits = v.visits
  /\ w.chart = v.chart /\ w.failed \in BOOLEAN

LEMMA ItemsStay ==
  ASSUME NEW v, ItemsOK(v), NEW w, SameItems(v, w)
  PROVE  /\ ItemsOK(w) /\ Holders(w) = Holders(v) /\ Admitted(w) = Admitted(v)
         /\ \A k \in Key : At(w, Item(k)) = At(v, Item(k))
<1>1. Leaves(w) = Leaves(v) /\ \A k : LeafOf(w, k) = LeafOf(v, k)
  BY DEF SameItems, Leaves, LeafOf
<1>2. \A k \in Key : At(w, Item(k)) = At(v, Item(k))
  BY <1>1, Producers DEF SameItems, At
<1>3. Holders(w) = Holders(v)
  BY DEF Holders, SameItems
<1>4. Waits(w) = Waits(v)
  BY <1>2, <1>3 DEF Waits
<1>5. \A k : Ahead(w, k) = Ahead(v, k)
  BY <1>1, <1>4 DEF Ahead
<1>6. Admitted(w) = Admitted(v)
  BY <1>3, <1>4, <1>5 DEF Admitted
<1>7. ItemsOK(w)
  <2>1. LeavesOK(w)
    BY <1>1 DEF ItemsOK, LeavesOK, SameItems
  <2>2. \A k \in Holders(w) : At(w, Item(k)) # "none" /\ Kind[At(w, Item(k))] = "work"
    BY <1>2, <1>3 DEF ItemsOK, Holders
  <2>. QED
    BY <2>1, <2>2 DEF ItemsOK, SameItems
<1>. QED
  BY <1>2, <1>3, <1>6, <1>7

(* Where nobody waits and nobody works: before the map is entered.          *)
LEMMA NobodyThere ==
  ASSUME NEW v, ItemsOK(v), v.chart # "each"
  PROVE  /\ v.leaves = <<>> /\ Holders(v) = {} /\ Waits(v) = {} /\ Admitted(v) = {}
         /\ \A k \in Key : At(v, Item(k)) = "none"
<1>1. v.leaves = <<>> /\ Leaves(v) = {}
  BY DEF ItemsOK, Leaves
<1>2. \A k \in Key : At(v, Item(k)) = "none"
  BY <1>1, Producers DEF At
<1>3. Holders(v) = {}
  BY <1>2 DEF ItemsOK, Holders
<1>. QED
  BY <1>1, <1>2, <1>3 DEF Waits, Admitted

(* A map all of whose instances are final is over, a scope without actors   *)
(* is left.                                                                 *)
LEMMA Completing ==
  ASSUME NEW v, View(v), NEW w, w = CompleteParallels(v)
  PROVE  /\ View(w) /\ Holders(w) = Holders(v) /\ w.rounds = v.rounds
         /\ w.pending = v.pending /\ w.visits = v.visits /\ w.calls = v.calls
         /\ (w.chart = "map") = (v.chart = "map")
         /\ \A q \in Waits(v) : q \in Waits(w) /\ Ahead(w, q) = Ahead(v, q)
         /\ Admitted(v) \subseteq Admitted(w)
<1> DEFINE j == IF Joined(v) THEN [v EXCEPT !.chart = "end", !.leaves = <<>>] ELSE v
<1>1. w = IF j.chart = "end" /\ Released(j) THEN [j EXCEPT !.chart = "done"] ELSE j
  BY DEF CompleteParallels
<1>2. CASE Joined(v)
  <2>1. /\ DOMAIN w = Fields /\ w.leaves = <<>> /\ w.chart \in {"end", "done"} /\ w.rounds = v.rounds
        /\ w.pending = v.pending /\ w.visits = v.visits /\ w.failed = v.failed /\ w.calls = v.calls
        /\ w.status = v.status /\ w.mailbox = v.mailbox /\ w.at = v.at /\ w.current = v.current
        /\ w.sends = v.sends /\ w.settled = v.settled
    BY <1>1, <1>2 DEF View, Fields
  <2>2. \A k \in Key : At(v, Item(k)) # "none" => Kind[At(v, Item(k))] = "final"
    BY <1>2, LeafAt DEF Joined, View, ItemsOK
  <2>3. Holders(v) = {} /\ Waits(v) = {}
    BY <2>2 DEF Waits, View, ItemsOK, Holders
  <2>4. Holders(w) = {}
    BY <2>1, <2>3 DEF Holders
  <2>5. LeavesOK(w)
    BY <2>1 DEF LeavesOK, Leaves
  <2>6. ItemsOK(w)
    BY <2>1, <2>4, <2>5 DEF ItemsOK, View, Chart
  <2>7. ActorsOK(w)
    BY <2>1 DEF ActorsOK, View
  <2>8. v.chart # "map"
    BY <1>2 DEF Joined
  <2>9. Admitted(v) = {}
    BY <2>3 DEF Admitted
  <2>. QED
    BY <2>1, <2>3, <2>4, <2>6, <2>7, <2>8, <2>9 DEF View
<1>3. CASE ~Joined(v)
  <2>1. /\ DOMAIN w = Fields /\ w.leaves = v.leaves /\ w.rounds = v.rounds
        /\ w.pending = v.pending /\ w.visits = v.visits /\ w.failed = v.failed /\ w.calls = v.calls
        /\ w.status = v.status /\ w.mailbox = v.mailbox /\ w.at = v.at /\ w.current = v.current
        /\ w.sends = v.sends /\ w.settled = v.settled
        /\ (w.chart = v.chart \/ (v.chart = "end" /\ w.chart = "done"))
    BY <1>1, <1>3 DEF View, Fields
  <2>2. ActorsOK(w)
    BY <2>1 DEF ActorsOK, View
  <2>3. CASE w.chart = v.chart
    <3>1. SameItems(v, w)
      BY <2>1, <2>3 DEF SameItems, View, ItemsOK
    <3>2. /\ ItemsOK(w) /\ Holders(w) = Holders(v) /\ Admitted(w) = Admitted(v)
          /\ \A k \in Key : At(w, Item(k)) = At(v, Item(k))
      BY <3>1, ItemsStay DEF View
    <3>3. \A k : LeafOf(w, k) = LeafOf(v, k)
      BY <2>1 DEF LeafOf, Leaves
    <3>4. Waits(w) = Waits(v)
      BY <3>2 DEF Waits
    <3>5. \A k : Ahead(w, k) = Ahead(v, k)
      BY <3>3, <3>4 DEF Ahead
    <3>. QED
      BY <2>1, <2>2, <2>3, <3>2, <3>4, <3>5 DEF View
  <2>4. CASE v.chart = "end" /\ w.chart = "done"
    <3>1. v.leaves = <<>> /\ Holders(v) = {} /\ Waits(v) = {} /\ Admitted(v) = {}
      BY <2>4, NobodyThere DEF View
    <3>2. Holders(w) = {}
      BY <2>1, <3>1 DEF Holders
    <3>3. LeavesOK(w)
      BY <2>1, <3>1 DEF LeavesOK, Leaves
    <3>4. ItemsOK(w)
      BY <2>1, <2>4, <3>1, <3>2, <3>3 DEF ItemsOK, View, Chart
    <3>. QED
      BY <2>1, <2>2, <2>4, <3>1, <3>2, <3>4 DEF View
  <2>. QED
    BY <2>1, <2>3, <2>4
<1>. QED
  BY <1>2, <1>3

(* An instance that holds nothing moves on.                                 *)
LEMMA GoesItem ==
  ASSUME NEW v, View(v), NEW k \in Key, At(v, Item(k)) # "none", k \notin Holders(v), NEW s \in State,
         NEW w, w = Goes(v, Item(k), s)
  PROVE  /\ View(w) /\ Holders(w) = Holders(v) /\ w.rounds = v.rounds
         /\ w.pending = v.pending /\ w.visits = v.visits /\ w.calls = v.calls
         /\ (w.chart = "map") = (v.chart = "map")
         /\ KeepsPlaces(v, w, k)
<1> DEFINE x == [v EXCEPT !.leaves = Append(RemoveAt(@, LeafOf(v, k)), [key |-> k, at |-> s])]
<1>1. w = CompleteParallels(x)
  BY Producers DEF Goes
<1>2. /\ DOMAIN x = Fields /\ x.leaves = Append(RemoveAt(v.leaves, LeafOf(v, k)), [key |-> k, at |-> s])
      /\ x.chart = v.chart /\ x.rounds = v.rounds /\ x.pending = v.pending /\ x.visits = v.visits
      /\ x.failed = v.failed /\ x.calls = v.calls
      /\ x.status = v.status /\ x.mailbox = v.mailbox /\ x.at = v.at /\ x.current = v.current
      /\ x.sends = v.sends /\ x.settled = v.settled
  BY DEF View, Fields
<1> HIDE DEF x
<1>3. LeavesOK(v)
  BY DEF View, ItemsOK
<1>4. /\ LeavesOK(x) /\ x.leaves # <<>> /\ At(x, Item(k)) = s
      /\ \A q \in Key \ {k} : At(x, Item(q)) = At(v, Item(q))
      /\ \A q \in Key \ {k} : At(v, Item(q)) # "none" => LeafOf(x, q) < LeafOf(x, k)
      /\ \A q, r \in Key \ {k} :
           At(v, Item(q)) # "none" /\ At(v, Item(r)) # "none" =>
             (LeafOf(x, q) < LeafOf(x, r) <=> LeafOf(v, q) < LeafOf(v, r))
  <2>1. x.leaves = Append(RemoveAt(v.leaves, LeafOf(v, k)), [key |-> k, at |-> s])
    BY <1>2
  <2>2. Moved(v, x, k, s)
    BY <2>1, <1>3, MovedLeaf
  <2>. QED
    BY <2>2 DEF Moved
<1>5. Holders(x) = Holders(v)
  BY <1>2 DEF Holders
<1>6. v.chart = "each"
  BY NobodyThere DEF View
<1>7. ActorsOK(x)
  BY <1>2 DEF ActorsOK, View
<1>8. ItemsOK(x)
  <2>1. \A q \in Holders(x) : q \in Key \ {k}
    BY <1>5 DEF Holders
  <2>2. \A q \in Holders(x) : At(x, Item(q)) # "none" /\ Kind[At(x, Item(q))] = "work"
    BY <2>1, <1>4, <1>5 DEF View, ItemsOK
  <2>. QED
    BY <2>2, <1>2, <1>4, <1>6 DEF ItemsOK, View
<1>9. View(x)
  BY <1>2, <1>7, <1>8 DEF View
<1>10. /\ View(w) /\ Holders(w) = Holders(x) /\ w.rounds = x.rounds
       /\ w.pending = x.pending /\ w.visits = x.visits /\ w.calls = x.calls
       /\ (w.chart = "map") = (x.chart = "map")
       /\ \A q \in Waits(x) : q \in Waits(w) /\ Ahead(w, q) = Ahead(x, q)
  BY <1>1, <1>9, Completing
<1>11. \A q \in Waits(v) \ {k} : q \in Waits(x)
  BY <1>4, <1>5 DEF Waits
<1>12. ASSUME NEW q \in Waits(v) \ {k}
       PROVE  Ahead(x, q) \subseteq Ahead(v, q) \ {k}
  <2>1. q \in Key \ {k} /\ At(v, Item(q)) # "none"
    BY DEF Waits
  <2>2. LeafOf(x, q) < LeafOf(x, k)
    BY <2>1, <1>4
  <2>3. /\ LeafOf(x, q) \in Nat /\ (k \in Waits(x) => LeafOf(x, k) \in Nat)
    BY <1>4, <1>11, Places
  <2>4. k \notin Ahead(x, q)
    BY <2>2, <2>3 DEF Ahead
  <2>5. ASSUME NEW r \in Ahead(x, q)
        PROVE  r \in Ahead(v, q)
    <3>1. r \in Key \ {k} /\ r \in Waits(x) /\ LeafOf(x, r) < LeafOf(x, q)
      BY <2>4, <2>5 DEF Ahead, Waits
    <3>2. r \in Waits(v)
      BY <3>1, <1>4, <1>5 DEF Waits
    <3>3. LeafOf(v, r) < LeafOf(v, q)
      BY <2>1, <3>1, <3>2, <1>4 DEF Waits
    <3>. QED
      BY <3>2, <3>3 DEF Ahead
  <2>. QED
    BY <2>4, <2>5
<1>13. KeepsPlaces(v, w, k)
  BY <1>10, <1>11, <1>12 DEF KeepsPlaces
<1>. QED
  BY <1>2, <1>5, <1>10, <1>13

(* A worker moves on.                                                       *)
LEMMA GoesWorker ==
  ASSUME NEW v, View(v), NEW p \in Producer, ~IsItem(p), NEW s \in State, NEW w, w = Goes(v, p, s)
  PROVE  View(w) /\ SameItems(v, w) /\ w.calls = v.calls
<1>1. p[2] \in Endpoint /\ p[3] \in 1 .. Workers[p[2]]
  BY Producers
<1>2. /\ DOMAIN w = Fields /\ w.leaves = v.leaves /\ w.at = [v.at EXCEPT ![p[2]][p[3]] = s]
      /\ w.chart = v.chart /\ w.rounds = v.rounds /\ w.pending = v.pending /\ w.visits = v.visits
      /\ w.failed = v.failed /\ w.calls = v.calls
      /\ w.status = v.status /\ w.mailbox = v.mailbox /\ w.current = v.current
      /\ w.sends = v.sends /\ w.settled = v.settled
  BY DEF Goes, View, Fields
<1>3. SameItems(v, w)
  BY <1>2 DEF SameItems, View, ItemsOK
<1>4. DOMAIN w.at = Endpoint /\ \A e \in Endpoint : w.at[e] \in [1 .. Workers[e] -> State]
  BY <1>1, <1>2 DEF View, ActorsOK
<1>5. ActorsOK(w)
  BY <1>2, <1>4 DEF ActorsOK, View
<1>. QED
  BY <1>2, <1>3, <1>5, ItemsStay DEF View

(* Any producer moves on; an instance that does holds nothing.              *)
LEMMA GoesOn ==
  ASSUME NEW v, View(v), NEW p \in Producer, IsItem(p) => At(v, p) # "none" /\ p[2] \notin Holders(v),
         NEW s \in State, NEW w, w = Goes(v, p, s)
  PROVE  /\ View(w) /\ Holders(w) = Holders(v) /\ w.rounds = v.rounds
         /\ w.pending = v.pending /\ w.visits = v.visits /\ w.calls = v.calls
         /\ (w.chart = "map") = (v.chart = "map")
         /\ IF IsItem(p) THEN KeepsPlaces(v, w, p[2]) ELSE Admitted(w) = Admitted(v)
<1>1. CASE IsItem(p)
  <2>1. p[2] \in Key /\ p = Item(p[2])
    BY <1>1, Producers
  <2>. QED
    BY <1>1, <2>1, GoesItem
<1>2. CASE ~IsItem(p)
  <2>1. View(w) /\ SameItems(v, w) /\ w.calls = v.calls
    BY <1>2, GoesWorker
  <2>2. Holders(w) = Holders(v) /\ Admitted(w) = Admitted(v)
    BY <2>1, ItemsStay DEF View
  <2>. QED
    BY <1>2, <2>1, <2>2 DEF SameItems
<1>. QED
  BY <1>1, <1>2

-----------------------------------------------------------------------------
(* What a unit may say, and what a step along the log may do.               *)
UnitType == {"failure", "spawned", "invoke", "complete", "created", "enqueued", "accepted", "replied", "resolved",
             "closing", "stopped"}
UnitFits(u) ==
  /\ u.type \in UnitType /\ UnitOK(u)
  /\ u.type = "invoke" => \A x \in u.group : Kind[x[2]] = "work"
  /\ u.type = "complete" /\ u.to = "abort" => IsItem(u.p)
  /\ u.type = "replied" => ~IsItem(u.p)

Same(v, w) == w.rounds = v.rounds /\ Holders(w) = Holders(v) /\ Admitted(v) \subseteq Admitted(w)
Begins(v, w, u) ==
  /\ u.type = "invoke" /\ w.rounds = v.rounds /\ w.leaves = v.leaves
  /\ \E G \in SUBSET (Key \ Holders(v)) :
       Holders(w) = Holders(v) \cup G /\ \A k \in G : \E x \in u.group : x[1] = Item(k)
Ends(v, w, u) ==
  /\ u.type = "complete" /\ w.rounds = v.rounds
  /\ \E k \in Holders(v) : /\ u.p = Item(k) /\ Holders(w) = Holders(v) \ {k}
                           /\ Admitted(v) \ {k} \subseteq Admitted(w)
Over(v, w, u) ==
  /\ u.type = "complete" /\ u.to = "abort" /\ v.chart = "each"
  /\ w.rounds = v.rounds + 1 /\ w.chart = "map"
Pending(v, w) ==
  \A p \in Producer : /\ w.visits[p] >= v.visits[p]
                      /\ w.pending[p] = v.pending[p] \/ w.pending[p] = 0 \/ w.pending[p] > v.visits[p]
StepOf(v, w, u) ==
  /\ View(w) /\ Pending(v, w)
  /\ Same(v, w) \/ Begins(v, w, u) \/ Ends(v, w, u) \/ Over(v, w, u)
  /\ w.rounds = v.rounds => (w.chart = "map" => v.chart = "map")
  /\ u.type # "spawned" => (v.chart = "map" => w.chart = "map")

LEMMA Steady ==
  ASSUME NEW v, View(v), NEW w, View(w), SameItems(v, w), NEW u
  PROVE  StepOf(v, w, u)
<1>1. Holders(w) = Holders(v) /\ Admitted(w) = Admitted(v)
  BY ItemsStay DEF View
<1>2. Pending(v, w)
  BY DEF Pending, SameItems, View, ItemsOK
<1>. QED
  BY <1>1, <1>2 DEF StepOf, Same, SameItems

(* Projections that differ in what their actors keep only.                  *)
LEMMA ActorsMove ==
  ASSUME NEW v, View(v), NEW w, DOMAIN w = Fields, SameItems(v, w), ActorsOK(w)
  PROVE  View(w)
BY ItemsStay DEF View

LEMMA FailureStep ==
  ASSUME NEW v, View(v), NEW u, u.type = "failure"
  PROVE  StepOf(v, Project(v, u), u)
<1> DEFINE w == Project(v, u)
<1>1. w = [v EXCEPT !.failed = TRUE]
  BY DEF Project
<1>2. DOMAIN w = Fields /\ SameItems(v, w)
  BY <1>1 DEF View, Fields, SameItems
<1>3. ActorsOK(w)
  BY <1>1 DEF View, Fields, ActorsOK
<1> HIDE DEF w
<1>9. StepOf(v, w, u)
  BY <1>2, <1>3, ActorsMove, Steady
<1>. QED
  BY <1>9 DEF w

LEMMA ScopeStep ==
  ASSUME NEW v, View(v), NEW u, UnitFits(u), u.type \in {"created", "closing"}
  PROVE  StepOf(v, Project(v, u), u)
<1> DEFINE w == Project(v, u)
<1>1. PICK s \in {"open", "closing"} : w = [v EXCEPT !.status[u.e] = s]
  BY DEF Project
<1>2. u.e \in Endpoint
  BY DEF UnitFits, UnitOK
<1>3. DOMAIN w = Fields /\ SameItems(v, w)
  BY <1>1 DEF View, Fields, SameItems, ItemsOK
<1>4. ActorsOK(w)
  <2>1. /\ w.status = [v.status EXCEPT ![u.e] = s] /\ w.mailbox = v.mailbox /\ w.at = v.at /\ w.current = v.current
        /\ w.sends = v.sends /\ w.calls = v.calls /\ w.settled = v.settled
    BY <1>1 DEF View, Fields
  <2>. QED
    BY <1>2, <2>1 DEF View, ActorsOK
<1> HIDE DEF w
<1>9. StepOf(v, w, u)
  BY <1>3, <1>4, ActorsMove, Steady
<1>. QED
  BY <1>9 DEF w

LEMMA AcceptedStep ==
  ASSUME NEW v, View(v), NEW u, UnitFits(u), u.type = "accepted", ~Rejects(v, u)
  PROVE  StepOf(v, Project(v, u), u)
<1> DEFINE w == Project(v, u)
           e == u.e
           s == v.at[e][u.i]
<1>1. e \in Endpoint /\ u.i \in 1 .. Workers[e] /\ u.msg \in Messages
  BY DEF UnitFits, UnitOK
<1>2. w = [v EXCEPT !.mailbox[e] = Tail(@), !.current[e][u.i] = u.msg, !.at[e][u.i] = On[@][Says[u.msg.at]]]
  BY DEF Project
<1>3. v.mailbox[e] # <<>> /\ Kind[s] = "receive" /\ Says[u.msg.at] \in DOMAIN On[s]
  BY DEF Rejects, Takes
<1>4. s \in State
  BY <1>1 DEF View, ActorsOK
<1>5. On[s][Says[u.msg.at]] \in State
  <2>1. s \in DOMAIN On
    BY <1>3, <1>4, FanOutAssumption DEF Of
  <2>. QED
    BY <2>1, <1>3, FanOutAssumption
<1>6. DOMAIN w = Fields /\ SameItems(v, w)
  BY <1>2 DEF View, Fields, SameItems, ItemsOK
<1>7. ActorsOK(w)
  <2>1. /\ w.status = v.status /\ w.mailbox = [v.mailbox EXCEPT ![e] = Tail(@)]
        /\ w.at = [v.at EXCEPT ![e][u.i] = On[s][Says[u.msg.at]]]
        /\ w.current = [v.current EXCEPT ![e][u.i] = u.msg]
        /\ w.sends = v.sends /\ w.calls = v.calls /\ w.settled = v.settled
    BY <1>1, <1>2 DEF View, Fields, ActorsOK
  <2>2. v.mailbox \in [Endpoint -> Seq(Messages)]
    BY DEF View, ActorsOK
  <2>3. Tail(v.mailbox[e]) \in Seq(Messages)
    BY <1>1, <1>3, <2>2
  <2>4. w.mailbox \in [Endpoint -> Seq(Messages)]
    BY <2>1, <2>2, <2>3
  <2>5. DOMAIN w.at = Endpoint /\ \A f \in Endpoint : w.at[f] \in [1 .. Workers[f] -> State]
    <3>1. PICK n \in State : w.at = [v.at EXCEPT ![e][u.i] = n]
      BY <1>5, <2>1
    <3>2. DOMAIN v.at = Endpoint /\ \A f \in Endpoint : v.at[f] \in [1 .. Workers[f] -> State]
      BY DEF View, ActorsOK
    <3>. QED
      BY <1>1, <3>1, <3>2
  <2>6. /\ DOMAIN w.current = Endpoint
        /\ \A f \in Endpoint : w.current[f] \in [1 .. Workers[f] -> Messages \cup {NoMessage}]
    BY <1>1, <2>1 DEF View, ActorsOK
  <2>. QED
    BY <2>1, <2>4, <2>5, <2>6 DEF View, ActorsOK
<1> HIDE DEF w
<1>9. StepOf(v, w, u)
  BY <1>6, <1>7, ActorsMove, Steady
<1>. QED
  BY <1>9 DEF w

LEMMA StoppedStep ==
  ASSUME NEW v, View(v), NEW u, UnitFits(u), u.type = "stopped"
  PROVE  StepOf(v, Project(v, u), u)
<1> DEFINE x == [v EXCEPT !.status[u.e] = "stopped"]
           w == Project(v, u)
<1>1. w = CompleteParallels(x)
  BY DEF Project
<1>2. u.e \in Endpoint
  BY DEF UnitFits, UnitOK
<1>3. DOMAIN x = Fields /\ SameItems(v, x)
  BY DEF View, Fields, SameItems, ItemsOK
<1>4. ActorsOK(x)
  <2>1. /\ x.status = [v.status EXCEPT ![u.e] = "stopped"] /\ x.mailbox = v.mailbox /\ x.at = v.at
        /\ x.current = v.current /\ x.sends = v.sends /\ x.calls = v.calls /\ x.settled = v.settled
    BY DEF View, Fields
  <2>. QED
    BY <1>2, <2>1 DEF View, ActorsOK
<1> HIDE DEF w, x
<1>5. View(x) /\ Holders(x) = Holders(v) /\ Admitted(x) = Admitted(v)
  BY <1>3, <1>4, ActorsMove, ItemsStay DEF View
<1>6. /\ View(w) /\ Holders(w) = Holders(x) /\ w.rounds = x.rounds
      /\ w.pending = x.pending /\ w.visits = x.visits
      /\ (w.chart = "map") = (x.chart = "map") /\ Admitted(x) \subseteq Admitted(w)
  BY <1>1, <1>5, Completing
<1>7. Pending(v, w)
  BY <1>3, <1>6 DEF Pending, SameItems, View, ItemsOK
<1>8. StepOf(v, w, u)
  BY <1>3, <1>5, <1>6, <1>7 DEF StepOf, Same, SameItems
<1>. QED
  BY <1>8 DEF w

LEMMA SpawnedStep ==
  ASSUME NEW v, View(v), NEW u, UnitFits(u), u.type = "spawned"
  PROVE  StepOf(v, Project(v, u), u)
<1> DEFINE w == Project(v, u)
<1>1. CASE v.chart # "map"
  <2>1. w = v
    BY <1>1 DEF Project
  <2>2. SameItems(v, v)
    BY DEF SameItems, View, ItemsOK
  <2>. QED
    BY <2>1, <2>2, Steady
<1>2. CASE v.chart = "map"
  <2> DEFINE x == [v EXCEPT !.chart = IF u.n = 0 THEN "end" ELSE "each",
                            !.leaves = [k \in 1 .. u.n |-> [key |-> k, at |-> First]]]
  <2>1. w = CompleteParallels(x)
    BY <1>2 DEF Project
  <2>2. u.n \in 0 .. MaxItems /\ MaxItems \in Nat /\ First \in State
    BY FanOutAssumption DEF UnitFits, UnitOK
  <2>3. /\ DOMAIN x = Fields /\ x.leaves = [k \in 1 .. u.n |-> [key |-> k, at |-> First]]
        /\ x.chart = (IF u.n = 0 THEN "end" ELSE "each")
        /\ x.rounds = v.rounds /\ x.pending = v.pending /\ x.visits = v.visits /\ x.failed = v.failed
        /\ x.status = v.status /\ x.mailbox = v.mailbox /\ x.at = v.at /\ x.current = v.current
        /\ x.sends = v.sends /\ x.calls = v.calls /\ x.settled = v.settled
    BY DEF View, Fields
  <2> HIDE DEF x
  <2>4. ActorsOK(x)
    BY <2>3 DEF ActorsOK, View
  <2>5. LeavesOK(x)
    <3>1. \A k \in 1 .. u.n : [key |-> k, at |-> First] \in Leaf
      BY <2>2 DEF Leaf, Key
    <3>2. x.leaves \in Seq(Leaf)
      BY <2>2, <2>3, <3>1
    <3>. QED
      BY <2>2, <2>3, <3>2 DEF LeavesOK, Leaves
  <2>6. Holders(v) = {} /\ Admitted(v) = {}
    BY <1>2, NobodyThere DEF View
  <2>7. Holders(x) = {}
    BY <2>3, <2>6 DEF Holders
  <2>8. x.leaves # <<>> => x.chart = "each"
    <3>1. u.n = 0 => x.leaves = <<>>
      BY <2>3
    <3>. QED
      BY <2>3, <3>1
  <2>9. View(x)
    BY <2>3, <2>4, <2>5, <2>7, <2>8 DEF View, ItemsOK, Chart
  <2>10. /\ View(w) /\ Holders(w) = Holders(x) /\ w.rounds = x.rounds
         /\ w.pending = x.pending /\ w.visits = x.visits
         /\ (w.chart = "map") = (x.chart = "map")
    BY <2>1, <2>9, Completing
  <2>11. Pending(v, w)
    BY <2>3, <2>10 DEF Pending, View, ItemsOK
  <2> HIDE DEF w
  <2>12. StepOf(v, w, u)
    BY <1>2, <2>3, <2>6, <2>7, <2>10, <2>11 DEF StepOf, Same
  <2>. QED
    BY <2>12 DEF w
<1>. QED
  BY <1>1, <1>2

LEMMA InvokeStep ==
  ASSUME NEW v, View(v), NEW u, UnitFits(u), u.type = "invoke", ~Rejects(v, u)
  PROVE  StepOf(v, Project(v, u), u)
<1> DEFINE starts == {x \in u.group : At(v, x[1]) = x[2]}
           visits == [p \in Producer |-> IF \E x \in starts : x[1] = p THEN v.visits[p] + 1 ELSE v.visits[p]]
           pending == [p \in Producer |-> IF visits[p] # v.visits[p] THEN visits[p] ELSE v.pending[p]]
           w == Project(v, u)
           G == {k \in Key : \E x \in starts : x[1] = Item(k)}
<1>1. w = [v EXCEPT !.visits = visits, !.pending = pending]
  BY DEF Project
<1>2. /\ DOMAIN w = Fields /\ w.leaves = v.leaves /\ w.rounds = v.rounds /\ w.pending = pending
      /\ w.visits = visits /\ w.chart = v.chart /\ w.failed = v.failed
      /\ w.status = v.status /\ w.mailbox = v.mailbox /\ w.at = v.at /\ w.current = v.current
      /\ w.sends = v.sends /\ w.calls = v.calls /\ w.settled = v.settled
  BY <1>1 DEF View, Fields
<1>3. \A x \in starts : x[1] \in Producer /\ x[2] \in State /\ Kind[x[2]] = "work" /\ At(v, x[1]) = x[2]
  BY DEF UnitFits, UnitOK
<1>4. \A x \in starts : v.pending[x[1]] = 0
  BY DEF Rejects
<1>5. /\ v.pending \in [Producer -> Nat] /\ v.visits \in [Producer -> Nat]
      /\ \A p \in Producer : v.pending[p] <= v.visits[p]
  BY DEF View, ItemsOK
<1>6. ASSUME NEW p \in Producer
      PROVE  IF \E x \in starts : x[1] = p
             THEN visits[p] = v.visits[p] + 1 /\ pending[p] = v.visits[p] + 1
             ELSE visits[p] = v.visits[p] /\ pending[p] = v.pending[p]
  BY <1>5
<1>7. visits \in [Producer -> Nat] /\ pending \in [Producer -> Nat] /\ \A p \in Producer : pending[p] <= visits[p]
  BY <1>5
<1> HIDE DEF starts, visits, pending, w
<1>8. Holders(w) = Holders(v) \cup G
  <2>1. \A k \in Key : Item(k) \in Producer
    BY Producers
  <2>. QED
    BY <2>1, <1>2, <1>5, <1>6 DEF Holders
<1>9. \A k \in G : k \notin Holders(v) /\ At(v, Item(k)) # "none" /\ Kind[At(v, Item(k))] = "work"
  <2>1. SUFFICES ASSUME NEW k \in Key, NEW x \in starts, x[1] = Item(k)
                 PROVE  k \notin Holders(v) /\ At(v, Item(k)) # "none" /\ Kind[At(v, Item(k))] = "work"
    OBVIOUS
  <2>2. At(v, Item(k)) = x[2] /\ x[2] \in State /\ Kind[x[2]] = "work" /\ v.pending[Item(k)] = 0
    BY <2>1, <1>3, <1>4
  <2>3. "none" \notin State
    BY FanOutAssumption
  <2>. QED
    BY <2>2, <2>3 DEF Holders
<1>10. \A k \in Key : At(w, Item(k)) = At(v, Item(k))
  BY <1>2, Producers DEF At, Leaves, LeafOf
<1>11. ItemsOK(w)
  <2>1. LeavesOK(w)
    BY <1>2 DEF LeavesOK, Leaves, View, ItemsOK
  <2>2. \A k \in Holders(w) : At(w, Item(k)) # "none" /\ Kind[At(w, Item(k))] = "work"
    BY <1>8, <1>9, <1>10 DEF View, ItemsOK, Holders
  <2>. QED
    BY <2>1, <2>2, <1>2, <1>7 DEF ItemsOK, View
<1>12. ActorsOK(w)
  BY <1>2 DEF ActorsOK, View
<1>13. Begins(v, w, u)
  <2>1. G \in SUBSET (Key \ Holders(v)) /\ \A k \in G : \E x \in u.group : x[1] = Item(k)
    BY <1>9 DEF starts
  <2>. QED
    BY <2>1, <1>2, <1>8 DEF Begins
<1>14. Pending(v, w)
  BY <1>2, <1>5, <1>6 DEF Pending
<1>15. StepOf(v, w, u)
  BY <1>2, <1>11, <1>12, <1>13, <1>14 DEF StepOf, View
<1>. QED
  BY <1>15 DEF w

(* What has come to an end has no work pending any more.                    *)
Clear(v, p) == [v EXCEPT !.pending[p] = 0]
ClearedOf(v, w, p) ==
  /\ View(w) /\ \A k : k \in Holders(w) <=> k \in Holders(v) /\ Item(k) # p
  /\ w.rounds = v.rounds /\ w.chart = v.chart /\ w.visits = v.visits
  /\ \A q \in Producer : w.pending[q] = IF q = p THEN 0 ELSE v.pending[q]
  /\ \A k \in Key : At(w, Item(k)) = At(v, Item(k))
  /\ \A k : LeafOf(w, k) = LeafOf(v, k)

LEMMA Cleared ==
  ASSUME NEW v, View(v), NEW p \in Producer, NEW w, w = Clear(v, p)
  PROVE  ClearedOf(v, w, p)
<1>1. /\ DOMAIN w = Fields /\ w.leaves = v.leaves /\ w.rounds = v.rounds /\ w.pending = [v.pending EXCEPT ![p] = 0]
      /\ w.visits = v.visits /\ w.chart = v.chart /\ w.failed = v.failed
      /\ w.status = v.status /\ w.mailbox = v.mailbox /\ w.at = v.at /\ w.current = v.current
      /\ w.sends = v.sends /\ w.calls = v.calls /\ w.settled = v.settled
  BY DEF Clear, View, Fields
<1>2. \A k : LeafOf(w, k) = LeafOf(v, k)
  BY <1>1 DEF LeafOf, Leaves
<1>3. \A k \in Key : At(w, Item(k)) = At(v, Item(k))
  BY <1>1, <1>2, Producers DEF At, Leaves
<1>4. Holders(w) = {k \in Holders(v) : Item(k) # p}
  <2>1. \A k \in Key : Item(k) \in Producer
    BY Producers
  <2>. QED
    BY <1>1, <2>1 DEF Holders, View, ItemsOK
<1>5. ItemsOK(w)
  <2>1. LeavesOK(w)
    BY <1>1 DEF LeavesOK, Leaves, View, ItemsOK
  <2>2. \A k \in Holders(w) : At(w, Item(k)) # "none" /\ Kind[At(w, Item(k))] = "work"
    BY <1>3, <1>4 DEF View, ItemsOK, Holders
  <2>3. w.pending \in [Producer -> Nat] /\ \A q \in Producer : w.pending[q] <= w.visits[q]
    BY <1>1 DEF View, ItemsOK
  <2>. QED
    BY <2>1, <2>2, <2>3, <1>1 DEF ItemsOK, View
<1>6. ActorsOK(w)
  BY <1>1 DEF ActorsOK, View
<1>7. \A q \in Producer : w.pending[q] = IF q = p THEN 0 ELSE v.pending[q]
  BY <1>1 DEF View, ItemsOK
<1>. QED
  BY <1>1, <1>2, <1>3, <1>4, <1>5, <1>6, <1>7 DEF View, ClearedOf

LEMMA CompleteStep ==
  ASSUME NEW v, View(v), NEW u, UnitFits(u), u.type = "complete", ~Rejects(v, u)
  PROVE  StepOf(v, Project(v, u), u)
<1> DEFINE w == Project(v, u)
<1>1. u.p \in Producer /\ u.at \in State /\ u.to \in State \cup {"abort"} /\ (u.to = "abort" => IsItem(u.p))
  BY DEF UnitFits, UnitOK
<1>2. CASE At(v, u.p) # u.at
  <2>1. w = v
    BY <1>2 DEF Project
  <2>2. SameItems(v, v)
    BY DEF SameItems, View, ItemsOK
  <2>. QED
    BY <2>1, <2>2, Steady
<1>3. CASE At(v, u.p) = u.at /\ u.to = "abort"
  <2>1. w = Leave(v)
    BY <1>3 DEF Project
  <2>2. u.p[2] \in Key /\ u.p = Item(u.p[2]) /\ At(v, u.p) # "none"
    BY <1>1, <1>3, Producers, FanOutAssumption
  <2>3. v.chart = "each"
    BY <2>2, NobodyThere DEF View
  <2>4. /\ DOMAIN w = Fields /\ w.leaves = <<>> /\ w.chart = "map" /\ w.rounds = v.rounds + 1
        /\ w.pending = [p \in Producer |-> IF IsItem(p) THEN 0 ELSE v.pending[p]]
        /\ w.visits = v.visits /\ w.failed = v.failed
        /\ w.status = v.status /\ w.mailbox = v.mailbox /\ w.at = v.at /\ w.current = v.current
        /\ w.sends = v.sends /\ w.calls = v.calls /\ w.settled = v.settled
    BY <2>1 DEF Leave, View, Fields
  <2> HIDE DEF w
  <2>5. Holders(w) = {}
    BY <2>4, Producers DEF Holders
  <2>6. LeavesOK(w)
    BY <2>4 DEF LeavesOK, Leaves
  <2>7. w.pending \in [Producer -> Nat] /\ \A p \in Producer : w.pending[p] <= w.visits[p]
    BY <2>4 DEF View, ItemsOK
  <2>8. ItemsOK(w)
    BY <2>4, <2>5, <2>6, <2>7 DEF ItemsOK, View, Chart
  <2>9. ActorsOK(w)
    BY <2>4 DEF ActorsOK, View
  <2>10. Pending(v, w)
    BY <2>4 DEF Pending, View, ItemsOK
  <2>11. Over(v, w, u)
    BY <1>3, <2>3, <2>4 DEF Over
  <2>12. w.rounds # v.rounds
    BY <2>4 DEF View, ItemsOK
  <2>13. StepOf(v, w, u)
    BY <2>3, <2>4, <2>8, <2>9, <2>10, <2>11, <2>12 DEF StepOf, View
  <2>. QED
    BY <2>13 DEF w
<1>4. CASE At(v, u.p) = u.at /\ u.to # "abort"
  <2>0. PICK x : x = Clear(v, u.p)
    OBVIOUS
  <2>1. w = Goes(x, u.p, u.to) /\ u.to \in State
    BY <1>1, <1>4, <2>0 DEF Project, Clear
  <2>2. v.pending[u.p] # 0
    BY <1>4 DEF Rejects
  <2>3. /\ View(x) /\ \A k : k \in Holders(x) <=> k \in Holders(v) /\ Item(k) # u.p
        /\ x.rounds = v.rounds /\ x.chart = v.chart /\ x.visits = v.visits
        /\ \A q \in Producer : x.pending[q] = IF q = u.p THEN 0 ELSE v.pending[q]
        /\ \A k \in Key : At(x, Item(k)) = At(v, Item(k))
        /\ \A k : LeafOf(x, k) = LeafOf(v, k)
    BY <1>1, <2>0, Cleared DEF ClearedOf
  <2> HIDE DEF w
  <2>4. IsItem(u.p) => At(x, u.p) # "none" /\ u.p[2] \notin Holders(x)
    <3>1. "none" \notin State
      BY FanOutAssumption
    <3>. QED
      BY <1>1, <1>4, <2>3, <3>1, Producers
  <2>5. /\ View(w) /\ Holders(w) = Holders(x) /\ w.rounds = x.rounds
        /\ w.pending = x.pending /\ w.visits = x.visits
        /\ (w.chart = "map") = (x.chart = "map")
        /\ IF IsItem(u.p) THEN KeepsPlaces(x, w, u.p[2]) ELSE Admitted(w) = Admitted(x)
    BY <1>1, <2>1, <2>3, <2>4, GoesOn
  <2>6. Pending(v, w)
    BY <1>1, <2>3, <2>5 DEF Pending, View, ItemsOK
  <2>7. Same(v, w) \/ Ends(v, w, u)
    <3>1. CASE IsItem(u.p)
      <4> DEFINE k == u.p[2]
      <4>1. k \in Key /\ u.p = Item(k)
        BY <1>1, <3>1, Producers
      <4>2. k \in Holders(v) /\ Holders(w) = Holders(v) \ {k}
        <5>1. \A q \in Key : Item(q) = Item(k) => q = k
          BY DEF Item
        <5>2. k \in Holders(v)
          BY <2>2, <4>1 DEF Holders
        <5>3. \A q \in Holders(v) : Item(q) # u.p <=> q # k
          BY <4>1, <5>1 DEF Holders
        <5>. QED
          BY <2>3, <2>5, <5>2, <5>3
      <4>3. Waits(x) = Waits(v) \cup {k}
        <5>1. At(v, Item(k)) # "none" /\ Kind[At(v, Item(k))] = "work"
          BY <4>2 DEF View, ItemsOK
        <5>2. Holders(x) = Holders(v) \ {k}
          BY <4>2, <2>5
        <5>. QED
          BY <4>1, <5>1, <5>2, <2>3 DEF Waits
      <4>4. KeepsPlaces(v, w, k)
        <5>1. \A q : Ahead(x, q) \subseteq Ahead(v, q) \cup {k}
          BY <2>3, <4>3 DEF Ahead
        <5>. QED
          BY <2>5, <3>1, <4>3, <5>1 DEF KeepsPlaces
      <4>5. Admitted(v) \ {k} \subseteq Admitted(w)
        BY <4>2, <4>4, AdmittedStay
      <4>. QED
        BY <4>1, <4>2, <4>5, <2>3, <2>5 DEF Ends
    <3>2. CASE ~IsItem(u.p)
      <4>1. \A k \in Key : Item(k) # u.p
        BY <3>2, Producers
      <4>2. Holders(x) = Holders(v)
        BY <2>3, <4>1 DEF Holders
      <4>3. Waits(x) = Waits(v)
        BY <2>3, <4>2 DEF Waits
      <4>4. \A q : Ahead(x, q) = Ahead(v, q)
        BY <2>3, <4>3 DEF Ahead
      <4>5. Admitted(x) = Admitted(v)
        BY <4>2, <4>3, <4>4 DEF Admitted
      <4>. QED
        BY <2>3, <2>5, <3>2, <4>2, <4>5 DEF Same
    <3>. QED
      BY <3>1, <3>2
  <2>8. StepOf(v, w, u)
    BY <2>3, <2>5, <2>6, <2>7 DEF StepOf
  <2>. QED
    BY <2>8 DEF w
<1>. QED
  BY <1>2, <1>3, <1>4

(* A producer that is not at work moves on, after what its move does to the *)
(* actors.                                                                  *)
LEMMA MoveStep ==
  ASSUME NEW v, View(v), NEW x, View(x), SameItems(v, x), NEW p \in Producer,
         IsItem(p) => At(v, p) # "none" /\ Kind[At(v, p)] # "work", NEW s \in State,
         NEW w, w = Goes(x, p, s), NEW u
  PROVE  StepOf(v, w, u)
<1>1. /\ Holders(x) = Holders(v) /\ Admitted(x) = Admitted(v)
      /\ \A k \in Key : At(x, Item(k)) = At(v, Item(k))
  BY ItemsStay DEF View
<1>2. IsItem(p) => p[2] \in Key /\ p = Item(p[2])
  BY Producers
<1>3. IsItem(p) => At(x, p) # "none" /\ p[2] \notin Holders(x)
  BY <1>1, <1>2 DEF View, ItemsOK
<1>4. /\ View(w) /\ Holders(w) = Holders(x) /\ w.rounds = x.rounds
      /\ w.pending = x.pending /\ w.visits = x.visits
      /\ (w.chart = "map") = (x.chart = "map")
      /\ IF IsItem(p) THEN KeepsPlaces(x, w, p[2]) ELSE Admitted(w) = Admitted(x)
  BY <1>3, GoesOn
<1>5. Admitted(x) \subseteq Admitted(w)
  <2>1. CASE IsItem(p)
    <3>1. p[2] \notin Admitted(x)
      BY <1>1, <1>2, <1>3, <2>1 DEF Admitted, Waits
    <3>2. Holders(w) = Holders(x) \ {p[2]}
      BY <1>3, <1>4, <2>1
    <3>3. Admitted(x) \ {p[2]} \subseteq Admitted(w)
      BY <1>4, <2>1, <3>2, AdmittedStay
    <3>. QED
      BY <3>1, <3>3
  <2>2. CASE ~IsItem(p)
    BY <1>4, <2>2
  <2>. QED
    BY <2>1, <2>2
<1>6. Pending(v, w)
  BY <1>4 DEF Pending, SameItems, View, ItemsOK
<1>. QED
  BY <1>1, <1>4, <1>5, <1>6 DEF StepOf, Same, SameItems

LEMMA EnqueuedStep ==
  ASSUME NEW v, View(v), NEW u, UnitFits(u), u.type = "enqueued", ~Rejects(v, u)
  PROVE  StepOf(v, Project(v, u), u)
<1> DEFINE w == Project(v, u)
           e == To[u.at]
<1>1. u.p \in Producer /\ u.at \in Of({"send", "call"}) /\ u.visit \in Nat
  BY FanOutAssumption DEF UnitFits, UnitOK
<1>2. e \in Endpoint /\ u.at \in State /\ Kind[u.at] \in {"send", "call"} /\ Count[u.at] \in Nat \ {0}
  BY <1>1, FanOutAssumption DEF Of
<1>3. PICK x : x = [v EXCEPT !.mailbox[e] = @ \o Batch(u.p, u.at, u.visit), !.sends[u.p] = u.visit]
  OBVIOUS
<1>4. Batch(u.p, u.at, u.visit) \in Seq(Messages)
  <2>1. \A i \in 1 .. Count[u.at] : Message(u.p, u.at, u.visit, i) \in Messages
    BY <1>1, <1>2 DEF Message, Messages
  <2>. QED
    BY <2>1, <1>2 DEF Batch
<1>5. /\ DOMAIN x = Fields /\ SameItems(v, x)
      /\ x.status = v.status /\ x.mailbox = [v.mailbox EXCEPT ![e] = @ \o Batch(u.p, u.at, u.visit)]
      /\ x.at = v.at /\ x.current = v.current
      /\ x.sends = [v.sends EXCEPT ![u.p] = u.visit] /\ x.calls = v.calls /\ x.settled = v.settled
  BY <1>3 DEF View, Fields, SameItems, ItemsOK
<1>6. ActorsOK(x)
  <2>1. v.mailbox \in [Endpoint -> Seq(Messages)] /\ v.sends \in [Producer -> Nat]
    BY DEF View, ActorsOK
  <2>2. v.mailbox[e] \o Batch(u.p, u.at, u.visit) \in Seq(Messages)
    BY <1>2, <1>4, <2>1
  <2>3. x.mailbox \in [Endpoint -> Seq(Messages)]
    BY <1>5, <2>1, <2>2
  <2>4. x.sends \in [Producer -> Nat]
    BY <1>1, <1>5, <2>1
  <2>. QED
    BY <1>5, <2>3, <2>4 DEF View, ActorsOK
<1>7. View(x)
  BY <1>5, <1>6, ActorsMove
<1>8. CASE Kind[u.at] = "call"
  <2>1. w = [x EXCEPT !.calls = @ \cup {Call(u.p, u.at, u.visit)}]
    BY <1>3, <1>8 DEF Project
  <2>2. DOMAIN w = Fields /\ SameItems(v, w)
    BY <2>1, <1>5 DEF Fields, SameItems
  <2>3. ActorsOK(w)
    <3>1. Call(u.p, u.at, u.visit) \in Asking
      BY <1>1, <1>2, <1>8 DEF Call, Calls, Asking
    <3>2. /\ w.status = x.status /\ w.mailbox = x.mailbox /\ w.at = x.at /\ w.current = x.current
          /\ w.sends = x.sends /\ w.settled = x.settled /\ w.calls = x.calls \cup {Call(u.p, u.at, u.visit)}
      BY <2>1, <1>5 DEF Fields
    <3>3. IsFiniteSet(w.calls)
      <4>1. IsFiniteSet(x.calls)
        BY <1>6 DEF ActorsOK
      <4>. QED
        BY <3>2, <4>1, FS_AddElement
    <3>. QED
      BY <3>1, <3>2, <3>3, <1>6 DEF ActorsOK
  <2> HIDE DEF w
  <2>4. StepOf(v, w, u)
    BY <2>2, <2>3, ActorsMove, Steady
  <2>. QED
    BY <2>4 DEF w
<1>9. CASE Kind[u.at] # "call"
  <2>1. w = Goes(x, u.p, Target[u.at])
    BY <1>3, <1>9 DEF Project
  <2>2. At(v, u.p) = u.at /\ Kind[u.at] = "send"
    BY <1>2, <1>9 DEF Rejects
  <2>3. Target[u.at] \in State
    BY <1>2, <2>2, FanOutAssumption DEF Of
  <2>4. At(v, u.p) # "none" /\ Kind[At(v, u.p)] # "work"
    BY <1>2, <2>2, FanOutAssumption
  <2> HIDE DEF w
  <2>5. StepOf(v, w, u)
    BY <1>1, <1>5, <1>7, <2>1, <2>3, <2>4, MoveStep
  <2>. QED
    BY <2>5 DEF w
<1>. QED
  BY <1>8, <1>9

(* The caller is still at its call.                                         *)
LEMMA Resolving ==
  ASSUME NEW v, View(v), NEW x, View(x), SameItems(v, x), x.calls = v.calls,
         NEW c \in v.calls, At(v, c.from) = c.at, NEW u
  PROVE  StepOf(v, Resolve(x, c), u)
<1>1. PICK y : y = [x EXCEPT !.calls = @ \ {c}, !.settled = @ \ Members(c)]
  OBVIOUS
<1>2. Resolve(x, c) = Goes(y, c.from, Target[c.at])
  BY <1>1 DEF Resolve
<1>3. c.from \in Producer /\ c.at \in State /\ Kind[c.at] = "call"
  BY DEF View, ActorsOK, Asking, Calls
<1>4. /\ DOMAIN y = Fields /\ SameItems(v, y)
      /\ y.status = x.status /\ y.mailbox = x.mailbox /\ y.at = x.at /\ y.current = x.current
      /\ y.sends = x.sends /\ y.calls = x.calls \ {c} /\ y.settled = x.settled \ Members(c)
  BY <1>1 DEF View, Fields, SameItems, ItemsOK
<1>5. ActorsOK(y)
  <2>1. IsFiniteSet(y.calls)
    BY <1>4, FS_RemoveElement DEF View, ActorsOK
  <2>. QED
    BY <1>4, <2>1 DEF View, ActorsOK
<1>6. View(y)
  BY <1>4, <1>5, ActorsMove
<1>7. Target[c.at] \in State
  BY <1>3, FanOutAssumption DEF Of
<1>8. At(v, c.from) # "none" /\ Kind[At(v, c.from)] # "work"
  BY <1>3, FanOutAssumption
<1>9. PICK w : w = Goes(y, c.from, Target[c.at])
  OBVIOUS
<1>10. StepOf(v, w, u)
  BY <1>3, <1>4, <1>6, <1>7, <1>8, <1>9, MoveStep
<1>. QED
  BY <1>2, <1>9, <1>10

LEMMA ResolvedStep ==
  ASSUME NEW v, View(v), NEW u, UnitFits(u), u.type = "resolved", ~Rejects(v, u)
  PROVE  StepOf(v, Project(v, u), u)
<1>1. u.call \in v.calls /\ At(v, u.call.from) = u.call.at
  BY DEF Rejects, Resolvable
<1>2. SameItems(v, v)
  BY DEF SameItems, View, ItemsOK
<1>3. Project(v, u) = Resolve(v, u.call)
  BY DEF Project
<1>. QED
  BY <1>1, <1>2, <1>3, Resolving

LEMMA RepliedStep ==
  ASSUME NEW v, View(v), NEW u, UnitFits(u), u.type = "replied", ~Rejects(v, u)
  PROVE  StepOf(v, Project(v, u), u)
<1> DEFINE e == u.p[2]
           i == u.p[3]
<1>1. u.p \in Producer /\ ~IsItem(u.p) /\ u.msg \in Messages
  BY DEF UnitFits, UnitOK
<1>2. e \in Endpoint /\ i \in 1 .. Workers[e]
  BY <1>1, Producers
<1>3. PICK x : x = [v EXCEPT !.current[e][i] = NoMessage, !.at[e][i] = Target[@],
                             !.settled = IF Asks(u.msg) THEN @ \cup {u.msg} ELSE @]
  OBVIOUS
<1>4. Kind[v.at[e][i]] = "reply" /\ v.at[e][i] \in State
  BY <1>2 DEF Rejects, View, ActorsOK
<1>5. Target[v.at[e][i]] \in State
  BY <1>4, FanOutAssumption DEF Of
<1>6. /\ DOMAIN x = Fields /\ SameItems(v, x)
      /\ x.status = v.status /\ x.mailbox = v.mailbox
      /\ x.at = [v.at EXCEPT ![e][i] = Target[v.at[e][i]]]
      /\ x.current = [v.current EXCEPT ![e][i] = NoMessage]
      /\ x.sends = v.sends /\ x.calls = v.calls
      /\ x.settled = IF Asks(u.msg) THEN v.settled \cup {u.msg} ELSE v.settled
  BY <1>2, <1>3 DEF View, Fields, SameItems, ItemsOK, ActorsOK
<1>7. ActorsOK(x)
  <2>1. /\ DOMAIN v.at = Endpoint /\ DOMAIN v.current = Endpoint
        /\ \A f \in Endpoint : /\ v.at[f] \in [1 .. Workers[f] -> State]
                               /\ v.current[f] \in [1 .. Workers[f] -> Messages \cup {NoMessage}]
    BY DEF View, ActorsOK
  <2>2. PICK s \in State : x.at = [v.at EXCEPT ![e][i] = s]
    BY <1>5, <1>6
  <2>3. DOMAIN x.at = Endpoint /\ \A f \in Endpoint : x.at[f] \in [1 .. Workers[f] -> State]
    BY <1>2, <2>1, <2>2
  <2>4. PICK n \in Messages \cup {NoMessage} : x.current = [v.current EXCEPT ![e][i] = n]
    BY <1>6
  <2>5. /\ DOMAIN x.current = Endpoint
        /\ \A f \in Endpoint : x.current[f] \in [1 .. Workers[f] -> Messages \cup {NoMessage}]
    BY <1>2, <2>1, <2>4
  <2>6. x.settled \subseteq Messages
    BY <1>1, <1>6 DEF View, ActorsOK
  <2>7. /\ x.status \in [Endpoint -> {"none", "open", "closing", "stopped"}]
        /\ x.mailbox \in [Endpoint -> Seq(Messages)]
        /\ x.sends \in [Producer -> Nat] /\ x.calls \subseteq Asking /\ IsFiniteSet(x.calls)
    BY <1>6 DEF View, ActorsOK
  <2>. QED
    BY <2>3, <2>5, <2>6, <2>7 DEF ActorsOK
<1>8. View(x)
  BY <1>6, <1>7, ActorsMove
<1>9. CASE u.resolves
  <2>1. Project(v, u) = Resolve(x, CallOf(u.msg))
    BY <1>3, <1>9 DEF Project
  <2>2. CallOf(u.msg) \in v.calls /\ At(v, CallOf(u.msg).from) = CallOf(u.msg).at
    BY <1>9 DEF Rejects, Resolvable
  <2>. QED
    BY <1>6, <1>8, <2>1, <2>2, Resolving
<1>10. CASE ~u.resolves
  <2>1. Project(v, u) = x
    BY <1>3, <1>10 DEF Project
  <2>. QED
    BY <1>6, <1>8, <2>1, Steady
<1>. QED
  BY <1>9, <1>10

(* Every unit that the log does not refuse leads to the next projection.    *)
LEMMA ProjectStep ==
  ASSUME NEW v, View(v), NEW u, UnitFits(u), ~Rejects(v, u)
  PROVE  StepOf(v, Project(v, u), u)
<1>1. u.type \in UnitType
  BY DEF UnitFits
<1>. QED
  BY <1>1, FailureStep, ScopeStep, AcceptedStep, StoppedStep, SpawnedStep, InvokeStep, CompleteStep, EnqueuedStep,
     ResolvedStep, RepliedStep DEF UnitType

-----------------------------------------------------------------------------
(* From the machine's projection to the log's, event by event: an           *)
(* acknowledgement leads on as the log was led on when the unit was         *)
(* committed.                                                               *)
Follows(h, q) ==
  /\ \A i \in 0 .. Len(q) : View(h[i])
  /\ \A i \in 1 .. Len(q) :
       IF q[i].kind = "ack"
       THEN UnitFits(q[i].unit) /\ ~Rejects(h[i - 1], q[i].unit) /\ h[i] = Project(h[i - 1], q[i].unit)
       ELSE h[i] = h[i - 1]

(* On the way the log holds those only whom the machine admits; whoever is  *)
(* through is so for good, and whoever began is at work until the machine   *)
(* has learned of it, unless the map is left: then nobody is.               *)
Within(h, n) ==
  /\ \A i \in 0 .. n : /\ Holders(h[i]) \subseteq Admitted(h[0]) /\ h[i].rounds <= MaxRounds
                       /\ \/ h[i].rounds = h[0].rounds
                          \/ h[i].rounds = h[0].rounds + 1 /\ h[i].chart = "map" /\ h[0].chart # "map"
  /\ \A i, j \in 0 .. n : i <= j =>
       /\ h[i].rounds <= h[j].rounds
       /\ \A k \in Key : /\ k \in Holders(h[0]) /\ k \in Holders(h[j]) => k \in Holders(h[i])
                         /\ k \notin Holders(h[0]) /\ k \in Holders(h[i]) /\ h[i].rounds = h[j].rounds =>
                              k \in Holders(h[j])
Chain(h, m, d, q) == h[0] = m /\ h[Len(q)] = d /\ Follows(h, q) /\ Within(h, Len(q))
Spans(m, d, q) == \E h : Chain(h, m, d, q)

(* What the machine may have asked for, by its own projection.              *)
Asked(m, u) ==
  /\ u.type = "invoke" => \A x \in u.group : IsItem(x[1]) => x[1][2] \in Admitted(m) \ Holders(m)
  /\ u.type = "complete" => /\ IsItem(u.p) => u.p[2] \in Holders(m)
                            /\ u.to = "abort" => m.rounds < MaxRounds
  /\ u.type = "spawned" => m.chart = "map"

LEMMA ChainStarts ==
  ASSUME NEW v, View(v), v.rounds <= MaxRounds, NEW S, NEW q \in Seq(S), \A i \in 1 .. Len(q) : q[i].kind # "ack"
  PROVE  Spans(v, v, q)
<1>1. PICK h : h = [i \in 0 .. Len(q) |-> v]
  OBVIOUS
<1>2. Len(q) \in Nat /\ \A i \in 0 .. Len(q) : h[i] = v
  BY <1>1
<1>3. Follows(h, q)
  BY <1>2 DEF Follows
<1>4. Holders(v) \subseteq Admitted(v) /\ v.rounds \in Nat
  BY DEF Admitted, View, ItemsOK
<1>5. Within(h, Len(q))
  BY <1>2, <1>4 DEF Within
<1>. QED
  BY <1>2, <1>3, <1>5 DEF Spans, Chain

LEMMA ChainWaits ==
  ASSUME NEW m, NEW d, NEW S, NEW q \in Seq(S), Spans(m, d, q), NEW event \in S, event.kind # "ack"
  PROVE  Spans(m, d, Append(q, event))
<1>1. PICK h : Chain(h, m, d, q)
  BY DEF Spans
<1>2. PICK n \in Nat : n = Len(q)
  OBVIOUS
<1>3. PICK t : t = Append(q, event)
  OBVIOUS
<1>4. Len(t) = n + 1 /\ t[n + 1] = event /\ \A i \in 1 .. n : t[i] = q[i]
  BY <1>2, <1>3
<1>5. PICK g : g = [i \in 0 .. n + 1 |-> IF i = n + 1 THEN d ELSE h[i]]
  OBVIOUS
<1>6. g[n + 1] = h[n] /\ h[n] = d /\ g[0] = h[0] /\ h[0] = m /\ \A i \in 0 .. n : g[i] = h[i]
  BY <1>1, <1>2, <1>5 DEF Chain
<1>7. Follows(g, t)
  <2>1. ASSUME NEW i \in 1 .. n
        PROVE  i \in 0 .. n /\ i - 1 \in 0 .. n
    OBVIOUS
  <2>. QED
    BY <1>1, <1>2, <1>4, <1>6, <2>1 DEF Chain, Follows
<1>8. Within(g, n + 1)
  <2>1. \A i \in 0 .. n + 1 : \E j \in 0 .. n : g[i] = h[j] /\ (i <= n => j = i) /\ (i = n + 1 => j = n)
    BY <1>6
  <2>. QED
    BY <1>1, <1>2, <1>6, <2>1, SMTT(60) DEF Chain, Within
<1>. QED
  BY <1>3, <1>4, <1>6, <1>7, <1>8 DEF Spans, Chain

(* What the machine asked for is committed.                                 *)
LEMMA ChainGrows ==
  ASSUME NEW m, NEW d, NEW S, NEW q \in Seq(S), Spans(m, d, q),
         NEW event \in S, event.kind = "ack", NEW u, event.unit = u,
         UnitFits(u), ~Rejects(d, u), Asked(m, u)
  PROVE  Spans(m, Project(d, u), Append(q, event)) /\ View(Project(d, u)) /\ Project(d, u).rounds <= MaxRounds
<1>1. PICK h : Chain(h, m, d, q)
  BY DEF Spans
<1>2. PICK n \in Nat : n = Len(q)
  OBVIOUS
<1>3. PICK t : t = Append(q, event)
  OBVIOUS
<1>4. Len(t) = n + 1 /\ t[n + 1] = event /\ \A i \in 1 .. n : t[i] = q[i]
  BY <1>2, <1>3
<1>5. PICK w : w = Project(d, u)
  OBVIOUS
<1>6. PICK g : g = [i \in 0 .. n + 1 |-> IF i = n + 1 THEN w ELSE h[i]]
  OBVIOUS
<1>7. g[n + 1] = w /\ h[n] = d /\ g[n] = d /\ g[0] = h[0] /\ h[0] = m /\ \A i \in 0 .. n : g[i] = h[i]
  BY <1>1, <1>2, <1>6 DEF Chain
<1>8. View(d) /\ View(m)
  BY <1>1, <1>2, <1>7 DEF Chain, Follows
<1>9. StepOf(d, w, u)
  BY <1>5, <1>8, ProjectStep
<1>10. View(w)
  BY <1>9 DEF StepOf
<1>11. Follows(g, t)
  <2>1. ASSUME NEW i \in 1 .. n
        PROVE  i \in 0 .. n /\ i - 1 \in 0 .. n
    OBVIOUS
  <2>2. \A i \in 0 .. n + 1 : View(g[i])
    BY <1>1, <1>2, <1>7, <1>10 DEF Chain, Follows
  <2>3. ASSUME NEW i \in 1 .. n + 1
        PROVE  IF t[i].kind = "ack"
               THEN UnitFits(t[i].unit) /\ ~Rejects(g[i - 1], t[i].unit) /\ g[i] = Project(g[i - 1], t[i].unit)
               ELSE g[i] = g[i - 1]
    <3>1. CASE i = n + 1
      <4>1. i - 1 = n /\ t[i] = event
        BY <3>1, <1>4
      <4>. QED
        BY <4>1, <3>1, <1>5, <1>7
    <3>2. CASE i # n + 1
      <4>1. i \in 1 .. n
        BY <3>2
      <4>. QED
        BY <4>1, <2>1, <1>1, <1>2, <1>4, <1>7 DEF Chain, Follows
    <3>. QED
      BY <3>1, <3>2
  <2>. QED
    BY <1>4, <2>2, <2>3 DEF Follows
<1>12. Within(h, n)
  BY <1>1, <1>2 DEF Chain
<1>13. /\ d.rounds \in Nat /\ w.rounds \in Nat /\ m.rounds \in Nat /\ MaxRounds \in Nat
       /\ d.rounds <= MaxRounds /\ Holders(d) \subseteq Admitted(m)
       /\ d.rounds = m.rounds \/ (d.rounds = m.rounds + 1 /\ d.chart = "map" /\ m.chart # "map")
  <2>1. d.rounds \in Nat /\ w.rounds \in Nat /\ m.rounds \in Nat
    BY <1>8, <1>10 DEF View, ItemsOK
  <2>2. MaxRounds \in Nat
    BY FanOutAssumption
  <2>3. n \in 0 .. n
    OBVIOUS
  <2>. QED
    BY <1>7, <1>12, <2>1, <2>2, <2>3 DEF Within
<1>14. /\ Holders(w) \subseteq Admitted(m) /\ w.rounds <= MaxRounds /\ w.rounds >= d.rounds
       /\ w.rounds = m.rounds \/ (w.rounds = m.rounds + 1 /\ w.chart = "map" /\ m.chart # "map")
       /\ \A k \in Key : /\ k \in Holders(m) /\ k \in Holders(w) => k \in Holders(d)
                         /\ k \notin Holders(m) /\ k \in Holders(d) /\ w.rounds = d.rounds => k \in Holders(w)
  <2>1. CASE d.rounds # m.rounds
    <3>1. d.rounds = m.rounds + 1 /\ d.chart = "map" /\ m.chart # "map"
      BY <1>13, <2>1
    <3>2. w.chart = "map"
      BY <3>1, <1>9 DEF StepOf, Asked
    <3>3. Holders(w) = {} /\ Holders(d) = {}
      BY <3>1, <3>2, <1>8, <1>10, NobodyThere DEF View
    <3>4. w.rounds = d.rounds
      BY <3>1, <1>9 DEF StepOf, Same, Begins, Ends, Over
    <3>. QED
      BY <3>1, <3>2, <3>3, <3>4, <1>13
  <2>2. CASE d.rounds = m.rounds
    <3>1. CASE Same(d, w)
      BY <2>2, <3>1, <1>13 DEF Same
    <3>2. CASE Begins(d, w, u)
      <4>1. PICK G \in SUBSET (Key \ Holders(d)) :
              Holders(w) = Holders(d) \cup G /\ \A k \in G : \E x \in u.group : x[1] = Item(k)
        BY <3>2 DEF Begins
      <4>2. ASSUME NEW k \in G
            PROVE  k \in Admitted(m) \ Holders(m)
        <5>1. PICK x \in u.group : x[1] = Item(k)
          BY <4>1
        <5>2. IsItem(x[1]) /\ x[1][2] = k
          BY <5>1, Producers
        <5>. QED
          BY <5>1, <5>2, <3>2 DEF Asked, Begins
      <4>3. w.rounds = d.rounds
        BY <3>2 DEF Begins
      <4>. QED
        BY <2>2, <4>1, <4>2, <4>3, <1>13
    <3>3. CASE Ends(d, w, u)
      <4>1. PICK k \in Holders(d) : u.p = Item(k) /\ Holders(w) = Holders(d) \ {k}
        BY <3>3 DEF Ends
      <4>2. k \in Holders(m)
        <5>1. k \in Key /\ IsItem(u.p) /\ u.p[2] = k
          BY <4>1, Producers DEF Holders
        <5>. QED
          BY <5>1, <3>3 DEF Asked, Ends
      <4>3. w.rounds = d.rounds
        BY <3>3 DEF Ends
      <4>. QED
        BY <2>2, <4>1, <4>2, <4>3, <1>13
    <3>4. CASE Over(d, w, u)
      <4>1. w.rounds = d.rounds + 1 /\ w.chart = "map" /\ u.type = "complete" /\ u.to = "abort"
        BY <3>4 DEF Over
      <4>2. Holders(w) = {}
        BY <4>1, <1>10, NobodyThere DEF View
      <4>3. m.rounds < MaxRounds
        BY <4>1 DEF Asked
      <4>4. m.chart # "map"
        <5>1. IsItem(u.p)
          BY <4>1 DEF UnitFits
        <5>2. Holders(m) # {}
          BY <4>1, <5>1 DEF Asked
        <5>. QED
          BY <5>2, <1>8, NobodyThere DEF View
      <4>. QED
        BY <2>2, <4>1, <4>2, <4>3, <4>4, <1>13
    <3>. QED
      BY <3>1, <3>2, <3>3, <3>4, <1>9 DEF StepOf
  <2>. QED
    BY <2>1, <2>2
<1>15. Within(g, n + 1)
  <2>1. ASSUME NEW i \in 0 .. n + 1
        PROVE  /\ Holders(g[i]) \subseteq Admitted(g[0]) /\ g[i].rounds <= MaxRounds
               /\ \/ g[i].rounds = g[0].rounds
                  \/ g[i].rounds = g[0].rounds + 1 /\ g[i].chart = "map" /\ g[0].chart # "map"
    <3>1. CASE i = n + 1
      BY <3>1, <1>7, <1>14
    <3>2. CASE i # n + 1
      <4>1. i \in 0 .. n
        BY <3>2
      <4>. QED
        BY <4>1, <1>7, <1>12 DEF Within
    <3>. QED
      BY <3>1, <3>2
  <2>2. ASSUME NEW i \in 0 .. n + 1, NEW j \in 0 .. n + 1, i <= j
        PROVE  /\ g[i].rounds <= g[j].rounds
               /\ \A k \in Key : /\ k \in Holders(g[0]) /\ k \in Holders(g[j]) => k \in Holders(g[i])
                                 /\ k \notin Holders(g[0]) /\ k \in Holders(g[i]) /\ g[i].rounds = g[j].rounds =>
                                      k \in Holders(g[j])
    <3>1. CASE j # n + 1
      <4>1. i \in 0 .. n /\ j \in 0 .. n
        BY <2>2, <3>1
      <4>. QED
        BY <4>1, <2>2, <1>7, <1>12 DEF Within
    <3>2. CASE i = n + 1
      <4>1. i = j
        BY <2>2, <3>2
      <4>. QED
        BY <4>1, <3>2, <1>7, <1>13
    <3>3. CASE j = n + 1 /\ i # n + 1
      <4>1. i \in 0 .. n /\ n \in 0 .. n /\ i <= n
        BY <3>3
      <4>2. h[i].rounds \in Nat
        BY <4>1, <1>1, <1>2 DEF Chain, Follows, View, ItemsOK
      <4>3. /\ h[i].rounds <= d.rounds
            /\ \A k \in Key : /\ k \in Holders(m) /\ k \in Holders(d) => k \in Holders(h[i])
                              /\ k \notin Holders(m) /\ k \in Holders(h[i]) /\ h[i].rounds = d.rounds =>
                                   k \in Holders(d)
        BY <4>1, <1>7, <1>12 DEF Within
      <4>4. w.rounds = h[i].rounds => d.rounds = h[i].rounds
        BY <4>2, <4>3, <1>13, <1>14
      <4>. QED
        BY <3>3, <4>1, <4>2, <4>3, <4>4, <1>7, <1>13, <1>14
    <3>. QED
      BY <3>1, <3>2, <3>3
  <2>. QED
    BY <2>1, <2>2 DEF Within
<1>16. Spans(m, w, t)
  BY <1>4, <1>7, <1>11, <1>15 DEF Spans, Chain
<1>. QED
  BY <1>3, <1>5, <1>10, <1>14, <1>16

(* An event of another kind changes nothing.                                *)
LEMMA ChainSkips ==
  ASSUME NEW m, NEW d, NEW S, NEW q \in Seq(S), q # <<>>, Spans(m, d, q), Head(q).kind # "ack"
  PROVE  Spans(m, d, Tail(q))
<1>1. PICK h : Chain(h, m, d, q)
  BY DEF Spans
<1>2. PICK n \in Nat : Len(q) = n + 1
  <2>1. Len(q) \in Nat \ {0}
    OBVIOUS
  <2>. QED
    BY <2>1
<1>3. PICK t : t = Tail(q)
  OBVIOUS
<1>4. Len(t) = n /\ \A i \in 1 .. n : t[i] = q[i + 1]
  BY <1>2, <1>3
<1>5. PICK g : g = [i \in 0 .. n |-> h[i + 1]]
  OBVIOUS
<1>6. /\ \A i \in 0 .. n : g[i] = h[i + 1] /\ i + 1 \in 0 .. n + 1
      /\ \A i \in 1 .. n : i - 1 \in 0 .. n /\ i + 1 \in 1 .. n + 1 /\ (i - 1) + 1 = i /\ (i + 1) - 1 = i
  BY <1>5
<1>7. h[1] = m /\ h[0] = m /\ g[0] = m /\ g[n] = d
  <2>1. q[1].kind # "ack" /\ 1 \in 1 .. Len(q)
    BY <1>2
  <2>. QED
    BY <1>1, <1>2, <1>6, <2>1 DEF Chain, Follows
<1>8. Follows(g, t)
  <2>1. \A i \in 0 .. n : View(g[i])
    BY <1>1, <1>2, <1>6 DEF Chain, Follows
  <2>2. ASSUME NEW i \in 1 .. n
        PROVE  t[i] = q[i + 1] /\ g[i] = h[i + 1] /\ g[i - 1] = h[(i + 1) - 1] /\ i + 1 \in 1 .. n + 1
    <3>1. g[i - 1] = h[(i - 1) + 1]
      BY <1>6
    <3>. QED
      BY <3>1, <1>4, <1>6
  <2>. QED
    BY <2>1, <2>2, <1>1, <1>2, <1>4 DEF Chain, Follows
<1>9. Within(g, n)
  <2>1. Within(h, n + 1)
    BY <1>1, <1>2 DEF Chain
  <2>2. g[0] = h[0]
    BY <1>7
  <2>3. \A i \in 0 .. n : \E a \in 0 .. n + 1 : a = i + 1 /\ g[i] = h[a]
    BY <1>6
  <2>4. ASSUME NEW i \in 0 .. n
        PROVE  /\ Holders(g[i]) \subseteq Admitted(g[0]) /\ g[i].rounds <= MaxRounds
               /\ \/ g[i].rounds = g[0].rounds
                  \/ g[i].rounds = g[0].rounds + 1 /\ g[i].chart = "map" /\ g[0].chart # "map"
    BY <2>1, <2>2, <2>3 DEF Within
  <2>5. ASSUME NEW i \in 0 .. n, NEW j \in 0 .. n, i <= j
        PROVE  /\ g[i].rounds <= g[j].rounds
               /\ \A k \in Key : /\ k \in Holders(g[0]) /\ k \in Holders(g[j]) => k \in Holders(g[i])
                                 /\ k \notin Holders(g[0]) /\ k \in Holders(g[i]) /\ g[i].rounds = g[j].rounds =>
                                      k \in Holders(g[j])
    <3>1. PICK a \in 0 .. n + 1 : a = i + 1 /\ g[i] = h[a]
      BY <2>3
    <3>2. PICK b \in 0 .. n + 1 : b = j + 1 /\ g[j] = h[b]
      BY <2>3
    <3>3. a <= b
      BY <2>5, <3>1, <3>2
    <3>. QED
      BY <2>1, <2>2, <3>1, <3>2, <3>3 DEF Within
  <2>. QED
    BY <2>4, <2>5 DEF Within
<1>. QED
  BY <1>3, <1>4, <1>7, <1>8, <1>9 DEF Spans, Chain

(* The machine learns of a unit.                                            *)
LEMMA ChainAdvances ==
  ASSUME NEW m, NEW d, NEW S, NEW q \in Seq(S), q # <<>>, Spans(m, d, q), Head(q).kind = "ack",
         NEW u, u = Head(q).unit
  PROVE  /\ UnitFits(u) /\ ~Rejects(m, u) /\ StepOf(m, Project(m, u), u)
         /\ Holders(Project(m, u)) \subseteq Admitted(m) /\ Project(m, u).rounds <= MaxRounds
         /\ Spans(Project(m, u), d, Tail(q))
<1>1. PICK h : Chain(h, m, d, q)
  BY DEF Spans
<1>2. PICK n \in Nat : Len(q) = n + 1
  <2>1. Len(q) \in Nat \ {0}
    OBVIOUS
  <2>. QED
    BY <2>1
<1>3. PICK t : t = Tail(q)
  OBVIOUS
<1>4. Len(t) = n /\ \A i \in 1 .. n : t[i] = q[i + 1]
  BY <1>2, <1>3
<1>5. PICK g : g = [i \in 0 .. n |-> h[i + 1]]
  OBVIOUS
<1>6. /\ \A i \in 0 .. n : g[i] = h[i + 1] /\ i + 1 \in 0 .. n + 1
      /\ \A i \in 1 .. n : i - 1 \in 0 .. n /\ i + 1 \in 1 .. n + 1 /\ (i - 1) + 1 = i /\ (i + 1) - 1 = i
  BY <1>5
<1>7. PICK w : w = Project(m, u)
  OBVIOUS
<1>8. /\ UnitFits(u) /\ ~Rejects(m, u) /\ h[1] = w /\ h[0] = m /\ g[0] = w /\ g[n] = d /\ View(m)
  <2>1. q[1].kind = "ack" /\ q[1].unit = u /\ 1 \in 1 .. Len(q) /\ 1 - 1 = 0
    BY <1>2
  <2>2. 0 \in 0 .. Len(q)
    BY <1>2
  <2>3. h[0] = m /\ h[Len(q)] = d
    BY <1>1 DEF Chain
  <2>4. UnitFits(u) /\ ~Rejects(h[0], u) /\ h[1] = Project(h[0], u) /\ View(h[0])
    BY <1>1, <2>1, <2>2 DEF Chain, Follows
  <2>5. g[0] = h[1] /\ g[n] = h[n + 1]
    BY <1>5
  <2>. QED
    BY <1>2, <1>7, <2>3, <2>4, <2>5
<1>9. StepOf(m, w, u)
  BY <1>7, <1>8, ProjectStep
<1>10. Follows(g, t)
  <2>1. \A i \in 0 .. n : View(g[i])
    BY <1>1, <1>2, <1>6 DEF Chain, Follows
  <2>2. ASSUME NEW i \in 1 .. n
        PROVE  t[i] = q[i + 1] /\ g[i] = h[i + 1] /\ g[i - 1] = h[(i + 1) - 1] /\ i + 1 \in 1 .. n + 1
    <3>1. g[i - 1] = h[(i - 1) + 1]
      BY <1>6
    <3>. QED
      BY <3>1, <1>4, <1>6
  <2>. QED
    BY <2>1, <2>2, <1>1, <1>2, <1>4 DEF Chain, Follows
<1>11. Within(h, n + 1)
  BY <1>1, <1>2 DEF Chain
<1>12. \A i \in 0 .. n + 1 : View(h[i]) /\ h[i].rounds \in Nat
  BY <1>1, <1>2 DEF Chain, Follows, View, ItemsOK
<1>13. Holders(w) \subseteq Admitted(m) /\ w.rounds <= MaxRounds /\ m.rounds \in Nat /\ w.rounds \in Nat /\ w.rounds >= m.rounds
  <2>1. 0 \in 0 .. n + 1 /\ 1 \in 0 .. n + 1
    OBVIOUS
  <2>. QED
    BY <2>1, <1>8, <1>11, <1>12 DEF Within
(* Those that were at work before, those that began since.                  *)
<1>14. ASSUME NEW i \in 0 .. n, NEW j \in 0 .. n, i <= j
       PROVE  /\ g[i].rounds <= g[j].rounds
              /\ \A k \in Key : /\ k \in Holders(w) /\ k \in Holders(g[j]) => k \in Holders(g[i])
                                /\ k \notin Holders(w) /\ k \in Holders(g[i]) /\ g[i].rounds = g[j].rounds =>
                                     k \in Holders(g[j])
  <2>1. PICK a \in 0 .. n + 1, b \in 0 .. n + 1 : a = i + 1 /\ b = j + 1 /\ 0 <= a /\ a <= b /\ 1 <= a
    BY <1>14
  <2>2. g[i] = h[a] /\ g[j] = h[b]
    BY <2>1, <1>6
  <2>3. 0 \in 0 .. n + 1 /\ 1 \in 0 .. n + 1
    OBVIOUS
  <2>4. h[a].rounds <= h[b].rounds /\ w.rounds <= h[a].rounds /\ w.rounds <= h[b].rounds
    BY <2>1, <2>3, <1>8, <1>11 DEF Within
  <2>5. ASSUME NEW k \in Key, k \in Holders(w), k \in Holders(h[b])
        PROVE  k \in Holders(h[a])
    <3>1. CASE k \in Holders(m)
      BY <2>1, <2>5, <3>1, <1>8, <1>11 DEF Within
    <3>2. CASE k \notin Holders(m)
      <4>1. h[b].chart = "each"
        BY <2>5, <1>12, NobodyThere DEF View
      <4>2. h[b].rounds = m.rounds
        BY <4>1, <1>8, <1>11 DEF Within
      <4>3. h[1].rounds = h[a].rounds
        BY <4>2, <2>1, <2>4, <1>8, <1>12, <1>13
      <4>. QED
        BY <2>1, <2>3, <2>5, <3>2, <4>3, <1>8, <1>11 DEF Within
    <3>. QED
      BY <3>1, <3>2
  <2>6. ASSUME NEW k \in Key, k \notin Holders(w), k \in Holders(h[a]), h[a].rounds = h[b].rounds
        PROVE  k \in Holders(h[b])
    <3>1. k \notin Holders(m)
      <4>1. k \in Holders(m) => k \in Holders(h[1])
        BY <2>1, <2>3, <2>6, <1>8, <1>11 DEF Within
      <4>. QED
        BY <4>1, <2>6, <1>8
    <3>. QED
      BY <2>1, <2>6, <3>1, <1>8, <1>11 DEF Within
  <2>. QED
    BY <2>2, <2>4, <2>5, <2>6
<1>15. ASSUME NEW i \in 0 .. n
       PROVE  /\ Holders(g[i]) \subseteq Admitted(w) /\ g[i].rounds <= MaxRounds
              /\ \/ g[i].rounds = w.rounds
                 \/ g[i].rounds = w.rounds + 1 /\ g[i].chart = "map" /\ w.chart # "map"
  <2>1. PICK a \in 0 .. n + 1 : a = i + 1 /\ 0 <= a /\ 1 <= a /\ g[i] = h[a]
    BY <1>6
  <2>2. 0 \in 0 .. n + 1 /\ 1 \in 0 .. n + 1
    OBVIOUS
  <2>3. /\ Holders(h[a]) \subseteq Admitted(m) /\ h[a].rounds <= MaxRounds /\ w.rounds <= h[a].rounds
        /\ h[a].rounds = m.rounds \/ (h[a].rounds = m.rounds + 1 /\ h[a].chart = "map" /\ m.chart # "map")
        /\ w.rounds = m.rounds \/ (w.rounds = m.rounds + 1 /\ w.chart = "map" /\ m.chart # "map")
    BY <2>1, <2>2, <1>8, <1>11 DEF Within
  <2>4. \/ h[a].rounds = w.rounds
        \/ h[a].rounds = w.rounds + 1 /\ h[a].chart = "map" /\ w.chart # "map"
    <3>1. CASE h[a].rounds = m.rounds
      BY <3>1, <2>3, <1>12, <1>13
    <3>2. CASE h[a].rounds = m.rounds + 1 /\ h[a].chart = "map" /\ m.chart # "map"
      <4>1. CASE w.rounds = m.rounds
        <5>1. w.chart # "map"
          BY <3>2, <4>1, <1>9 DEF StepOf
        <5>. QED
          BY <3>2, <4>1, <5>1
      <4>2. CASE w.rounds # m.rounds
        BY <2>3, <3>2, <4>2
      <4>. QED
        BY <4>1, <4>2
    <3>. QED
      BY <2>3, <3>1, <3>2
  <2>5. Holders(h[a]) \subseteq Admitted(w)
    <3>1. CASE Same(m, w)
      BY <2>3, <3>1 DEF Same
    <3>2. CASE Begins(m, w, u)
      <4>1. PICK G \in SUBSET (Key \ Holders(m)) : Holders(w) = Holders(m) \cup G
        BY <3>2 DEF Begins
      <4>2. G \in SUBSET (Admitted(m) \ Holders(m))
        BY <4>1, <1>13
      <4>3. w.leaves = m.leaves /\ LeavesOK(m)
        BY <3>2, <1>8 DEF Begins, View, ItemsOK
      <4>4. Admitted(m) \subseteq Admitted(w)
        BY <4>1, <4>2, <4>3, AdmittedBegin
      <4>. QED
        BY <2>3, <4>4
    <3>3. CASE Ends(m, w, u)
      <4>1. PICK k \in Holders(m) : Holders(w) = Holders(m) \ {k} /\ Admitted(m) \ {k} \subseteq Admitted(w)
        BY <3>3 DEF Ends
      <4>2. k \in Key
        BY DEF Holders
      <4>3. k \in Holders(h[a]) => k \in Holders(h[1])
        BY <2>1, <2>2, <4>2, <1>8, <1>11 DEF Within
      <4>4. k \notin Holders(h[a])
        BY <4>1, <4>3, <1>8
      <4>. QED
        BY <2>3, <4>1, <4>4
    <3>4. CASE Over(m, w, u)
      <4>1. w.rounds = m.rounds + 1 /\ h[a].rounds # m.rounds
        BY <3>4, <2>3, <1>12, <1>13 DEF Over
      <4>2. h[a].chart = "map"
        BY <2>3, <4>1
      <4>3. Holders(h[a]) = {}
        BY <4>2, <1>12, NobodyThere DEF View
      <4>. QED
        BY <4>3
    <3>. QED
      BY <3>1, <3>2, <3>3, <3>4, <1>9 DEF StepOf
  <2>. QED
    BY <2>1, <2>3, <2>4, <2>5
<1>16. Within(g, n)
  BY <1>8, <1>14, <1>15 DEF Within
<1>17. Spans(w, d, t)
  BY <1>4, <1>8, <1>10, <1>16 DEF Spans, Chain
<1>. QED
  BY <1>3, <1>7, <1>8, <1>9, <1>13, <1>17

-----------------------------------------------------------------------------
(* Sequences: counting up, functions defined along the numbers, chosen      *)
(* places and sequences of sequences.                                       *)

LEMMA Upward ==
  ASSUME NEW lo \in Nat, NEW hi \in Nat, NEW A, lo \in A, \A i \in lo + 1 .. hi : i - 1 \in A => i \in A
  PROVE  \A i \in lo .. hi : i \in A
<1>1. SUFFICES ASSUME \E i \in lo .. hi : i \notin A PROVE FALSE
  OBVIOUS
<1> DEFINE Bad == {i \in lo .. hi : i \notin A}
<1>2. PICK n \in Bad : \A m \in Bad : n <= m
  <2>1. Bad \in SUBSET Nat /\ Bad # {}
    BY <1>1
  <2>. QED
    BY <2>1, LeastNumber
<1>3. n \in lo + 1 .. hi
  <2>1. n # lo
    BY <1>2
  <2>. QED
    BY <2>1, <1>2
<1>4. n - 1 \in A
  <2>1. n - 1 \in lo .. hi /\ ~(n <= n - 1)
    BY <1>3
  <2>. QED
    BY <2>1, <1>2
<1>. QED
  BY <1>2, <1>3, <1>4

Recurs(f, lo, hi, X, x0, F) ==
  f \in [lo .. hi -> X] /\ f[lo] = x0 /\ \A i \in lo + 1 .. hi : f[i] = F[<<f[i - 1], i>>]

LEMMA Recursion ==
  ASSUME NEW lo \in Nat, NEW hi \in Nat, lo <= hi, NEW X, NEW x0 \in X, NEW F \in [X \X (lo .. hi) -> X]
  PROVE  \E f : Recurs(f, lo, hi, X, x0, F)
<1> DEFINE A == {m \in lo .. hi : \E f \in [lo .. m -> X] : f[lo] = x0 /\ \A i \in lo + 1 .. m : f[i] = F[<<f[i - 1], i>>]}
<1>1. lo \in A
  <2>1. PICK f : f = [i \in lo .. lo |-> x0]
    OBVIOUS
  <2>2. f \in [lo .. lo -> X] /\ f[lo] = x0 /\ \A i \in lo + 1 .. lo : FALSE
    BY <2>1
  <2>. QED
    BY <2>2
<1>2. ASSUME NEW m \in lo + 1 .. hi, m - 1 \in A
      PROVE  m \in A
  <2>1. PICK f \in [lo .. m - 1 -> X] : f[lo] = x0 /\ \A i \in lo + 1 .. m - 1 : f[i] = F[<<f[i - 1], i>>]
    BY <1>2
  <2>2. PICK x : x = F[<<f[m - 1], m>>]
    OBVIOUS
  <2>3. x \in X
    BY <2>2
  <2>4. PICK g : g = [i \in lo .. m |-> IF i = m THEN x ELSE f[i]]
    OBVIOUS
  <2>5. g \in [lo .. m -> X]
    <3>1. \A i \in lo .. m : i # m => i \in lo .. m - 1
      OBVIOUS
    <3>. QED
      BY <2>3, <2>4, <3>1
  <2>6. g[lo] = x0
    BY <2>1, <2>4
  <2>7. ASSUME NEW i \in lo + 1 .. m
        PROVE  g[i] = F[<<g[i - 1], i>>]
    <3>1. g[i - 1] = f[i - 1]
      BY <2>4
    <3>2. i # m => i \in lo + 1 .. m - 1 /\ g[i] = f[i]
      BY <2>4
    <3>3. i = m => g[i] = x
      BY <2>4
    <3>4. i # m => f[i] = F[<<f[i - 1], i>>]
      BY <2>1, <3>2
    <3>. QED
      BY <2>2, <3>1, <3>2, <3>3, <3>4
  <2>. QED
    BY <2>5, <2>6, <2>7
<1>3. \A i \in lo .. hi : i \in A
  <2> HIDE DEF A
  <2>. QED
    BY <1>1, <1>2, Upward
<1>4. hi \in A
  <2> HIDE DEF A
  <2>. QED
    BY <1>3
<1>. QED
  BY <1>4 DEF Recurs

(* The places in order, and what is at them.                                *)
UpTo(P, i) == {j \in P : j <= i}

LEMMA Ordered ==
  ASSUME NEW N \in Nat, NEW P \in SUBSET (1 .. N)
  PROVE  /\ Cardinality(P) \in Nat /\ IsFiniteSet(P)
         /\ \A n \in 1 .. Cardinality(P) : InOrder(P)[n] \in P /\ Cardinality(UpTo(P, InOrder(P)[n])) = n
<1>1. IsFiniteSet(P) /\ Cardinality(P) \in Nat /\ \A i : IsFiniteSet(UpTo(P, i)) /\ Cardinality(UpTo(P, i)) \in Nat
  <2>1. IsFiniteSet(1 .. N)
    BY FS_Interval
  <2>2. IsFiniteSet(P)
    BY <2>1, FS_Subset
  <2>3. \A i : UpTo(P, i) \in SUBSET P
    BY DEF UpTo
  <2>4. \A i : IsFiniteSet(UpTo(P, i))
    BY <2>2, <2>3, FS_Subset
  <2>. QED
    BY <2>2, <2>4, FS_CardinalityType
<1>2. ASSUME NEW n \in 1 .. Cardinality(P)
      PROVE  \E i \in P : Cardinality(UpTo(P, i)) = n
  <2> DEFINE B == {b \in 0 .. N : Cardinality(UpTo(P, b)) >= n}
  <2>0. n \in Nat /\ n >= 1 /\ n <= Cardinality(P) /\ \A j \in P : j \in Nat /\ j >= 1 /\ j <= N
    BY <1>1
  <2>1. N \in B
    <3>1. UpTo(P, N) = P
      BY <2>0 DEF UpTo
    <3>2. Cardinality(UpTo(P, N)) >= n
      BY <2>0, <3>1, <1>1
    <3>. QED
      BY <3>2
  <2>2. PICK b \in B : \A c \in B : b <= c
    <3>1. B \in SUBSET Nat /\ B # {}
      BY <2>1
    <3>. QED
      BY <3>1, LeastNumber
  <2>3. b # 0
    <3>1. UpTo(P, 0) = {}
      <4>1. ASSUME NEW j \in P PROVE ~(j <= 0)
        BY <2>0
      <4>. QED
        BY <4>1 DEF UpTo
    <3>2. Cardinality({}) = 0
      BY FS_EmptySet
    <3>3. Cardinality(UpTo(P, b)) >= n
      BY <2>2
    <3>. QED
      BY <2>0, <3>1, <3>2, <3>3
  <2>4. PICK a \in 0 .. N : b = a + 1 /\ a = b - 1
    BY <2>2, <2>3
  <2>5. Cardinality(UpTo(P, a)) < n
    <3>1. a \notin B
      BY <2>2, <2>4
    <3>2. ~(Cardinality(UpTo(P, a)) >= n)
      BY <3>1
    <3>. QED
      BY <2>0, <3>2, <1>1
  <2>6. b \in P
    <3>1. SUFFICES ASSUME b \notin P PROVE FALSE
      OBVIOUS
    <3>2. UpTo(P, b) = UpTo(P, a)
      <4>1. ASSUME NEW j \in P PROVE j <= b <=> j <= a
        BY <2>0, <2>4, <3>1, <4>1
      <4>. QED
        BY <4>1 DEF UpTo
    <3>3. Cardinality(UpTo(P, b)) >= n
      BY <2>2
    <3>. QED
      BY <2>0, <2>5, <3>2, <3>3, <1>1
  <2>7. Cardinality(UpTo(P, b)) = Cardinality(UpTo(P, a)) + 1
    <3>1. UpTo(P, b) = UpTo(P, a) \cup {b} /\ b \notin UpTo(P, a)
      <4>1. ASSUME NEW j \in P PROVE j <= b <=> (j <= a \/ j = b)
        BY <2>0, <2>4, <4>1
      <4>2. ~(b <= a)
        BY <2>4
      <4>. QED
        BY <2>6, <4>1, <4>2 DEF UpTo
    <3>2. Cardinality(UpTo(P, a) \cup {b}) = Cardinality(UpTo(P, a)) + 1
      BY <3>1, <1>1, FS_AddElement
    <3>. QED
      BY <3>1, <3>2
  <2>8. Cardinality(UpTo(P, b)) = n
    <3>1. Cardinality(UpTo(P, b)) >= n
      BY <2>2
    <3>2. Cardinality(UpTo(P, a)) \in Nat
      BY <1>1
    <3>. QED
      BY <2>0, <2>5, <2>7, <3>1, <3>2
  <2>. QED
    BY <2>6, <2>8
<1>3. ASSUME NEW n \in 1 .. Cardinality(P)
      PROVE  InOrder(P)[n] \in P /\ Cardinality(UpTo(P, InOrder(P)[n])) = n
  <2>1. InOrder(P)[n] = CHOOSE i \in P : Cardinality(UpTo(P, i)) = n
    BY DEF InOrder, UpTo
  <2>. QED
    BY <1>2, <2>1
<1>. QED
  BY <1>1, <1>3

(* If the places are all but the first few, they follow each other.         *)
LEMMA OrderedFrom ==
  ASSUME NEW N \in Nat, NEW l \in 0 .. N
  PROVE  /\ Cardinality(l + 1 .. N) = N - l
         /\ \A n \in 1 .. N - l : InOrder(l + 1 .. N)[n] = l + n
<1>1. Cardinality(l + 1 .. N) = N - l
  <2>1. l + 1 \in Int /\ N \in Int
    OBVIOUS
  <2>2. Cardinality(l + 1 .. N) = IF l + 1 > N THEN 0 ELSE N - (l + 1) + 1
    BY <2>1, FS_Interval
  <2>. QED
    BY <2>2
<1>2. PICK P \in SUBSET (1 .. N) : P = l + 1 .. N
  OBVIOUS
<1>3. ASSUME NEW n \in 1 .. N - l
      PROVE  InOrder(P)[n] = l + n
  <2>1. PICK i \in P : i = InOrder(P)[n] /\ Cardinality(UpTo(P, i)) = n
    BY <1>1, <1>2, Ordered
  <2>2. UpTo(P, i) = l + 1 .. i
    BY <1>2, <2>1 DEF UpTo
  <2>3. Cardinality(l + 1 .. i) = i - l
    <3>1. l + 1 \in Int /\ i \in Int /\ ~(l + 1 > i)
      BY <1>2
    <3>2. Cardinality(l + 1 .. i) = IF l + 1 > i THEN 0 ELSE i - (l + 1) + 1
      BY <3>1, FS_Interval
    <3>. QED
      BY <3>1, <3>2
  <2>4. i - l = n /\ i \in Int
    BY <1>2, <2>1, <2>2, <2>3
  <2>. QED
    BY <2>1, <2>4
<1>. QED
  BY <1>1, <1>2, <1>3

LEMMA KeptType ==
  ASSUME NEW S, NEW s \in Seq(S), NEW P \in SUBSET (1 .. Len(s))
  PROVE  /\ Kept(s, P) \in Seq(S)
         /\ \A n \in 1 .. Len(Kept(s, P)) : \E i \in P : Kept(s, P)[n] = s[i]
<1>1. Len(s) \in Nat /\ \A i \in 1 .. Len(s) : s[i] \in S
  OBVIOUS
<1>2. Cardinality(P) \in Nat /\ \A n \in 1 .. Cardinality(P) : InOrder(P)[n] \in P
  BY <1>1, Ordered
<1>3. PICK k : k = Kept(s, P)
  OBVIOUS
<1>4. k = [n \in 1 .. Cardinality(P) |-> s[InOrder(P)[n]]]
  BY <1>3 DEF Kept
<1>5. k \in Seq(S) /\ Len(k) = Cardinality(P)
  <2>1. \A n \in 1 .. Cardinality(P) : InOrder(P)[n] \in 1 .. Len(s)
    BY <1>2
  <2>2. \A n \in 1 .. Cardinality(P) : s[InOrder(P)[n]] \in S
    BY <1>1, <2>1
  <2>. QED
    BY <1>2, <1>4, <2>2
<1>. QED
  BY <1>2, <1>3, <1>4, <1>5

LEMMA KeptRest ==
  ASSUME NEW S, NEW s \in Seq(S), NEW l \in 0 .. Len(s)
  PROVE  /\ Len(Kept(s, l + 1 .. Len(s))) = Len(s) - l
         /\ \A n \in 1 .. Len(s) - l : Kept(s, l + 1 .. Len(s))[n] = s[l + n]
<1>1. PICK N \in Nat : N = Len(s)
  OBVIOUS
<1>2. PICK P \in SUBSET (1 .. N) : P = l + 1 .. N
  BY <1>1
<1>3. Cardinality(P) = N - l /\ \A n \in 1 .. N - l : InOrder(P)[n] = l + n
  BY <1>1, <1>2, OrderedFrom
<1>4. PICK k : k = Kept(s, P)
  OBVIOUS
<1>5. k = [n \in 1 .. Cardinality(P) |-> s[InOrder(P)[n]]]
  BY <1>4 DEF Kept
<1>6. k \in Seq(S)
  BY <1>1, <1>4, KeptType
<1>7. N - l \in Nat
  BY <1>1
<1>8. Len(k) = N - l /\ \A n \in 1 .. N - l : k[n] = s[l + n]
  BY <1>3, <1>5, <1>6, <1>7
<1>. QED
  BY <1>1, <1>2, <1>4, <1>8

(* The elements of a finite set in some order.                              *)
LEMMA SomeOrder ==
  ASSUME NEW S, IsFiniteSet(S)
  PROVE  Cardinality(S) \in Nat /\ \A j \in 1 .. Cardinality(S) : SetToSeq(S)[j] \in S
<1>1. Cardinality(S) \in Nat /\ ExistsBijection(1 .. Cardinality(S), S)
  BY FS_CardinalityType
<1>2. \E f \in [1 .. Cardinality(S) -> S] : IsInjective(f)
  BY <1>1 DEF ExistsBijection, Bijection, Injection
<1>3. SetToSeq(S) \in [1 .. Cardinality(S) -> S]
  BY <1>2 DEF SetToSeq
<1>. QED
  BY <1>1, <1>3

(* Sequences one after the other.                                           *)
Joins(ss, g) == g = [i \in 1 .. Len(ss) |-> IF i = 1 THEN ss[i] ELSE g[i - 1] \o ss[i]]

LEMMA JoinsFit ==
  ASSUME NEW S, NEW ss \in Seq(Seq(S)), ss # <<>>
  PROVE  \E g : Joins(ss, g)
<1>1. PICK n \in Nat \ {0} : n = Len(ss) /\ \A i \in 1 .. n : ss[i] \in Seq(S)
  OBVIOUS
<1>2. PICK X : X = Seq(S)
  OBVIOUS
<1>3. \A x \in X, i \in 1 .. n : x \o ss[i] \in X
  BY <1>1, <1>2
<1>4. PICK F : F = [p \in X \X (1 .. n) |-> p[1] \o ss[p[2]]]
  OBVIOUS
<1>5. F \in [X \X (1 .. n) -> X]
  BY <1>3, <1>4
<1>6. ss[1] \in X /\ 1 \in Nat /\ 1 <= n
  BY <1>1, <1>2
<1>7. PICK f \in [1 .. n -> X] : f[1] = ss[1] /\ \A i \in 1 + 1 .. n : f[i] = F[<<f[i - 1], i>>]
  <2>1. \E f : Recurs(f, 1, n, X, ss[1], F)
    BY <1>5, <1>6, Recursion
  <2>. QED
    BY <2>1 DEF Recurs
<1>8. ASSUME NEW i \in 1 .. n
      PROVE  f[i] = IF i = 1 THEN ss[i] ELSE f[i - 1] \o ss[i]
  <2>1. CASE i = 1
    BY <2>1, <1>7
  <2>2. CASE i # 1
    <3>1. i \in 1 + 1 .. n /\ i - 1 \in 1 .. n
      BY <2>2
    <3>2. <<f[i - 1], i>> \in X \X (1 .. n)
      BY <3>1, <1>7
    <3>. QED
      BY <2>2, <3>1, <3>2, <1>4, <1>7
  <2>. QED
    BY <2>1, <2>2
<1>9. f = [i \in 1 .. n |-> IF i = 1 THEN ss[i] ELSE f[i - 1] \o ss[i]]
  BY <1>7, <1>8
<1>. QED
  BY <1>1, <1>9 DEF Joins

LEMMA Flattened ==
  ASSUME NEW S, NEW ss \in Seq(Seq(S))
  PROVE  FlattenSeq(ss) \in Seq(S)
<1>1. CASE Len(ss) = 0
  <2>1. ss = <<>>
    BY <1>1
  <2>2. FlattenSeq(ss) = <<>>
    BY <1>1, <2>1 DEF FlattenSeq
  <2>3. <<>> \in Seq(S)
    OBVIOUS
  <2>. QED
    BY <2>2, <2>3
<1>2. CASE Len(ss) # 0
  <2>1. PICK g : g = CHOOSE f : Joins(ss, f)
    OBVIOUS
  <2>2. FlattenSeq(ss) = g[Len(ss)]
    BY <1>2, <2>1 DEF FlattenSeq, Joins
  <2>3. Joins(ss, g)
    BY <1>2, <2>1, JoinsFit
  <2>4. PICK n \in Nat \ {0} : n = Len(ss) /\ \A i \in 1 .. n : ss[i] \in Seq(S)
    BY <1>2
  <2>5. \A i \in 1 .. n : g[i] = IF i = 1 THEN ss[i] ELSE g[i - 1] \o ss[i]
    BY <2>3, <2>4 DEF Joins
  <2>6. PICK A : A = {i \in 1 .. n : g[i] \in Seq(S)}
    OBVIOUS
  <2>7. 1 \in A
    BY <2>4, <2>5, <2>6
  <2>8. ASSUME NEW i \in 1 + 1 .. n, i - 1 \in A
        PROVE  i \in A
    <3>0. i \in 1 .. n /\ i # 1 /\ g[i - 1] \in Seq(S)
      BY <2>6, <2>8
    <3>1. g[i] = g[i - 1] \o ss[i] /\ g[i - 1] \in Seq(S) /\ ss[i] \in Seq(S) /\ i \in 1 .. n
      BY <3>0, <2>4, <2>5
    <3>2. g[i] \in Seq(S)
      BY <3>1
    <3>. QED
      BY <3>1, <3>2, <2>6
  <2>9. n \in A
    <3>1. \A i \in 1 .. n : i \in A
      BY <2>7, <2>8, Upward
    <3>. QED
      BY <3>1
  <2>. QED
    BY <2>2, <2>4, <2>6, <2>9
<1>. QED
  BY <1>1, <1>2

-----------------------------------------------------------------------------
(* The accepts that are due are of the messages that follow those that are  *)
(* on their way.                                                            *)
Accept == {a \in [type : {"accepted"}, e : Endpoint, i : Nat, msg : Messages] : a.i \in 1 .. Workers[a.e]}
SoFar == [accepts : Seq(Accept), taken : SUBSET Nat, over : BOOLEAN, fails : BOOLEAN]
InTurn(v, e, past, accepts) ==
  \A i \in 1 .. Len(accepts) : accepts[i].e = e /\ accepts[i].msg = v.mailbox[e][past + i]

OneMore(e, so, w, msg) ==
  \/ w.accepts = so.accepts /\ w.over
  \/ ~so.over /\ ~w.over /\ \E a \in Accept : a.e = e /\ a.msg = msg /\ w.accepts = Append(so.accepts, a)

LEMMA AdmitFits ==
  ASSUME NEW v, NEW e \in Endpoint, NEW so \in SoFar, NEW msg \in Messages, NEW w, w = Admit(v, e, so, msg)
  PROVE  w \in SoFar /\ OneMore(e, so, w, msg)
<1>1. PICK eligible : eligible = Eligible(v, e, so.taken, msg)
  OBVIOUS
<1>2. w = Admit(v, e, so, msg)
  OBVIOUS
<1>3. CASE so.over
  <2>1. w = so
    BY <1>2, <1>3 DEF Admit
  <2>. QED
    BY <2>1, <1>3 DEF OneMore
<1>4. CASE ~so.over /\ eligible = {}
  <2>1. w = [so EXCEPT !.over = TRUE, !.fails = NoneBusy(v, e, so.taken)]
    BY <1>1, <1>2, <1>4 DEF Admit
  <2>2. NoneBusy(v, e, so.taken) \in BOOLEAN
    BY DEF NoneBusy
  <2>3. w \in SoFar /\ w.over /\ w.accepts = so.accepts
    BY <2>1, <2>2 DEF SoFar
  <2>. QED
    BY <2>3 DEF OneMore
<1>5. CASE ~so.over /\ eligible # {}
  <2>1. PICK i : i = Min(eligible)
    OBVIOUS
  <2>2. eligible \in SUBSET Nat /\ eligible \subseteq 1 .. Workers[e]
    BY <1>1, FanOutAssumption DEF Eligible
  <2>3. i \in eligible
    <3>1. \E x \in eligible : \A y \in eligible : x <= y
      BY <1>5, <2>2, LeastNumber
    <3>. QED
      BY <2>1, <3>1 DEF Min
  <2>4. PICK a : a = [type |-> "accepted", e |-> e, i |-> i, msg |-> msg]
    OBVIOUS
  <2>5. a \in Accept /\ a.e = e /\ a.msg = msg
    BY <2>2, <2>3, <2>4 DEF Accept
  <2>6. w = [so EXCEPT !.accepts = Append(@, a), !.taken = @ \cup {i}]
    BY <1>1, <1>2, <1>5, <2>1, <2>4 DEF Admit
  <2>7. Append(so.accepts, a) \in Seq(Accept) /\ so.taken \cup {i} \in SUBSET Nat
    BY <2>2, <2>3, <2>5 DEF SoFar
  <2>8. w \in SoFar /\ ~w.over /\ w.accepts = Append(so.accepts, a)
    BY <2>6, <2>7, <1>5 DEF SoFar
  <2>. QED
    BY <2>5, <2>8, <1>5 DEF OneMore
<1>. QED
  BY <1>3, <1>4, <1>5

Admits(v, e, past, start, g) ==
  g = [j \in past .. Len(v.mailbox[e]) |-> IF j = past THEN start ELSE Admit(v, e, g[j - 1], v.mailbox[e][j])]

LEMMA AdmissionFits ==
  ASSUME NEW v, View(v), NEW e \in Endpoint, NEW r, r[e] \in Seq(Accept), Len(r[e]) <= Len(v.mailbox[e])
  PROVE  /\ Admission(v, e, r).accepts \in Seq(Accept)
         /\ Len(r[e]) + Len(Admission(v, e, r).accepts) <= Len(v.mailbox[e])
         /\ InTurn(v, e, Len(r[e]), Admission(v, e, r).accepts)
<1>1. PICK box \in Seq(Messages) : box = v.mailbox[e]
  BY DEF View, ActorsOK
<1>2. PICK past \in Nat, n \in Nat : past = Len(r[e]) /\ n = Len(box) /\ past <= n
  BY <1>1
<1>3. CASE v.status[e] \in {"none", "stopped"}
  <2>1. Admission(v, e, r).accepts = <<>>
    BY <1>3 DEF Admission
  <2>. QED
    BY <2>1, <1>1, <1>2 DEF InTurn
<1>4. CASE v.status[e] \notin {"none", "stopped"}
  <2>1. PICK start : start = [accepts |-> <<>>, taken |-> Taken(v, e, r), over |-> FALSE, fails |-> FALSE]
    OBVIOUS
  <2>2. PICK g : g = CHOOSE f : Admits(v, e, past, start, f)
    OBVIOUS
  <2>3. Admission(v, e, r) = g[n]
    BY <1>1, <1>2, <1>4, <2>1, <2>2 DEF Admission, Admits
  <2>4. start \in SoFar
    <3>1. Taken(v, e, r) \in SUBSET Nat
      <4>1. Busy(v, e) \in SUBSET Nat
        BY FanOutAssumption DEF Busy
      <4>2. \A j \in DOMAIN r[e] : r[e][j].i \in Nat
        BY DEF Accept
      <4>. QED
        BY <4>1, <4>2 DEF Taken
    <3>. QED
      BY <2>1, <3>1 DEF SoFar
  <2>5. \A i \in 1 .. n : box[i] \in Messages
    BY <1>1, <1>2
  <2>6. \E f : Admits(v, e, past, start, f)
    <3>1. PICK F : F = [p \in SoFar \X (past .. n) |-> IF p[2] = past THEN p[1] ELSE Admit(v, e, p[1], box[p[2]])]
      OBVIOUS
    <3>2. \A so \in SoFar, j \in past .. n : j # past => Admit(v, e, so, box[j]) \in SoFar
      <4>1. \A j \in past .. n : j # past => j \in 1 .. n
        OBVIOUS
      <4>. QED
        BY <4>1, <2>5, AdmitFits
    <3>3. F \in [SoFar \X (past .. n) -> SoFar]
      BY <3>1, <3>2
    <3>4. PICK f \in [past .. n -> SoFar] : f[past] = start /\ \A i \in past + 1 .. n : f[i] = F[<<f[i - 1], i>>]
      <4>1. \E f : Recurs(f, past, n, SoFar, start, F)
        BY <3>3, <2>4, <1>2, Recursion
      <4>. QED
        BY <4>1 DEF Recurs
    <3>5. ASSUME NEW j \in past .. n
          PROVE  f[j] = IF j = past THEN start ELSE Admit(v, e, f[j - 1], box[j])
      <4>1. CASE j = past
        BY <4>1, <3>4
      <4>2. CASE j # past
        <5>1. j \in past + 1 .. n /\ j - 1 \in past .. n
          BY <4>2
        <5>2. <<f[j - 1], j>> \in SoFar \X (past .. n)
          BY <5>1, <3>4
        <5>. QED
          BY <4>2, <5>1, <5>2, <3>1, <3>4
      <4>. QED
        BY <4>1, <4>2
    <3>6. f = [j \in past .. n |-> IF j = past THEN start ELSE Admit(v, e, f[j - 1], box[j])]
      BY <3>4, <3>5
    <3>. QED
      BY <3>6, <1>1, <1>2 DEF Admits
  <2>7. \A j \in past .. n : g[j] = IF j = past THEN start ELSE Admit(v, e, g[j - 1], box[j])
    BY <2>2, <2>6, <1>1, <1>2 DEF Admits
  <2> DEFINE Good(j) == /\ g[j] \in SoFar /\ past + Len(g[j].accepts) <= j
                        /\ ~g[j].over => past + Len(g[j].accepts) = j
                        /\ InTurn(v, e, past, g[j].accepts)
  <2>8. PICK A : A = {j \in past .. n : Good(j)}
    OBVIOUS
  <2>9. past \in A
    <3>1. g[past] = start
      BY <2>7, <1>2
    <3>2. start.accepts = <<>> /\ Len(<<>>) = 0
      BY <2>1
    <3>3. InTurn(v, e, past, start.accepts)
      BY <3>2 DEF InTurn
    <3>. QED
      BY <3>1, <3>2, <3>3, <2>4, <2>8, <1>2
  <2>10. ASSUME NEW j \in past + 1 .. n, j - 1 \in A
         PROVE  j \in A
    <3>1. j \in past .. n /\ j \in 1 .. n /\ j - 1 \in past .. n /\ Good(j - 1)
      BY <2>8, <2>10
    <3>2. PICK so \in SoFar : so = g[j - 1]
      BY <3>1
    <3>3. g[j] = Admit(v, e, so, box[j])
      BY <2>7, <3>1, <3>2
    <3>4. g[j] \in SoFar /\ OneMore(e, so, g[j], box[j])
      <4>1. box[j] \in Messages
        BY <3>1, <2>5
      <4>. QED
        BY <3>3, <4>1, AdmitFits
    <3>5. so.accepts \in Seq(Accept) /\ Len(so.accepts) \in Nat
      BY DEF SoFar
    <3>6. /\ past + Len(so.accepts) <= j - 1 /\ (~so.over => past + Len(so.accepts) = j - 1)
          /\ InTurn(v, e, past, so.accepts)
      BY <3>1, <3>2
    <3>7. CASE g[j].accepts = so.accepts /\ g[j].over
      BY <3>1, <3>4, <3>5, <3>6, <3>7, <2>8
    <3>8. CASE /\ ~so.over /\ ~g[j].over
               /\ \E a \in Accept : a.e = e /\ a.msg = box[j] /\ g[j].accepts = Append(so.accepts, a)
      <4>1. PICK a \in Accept : a.e = e /\ a.msg = box[j] /\ g[j].accepts = Append(so.accepts, a)
        BY <3>8
      <4>2. PICK l \in Nat : l = Len(so.accepts) /\ past + l = j - 1
        BY <3>5, <3>6, <3>8
      <4>3. /\ Len(g[j].accepts) = l + 1 /\ g[j].accepts[l + 1] = a
            /\ \A i \in 1 .. l : g[j].accepts[i] = so.accepts[i]
        BY <3>5, <4>1, <4>2
      <4>4. InTurn(v, e, past, g[j].accepts)
        <5>1. ASSUME NEW i \in 1 .. l + 1
              PROVE  g[j].accepts[i].e = e /\ g[j].accepts[i].msg = box[past + i]
          <6>1. CASE i = l + 1
            <7>1. past + i = j
              BY <4>2, <6>1
            <7>. QED
              BY <7>1, <6>1, <4>1, <4>3
          <6>2. CASE i # l + 1
            <7>1. i \in 1 .. l
              BY <6>2
            <7>. QED
              BY <7>1, <4>2, <4>3, <3>6, <1>1 DEF InTurn
          <6>. QED
            BY <6>1, <6>2
        <5>. QED
          BY <5>1, <4>3, <1>1 DEF InTurn
      <4>5. past + (l + 1) = j
        BY <4>2, <3>1
      <4>6. Good(j)
        BY <3>1, <3>4, <4>3, <4>4, <4>5
      <4>. QED
        BY <3>1, <4>6, <2>8
    <3>. QED
      BY <3>4, <3>7, <3>8 DEF OneMore
  <2>11. n \in A
    <3>1. \A j \in past .. n : j \in A
      <4> HIDE DEF Good
      <4>. QED
        BY <2>9, <2>10, <1>2, Upward
    <3>. QED
      BY <3>1, <1>2
  <2>. QED
    BY <2>3, <2>8, <2>11, <1>1, <1>2 DEF SoFar
<1>. QED
  BY <1>3, <1>4

-----------------------------------------------------------------------------
(* Mailboxes: a message is there once, and its producer has counted it.     *)
MailOK(v) ==
  \A e \in Endpoint :
    /\ \A i, j \in 1 .. Len(v.mailbox[e]) : v.mailbox[e][i] = v.mailbox[e][j] => i = j
    /\ \A i \in 1 .. Len(v.mailbox[e]) : v.mailbox[e][i].visit <= v.sends[v.mailbox[e][i].from]
SameMail(v, w) == w.mailbox = v.mailbox /\ w.sends = v.sends

(* What is in a mailbox stays there, in its place, until it is accepted;    *)
(* what comes is new.                                                       *)
Taking(v, w, e, msg) == v.mailbox[e] # <<>> /\ Head(v.mailbox[e]) = msg /\ w.mailbox[e] = Tail(v.mailbox[e])
Getting(v, w, e) ==
  /\ Len(v.mailbox[e]) <= Len(w.mailbox[e])
  /\ \A i \in 1 .. Len(v.mailbox[e]) : w.mailbox[e][i] = v.mailbox[e][i]
  /\ \A i \in Len(v.mailbox[e]) + 1 .. Len(w.mailbox[e]) : w.mailbox[e][i].visit > v.sends[w.mailbox[e][i].from]
MailsOf(v, w, u) ==
  /\ MailOK(w) /\ \A p \in Producer : v.sends[p] <= w.sends[p]
  /\ \A e \in Endpoint : IF u.type = "accepted" /\ u.e = e THEN Taking(v, w, e, u.msg) ELSE Getting(v, w, e)

LEMMA SameMailOf ==
  ASSUME NEW v, View(v), MailOK(v), NEW w, SameMail(v, w), NEW u, u.type # "accepted"
  PROVE  MailsOf(v, w, u)
<1>1. w.mailbox = v.mailbox /\ w.sends = v.sends
  BY DEF SameMail
<1>2. /\ \A p \in Producer : v.sends[p] \in Nat
      /\ \A e \in Endpoint : Len(v.mailbox[e]) \in Nat
  BY DEF View, ActorsOK
<1>3. MailOK(w)
  BY <1>1 DEF MailOK
<1>4. \A e \in Endpoint : Getting(v, w, e)
  BY <1>1, <1>2 DEF Getting
<1>. QED
  BY <1>1, <1>2, <1>3, <1>4 DEF MailsOf

LEMMA NoMail ==
  ASSUME NEW v, DOMAIN v = Fields
  PROVE  /\ DOMAIN CompleteParallels(v) = Fields /\ SameMail(v, CompleteParallels(v))
         /\ \A p, s : DOMAIN Goes(v, p, s) = Fields /\ SameMail(v, Goes(v, p, s))
<1>1. ASSUME NEW x, DOMAIN x = Fields
      PROVE  DOMAIN CompleteParallels(x) = Fields /\ SameMail(x, CompleteParallels(x))
  <2> DEFINE j == IF Joined(x) THEN [x EXCEPT !.chart = "end", !.leaves = <<>>] ELSE x
  <2>1. DOMAIN j = Fields /\ j.mailbox = x.mailbox /\ j.sends = x.sends
    BY <1>1 DEF Fields
  <2> HIDE DEF j
  <2>2. CompleteParallels(x) = IF j.chart = "end" /\ Released(j) THEN [j EXCEPT !.chart = "done"] ELSE j
    BY DEF CompleteParallels, j
  <2>. QED
    BY <2>1, <2>2 DEF Fields, SameMail
<1>2. ASSUME NEW p, NEW s
      PROVE  DOMAIN Goes(v, p, s) = Fields /\ SameMail(v, Goes(v, p, s))
  <2>1. CASE IsItem(p)
    <3>1. PICK x : x = [v EXCEPT !.leaves = Append(RemoveAt(@, LeafOf(v, p[2])), [key |-> p[2], at |-> s])]
      OBVIOUS
    <3>2. DOMAIN x = Fields /\ x.mailbox = v.mailbox /\ x.sends = v.sends
      BY <3>1 DEF Fields
    <3>3. Goes(v, p, s) = CompleteParallels(x)
      BY <2>1, <3>1 DEF Goes
    <3>4. DOMAIN CompleteParallels(x) = Fields /\ SameMail(x, CompleteParallels(x))
      BY <3>2, <1>1
    <3>. QED
      BY <3>2, <3>3, <3>4 DEF SameMail
  <2>2. CASE ~IsItem(p)
    BY <2>2 DEF Goes, Fields, SameMail
  <2>. QED
    BY <2>1, <2>2
<1>. QED
  BY <1>1, <1>2

LEMMA ResolveNoMail ==
  ASSUME NEW v, DOMAIN v = Fields, NEW c
  PROVE  SameMail(v, Resolve(v, c))
<1>1. PICK y : y = [v EXCEPT !.calls = @ \ {c}, !.settled = @ \ Members(c)]
  OBVIOUS
<1>2. DOMAIN y = Fields /\ y.mailbox = v.mailbox /\ y.sends = v.sends
  BY <1>1 DEF Fields
<1>3. Resolve(v, c) = Goes(y, c.from, Target[c.at])
  BY <1>1 DEF Resolve
<1>4. SameMail(y, Goes(y, c.from, Target[c.at]))
  BY <1>2, NoMail
<1>. QED
  BY <1>2, <1>3, <1>4 DEF SameMail

LEMMA AcceptedMail ==
  ASSUME NEW v, View(v), MailOK(v), NEW u, UnitFits(u), u.type = "accepted", ~Rejects(v, u)
  PROVE  MailsOf(v, Project(v, u), u)
<1>1. PICK w : w = Project(v, u)
  OBVIOUS
<1>2. PICK e \in Endpoint : e = u.e
  BY DEF UnitFits, UnitOK
<1>3. v.mailbox[e] # <<>> /\ Head(v.mailbox[e]) = u.msg
  BY <1>2 DEF Rejects
<1>4. w = [v EXCEPT !.mailbox[e] = Tail(@), !.current[e][u.i] = u.msg, !.at[e][u.i] = On[@][Says[u.msg.at]]]
  BY <1>1, <1>2 DEF Project
<1>5. v.mailbox \in [Endpoint -> Seq(Messages)] /\ v.sends \in [Producer -> Nat]
  BY DEF View, ActorsOK
<1>6. w.mailbox = [v.mailbox EXCEPT ![e] = Tail(@)] /\ w.sends = v.sends
  BY <1>4 DEF View, Fields
<1>7. w.mailbox[e] = Tail(v.mailbox[e]) /\ \A f \in Endpoint : f # e => w.mailbox[f] = v.mailbox[f]
  BY <1>5, <1>6
<1>8. PICK box \in Seq(Messages) : box = v.mailbox[e] /\ box # <<>>
  BY <1>3, <1>5
<1>9. PICK t : t = Tail(box)
  OBVIOUS
<1>10. Len(t) = Len(box) - 1 /\ Len(box) \in Nat \ {0} /\ \A i \in 1 .. Len(t) : t[i] = box[i + 1] /\ i + 1 \in 1 .. Len(box)
  BY <1>8, <1>9
<1>11. MailOK(w)
  <2>1. ASSUME NEW f \in Endpoint
        PROVE  /\ \A i, j \in 1 .. Len(w.mailbox[f]) : w.mailbox[f][i] = w.mailbox[f][j] => i = j
               /\ \A i \in 1 .. Len(w.mailbox[f]) : w.mailbox[f][i].visit <= w.sends[w.mailbox[f][i].from]
    <3>1. CASE f # e
      BY <3>1, <1>6, <1>7 DEF MailOK
    <3>2. CASE f = e
      <4>1. w.mailbox[f] = t
        BY <3>2, <1>7, <1>8, <1>9
      <4>2. /\ \A i, j \in 1 .. Len(box) : box[i] = box[j] => i = j
            /\ \A i \in 1 .. Len(box) : box[i].visit <= v.sends[box[i].from]
        BY <1>8 DEF MailOK
      <4>3. ASSUME NEW i \in 1 .. Len(t), NEW j \in 1 .. Len(t), t[i] = t[j]
            PROVE  i = j
        <5>1. i + 1 = j + 1
          BY <4>2, <4>3, <1>10
        <5>. QED
          BY <5>1
      <4>4. ASSUME NEW i \in 1 .. Len(t)
            PROVE  t[i].visit <= v.sends[t[i].from]
        BY <4>2, <1>10
      <4>. QED
        BY <4>1, <4>3, <4>4, <1>6
    <3>. QED
      BY <3>1, <3>2
  <2>. QED
    BY <2>1 DEF MailOK
<1>12. ASSUME NEW f \in Endpoint
       PROVE  IF f = e THEN Taking(v, w, f, u.msg) ELSE Getting(v, w, f)
  <2>1. Len(v.mailbox[f]) \in Nat
    BY <1>5
  <2>. QED
    BY <2>1, <1>3, <1>7 DEF Taking, Getting
<1>13. \A p \in Producer : v.sends[p] <= w.sends[p]
  BY <1>5, <1>6
<1>14. MailsOf(v, w, u)
  BY <1>2, <1>11, <1>12, <1>13 DEF MailsOf
<1>. QED
  BY <1>1, <1>14

LEMMA EnqueuedMail ==
  ASSUME NEW v, View(v), MailOK(v), NEW u, UnitFits(u), u.type = "enqueued", ~Rejects(v, u)
  PROVE  MailsOf(v, Project(v, u), u)
<1>1. PICK w : w = Project(v, u)
  OBVIOUS
<1>2. /\ u.p \in Producer /\ u.visit \in Nat /\ u.visit = v.sends[u.p] + 1
      /\ u.at \in Of({"send", "call"}) /\ To[u.at] \in Endpoint /\ Count[u.at] \in Nat \ {0}
  BY FanOutAssumption DEF UnitFits, UnitOK, Rejects
<1>3. PICK e \in Endpoint : e = To[u.at]
  BY <1>2
<1>4. PICK new : new = Batch(u.p, u.at, u.visit)
  OBVIOUS
<1>5. PICK x : x = [v EXCEPT !.mailbox[e] = @ \o new, !.sends[u.p] = u.visit]
  OBVIOUS
<1>6. /\ DOMAIN x = Fields /\ x.mailbox = [v.mailbox EXCEPT ![e] = @ \o new]
      /\ x.sends = [v.sends EXCEPT ![u.p] = u.visit]
  BY <1>5 DEF View, Fields
<1>7. w.mailbox = x.mailbox /\ w.sends = x.sends
  <2>1. CASE Kind[u.at] = "call"
    <3>1. w = [x EXCEPT !.calls = @ \cup {Call(u.p, u.at, u.visit)}]
      BY <1>1, <1>3, <1>4, <1>5, <2>1 DEF Project
    <3>. QED
      BY <3>1, <1>6 DEF Fields
  <2>2. CASE Kind[u.at] # "call"
    <3>1. w = Goes(x, u.p, Target[u.at])
      BY <1>1, <1>3, <1>4, <1>5, <2>2 DEF Project
    <3>2. SameMail(x, Goes(x, u.p, Target[u.at]))
      BY <1>6, NoMail
    <3>. QED
      BY <3>1, <3>2 DEF SameMail
  <2>. QED
    BY <2>1, <2>2
<1>8. v.mailbox \in [Endpoint -> Seq(Messages)] /\ v.sends \in [Producer -> Nat]
  BY DEF View, ActorsOK
<1>9. PICK box \in Seq(Messages) : box = v.mailbox[e]
  BY <1>8
<1>10. /\ new \in Seq(Messages) /\ Len(new) = Count[u.at]
       /\ \A i \in 1 .. Len(new) : new[i].from = u.p /\ new[i].visit = u.visit /\ new[i].index = i
  <2>1. new = [i \in 1 .. Count[u.at] |-> Message(u.p, u.at, u.visit, i)]
    BY <1>4 DEF Batch
  <2>2. \A i \in 1 .. Count[u.at] : Message(u.p, u.at, u.visit, i) \in Messages
    BY <1>2 DEF Message, Messages, Of
  <2>3. new \in Seq(Messages) /\ Len(new) = Count[u.at]
    BY <2>1, <2>2, <1>2
  <2>. QED
    BY <2>1, <2>3 DEF Message
<1>11. PICK t : t = box \o new
  OBVIOUS
<1>12. /\ Len(box) \in Nat /\ Len(new) \in Nat /\ Len(t) = Len(box) + Len(new)
       /\ \A i \in 1 .. Len(box) : t[i] = box[i]
       /\ \A i \in Len(box) + 1 .. Len(t) : i - Len(box) \in 1 .. Len(new) /\ t[i] = new[i - Len(box)]
  <2>1. PICK a \in Nat, b \in Nat : a = Len(box) /\ b = Len(new)
    BY <1>9, <1>10
  <2>2. Len(t) = a + b
    <3>1. Len(box \o new) = Len(box) + Len(new)
      BY <1>9, <1>10, ConcatProperties
    <3>. QED
      BY <3>1, <2>1, <1>11
  <2>3. \A i \in 1 .. a + b : t[i] = IF i <= a THEN box[i] ELSE new[i - a]
    BY <2>1, <1>9, <1>10, <1>11
  <2>4. \A i \in 1 .. a : i \in 1 .. a + b /\ i <= a
    BY <2>1
  <2>5. \A i \in a + 1 .. a + b : i \in 1 .. a + b /\ ~(i <= a) /\ i - a \in 1 .. b
    BY <2>1
  <2>. QED
    BY <2>1, <2>2, <2>3, <2>4, <2>5
<1>13. /\ w.mailbox[e] = t /\ \A f \in Endpoint : f # e => w.mailbox[f] = v.mailbox[f]
       /\ w.sends[u.p] = u.visit /\ \A p \in Producer : p # u.p => w.sends[p] = v.sends[p]
  BY <1>2, <1>6, <1>7, <1>8, <1>9, <1>11
<1>14. \A p \in Producer : v.sends[p] \in Nat /\ w.sends[p] \in Nat /\ v.sends[p] <= w.sends[p]
  BY <1>2, <1>8, <1>13, SMTT(60)
<1>15. \A i \in Len(box) + 1 .. Len(t) : t[i].from = u.p /\ t[i].visit = u.visit /\ t[i].index = i - Len(box)
  <2>1. ASSUME NEW i \in Len(box) + 1 .. Len(t)
        PROVE  t[i].from = u.p /\ t[i].visit = u.visit /\ t[i].index = i - Len(box)
    <3>1. PICK k \in 1 .. Len(new) : k = i - Len(box) /\ t[i] = new[k]
      BY <1>12
    <3>. QED
      BY <3>1, <1>10
  <2>. QED
    BY <2>1
<1>16. ASSUME NEW f \in Endpoint
       PROVE  Getting(v, w, f)
  <2>1. CASE f # e
    <3>1. Len(v.mailbox[f]) \in Nat
      BY <1>8
    <3>. QED
      BY <2>1, <3>1, <1>13 DEF Getting
  <2>2. CASE f = e
    <3>1. w.mailbox[f] = t /\ v.mailbox[f] = box
      BY <2>2, <1>9, <1>13
    <3>2. Len(box) <= Len(t)
      BY <1>12
    <3>3. u.visit > v.sends[u.p]
      BY <1>2, <1>14
    <3>. QED
      BY <3>1, <3>2, <3>3, <1>12, <1>15 DEF Getting
  <2>. QED
    BY <2>1, <2>2
<1>17. MailOK(w)
  <2>1. ASSUME NEW f \in Endpoint
        PROVE  /\ \A i, j \in 1 .. Len(w.mailbox[f]) : w.mailbox[f][i] = w.mailbox[f][j] => i = j
               /\ \A i \in 1 .. Len(w.mailbox[f]) : w.mailbox[f][i].visit <= w.sends[w.mailbox[f][i].from]
    <3>0. /\ \A i, j \in 1 .. Len(v.mailbox[f]) : v.mailbox[f][i] = v.mailbox[f][j] => i = j
          /\ \A i \in 1 .. Len(v.mailbox[f]) : /\ v.mailbox[f][i].visit <= v.sends[v.mailbox[f][i].from]
                                               /\ v.mailbox[f][i] \in Messages
      BY <1>8 DEF MailOK
    <3>1. \A i \in 1 .. Len(v.mailbox[f]) : v.mailbox[f][i].visit <= w.sends[v.mailbox[f][i].from]
      <4>1. \A i \in 1 .. Len(v.mailbox[f]) : v.mailbox[f][i].visit \in Nat /\ v.mailbox[f][i].from \in Producer
        BY <3>0 DEF Messages
      <4>2. \A a, b, c \in Nat : a <= b /\ b <= c => a <= c
        OBVIOUS
      <4>. QED
        BY <3>0, <4>1, <4>2, <1>14, SMTT(60)
    <3>2. CASE f # e
      BY <3>0, <3>1, <3>2, <1>13
    <3>3. CASE f = e
      <4>1. ASSUME NEW i \in 1 .. Len(t), NEW j \in 1 .. Len(t), t[i] = t[j], i < j
            PROVE  FALSE
        <5>1. CASE j \in 1 .. Len(box)
          <6>1. i \in 1 .. Len(box)
            BY <4>1, <5>1, <1>12
          <6>. QED
            BY <6>1, <4>1, <5>1, <3>0, <3>3, <1>9, <1>12
        <5>2. CASE i \in 1 .. Len(box) /\ j \notin 1 .. Len(box)
          <6>1. j \in Len(box) + 1 .. Len(t)
            BY <5>2, <1>12
          <6>2. t[j].from = u.p /\ t[j].visit = v.sends[u.p] + 1
            BY <6>1, <1>2, <1>15
          <6>3. box[i] = t[j] /\ box[i].visit <= v.sends[box[i].from]
            BY <4>1, <5>2, <3>0, <3>3, <1>9, <1>12
          <6>. QED
            BY <6>2, <6>3, <1>2, <1>14
        <5>3. CASE i \notin 1 .. Len(box)
          <6>1. i \in Len(box) + 1 .. Len(t) /\ j \in Len(box) + 1 .. Len(t)
            BY <4>1, <5>3, <1>12
          <6>2. i - Len(box) = j - Len(box)
            BY <6>1, <4>1, <1>15
          <6>. QED
            BY <6>1, <6>2, <4>1, <1>12
        <5>. QED
          BY <5>1, <5>2, <5>3
      <4>2. ASSUME NEW i \in 1 .. Len(t), NEW j \in 1 .. Len(t), t[i] = t[j]
            PROVE  i = j
        <5>1. i < j \/ j < i \/ i = j
          BY <1>12
        <5>. QED
          BY <5>1, <4>1, <4>2
      <4>3. ASSUME NEW i \in 1 .. Len(t)
            PROVE  t[i].visit <= w.sends[t[i].from]
        <5>1. CASE i \in 1 .. Len(box)
          BY <5>1, <3>1, <3>3, <1>9, <1>12
        <5>2. CASE i \notin 1 .. Len(box)
          <6>1. i \in Len(box) + 1 .. Len(t)
            BY <5>2, <1>12
          <6>. QED
            BY <6>1, <1>2, <1>13, <1>15
        <5>. QED
          BY <5>1, <5>2
      <4>. QED
        BY <3>3, <4>2, <4>3, <1>13
    <3>. QED
      BY <3>2, <3>3
  <2>. QED
    BY <2>1 DEF MailOK
<1>18. MailsOf(v, w, u)
  BY <1>14, <1>16, <1>17 DEF MailsOf
<1>. QED
  BY <1>1, <1>18

LEMMA MailStep ==
  ASSUME NEW v, View(v), MailOK(v), NEW u, UnitFits(u), ~Rejects(v, u)
  PROVE  MailsOf(v, Project(v, u), u)
<1>1. PICK w : w = Project(v, u)
  OBVIOUS
<1>2. DOMAIN v = Fields /\ u.type \in UnitType
  BY DEF View, UnitFits
<1>3. CASE u.type \in {"failure", "created", "closing", "invoke"}
  <2>1. SameMail(v, w)
    BY <1>1, <1>2, <1>3 DEF Project, SameMail, Fields
  <2>. QED
    BY <2>1, <1>1, <1>3, SameMailOf
<1>4. CASE u.type = "spawned"
  <2>1. SameMail(v, w)
    <3>1. CASE v.chart # "map"
      BY <3>1, <1>1, <1>4 DEF Project, SameMail
    <3>2. CASE v.chart = "map"
      <4>1. PICK x : x = [v EXCEPT !.chart = IF u.n = 0 THEN "end" ELSE "each",
                                   !.leaves = [k \in 1 .. u.n |-> [key |-> k, at |-> First]]]
        OBVIOUS
      <4>2. DOMAIN x = Fields /\ x.mailbox = v.mailbox /\ x.sends = v.sends
        BY <4>1, <1>2 DEF Fields
      <4>3. w = CompleteParallels(x)
        BY <4>1, <3>2, <1>1, <1>4 DEF Project
      <4>. QED
        BY <4>2, <4>3, NoMail DEF SameMail
    <3>. QED
      BY <3>1, <3>2
  <2>. QED
    BY <2>1, <1>1, <1>4, SameMailOf
<1>5. CASE u.type = "complete"
  <2>1. SameMail(v, w)
    <3>1. CASE At(v, u.p) # u.at
      BY <3>1, <1>1, <1>5 DEF Project, SameMail
    <3>2. CASE At(v, u.p) = u.at /\ u.to = "abort"
      <4>1. w = Leave(v)
        BY <3>2, <1>1, <1>5 DEF Project
      <4>. QED
        BY <4>1, <1>2 DEF Leave, Fields, SameMail
    <3>3. CASE At(v, u.p) = u.at /\ u.to # "abort"
      <4>1. PICK x : x = [v EXCEPT !.pending[u.p] = 0]
        OBVIOUS
      <4>2. DOMAIN x = Fields /\ x.mailbox = v.mailbox /\ x.sends = v.sends
        BY <4>1, <1>2 DEF Fields
      <4>3. w = Goes(x, u.p, u.to)
        BY <4>1, <3>3, <1>1, <1>5 DEF Project
      <4>. QED
        BY <4>2, <4>3, NoMail DEF SameMail
    <3>. QED
      BY <3>1, <3>2, <3>3
  <2>. QED
    BY <2>1, <1>1, <1>5, SameMailOf
<1>6. CASE u.type = "replied"
  <2>1. SameMail(v, w)
    <3>1. PICK x : x = [v EXCEPT !.current[u.p[2]][u.p[3]] = NoMessage, !.at[u.p[2]][u.p[3]] = Target[@],
                                 !.settled = IF Asks(u.msg) THEN @ \cup {u.msg} ELSE @]
      OBVIOUS
    <3>2. DOMAIN x = Fields /\ x.mailbox = v.mailbox /\ x.sends = v.sends
      BY <3>1, <1>2 DEF Fields
    <3>3. w = IF u.resolves THEN Resolve(x, CallOf(u.msg)) ELSE x
      BY <3>1, <1>1, <1>6 DEF Project
    <3>4. SameMail(x, Resolve(x, CallOf(u.msg)))
      BY <3>2, ResolveNoMail
    <3>. QED
      BY <3>2, <3>3, <3>4 DEF SameMail
  <2>. QED
    BY <2>1, <1>1, <1>6, SameMailOf
<1>7. CASE u.type = "resolved"
  <2>1. SameMail(v, w)
    <3>1. w = Resolve(v, u.call)
      BY <1>1, <1>7 DEF Project
    <3>. QED
      BY <3>1, <1>2, ResolveNoMail
  <2>. QED
    BY <2>1, <1>1, <1>7, SameMailOf
<1>8. CASE u.type = "stopped"
  <2>1. SameMail(v, w)
    <3>1. PICK x : x = [v EXCEPT !.status[u.e] = "stopped"]
      OBVIOUS
    <3>2. DOMAIN x = Fields /\ x.mailbox = v.mailbox /\ x.sends = v.sends
      BY <3>1, <1>2 DEF Fields
    <3>3. w = CompleteParallels(x)
      BY <3>1, <1>1, <1>8 DEF Project
    <3>. QED
      BY <3>2, <3>3, NoMail DEF SameMail
  <2>. QED
    BY <2>1, <1>1, <1>8, SameMailOf
<1>. QED
  BY <1>2, <1>3, <1>4, <1>5, <1>6, <1>7, <1>8, AcceptedMail, EnqueuedMail DEF UnitType

-----------------------------------------------------------------------------
(* What the machine asks to be committed.                                   *)
Shape ==
  [type : {"failure"}] \cup [type : {"spawned"}, n : 0 .. MaxItems]
    \cup [type : {"invoke"}, group : SUBSET (Producer \X Of({"work"}))]
    \cup [type : {"complete"}, p : Producer, at : State, to : State \cup {"abort"}]
    \cup [type : {"created", "closing", "stopped"}, e : Endpoint]
    \cup [type : {"enqueued"}, p : Producer, at : Of({"send", "call"}), visit : Nat]
    \cup Accept \cup [type : {"replied"}, p : Producer, msg : Messages, resolves : BOOLEAN]
    \cup [type : {"resolved"}, call : Calls]
Unit == {u \in Shape : UnitFits(u)}
Due(v, r) == {u \in Unit : Asked(v, u) /\ (u.type = "accepted" => u \in Range(Accepts(v, u.e, r)))}

LEMMA SequenceOver ==
  ASSUME NEW S, NEW T, NEW s \in Seq(S), \A i \in 1 .. Len(s) : s[i] \in T
  PROVE  s \in Seq(T)
OBVIOUS

LEMMA SomeUnits ==
  ASSUME NEW v, NEW r
  PROVE  /\ Failure \in Due(v, r)
         /\ \A n \in 0 .. MaxItems : v.chart = "map" => [type |-> "spawned", n |-> n] \in Due(v, r)
         /\ \A type \in {"closing", "stopped", "created"}, e \in Endpoint : [type |-> type, e |-> e] \in Due(v, r)
         /\ \A c \in Calls : [type |-> "resolved", call |-> c] \in Due(v, r)
<1>1. Failure \in Due(v, r)
  <2>1. Failure \in Shape
    BY DEF Failure, Shape
  <2>2. UnitFits(Failure) /\ Asked(v, Failure)
    BY DEF Failure, UnitFits, UnitOK, UnitType, Asked
  <2>3. Failure.type # "accepted"
    BY DEF Failure
  <2>. QED
    BY <2>1, <2>2, <2>3 DEF Due, Unit
<1>2. ASSUME NEW n \in 0 .. MaxItems, v.chart = "map"
      PROVE  [type |-> "spawned", n |-> n] \in Due(v, r)
  <2>1. PICK u : u = [type |-> "spawned", n |-> n]
    OBVIOUS
  <2>2. u \in Shape /\ u.type = "spawned" /\ u.n = n
    BY <2>1 DEF Shape
  <2>3. UnitFits(u) /\ Asked(v, u)
    BY <2>2, <1>2 DEF UnitFits, UnitOK, UnitType, Asked
  <2>. QED
    BY <2>1, <2>2, <2>3 DEF Due, Unit
<1>3. ASSUME NEW type \in {"closing", "stopped", "created"}, NEW e \in Endpoint
      PROVE  [type |-> type, e |-> e] \in Due(v, r)
  <2>1. PICK u : u = [type |-> type, e |-> e]
    OBVIOUS
  <2>2. u \in Shape /\ u.type = type /\ u.e = e
    BY <2>1 DEF Shape
  <2>3. UnitFits(u) /\ Asked(v, u)
    BY <2>2 DEF UnitFits, UnitOK, UnitType, Asked
  <2>. QED
    BY <2>1, <2>2, <2>3 DEF Due, Unit
<1>4. ASSUME NEW c \in Calls
      PROVE  [type |-> "resolved", call |-> c] \in Due(v, r)
  <2>1. PICK u : u = [type |-> "resolved", call |-> c]
    OBVIOUS
  <2>2. u \in Shape /\ u.type = "resolved" /\ u.call = c
    BY <2>1 DEF Shape
  <2>3. UnitFits(u) /\ Asked(v, u)
    BY <2>2 DEF UnitFits, UnitOK, UnitType, Asked
  <2>. QED
    BY <2>1, <2>2, <2>3 DEF Due, Unit
<1>. QED
  BY <1>1, <1>2, <1>3, <1>4

LEMMA AcceptsFit ==
  ASSUME NEW v, View(v), NEW e \in Endpoint, NEW r, r[e] \in Seq(Accept), Len(r[e]) <= Len(v.mailbox[e])
  PROVE  /\ DueAccepts(v, e, r) \in Seq(Accept) /\ Len(r[e]) + Len(DueAccepts(v, e, r)) <= Len(v.mailbox[e])
         /\ InTurn(v, e, Len(r[e]), DueAccepts(v, e, r))
         /\ Accepts(v, e, r) \in Seq(Accept)
         /\ \A n \in 1 .. Len(Accepts(v, e, r)) : Accepts(v, e, r)[n] \in Range(DueAccepts(v, e, r))
         /\ Accepts(v, e, r) \in Seq(Due(v, r))
<1>1. PICK due : due = DueAccepts(v, e, r)
  OBVIOUS
<1>2. due \in Seq(Accept) /\ Len(r[e]) + Len(due) <= Len(v.mailbox[e]) /\ InTurn(v, e, Len(r[e]), due)
  <2>1. CASE Unsupported(v, r) # {}
    <3>1. due = <<>>
      BY <1>1, <2>1 DEF DueAccepts
    <3>2. Len(<<>>) = 0 /\ <<>> \in Seq(Accept) /\ Len(r[e]) \in Nat
      OBVIOUS
    <3>. QED
      BY <3>1, <3>2 DEF InTurn
  <2>2. CASE Unsupported(v, r) = {}
    <3>1. due = Admission(v, e, r).accepts
      BY <1>1, <2>2 DEF DueAccepts
    <3>. QED
      BY <3>1, AdmissionFits
  <2>. QED
    BY <2>1, <2>2
<1>3. PICK P \in SUBSET (1 .. Len(due)) : Accepts(v, e, r) = Kept(due, P)
  <2>1. DOMAIN due = 1 .. Len(due)
    BY <1>2
  <2>. QED
    BY <2>1, <1>1 DEF Accepts
<1>4. PICK kept : kept = Accepts(v, e, r)
  OBVIOUS
<1>5. kept \in Seq(Accept) /\ \A n \in 1 .. Len(kept) : \E i \in P : kept[n] = due[i]
  BY <1>2, <1>3, <1>4, KeptType
<1>6. \A n \in 1 .. Len(kept) : kept[n] \in Range(due)
  BY <1>2, <1>5 DEF Range
<1>7. ASSUME NEW n \in 1 .. Len(kept)
      PROVE  kept[n] \in Due(v, r)
  <2>1. PICK a \in Accept : a = kept[n]
    BY <1>5
  <2>2. a.e = e
    BY <2>1, <1>2, <1>5 DEF InTurn
  <2>3. a \in Range(Accepts(v, a.e, r))
    BY <2>1, <2>2, <1>4, <1>5 DEF Range
  <2>4. a.type = "accepted" /\ a \in Shape
    BY DEF Accept, Shape
  <2>5. UnitFits(a) /\ Asked(v, a)
    BY <2>4 DEF UnitFits, UnitOK, UnitType, Asked, Accept
  <2>. QED
    BY <2>1, <2>3, <2>4, <2>5 DEF Due, Unit
<1>8. kept \in Seq(Due(v, r))
  BY <1>5, <1>7, SequenceOver
<1>. QED
  BY <1>1, <1>2, <1>4, <1>5, <1>6, <1>8

LEMMA AppendsFit ==
  ASSUME NEW v, View(v), NEW r \in [Endpoint -> Seq(Accept)], \A e \in Endpoint : Len(r[e]) <= Len(v.mailbox[e]),
         NEW n \in 0 .. MaxItems
  PROVE  Appends(v, r, n) \in Seq(Due(v, r))
<1> DEFINE once(ids, u) == IF Chosen(ids) \subseteq dispatched THEN <<>> ELSE <<u>>
           invokes == {x \in DueInvokes(v) : <<"invoke", x>> \notin dispatched}
           batches == {c \in DueBatches(v) : <<"resolve", c>> \notin dispatched}
           fresh(type, es) == {e \in es : <<type, e>> \notin dispatched}
           scope(type, es) == [j \in 1 .. Cardinality(fresh(type, es)) |-> [type |-> type, e |-> InOrder(fresh(type, es))[j]]]
           one == once(DueSpawns(v), [type |-> "spawned", n |-> n])
           two == once(DueAdmissionFailures(v), Failure)
           three == once(Unsupported(v, r), Failure)
           four == FlattenSeq([e \in Endpoint |-> Accepts(v, e, r)])
           five == IF invokes = {} THEN <<>> ELSE <<[type |-> "invoke", group |-> invokes]>>
           six == [j \in 1 .. Cardinality(batches) |-> [type |-> "resolved", call |-> SetToSeq(batches)[j]]]
<1>1. Appends(v, r, n) =
        one \o two \o three \o four \o five \o six \o scope("closing", DueClosings(v)) \o scope("stopped", DueStops(v))
  BY DEF Appends
<1>2. one \in Seq(Due(v, r))
  <2>1. CASE v.chart = "map"
    <3>1. [type |-> "spawned", n |-> n] \in Due(v, r)
      BY <2>1, SomeUnits
    <3>. QED
      BY <3>1
  <2>2. CASE v.chart # "map"
    <3>1. Chosen(DueSpawns(v)) = {}
      BY <2>2 DEF DueSpawns, Chosen
    <3>. QED
      BY <3>1
  <2>. QED
    BY <2>1, <2>2
<1>3. two \in Seq(Due(v, r)) /\ three \in Seq(Due(v, r))
  BY SomeUnits
<1>4. four \in Seq(Due(v, r))
  <2>1. \A e \in Endpoint : Accepts(v, e, r) \in Seq(Due(v, r))
    BY AcceptsFit
  <2>2. PICK ss : ss = [e \in Endpoint |-> Accepts(v, e, r)]
    OBVIOUS
  <2>3. ss \in Seq(Seq(Due(v, r)))
    BY <2>1, <2>2, FanOutAssumption DEF Endpoint
  <2>. QED
    BY <2>2, <2>3, Flattened
<1>5. five \in Seq(Due(v, r))
  <2>1. PICK u : u = [type |-> "invoke", group |-> invokes]
    OBVIOUS
  <2>2. ASSUME NEW x \in invokes
        PROVE  /\ x \in Producer \X Of({"work"}) /\ Kind[x[2]] = "work"
               /\ IsItem(x[1]) => x[1][2] \in Admitted(v) \ Holders(v)
    <3>1. x \in DueInvokes(v)
      OBVIOUS
    <3>2. PICK p \in Producer : x = <<p, At(v, p)>> /\ At(v, p) # "none" /\ Kind[At(v, p)] = "work"
      BY <3>1 DEF DueInvokes, Doing
    <3>3. At(v, p) \in State
      BY <3>2, AtType
    <3>4. x \in Producer \X Of({"work"}) /\ Kind[x[2]] = "work"
      BY <3>2, <3>3 DEF Of
    <3>. QED
      BY <3>1, <3>4, DueAreAdmitted
  <2>3. u.type = "invoke" /\ u.group = invokes
    BY <2>1
  <2> HIDE DEF invokes
  <2>4. u \in Shape
    <3>1. invokes \in SUBSET (Producer \X Of({"work"}))
      BY <2>2
    <3>. QED
      BY <3>1, <2>1 DEF Shape
  <2>5. UnitFits(u)
    <3>1. u.group \subseteq Producer \X State
      BY <2>2, <2>3 DEF Of
    <3>. QED
      BY <3>1, <2>2, <2>3 DEF UnitFits, UnitOK, UnitType
  <2>6. Asked(v, u)
    BY <2>2, <2>3 DEF Asked
  <2>7. u \in Due(v, r)
    BY <2>3, <2>4, <2>5, <2>6 DEF Due, Unit
  <2>. QED
    BY <2>1, <2>7
<1>6. six \in Seq(Due(v, r))
  <2>1. IsFiniteSet(v.calls) /\ v.calls \subseteq Calls
    BY DEF View, ActorsOK, Asking
  <2>2. batches \subseteq v.calls
    BY DEF DueBatches
  <2>3. IsFiniteSet(batches)
    BY <2>1, <2>2, FS_Subset
  <2> HIDE DEF batches
  <2>4. Cardinality(batches) \in Nat /\ \A j \in 1 .. Cardinality(batches) : SetToSeq(batches)[j] \in Calls
    BY <2>1, <2>2, <2>3, SomeOrder
  <2>5. \A j \in 1 .. Cardinality(batches) : [type |-> "resolved", call |-> SetToSeq(batches)[j]] \in Due(v, r)
    BY <2>4, SomeUnits
  <2>. QED
    BY <2>4, <2>5
<1>7. ASSUME NEW type \in {"closing", "stopped"}, NEW es \in SUBSET Endpoint
      PROVE  scope(type, es) \in Seq(Due(v, r))
  <2>1. PICK P \in SUBSET (1 .. Endpoints) : P = fresh(type, es)
    BY DEF Endpoint
  <2>2. Cardinality(P) \in Nat /\ \A j \in 1 .. Cardinality(P) : InOrder(P)[j] \in Endpoint
    BY FanOutAssumption, Ordered DEF Endpoint
  <2>3. \A j \in 1 .. Cardinality(P) : [type |-> type, e |-> InOrder(P)[j]] \in Due(v, r)
    BY <2>2, SomeUnits
  <2>4. [j \in 1 .. Cardinality(P) |-> [type |-> type, e |-> InOrder(P)[j]]] \in Seq(Due(v, r))
    BY <2>2, <2>3
  <2>. QED
    BY <2>1, <2>4
<1>8. scope("closing", DueClosings(v)) \in Seq(Due(v, r)) /\ scope("stopped", DueStops(v)) \in Seq(Due(v, r))
  BY <1>7 DEF DueClosings, DueStops
<1> HIDE DEF one, two, three, four, five, six, scope
<1>. QED
  BY <1>1, <1>2, <1>3, <1>4, <1>5, <1>6, <1>8

-----------------------------------------------------------------------------
(* The invariant: what the variables hold,                                  *)
CheckId == ({"create"} \X Endpoint) \cup ({"enqueue"} \X Producer \X State \X Nat) \cup ({"reply"} \X Producer \X Messages)
TaskId == {"run"} \X Producer \X Of({"work"}) \X Nat
Happening ==
  [kind : {"start"}] \cup [kind : {"ack"}, unit : Unit] \cup [kind : {"checked"}, id : CheckId]
    \cup [kind : {"worked"}, id : TaskId, to : State \cup {"abort"}]

ViewsOK ==
  /\ View(machine) /\ MailOK(machine) /\ machine.rounds <= MaxRounds
  /\ View(durable) /\ MailOK(durable) /\ durable.rounds <= MaxRounds
SlotsOK == Cardinality(Holders(machine)) <= Limit /\ Cardinality(Holders(durable)) <= Limit
PiecesOK ==
  /\ queue \in Seq(Happening) /\ batch \in Seq(Unit) /\ checks \subseteq CheckId /\ tasks \subseteq TaskId
  /\ loop \in {"ready", "final", "failed", "threw"} /\ crashes \in 0 .. MaxCrashes

(* a reservation for each accept on its way, of the first messages of the   *)
(* mailbox that the machine knows,                                          *)
Reservations(v, r) ==
  /\ r \in [Endpoint -> Seq(Accept)]
  /\ \A e \in Endpoint : /\ Len(r[e]) <= Len(v.mailbox[e])
                         /\ \A j \in 1 .. Len(r[e]) : r[e][j].e = e /\ r[e][j].msg = v.mailbox[e][j]
Reserving(v, r, u) ==
  u.type = "accepted" => /\ u.msg.visit <= v.sends[u.msg.from]
                         /\ \A i \in 1 .. Len(v.mailbox[u.e]) : v.mailbox[u.e][i] = u.msg =>
                              \E j \in 1 .. Len(r[u.e]) : r[u.e][j] = u
Marked(r, ids) == \A id \in ids : id[1] = "accept" => \E j \in 1 .. Len(r[id[2]]) : r[id[2]][j].msg = id[3]

(* what actions at work and their outcomes are of, and what the machine     *)
(* asked for.                                                               *)
TaskFits(v, id) == id[4] >= 1 /\ id[4] <= v.visits[id[2]]
EventFits(v, r, event) ==
  /\ event.kind = "ack" => Reserving(v, r, event.unit)
  /\ event.kind = "worked" => /\ TaskFits(v, event.id)
                              /\ event.to = "abort" => /\ IsItem(event.id[2])
                                                       /\ v.pending[event.id[2]] = event.id[4] => v.rounds < MaxRounds
OnTheWay ==
  /\ \A i \in 1 .. Len(queue) : EventFits(machine, reserved, queue[i])
  /\ \A i \in 1 .. Len(batch) : Asked(machine, batch[i]) /\ Reserving(machine, reserved, batch[i])
  /\ \A id \in tasks : TaskFits(machine, id)

Inv ==
  /\ ViewsOK /\ SlotsOK /\ PiecesOK /\ Reservations(machine, reserved) /\ Marked(reserved, dispatched) /\ OnTheWay
  /\ loop = "ready" => Spans(machine, durable, queue)

(* What is due of the actors and of the actions.                            *)
LEMMA EffectsFit ==
  ASSUME NEW v, View(v), NEW id \in Effects(v)
  PROVE  /\ id[1] # "run" => id \in CheckId
         /\ id[1] = "run" => id \in TaskId /\ TaskFits(v, id)
         /\ id[1] # "accept"
         /\ id[1] = "enqueue" => id[3] \in Of({"send", "call"})
         /\ id[1] = "reply" => ~IsItem(id[2])
<1>1. CASE id \in DueCreates(v)
  <2>1. PICK e \in Endpoint : id = <<"create", e>>
    BY <1>1 DEF DueCreates
  <2>. QED
    BY <2>1 DEF CheckId
<1>2. CASE id \in DueEnqueues(v)
  <2>1. PICK p \in Messaging(v) : id = <<"enqueue", p, At(v, p), v.sends[p] + 1>>
    BY <1>2 DEF DueEnqueues
  <2>2. p \in Producer /\ At(v, p) # "none" /\ Kind[At(v, p)] \in {"send", "call"}
    BY DEF Messaging, Doing
  <2>3. At(v, p) \in State /\ v.sends[p] + 1 \in Nat
    BY <2>2, AtType DEF View, ActorsOK
  <2>. QED
    BY <2>1, <2>2, <2>3 DEF CheckId, Of
<1>3. CASE id \in DueReplies(v)
  <2>1. PICK p \in Producer : id = <<"reply", p, Current(v, p)>> /\ ~IsItem(p) /\ Current(v, p) # NoMessage
    BY <1>3 DEF DueReplies, Doing
  <2>2. Current(v, p) \in Messages
    <3>1. p[2] \in Endpoint /\ p[3] \in 1 .. Workers[p[2]]
      BY <2>1, Producers
    <3>2. PICK e \in Endpoint : e = p[2]
      BY <3>1
    <3>3. PICK i \in 1 .. Workers[e] : i = p[3]
      BY <3>1, <3>2
    <3>4. v.current[e] \in [1 .. Workers[e] -> Messages \cup {NoMessage}]
      BY DEF View, ActorsOK
    <3>5. v.current[e][i] \in Messages \cup {NoMessage}
      BY <3>4
    <3>. QED
      BY <3>2, <3>3, <3>5, <2>1 DEF Current
  <2>. QED
    BY <2>1, <2>2 DEF CheckId
<1>4. CASE id \in DuePhases(v)
  <2>1. PICK p \in Producer : /\ id = <<"run", p, At(v, p), v.pending[p]>> /\ At(v, p) # "none"
                              /\ Kind[At(v, p)] = "work" /\ v.pending[p] # 0
    BY <1>4 DEF DuePhases, Doing
  <2>2. At(v, p) \in Of({"work"})
    BY <2>1, AtType DEF Of
  <2>3. v.pending[p] \in Nat /\ v.visits[p] \in Nat /\ v.pending[p] <= v.visits[p]
    BY DEF View, ItemsOK
  <2>4. id \in TaskId
    BY <2>1, <2>2, <2>3 DEF TaskId
  <2>5. TaskFits(v, id)
    BY <2>1, <2>3 DEF TaskFits
  <2>. QED
    BY <2>1, <2>4, <2>5
<1>. QED
  BY <1>1, <1>2, <1>3, <1>4 DEF Effects

(* No message is asked for twice: what is marked has its reservation.       *)
LEMMA NotMarked ==
  ASSUME NEW v, MailOK(v), NEW r, NEW s, NEW ids, Marked(s, ids), View(v),
         \A e \in Endpoint : /\ Len(r[e]) \in Nat /\ Len(s[e]) \in Nat
                             /\ \A j \in 1 .. Len(s[e]) :
                                  \/ j <= Len(r[e]) /\ s[e][j].msg = v.mailbox[e][j] /\ Len(r[e]) <= Len(v.mailbox[e])
                                  \/ \A i \in 1 .. Len(v.mailbox[e]) : v.mailbox[e][i] # s[e][j].msg \/ i <= Len(r[e])
  PROVE  \A e \in Endpoint : \A i \in Len(r[e]) + 1 .. Len(v.mailbox[e]) : <<"accept", e, v.mailbox[e][i]>> \notin ids
<1>1. SUFFICES ASSUME NEW e \in Endpoint, NEW i \in Len(r[e]) + 1 .. Len(v.mailbox[e]),
                      <<"accept", e, v.mailbox[e][i]>> \in ids
               PROVE  FALSE
  OBVIOUS
<1>2. PICK j \in 1 .. Len(s[e]) : s[e][j].msg = v.mailbox[e][i]
  BY <1>1 DEF Marked
<1>3. Len(r[e]) \in Nat /\ Len(v.mailbox[e]) \in Nat /\ i \in 1 .. Len(v.mailbox[e]) /\ ~(i <= Len(r[e]))
  BY DEF View, ActorsOK
<1>4. CASE j <= Len(r[e]) /\ s[e][j].msg = v.mailbox[e][j] /\ Len(r[e]) <= Len(v.mailbox[e])
  <2>1. j \in 1 .. Len(v.mailbox[e])
    BY <1>3, <1>4
  <2>2. i = j
    BY <2>1, <1>2, <1>3, <1>4 DEF MailOK
  <2>. QED
    BY <2>2, <1>3, <1>4
<1>5. CASE \A k \in 1 .. Len(v.mailbox[e]) : v.mailbox[e][k] # s[e][j].msg \/ k <= Len(r[e])
  BY <1>2, <1>3, <1>5
<1>. QED
  BY <1>4, <1>5

(* So all that is due of the mailboxes is asked for.                        *)
Unmarked(v, r) ==
  \A e \in Endpoint : \A i \in Len(r[e]) + 1 .. Len(v.mailbox[e]) : <<"accept", e, v.mailbox[e][i]>> \notin dispatched

LEMMA AllAreAsked ==
  ASSUME NEW v, View(v), NEW r, Reservations(v, r), Unmarked(v, r), NEW e \in Endpoint
  PROVE  /\ Accepts(v, e, r) \in Seq(Accept) /\ Len(r[e]) + Len(Accepts(v, e, r)) <= Len(v.mailbox[e])
         /\ InTurn(v, e, Len(r[e]), Accepts(v, e, r))
         /\ \A a \in Range(DueAccepts(v, e, r)) : \E j \in 1 .. Len(Accepts(v, e, r)) : Accepts(v, e, r)[j] = a
<1>1. r[e] \in Seq(Accept) /\ Len(r[e]) \in Nat /\ Len(r[e]) <= Len(v.mailbox[e]) /\ Len(v.mailbox[e]) \in Nat
  BY DEF Reservations, View, ActorsOK
<1>2. PICK due \in Seq(Accept) : due = DueAccepts(v, e, r)
  BY <1>1, AcceptsFit
<1>3. PICK n \in Nat : n = Len(due) /\ Len(r[e]) + n <= Len(v.mailbox[e])
  BY <1>1, <1>2, AcceptsFit
<1>4. InTurn(v, e, Len(r[e]), due)
  BY <1>1, <1>2, AcceptsFit
<1>5. ASSUME NEW j \in 1 .. n
      PROVE  AcceptId(due[j]) \notin dispatched
  <2>1. due[j].e = e /\ due[j].msg = v.mailbox[e][Len(r[e]) + j]
    BY <1>3, <1>4 DEF InTurn
  <2>2. Len(r[e]) + j \in Len(r[e]) + 1 .. Len(v.mailbox[e])
    BY <1>1, <1>3
  <2>. QED
    BY <2>1, <2>2 DEF AcceptId, Unmarked
<1>6. PICK P : P = {j \in DOMAIN due : AcceptId(due[j]) \notin dispatched}
  OBVIOUS
<1>7. P = 0 + 1 .. Len(due)
  BY <1>3, <1>5, <1>6
<1>8. PICK kept : kept = Kept(due, P) /\ kept = Accepts(v, e, r)
  BY <1>2, <1>6 DEF Accepts
<1>9. kept \in Seq(Accept)
  BY <1>1, <1>8, AcceptsFit
<1>10. 0 \in 0 .. Len(due)
  BY <1>3
<1>11. Len(Kept(due, 0 + 1 .. Len(due))) = Len(due) - 0 /\ \A m \in 1 .. Len(due) - 0 : Kept(due, 0 + 1 .. Len(due))[m] = due[0 + m]
  BY <1>10, KeptRest
<1>12. Len(kept) = n /\ \A m \in 1 .. n : kept[m] = due[m]
  BY <1>3, <1>7, <1>8, <1>11
<1>13. InTurn(v, e, Len(r[e]), kept)
  BY <1>3, <1>4, <1>12 DEF InTurn
<1>14. ASSUME NEW a \in Range(due)
       PROVE  \E j \in 1 .. Len(kept) : kept[j] = a
  <2>1. PICK j \in 1 .. n : due[j] = a
    BY <1>3 DEF Range
  <2>. QED
    BY <2>1, <1>12
<1>. QED
  BY <1>2, <1>3, <1>8, <1>9, <1>12, <1>13, <1>14

(* The reservations that an output leaves.                                  *)
Reserved(v, r) == [e \in Endpoint |-> r[e] \o Accepts(v, e, r)]

LEMMA ReservationsGrow ==
  ASSUME NEW v, View(v), MailOK(v), NEW r, Reservations(v, r), Unmarked(v, r), NEW s, s = Reserved(v, r)
  PROVE  /\ Reservations(v, s)
         /\ \A u \in Unit : Reserving(v, r, u) => Reserving(v, s, u)
         /\ \A u \in Due(v, r) : u.type = "accepted" => Reserving(v, s, u)
         /\ \A e \in Endpoint : \A a \in Range(DueAccepts(v, e, r)) : \E j \in 1 .. Len(s[e]) : s[e][j] = a
<1>1. ASSUME NEW e \in Endpoint
      PROVE  /\ s[e] \in Seq(Accept) /\ Len(s[e]) <= Len(v.mailbox[e])
             /\ \A j \in 1 .. Len(s[e]) : s[e][j].e = e /\ s[e][j].msg = v.mailbox[e][j]
             /\ \A j \in 1 .. Len(r[e]) : j \in 1 .. Len(s[e]) /\ s[e][j] = r[e][j]
             /\ \A j \in 1 .. Len(Accepts(v, e, r)) : \E i \in 1 .. Len(s[e]) : s[e][i] = Accepts(v, e, r)[j]
  <2>1. PICK a \in Seq(Accept) : a = r[e]
    BY DEF Reservations
  <2>2. PICK b \in Seq(Accept) : b = Accepts(v, e, r)
    BY AllAreAsked
  <2>3. PICK l \in Nat, n \in Nat : l = Len(a) /\ n = Len(b) /\ l + n <= Len(v.mailbox[e])
    <3>1. Len(r[e]) + Len(Accepts(v, e, r)) <= Len(v.mailbox[e])
      BY AllAreAsked
    <3>. QED
      BY <2>1, <2>2, <3>1
  <2>4. s[e] = a \o b
    BY <2>1, <2>2 DEF Reserved
  <2>5. /\ s[e] \in Seq(Accept) /\ Len(s[e]) = l + n
        /\ \A j \in 1 .. l : s[e][j] = a[j]
        /\ \A j \in 1 .. n : s[e][l + j] = b[j]
    BY <2>3, <2>4, ConcatProperties
  <2>6. InTurn(v, e, l, b)
    BY <2>1, <2>2, <2>3, AllAreAsked
  <2>7. ASSUME NEW j \in 1 .. l + n
        PROVE  s[e][j].e = e /\ s[e][j].msg = v.mailbox[e][j]
    <3>1. CASE j \in 1 .. l
      BY <3>1, <2>1, <2>3, <2>5 DEF Reservations
    <3>2. CASE j \notin 1 .. l
      <4>1. PICK i \in 1 .. n : j = l + i
        <5>1. j - l \in 1 .. n /\ j = l + (j - l)
          BY <3>2
        <5>. QED
          BY <5>1
      <4>. QED
        BY <4>1, <2>3, <2>5, <2>6 DEF InTurn
    <3>. QED
      BY <3>1, <3>2
  <2>8. \A j \in 1 .. n : l + j \in 1 .. l + n
    OBVIOUS
  <2>9. \A j \in 1 .. l : j \in 1 .. l + n
    OBVIOUS
  <2>. QED
    BY <2>1, <2>2, <2>3, <2>5, <2>7, <2>8, <2>9
<1>2. Reservations(v, s)
  <2>1. DOMAIN s = Endpoint /\ s = [e \in Endpoint |-> s[e]]
    BY DEF Reserved
  <2>2. s \in [Endpoint -> Seq(Accept)]
    BY <1>1, <2>1
  <2>. QED
    BY <1>1, <2>2 DEF Reservations
<1>3. ASSUME NEW u \in Unit, Reserving(v, r, u)
      PROVE  Reserving(v, s, u)
  <2>1. u.type = "accepted" => u.e \in Endpoint
    BY DEF Unit, UnitFits, UnitOK
  <2>. QED
    BY <1>1, <1>3, <2>1 DEF Reserving
<1>4. ASSUME NEW u \in Due(v, r), u.type = "accepted"
      PROVE  Reserving(v, s, u)
  <2>1. u.e \in Endpoint /\ u \in Range(Accepts(v, u.e, r))
    BY <1>4 DEF Due, Unit, UnitFits, UnitOK
  <2>2. PICK e \in Endpoint : e = u.e
    BY <2>1
  <2>3. PICK j \in 1 .. Len(Accepts(v, e, r)) : Accepts(v, e, r)[j] = u
    <3>1. Accepts(v, e, r) \in Seq(Accept)
      BY AllAreAsked
    <3>. QED
      BY <2>1, <2>2, <3>1 DEF Range
  <2>4. PICK i \in 1 .. Len(s[e]) : s[e][i] = u
    BY <1>1, <2>3
  <2>5. u.msg = v.mailbox[e][i] /\ i \in 1 .. Len(v.mailbox[e])
    <3>1. Len(v.mailbox[e]) \in Nat /\ Len(s[e]) \in Nat
      BY <1>1 DEF View, ActorsOK
    <3>. QED
      BY <1>1, <2>4, <3>1
  <2>6. u.msg.visit <= v.sends[u.msg.from]
    BY <2>5 DEF MailOK
  <2>. QED
    BY <2>2, <2>4, <2>6 DEF Reserving
<1>5. ASSUME NEW e \in Endpoint, NEW a \in Range(DueAccepts(v, e, r))
      PROVE  \E j \in 1 .. Len(s[e]) : s[e][j] = a
  <2>1. PICK j \in 1 .. Len(Accepts(v, e, r)) : Accepts(v, e, r)[j] = a
    BY AllAreAsked
  <2>. QED
    BY <1>1, <2>1
<1>. QED
  BY <1>2, <1>3, <1>4, <1>5

(* What is asked for from now on.                                           *)
LEMMA DesiredAreMarked ==
  ASSUME NEW v, View(v), MailOK(v), NEW r, Reservations(v, r), Unmarked(v, r), NEW s, s = Reserved(v, r)
  PROVE  Marked(s, Desired(v, r))
<1>1. SUFFICES ASSUME NEW id \in Desired(v, r), id[1] = "accept"
               PROVE  \E j \in 1 .. Len(s[id[2]]) : s[id[2]][j].msg = id[3]
  BY DEF Marked
<1>2. \A ids : Chosen(ids) \subseteq ids
  BY DEF Chosen
<1>3. id \notin Chosen(DueSpawns(v)) \cup Chosen(DueAdmissionFailures(v)) \cup Chosen(Unsupported(v, r))
  BY <1>1, <1>2 DEF DueSpawns, DueAdmissionFailures, Unsupported
<1>4. id \notin Effects(v)
  BY <1>1, EffectsFit
<1> DEFINE once == Chosen(DueSpawns(v)) \cup Chosen(DueAdmissionFailures(v)) \cup Chosen(Unsupported(v, r))
           accepts == (UNION {{AcceptId(a) : a \in Range(DueAccepts(v, e, r))} : e \in Endpoint})
           invokes == {<<"invoke", x>> : x \in DueInvokes(v)}
           batches == {<<"resolve", c>> : c \in DueBatches(v)}
           closings == {<<"closing", e>> : e \in DueClosings(v)}
           stops == {<<"stopped", e>> : e \in DueStops(v)}
<1>5. PICK e \in Endpoint : \E a \in Range(DueAccepts(v, e, r)) : id = AcceptId(a)
  <2>1. id \notin once
    BY <1>3
  <2>2. id \notin invokes /\ id \notin batches /\ id \notin closings /\ id \notin stops
    BY <1>1
  <2>3. Desired(v, r) = once \cup accepts \cup invokes \cup batches \cup closings \cup stops \cup Effects(v)
    BY DEF Desired
  <2>4. id \in accepts
    <3> HIDE DEF once, accepts, invokes, batches, closings, stops
    <3>. QED
      BY <2>1, <2>2, <2>3, <1>4
  <2>. QED
    BY <2>4
<1>6. PICK a \in Range(DueAccepts(v, e, r)) : id = AcceptId(a)
  BY <1>5
<1>7. PICK j \in 1 .. Len(s[e]) : s[e][j] = a
  BY <1>6, ReservationsGrow
<1>8. s[e][j].e = e
  <2>1. Reservations(v, s)
    BY ReservationsGrow
  <2>. QED
    BY <2>1, <1>7 DEF Reservations
<1>. QED
  BY <1>6, <1>7, <1>8 DEF AcceptId

-----------------------------------------------------------------------------
(* What has to be so before an output, for the projection and reservations  *)
(* that it starts from.                                                     *)
Answer(v) == {u \in Unit : u.type # "accepted" /\ Asked(v, u)}
Ready(v, r, gone) ==
  /\ View(v) /\ MailOK(v) /\ v.rounds <= MaxRounds /\ Cardinality(Holders(v)) <= Limit
  /\ Reservations(v, r) /\ Unmarked(v, r)
  /\ \A i \in 1 .. Len(Tail(queue)) : EventFits(v, r, Tail(queue)[i])
  /\ \A id \in tasks \ gone : TaskFits(v, id)
  /\ Spans(v, durable, Tail(queue))

LEMMA OutputKeeps ==
  ASSUME ViewsOK, SlotsOK, PiecesOK, loop = "ready", queue # <<>>,
         NEW v, NEW r, NEW gone, Ready(v, r, gone), NEW response \in Seq(Answer(v)), NEW n \in 0 .. MaxItems,
         Output(v, r, response, gone, n)
  PROVE  Inv'
<1>1. PICK over \in BOOLEAN : over = (v.failed \/ v.chart = "done")
  OBVIOUS
<1>2. machine' = v /\ durable' = durable /\ crashes' = crashes
  BY DEF Output
<1>3. View(v) /\ MailOK(v) /\ Reservations(v, r) /\ Unmarked(v, r)
  BY DEF Ready
<1>4. ViewsOK' /\ SlotsOK'
  BY <1>2 DEF ViewsOK, SlotsOK, Ready
<1>5. CASE over
  <2>1. /\ loop' \in {"failed", "final"} /\ queue' = <<>> /\ batch' = <<>> /\ checks' = {} /\ tasks' = {}
        /\ dispatched' = {} /\ reserved' = [e \in Endpoint |-> <<>>]
    BY <1>1, <1>5 DEF Output
  <2>2. PiecesOK'
    <3>1. <<>> \in Seq(Happening) /\ <<>> \in Seq(Unit)
      OBVIOUS
    <3>. QED
      BY <3>1, <2>1, <1>2 DEF PiecesOK
  <2>3. Reservations(machine', reserved')
    <3>1. <<>> \in Seq(Accept) /\ Len(<<>>) = 0
      OBVIOUS
    <3>2. \A e \in Endpoint : Len(v.mailbox[e]) \in Nat
      BY <1>3 DEF View, ActorsOK
    <3>. QED
      BY <3>1, <3>2, <2>1, <1>2 DEF Reservations
  <2>4. Marked(reserved', dispatched')
    BY <2>1 DEF Marked
  <2>5. OnTheWay'
    <3>1. Len(<<>>) = 0
      OBVIOUS
    <3>. QED
      BY <3>1, <2>1 DEF OnTheWay
  <2>6. loop' # "ready"
    BY <2>1
  <2>. QED
    BY <1>4, <2>2, <2>3, <2>4, <2>5, <2>6 DEF Inv
<1>6. CASE ~over
  <2> DEFINE effects == Effects(v) \ dispatched
  <2>1. /\ dispatched' = Desired(v, r) /\ batch' = response \o Appends(v, r, n) /\ queue' = Tail(queue)
        /\ reserved' = Reserved(v, r) /\ loop' = loop
        /\ checks' = checks \cup {id \in effects : id[1] # "run"}
        /\ tasks' = (tasks \ gone) \cup {id \in effects : id[1] = "run"}
    BY <1>1, <1>6 DEF Output, Reserved
  <2> HIDE DEF effects
  <2>2. /\ \A id \in effects : id[1] # "run" => id \in CheckId
        /\ \A id \in effects : id[1] = "run" => id \in TaskId /\ TaskFits(v, id)
    BY <1>3, EffectsFit DEF effects
  <2>3. queue \in Seq(Happening) /\ Tail(queue) \in Seq(Happening)
    BY DEF PiecesOK
  <2>4. PICK s : s = Reserved(v, r)
    OBVIOUS
  <2>5. /\ Reservations(v, s)
        /\ \A u \in Unit : Reserving(v, r, u) => Reserving(v, s, u)
        /\ \A u \in Due(v, r) : u.type = "accepted" => Reserving(v, s, u)
    BY <2>4, <1>3, ReservationsGrow
  <2>6. Marked(s, Desired(v, r))
    BY <2>4, <1>3, DesiredAreMarked
  <2>7. batch' \in Seq(Due(v, r))
    <3>1. Appends(v, r, n) \in Seq(Due(v, r))
      <4>1. r \in [Endpoint -> Seq(Accept)] /\ \A e \in Endpoint : Len(r[e]) <= Len(v.mailbox[e])
        BY <1>3 DEF Reservations
      <4>. QED
        BY <4>1, <1>3, AppendsFit
    <3>2. Answer(v) \subseteq Due(v, r)
      BY DEF Answer, Due
    <3>3. response \in Seq(Due(v, r))
      BY <3>2
    <3>. QED
      BY <3>1, <3>3, <2>1
  <2>8. batch' \in Seq(Unit) /\ \A i \in 1 .. Len(batch') : batch'[i] \in Due(v, r)
    <3>1. PICK b \in Seq(Due(v, r)) : b = batch'
      BY <2>7
    <3>2. \A i \in 1 .. Len(b) : b[i] \in Due(v, r) /\ b[i] \in Unit
      BY DEF Due
    <3>3. b \in Seq(Unit)
      BY <3>2, SequenceOver
    <3>. QED
      BY <3>1, <3>2, <3>3
  <2>9. PiecesOK'
    <3>1. checks' \subseteq CheckId /\ tasks' \subseteq TaskId
      BY <2>1, <2>2 DEF PiecesOK
    <3>. QED
      BY <3>1, <2>1, <2>3, <2>8, <1>2 DEF PiecesOK
  <2>10. ASSUME NEW i \in 1 .. Len(queue')
         PROVE  EventFits(machine', reserved', queue'[i])
    <3>1. PICK event \in Happening : event = queue'[i]
      BY <2>1, <2>3
    <3>2. EventFits(v, r, event)
      BY <2>1, <3>1 DEF Ready
    <3>3. event.kind = "ack" => event.unit \in Unit
      BY DEF Happening
    <3>4. EventFits(v, s, event)
      BY <3>2, <3>3, <2>5 DEF EventFits
    <3>. QED
      BY <3>1, <3>4, <1>2, <2>1, <2>4
  <2>11. ASSUME NEW i \in 1 .. Len(batch')
         PROVE  Asked(machine', batch'[i]) /\ Reserving(machine', reserved', batch'[i])
    <3>1. PICK u \in Due(v, r) : u = batch'[i]
      BY <2>8
    <3>2. Asked(v, u)
      BY DEF Due
    <3>3. Reserving(v, s, u)
      BY <2>5 DEF Reserving
    <3>. QED
      BY <3>1, <3>2, <3>3, <1>2, <2>1, <2>4
  <2>12. ASSUME NEW id \in tasks'
         PROVE  TaskFits(machine', id)
    BY <2>1, <2>2, <1>2 DEF Ready
  <2>13. OnTheWay'
    BY <2>10, <2>11, <2>12 DEF OnTheWay
  <2>14. Spans(machine', durable', queue')
    BY <1>2, <2>1 DEF Ready
  <2>15. Reservations(machine', reserved') /\ Marked(reserved', dispatched')
    BY <1>2, <2>1, <2>4, <2>5, <2>6
  <2>. QED
    BY <1>4, <2>9, <2>13, <2>14, <2>15 DEF Inv
<1>. QED
  BY <1>1, <1>5, <1>6

-----------------------------------------------------------------------------
(* The events that leave the projection as it is.                           *)
LEMMA ReadyAsBefore ==
  ASSUME Inv, loop = "ready", queue # <<>>, Head(queue).kind # "ack"
  PROVE  Ready(machine, reserved, {})
<1>1. queue \in Seq(Happening) /\ Spans(machine, durable, queue) /\ View(machine) /\ MailOK(machine)
  BY DEF Inv, PiecesOK, ViewsOK
<1>2. Unmarked(machine, reserved)
  <2>1. \A e \in Endpoint :
          /\ Len(reserved[e]) \in Nat /\ Len(reserved[e]) <= Len(machine.mailbox[e])
          /\ \A j \in 1 .. Len(reserved[e]) : j <= Len(reserved[e]) /\ reserved[e][j].msg = machine.mailbox[e][j]
    BY DEF Inv, Reservations
  <2>2. Marked(reserved, dispatched)
    BY DEF Inv
  <2>3. \A e \in Endpoint : \A i \in Len(reserved[e]) + 1 .. Len(machine.mailbox[e]) :
          <<"accept", e, machine.mailbox[e][i]>> \notin dispatched
    BY <1>1, <2>1, <2>2, NotMarked
  <2>. QED
    BY <2>3 DEF Unmarked
<1>3. Spans(machine, durable, Tail(queue))
  BY <1>1, ChainSkips
<1>4. ASSUME NEW i \in 1 .. Len(Tail(queue))
      PROVE  EventFits(machine, reserved, Tail(queue)[i])
  <2>1. i + 1 \in 1 .. Len(queue) /\ Tail(queue)[i] = queue[i + 1]
    BY <1>1
  <2>. QED
    BY <2>1 DEF Inv, OnTheWay
<1>. QED
  BY <1>1, <1>2, <1>3, <1>4 DEF Inv, ViewsOK, SlotsOK, OnTheWay, Ready

(* How many items the map ranges over this time.                            *)
LEMMA SizesFit ==
  ASSUME NEW v, View(v), v.rounds <= MaxRounds, NEW n \in Sizes[v.rounds]
  PROVE  n \in 0 .. MaxItems
<1>1. v.rounds \in 1 .. MaxRounds
  BY FanOutAssumption DEF View, ItemsOK
<1>. QED
  BY <1>1, FanOutAssumption

LEMMA ActorUnitFits ==
  ASSUME NEW id \in CheckId, View(machine), StillDue(id)
  PROVE  ActorUnit(id) \in Answer(machine)
<1>1. /\ id[1] = "enqueue" => id[3] \in Of({"send", "call"})
      /\ id[1] = "reply" => ~IsItem(id[2])
  BY EffectsFit DEF StillDue
<1>2. PICK u : u = ActorUnit(id)
  OBVIOUS
<1>3. CASE id \in {"create"} \X Endpoint
  <2>1. u = [type |-> "created", e |-> id[2]] /\ id[2] \in Endpoint
    BY <1>2, <1>3 DEF ActorUnit
  <2>2. u \in Due(machine, reserved) /\ u.type # "accepted"
    BY <2>1, SomeUnits
  <2>. QED
    BY <1>2, <2>2 DEF Due, Answer
<1>4. CASE id \in {"enqueue"} \X Producer \X State \X Nat
  <2>1. /\ u = [type |-> "enqueued", p |-> id[2], at |-> id[3], visit |-> id[4]]
        /\ id[2] \in Producer /\ id[3] \in Of({"send", "call"}) /\ id[4] \in Nat
    BY <1>1, <1>2, <1>4 DEF ActorUnit
  <2>2. /\ u \in Shape /\ u.type = "enqueued" /\ u.p = id[2] /\ u.at = id[3] /\ u.visit = id[4]
    BY <2>1 DEF Shape
  <2>3. UnitFits(u) /\ Asked(machine, u)
    BY <2>1, <2>2, FanOutAssumption DEF UnitFits, UnitOK, UnitType, Asked
  <2>. QED
    BY <1>2, <2>2, <2>3 DEF Unit, Answer
<1>5. CASE id \in {"reply"} \X Producer \X Messages
  <2>1. Resolves(id[3]) \in BOOLEAN
    BY DEF Resolves, Asks
  <2>2. /\ u = [type |-> "replied", p |-> id[2], msg |-> id[3], resolves |-> Resolves(id[3])]
        /\ id[2] \in Producer /\ id[3] \in Messages /\ ~IsItem(id[2])
    BY <1>1, <1>2, <1>5 DEF ActorUnit
  <2> HIDE DEF Resolves
  <2>3. /\ u \in Shape /\ u.type = "replied" /\ u.p = id[2] /\ u.msg = id[3] /\ u.resolves \in BOOLEAN
    BY <2>1, <2>2 DEF Shape
  <2>4. UnitFits(u) /\ Asked(machine, u)
    BY <2>2, <2>3 DEF UnitFits, UnitOK, UnitType, Asked
  <2>. QED
    BY <1>2, <2>3, <2>4 DEF Unit, Answer
<1>. QED
  BY <1>3, <1>4, <1>5 DEF CheckId

LEMMA StartKeeps ==
  ASSUME Inv, StepStart
  PROVE  Inv'
<1>1. loop = "ready" /\ queue # <<>> /\ Head(queue).kind = "start"
  BY DEF StepStart, Awaiting
<1>2. PICK n \in Sizes[machine.rounds] : Output(machine, reserved, <<>>, {}, n)
  BY DEF StepStart
<1>3. View(machine) /\ machine.rounds <= MaxRounds
  BY DEF Inv, ViewsOK
<1>4. Ready(machine, reserved, {}) /\ n \in 0 .. MaxItems /\ <<>> \in Seq(Answer(machine))
  BY <1>1, <1>3, ReadyAsBefore, SizesFit
<1>. QED
  BY <1>1, <1>2, <1>4, OutputKeeps DEF Inv

LEMMA ActorEffectKeeps ==
  ASSUME Inv, StepActorEffect
  PROVE  Inv'
<1>1. loop = "ready" /\ queue # <<>> /\ Head(queue).kind = "checked"
  BY DEF StepActorEffect, Awaiting
<1>2. PICK id : id = Head(queue).id
  OBVIOUS
<1>3. PICK response : response = IF StillDue(id) THEN <<ActorUnit(id)>> ELSE <<>>
  OBVIOUS
<1>4. PICK n \in Sizes[machine.rounds] : Output(machine, reserved, response, {}, n)
  BY <1>2, <1>3 DEF StepActorEffect
<1>5. View(machine) /\ machine.rounds <= MaxRounds
  BY DEF Inv, ViewsOK
<1>6. Ready(machine, reserved, {}) /\ n \in 0 .. MaxItems
  BY <1>1, <1>5, ReadyAsBefore, SizesFit
<1>7. id \in CheckId
  <2>1. Head(queue) \in Happening
    BY <1>1 DEF Inv, PiecesOK
  <2>. QED
    BY <2>1, <1>1, <1>2 DEF Happening
<1>8. response \in Seq(Answer(machine))
  <2>1. StillDue(id) => ActorUnit(id) \in Answer(machine)
    BY <1>5, <1>7, ActorUnitFits
  <2>. QED
    BY <2>1, <1>3
<1>. QED
  BY <1>1, <1>4, <1>6, <1>8, OutputKeeps DEF Inv

(* What the machine puts out when the work of an instance ends.            *)
LEMMA WorkAnswers ==
  ASSUME Inv, StepWork
  PROVE  \E n \in Sizes[machine.rounds], response \in Seq(Answer(machine)) : Output(machine, reserved, response, {}, n)
<1>1. loop = "ready" /\ queue # <<>> /\ Head(queue).kind = "worked"
  BY DEF StepWork, Awaiting
<1>2. PICK id : id = Head(queue).id
  OBVIOUS
<1>3. PICK current \in BOOLEAN : current = (machine.pending[id[2]] = id[4] /\ At(machine, id[2]) = id[3])
  OBVIOUS
<1>4. PICK u : u = [type |-> "complete", p |-> id[2], at |-> id[3], to |-> Head(queue).to]
  OBVIOUS
<1>5. PICK response : response = IF current THEN <<u>> ELSE <<>>
  OBVIOUS
<1>6. PICK n \in Sizes[machine.rounds] : Output(machine, reserved, response, {}, n)
  BY <1>2, <1>3, <1>4, <1>5 DEF StepWork
<1>7. View(machine) /\ machine.rounds <= MaxRounds
  BY DEF Inv, ViewsOK
<1>9. id \in TaskId /\ Head(queue).to \in State \cup {"abort"} /\ EventFits(machine, reserved, Head(queue))
  <2>1. Head(queue) \in Happening /\ Head(queue) = queue[1] /\ 1 \in 1 .. Len(queue)
    BY <1>1 DEF Inv, PiecesOK
  <2>2. EventFits(machine, reserved, queue[1])
    BY <2>1 DEF Inv, OnTheWay
  <2>. QED
    BY <2>1, <2>2, <1>1, <1>2 DEF Happening
<1>10. ASSUME current
       PROVE  u \in Answer(machine)
  <2>1. /\ id[2] \in Producer /\ id[3] \in State /\ id[4] \in Nat /\ id[4] >= 1
        /\ u.to = "abort" => IsItem(id[2]) /\ (machine.pending[id[2]] = id[4] => machine.rounds < MaxRounds)
    BY <1>1, <1>2, <1>4, <1>9 DEF TaskId, Of, EventFits, TaskFits
  <2>2. u \in Shape /\ u.type = "complete" /\ u.p = id[2] /\ u.at = id[3] /\ u.to \in State \cup {"abort"}
    BY <2>1, <1>4, <1>9 DEF Shape
  <2>3. UnitFits(u)
    BY <2>1, <2>2 DEF UnitFits, UnitOK, UnitType
  <2>4. IsItem(u.p) => u.p[2] \in Holders(machine)
    <3>1. ASSUME IsItem(u.p)
          PROVE  u.p[2] \in Key /\ u.p = Item(u.p[2])
      BY <3>1, <2>1, <2>2, Producers
    <3>2. machine.pending[u.p] # 0
      <4>1. machine.pending[id[2]] = id[4]
        BY <1>3, <1>10
      <4>. QED
        BY <4>1, <2>1, <2>2
    <3>. QED
      BY <3>1, <3>2 DEF Holders
  <2>5. u.to = "abort" => machine.rounds < MaxRounds
    BY <1>3, <1>10, <2>1
  <2>6. Asked(machine, u)
    BY <2>2, <2>4, <2>5 DEF Asked
  <2>. QED
    BY <2>2, <2>3, <2>6 DEF Unit, Answer
<1>11. response \in Seq(Answer(machine))
  BY <1>5, <1>10
<1>. QED
  BY <1>6, <1>11

LEMMA WorkKeeps ==
  ASSUME Inv, StepWork
  PROVE  Inv'
<1>1. loop = "ready" /\ queue # <<>> /\ Head(queue).kind = "worked"
  BY DEF StepWork, Awaiting
<1>2. PICK n \in Sizes[machine.rounds], response \in Seq(Answer(machine)) : Output(machine, reserved, response, {}, n)
  BY WorkAnswers
<1>3. Ready(machine, reserved, {}) /\ n \in 0 .. MaxItems
  BY <1>1, ReadyAsBefore, SizesFit DEF Inv, ViewsOK
<1>. QED
  BY <1>1, <1>2, <1>3, OutputKeeps DEF Inv

-----------------------------------------------------------------------------
(* The machine learns of a unit: an accept takes the first message and the  *)
(* first reservation, and all others come one place further.                *)
Gone(u, e) == IF u.type = "accepted" /\ u.e = e THEN 1 ELSE 0

LEMMA ForgottenFit ==
  ASSUME View(machine), MailOK(machine), Reservations(machine, reserved),
         NEW u \in Unit, Reserving(machine, reserved, u), NEW v, MailsOf(machine, v, u),
         NEW e \in Endpoint, NEW l, l = Gone(u, e)
  PROVE  /\ l \in 0 .. Len(reserved[e])
         /\ Forgotten(u)[e] \in Seq(Accept) /\ Len(Forgotten(u)[e]) = Len(reserved[e]) - l
         /\ \A n \in 1 .. Len(reserved[e]) - l : Forgotten(u)[e][n] = reserved[e][l + n]
         /\ l = 1 => reserved[e][1] = u
<1>1. PICK s \in Seq(Accept) : s = reserved[e]
  BY DEF Reservations
<1>2. PICK N \in Nat : N = Len(s)
  BY <1>1
<1>3. PICK P : P = {j \in DOMAIN s : s[j] # u}
  OBVIOUS
<1>4. Forgotten(u)[e] = Kept(s, P) /\ P \in SUBSET (1 .. N) /\ P = {j \in 1 .. N : s[j] # u}
  <2>1. DOMAIN s = 1 .. N
    BY <1>2
  <2>2. Forgotten(u)[e] = Kept(reserved[e], {j \in DOMAIN reserved[e] : reserved[e][j] # u})
    BY DEF Forgotten
  <2>. QED
    BY <2>1, <2>2, <1>1, <1>3
<1>5. \A j \in 1 .. N : s[j].e = e /\ s[j].msg = machine.mailbox[e][j] /\ j \in 1 .. Len(machine.mailbox[e])
  <2>1. Len(s) <= Len(machine.mailbox[e]) /\ Len(machine.mailbox[e]) \in Nat
    BY <1>1 DEF Reservations, View, ActorsOK
  <2>. QED
    BY <2>1, <1>1, <1>2 DEF Reservations
<1>6. l \in 0 .. N /\ P = l + 1 .. N /\ (l = 1 => s[1] = u)
  <2>1. CASE u.type = "accepted" /\ u.e = e
    <3>1. l = 1
      BY <2>1 DEF Gone
    <3>2. Taking(machine, v, e, u.msg)
      BY <2>1 DEF MailsOf
    <3>3. machine.mailbox[e][1] = u.msg /\ 1 \in 1 .. Len(machine.mailbox[e])
      <4>1. machine.mailbox[e] \in Seq(Messages)
        BY DEF View, ActorsOK
      <4>. QED
        BY <4>1, <3>2 DEF Taking
    <3>4. PICK j \in 1 .. N : s[j] = u
      BY <3>3, <2>1, <1>1, <1>2 DEF Reserving
    <3>5. \A i \in 1 .. N : machine.mailbox[e][i] = u.msg => i = 1
      BY <3>3, <1>5 DEF MailOK
    <3>6. j = 1
      BY <3>4, <3>5, <1>5
    <3>7. \A i \in 1 .. N : s[i] = u => i = 1
      BY <3>5, <1>5
    <3>8. P = 1 + 1 .. N
      BY <3>4, <3>6, <3>7, <1>4
    <3>. QED
      BY <3>1, <3>4, <3>6, <3>8
  <2>2. CASE ~(u.type = "accepted" /\ u.e = e)
    <3>1. l = 0
      BY <2>2 DEF Gone
    <3>2. \A j \in 1 .. N : s[j].type = "accepted" /\ s[j].e = e
      BY <1>1, <1>2, <1>5 DEF Accept
    <3>3. \A j \in 1 .. N : s[j] # u
      BY <3>2, <2>2
    <3>4. P = 0 + 1 .. N
      BY <3>3, <1>4
    <3>. QED
      BY <3>1, <3>4
  <2>. QED
    BY <2>1, <2>2
<1>7. Len(Kept(s, l + 1 .. N)) = N - l /\ \A n \in 1 .. N - l : Kept(s, l + 1 .. N)[n] = s[l + n]
  <2>1. l \in 0 .. Len(s)
    BY <1>2, <1>6
  <2>2. Len(Kept(s, l + 1 .. Len(s))) = Len(s) - l /\ \A n \in 1 .. Len(s) - l : Kept(s, l + 1 .. Len(s))[n] = s[l + n]
    BY <2>1, KeptRest
  <2>. QED
    BY <2>2, <1>2
<1>8. PICK kept : kept = Kept(s, P)
  OBVIOUS
<1>9. kept \in Seq(Accept)
  BY <1>2, <1>4, <1>8, KeptType
<1>10. Len(kept) = N - l /\ \A n \in 1 .. N - l : kept[n] = s[l + n]
  BY <1>6, <1>7, <1>8
<1>11. Forgotten(u)[e] = kept
  BY <1>4, <1>8
<1>. QED
  BY <1>1, <1>2, <1>6, <1>9, <1>10, <1>11

(* Its mailbox comes the same places further.                               *)
LEMMA MailsFurther ==
  ASSUME View(machine), MailOK(machine), Reservations(machine, reserved),
         NEW u \in Unit, Reserving(machine, reserved, u), NEW v, View(v), MailsOf(machine, v, u),
         NEW e \in Endpoint, NEW l, l = Gone(u, e)
  PROVE  /\ Len(machine.mailbox[e]) - l <= Len(v.mailbox[e])
         /\ \A i \in 1 .. Len(machine.mailbox[e]) - l : v.mailbox[e][i] = machine.mailbox[e][l + i]
         /\ \A i \in 1 .. Len(v.mailbox[e]) :
              i > Len(machine.mailbox[e]) - l => v.mailbox[e][i].visit > machine.sends[v.mailbox[e][i].from]
<1>1. PICK box \in Seq(Messages) : box = machine.mailbox[e]
  BY DEF View, ActorsOK
<1>2. PICK new \in Seq(Messages) : new = v.mailbox[e]
  BY DEF View, ActorsOK
<1>3. CASE u.type = "accepted" /\ u.e = e
  <2>1. l = 1 /\ Taking(machine, v, e, u.msg)
    BY <1>3 DEF Gone, MailsOf
  <2>2. box # <<>> /\ new = Tail(box)
    BY <2>1, <1>1, <1>2 DEF Taking
  <2>3. Len(new) = Len(box) - 1 /\ \A i \in 1 .. Len(box) - 1 : new[i] = box[i + 1]
    BY <2>2
  <2>. QED
    BY <2>1, <2>3, <1>1, <1>2
<1>4. CASE ~(u.type = "accepted" /\ u.e = e)
  <2>1. l = 0 /\ Getting(machine, v, e)
    BY <1>4 DEF Gone, MailsOf
  <2>2. /\ Len(box) <= Len(new) /\ \A i \in 1 .. Len(box) : new[i] = box[i]
        /\ \A i \in Len(box) + 1 .. Len(new) : new[i].visit > machine.sends[new[i].from]
    BY <2>1, <1>1, <1>2 DEF Getting
  <2>3. Len(box) \in Nat /\ Len(new) \in Nat
    OBVIOUS
  <2>. QED
    BY <2>1, <2>2, <2>3, <1>1, <1>2
<1>. QED
  BY <1>3, <1>4

(* The lengths at one endpoint, and what is where.                          *)
Lengths(v, u, e, l, a, b, c) ==
  l = Gone(u, e) /\ a = Len(reserved[e]) /\ b = Len(machine.mailbox[e]) /\ c = Len(v.mailbox[e])
Shift(v, r, e, l, a, b, c) ==
  /\ l \in Nat /\ a \in Nat /\ b \in Nat /\ c \in Nat /\ l <= a /\ a <= b /\ b - l <= c
  /\ \A j \in 1 .. a : reserved[e][j].e = e /\ reserved[e][j].msg = machine.mailbox[e][j]
  /\ r[e] \in Seq(Accept) /\ Len(r[e]) = a - l /\ \A j \in 1 .. a - l : r[e][j] = reserved[e][l + j]
  /\ \A i \in 1 .. b - l : v.mailbox[e][i] = machine.mailbox[e][l + i]
  /\ \A i \in 1 .. c : i > b - l => v.mailbox[e][i].visit > machine.sends[v.mailbox[e][i].from]

LEMMA EndpointMoves ==
  ASSUME View(machine), MailOK(machine), Reservations(machine, reserved),
         NEW u \in Unit, Reserving(machine, reserved, u), NEW v, View(v), MailsOf(machine, v, u),
         NEW r, r = Forgotten(u), NEW e \in Endpoint
  PROVE  \E l, a, b, c : Lengths(v, u, e, l, a, b, c) /\ Shift(v, r, e, l, a, b, c)
<1>0. PICK l, a, b, c : l = Gone(u, e) /\ a = Len(reserved[e]) /\ b = Len(machine.mailbox[e]) /\ c = Len(v.mailbox[e])
  OBVIOUS
<1>1. a \in Nat /\ b \in Nat /\ c \in Nat /\ a <= b
  BY <1>0 DEF Reservations, View, ActorsOK
<1>2. \A j \in 1 .. a : reserved[e][j].e = e /\ reserved[e][j].msg = machine.mailbox[e][j]
  BY <1>0 DEF Reservations
<1>3. /\ l \in 0 .. Len(reserved[e])
      /\ Forgotten(u)[e] \in Seq(Accept) /\ Len(Forgotten(u)[e]) = Len(reserved[e]) - l
      /\ \A n \in 1 .. Len(reserved[e]) - l : Forgotten(u)[e][n] = reserved[e][l + n]
  BY <1>0, ForgottenFit
<1>4. /\ Len(machine.mailbox[e]) - l <= Len(v.mailbox[e])
      /\ \A i \in 1 .. Len(machine.mailbox[e]) - l : v.mailbox[e][i] = machine.mailbox[e][l + i]
      /\ \A i \in 1 .. Len(v.mailbox[e]) :
           i > Len(machine.mailbox[e]) - l => v.mailbox[e][i].visit > machine.sends[v.mailbox[e][i].from]
  BY <1>0, MailsFurther
<1>5. l \in Nat /\ l <= a /\ b - l <= c
  BY <1>0, <1>1, <1>3, <1>4
<1>6. r[e] \in Seq(Accept) /\ Len(r[e]) = a - l /\ \A j \in 1 .. a - l : r[e][j] = reserved[e][l + j]
  BY <1>0, <1>3
<1>7. /\ \A i \in 1 .. b - l : v.mailbox[e][i] = machine.mailbox[e][l + i]
      /\ \A i \in 1 .. c : i > b - l => v.mailbox[e][i].visit > machine.sends[v.mailbox[e][i].from]
  BY <1>0, <1>4
<1>8. Lengths(v, u, e, l, a, b, c)
  BY <1>0 DEF Lengths
<1>9. Shift(v, r, e, l, a, b, c)
  BY <1>1, <1>2, <1>5, <1>6, <1>7 DEF Shift
<1>. QED
  BY <1>8, <1>9

(* A message that the machine knew, at its place now.                       *)
Known(e, l, b, i, msg) == i \in 1 .. b - l /\ l + i \in 1 .. b /\ machine.mailbox[e][l + i] = msg

LEMMA KnownBefore ==
  ASSUME View(machine), NEW v, NEW r, NEW e \in Endpoint, NEW l, NEW a, NEW b, NEW c, Shift(v, r, e, l, a, b, c),
         NEW msg \in Messages, msg.visit <= machine.sends[msg.from], NEW i \in 1 .. c, v.mailbox[e][i] = msg
  PROVE  Known(e, l, b, i, msg)
<1>1. l \in Nat /\ b \in Nat /\ c \in Nat /\ l <= b
  BY DEF Shift
<1>2. msg.visit \in Nat /\ machine.sends[msg.from] \in Nat
  BY DEF Messages, View, ActorsOK
<1>3. ~(i > b - l)
  BY <1>2 DEF Shift
<1>4. i \in 1 .. b - l /\ l + i \in 1 .. b
  BY <1>1, <1>3
<1>5. v.mailbox[e][i] = machine.mailbox[e][l + i]
  BY <1>4 DEF Shift
<1>. QED
  BY <1>4, <1>5 DEF Known

LEMMA ReservationsMove ==
  ASSUME View(machine), MailOK(machine), Reservations(machine, reserved), Marked(reserved, dispatched),
         NEW u \in Unit, Reserving(machine, reserved, u), NEW v, View(v), MailsOf(machine, v, u),
         NEW r, r = Forgotten(u)
  PROVE  /\ Reservations(v, r) /\ Unmarked(v, r)
         /\ \A w \in Unit : Reserving(machine, reserved, w) => Reserving(v, r, w)
<1>1. ASSUME NEW e \in Endpoint
      PROVE  \E l, a, b, c : Lengths(v, u, e, l, a, b, c) /\ Shift(v, r, e, l, a, b, c)
  BY EndpointMoves
<1>4. ASSUME NEW e \in Endpoint
      PROVE  /\ Len(r[e]) \in Nat /\ Len(r[e]) <= Len(v.mailbox[e]) /\ r[e] \in Seq(Accept)
             /\ \A j \in 1 .. Len(r[e]) : r[e][j].e = e /\ r[e][j].msg = v.mailbox[e][j]
  <2>1. PICK l, a, b, c : Lengths(v, u, e, l, a, b, c) /\ Shift(v, r, e, l, a, b, c)
    BY <1>1
  <2>2. /\ l \in Nat /\ a \in Nat /\ b \in Nat /\ c \in Nat /\ l <= a /\ a <= b /\ b - l <= c
        /\ r[e] \in Seq(Accept) /\ Len(r[e]) = a - l
    BY <2>1 DEF Shift
  <2>3. c = Len(v.mailbox[e])
    BY <2>1 DEF Lengths
  <2>4. ASSUME NEW j \in 1 .. a - l
        PROVE  r[e][j].e = e /\ r[e][j].msg = v.mailbox[e][j]
    <3>1. j \in 1 .. b - l /\ l + j \in 1 .. a
      BY <2>2
    <3>2. r[e][j] = reserved[e][l + j]
      BY <2>1 DEF Shift
    <3>3. v.mailbox[e][j] = machine.mailbox[e][l + j]
      BY <2>1, <3>1 DEF Shift
    <3>4. reserved[e][l + j].e = e /\ reserved[e][l + j].msg = machine.mailbox[e][l + j]
      BY <2>1, <3>1 DEF Shift
    <3>. QED
      BY <3>2, <3>3, <3>4
  <2>5. Len(r[e]) \in Nat /\ Len(r[e]) <= Len(v.mailbox[e])
    BY <2>2, <2>3
  <2>. QED
    BY <2>2, <2>4, <2>5
<1>5. Reservations(v, r)
  <2>1. DOMAIN r = Endpoint /\ r = [e \in Endpoint |-> r[e]]
    BY DEF Forgotten
  <2>2. r \in [Endpoint -> Seq(Accept)]
    BY <2>1, <1>4
  <2>. QED
    BY <2>2, <1>4 DEF Reservations
<1>6. Unmarked(v, r)
  <2>1. ASSUME NEW e \in Endpoint, NEW j \in 1 .. Len(reserved[e]), NEW i \in 1 .. Len(v.mailbox[e]),
               v.mailbox[e][i] = reserved[e][j].msg
        PROVE  i <= Len(r[e])
    <3>1. PICK l, a, b, c : Lengths(v, u, e, l, a, b, c) /\ Shift(v, r, e, l, a, b, c)
      BY <1>1
    <3>2. a = Len(reserved[e]) /\ b = Len(machine.mailbox[e]) /\ c = Len(v.mailbox[e])
      BY <3>1 DEF Lengths
    <3>3. a \in Nat /\ b \in Nat /\ a <= b /\ l \in Nat /\ Len(r[e]) = a - l
      BY <3>1 DEF Shift
    <3>4. reserved[e][j].msg = machine.mailbox[e][j] /\ j \in 1 .. a /\ j \in 1 .. b
      <4>1. j \in 1 .. a /\ j \in 1 .. b
        BY <3>2, <3>3
      <4>. QED
        BY <4>1, <3>1 DEF Shift
    <3>5. PICK msg \in Messages : msg = machine.mailbox[e][j]
      <4>1. machine.mailbox[e] \in Seq(Messages)
        BY DEF View, ActorsOK
      <4>. QED
        BY <4>1, <3>2, <3>4
    <3>6. msg.visit <= machine.sends[msg.from]
      BY <3>2, <3>4, <3>5 DEF MailOK
    <3>7. i \in 1 .. c /\ v.mailbox[e][i] = msg
      BY <2>1, <3>2, <3>4, <3>5
    <3>8. i \in 1 .. b - l /\ l + i \in 1 .. b /\ machine.mailbox[e][l + i] = msg
      <4>1. Known(e, l, b, i, msg)
        BY <3>1, <3>6, <3>7, KnownBefore
      <4>. QED
        BY <4>1 DEF Known
    <3>9. l + i = j
      BY <3>2, <3>4, <3>5, <3>8 DEF MailOK
    <3>. QED
      BY <3>3, <3>4, <3>8, <3>9
  <2>2. \A e \in Endpoint :
          /\ Len(r[e]) \in Nat /\ Len(reserved[e]) \in Nat
          /\ \A j \in 1 .. Len(reserved[e]) :
               \/ j <= Len(r[e]) /\ reserved[e][j].msg = v.mailbox[e][j] /\ Len(r[e]) <= Len(v.mailbox[e])
               \/ \A i \in 1 .. Len(v.mailbox[e]) : v.mailbox[e][i] # reserved[e][j].msg \/ i <= Len(r[e])
    <3>1. \A e \in Endpoint : Len(reserved[e]) \in Nat
      BY DEF Reservations
    <3>. QED
      BY <3>1, <2>1, <1>4
  <2>3. MailOK(v)
    BY DEF MailsOf
  <2>4. \A e \in Endpoint : \A i \in Len(r[e]) + 1 .. Len(v.mailbox[e]) : <<"accept", e, v.mailbox[e][i]>> \notin dispatched
    BY <2>2, <2>3, NotMarked
  <2>. QED
    BY <2>4 DEF Unmarked
<1>7. ASSUME NEW w \in Unit, Reserving(machine, reserved, w)
      PROVE  Reserving(v, r, w)
  <2>1. SUFFICES ASSUME w.type = "accepted" PROVE Reserving(v, r, w)
    BY DEF Reserving
  <2>2. PICK e \in Endpoint : e = w.e
    BY <2>1 DEF Unit, UnitFits, UnitOK
  <2>3. PICK msg \in Messages : msg = w.msg
    BY <2>1 DEF Unit, UnitFits, UnitOK
  <2>4. /\ msg.visit \in Nat /\ machine.sends[msg.from] \in Nat /\ v.sends[msg.from] \in Nat
        /\ msg.visit <= machine.sends[msg.from] /\ machine.sends[msg.from] <= v.sends[msg.from]
    <3>1. msg.from \in Producer /\ msg.visit \in Nat
      BY DEF Messages
    <3>. QED
      BY <3>1, <1>7, <2>1, <2>3 DEF Reserving, MailsOf, View, ActorsOK
  <2>5. ASSUME NEW i \in 1 .. Len(v.mailbox[e]), v.mailbox[e][i] = msg
        PROVE  \E j \in 1 .. Len(r[e]) : r[e][j] = w
    <3>1. PICK l, a, b, c : Lengths(v, u, e, l, a, b, c) /\ Shift(v, r, e, l, a, b, c)
      BY <1>1
    <3>2. a = Len(reserved[e]) /\ b = Len(machine.mailbox[e]) /\ c = Len(v.mailbox[e])
      BY <3>1 DEF Lengths
    <3>3. a \in Nat /\ b \in Nat /\ a <= b /\ l \in Nat /\ Len(r[e]) = a - l
      BY <3>1 DEF Shift
    <3>4. i \in 1 .. b - l /\ l + i \in 1 .. b /\ machine.mailbox[e][l + i] = msg
      <4>1. i \in 1 .. c
        BY <3>2
      <4>2. Known(e, l, b, i, msg)
        BY <4>1, <2>4, <2>5, <3>1, KnownBefore
      <4>. QED
        BY <4>2 DEF Known
    <3>5. PICK j \in 1 .. a : reserved[e][j] = w
      BY <3>2, <3>4, <2>1, <2>2, <2>3, <1>7 DEF Reserving
    <3>6. machine.mailbox[e][j] = msg /\ j \in 1 .. b
      <4>1. reserved[e][j].msg = machine.mailbox[e][j]
        BY <3>1 DEF Shift
      <4>. QED
        BY <4>1, <3>3, <3>5, <2>3
    <3>7. j = l + i
      BY <3>2, <3>4, <3>6 DEF MailOK
    <3>8. i \in 1 .. a - l
      BY <3>3, <3>4, <3>7
    <3>9. r[e][i] = reserved[e][l + i]
      BY <3>1, <3>8 DEF Shift
    <3>. QED
      BY <3>3, <3>5, <3>7, <3>8, <3>9
  <2>. QED
    BY <2>1, <2>2, <2>3, <2>4, <2>5 DEF Reserving
<1>. QED
  BY <1>5, <1>6, <1>7

LEMMA AckKeeps ==
  ASSUME Inv, StepAck
  PROVE  Inv'
<1>1. loop = "ready" /\ queue # <<>> /\ Head(queue).kind = "ack" /\ queue \in Seq(Happening)
  BY DEF StepAck, Awaiting, Inv, PiecesOK
<1>2. PICK u : u = Head(queue).unit
  OBVIOUS
<1>3. PICK v : v = Project(machine, u)
  OBVIOUS
<1>4. PICK gone : gone = {t \in tasks : v.pending[t[2]] # t[4]}
  OBVIOUS
<1>5. PICK r : r = Forgotten(u)
  OBVIOUS
<1>6. PICK n \in Sizes[v.rounds] : Output(v, r, <<>>, gone, n)
  BY <1>2, <1>3, <1>4, <1>5 DEF StepAck
<1>7. /\ View(machine) /\ MailOK(machine) /\ Cardinality(Holders(machine)) <= Limit
      /\ Reservations(machine, reserved) /\ Marked(reserved, dispatched) /\ Spans(machine, durable, queue)
  BY <1>1 DEF Inv, ViewsOK, SlotsOK
<1>8. /\ UnitFits(u) /\ ~Rejects(machine, u) /\ StepOf(machine, v, u) /\ Holders(v) \subseteq Admitted(machine)
      /\ v.rounds <= MaxRounds /\ Spans(v, durable, Tail(queue))
  BY <1>1, <1>2, <1>3, <1>7, ChainAdvances
<1>9. View(v) /\ Pending(machine, v)
  BY <1>8 DEF StepOf
<1>10. MailsOf(machine, v, u) /\ MailOK(v)
  BY <1>3, <1>7, <1>8, MailStep DEF MailsOf
<1>11. u \in Unit /\ Reserving(machine, reserved, u)
  <2>1. Head(queue) \in Happening /\ Head(queue) = queue[1] /\ 1 \in 1 .. Len(queue)
    BY <1>1
  <2>2. EventFits(machine, reserved, queue[1])
    BY <2>1 DEF Inv, OnTheWay
  <2>. QED
    BY <2>1, <2>2, <1>1, <1>2 DEF Happening, EventFits
<1>12. /\ Reservations(v, r) /\ Unmarked(v, r)
       /\ \A w \in Unit : Reserving(machine, reserved, w) => Reserving(v, r, w)
  BY <1>5, <1>7, <1>9, <1>10, <1>11, ReservationsMove
<1>13. Cardinality(Holders(v)) <= Limit
  <2>1. Holders(v) \in SUBSET Key /\ Admitted(machine) \in SUBSET Key
    BY DEF Holders, Admitted, Waits
  <2>2. Cardinality(Holders(v)) <= Cardinality(Admitted(machine))
    BY <2>1, <1>8, Sizing
  <2>3. Cardinality(Admitted(machine)) <= Limit
    BY <1>7, AdmittedFit DEF View, ItemsOK
  <2>4. Cardinality(Holders(v)) \in Nat /\ Cardinality(Admitted(machine)) \in Nat /\ Limit \in Nat
    BY <2>1, Sizing, FanOutAssumption
  <2>. QED
    BY <2>2, <2>3, <2>4
<1>14. ASSUME NEW id, id \in TaskId, TaskFits(machine, id)
       PROVE  TaskFits(v, id)
  <2>1. id[2] \in Producer /\ id[4] \in Nat
    BY <1>14 DEF TaskId
  <2>2. machine.visits[id[2]] \in Nat /\ v.visits[id[2]] \in Nat /\ v.visits[id[2]] >= machine.visits[id[2]]
    BY <2>1, <1>7, <1>9 DEF Pending, View, ItemsOK
  <2>. QED
    BY <2>1, <2>2, <1>14 DEF TaskFits
<1>15. ASSUME NEW event \in Happening, EventFits(machine, reserved, event)
       PROVE  EventFits(v, r, event)
  <2>1. event.kind = "ack" => Reserving(v, r, event.unit)
    BY <1>12, <1>15 DEF EventFits, Happening
  <2>2. event.kind = "worked" => event.id \in TaskId /\ TaskFits(v, event.id)
    BY <1>14, <1>15 DEF EventFits, Happening
  <2>3. ASSUME event.kind = "worked", event.to = "abort", v.pending[event.id[2]] = event.id[4]
        PROVE  v.rounds < MaxRounds
    <3>1. PICK p \in Producer : p = event.id[2]
      BY <2>2, <2>3 DEF TaskId
    <3>2. PICK m \in Nat : m = event.id[4]
      BY <2>2, <2>3 DEF TaskId
    <3>3. m >= 1 /\ m <= machine.visits[p] /\ IsItem(p) /\ (machine.pending[p] = m => machine.rounds < MaxRounds)
      BY <1>15, <2>3, <3>1, <3>2 DEF EventFits, TaskFits
    <3>4. machine.pending[p] = m
      <4>1. machine.visits[p] \in Nat /\ v.pending[p] = m
        BY <1>7, <2>3, <3>1, <3>2 DEF View, ItemsOK
      <4>2. v.pending[p] = machine.pending[p] \/ v.pending[p] = 0 \/ v.pending[p] > machine.visits[p]
        BY <1>9 DEF Pending
      <4>. QED
        BY <4>1, <4>2, <3>2, <3>3
    <3>5. ~Over(machine, v, u)
      <4>1. SUFFICES ASSUME v.chart = "map" PROVE FALSE
        BY DEF Over
      <4>2. Holders(v) = {}
        BY <4>1, <1>9, NobodyThere DEF View
      <4>3. p[2] \in Key /\ p = Item(p[2]) /\ v.pending[p] # 0
        BY <3>1, <3>2, <3>3, <2>3, Producers
      <4>. QED
        BY <4>2, <4>3 DEF Holders
    <3>6. v.rounds = machine.rounds
      BY <1>8, <3>5 DEF StepOf, Same, Begins, Ends
    <3>. QED
      BY <3>3, <3>4, <3>6
  <2>4. event.kind = "worked" /\ event.to = "abort" => IsItem(event.id[2])
    BY <1>15 DEF EventFits
  <2>. QED
    BY <2>1, <2>2, <2>3, <2>4 DEF EventFits
<1>16. ASSUME NEW i \in 1 .. Len(Tail(queue))
       PROVE  EventFits(v, r, Tail(queue)[i])
  <2>1. i + 1 \in 1 .. Len(queue) /\ Tail(queue)[i] = queue[i + 1] /\ queue[i + 1] \in Happening
    BY <1>1
  <2>2. EventFits(machine, reserved, queue[i + 1])
    BY <2>1 DEF Inv, OnTheWay
  <2>. QED
    BY <2>1, <2>2, <1>15
<1>17. \A id \in tasks \ gone : TaskFits(v, id)
  BY <1>14 DEF Inv, OnTheWay, PiecesOK
<1>18. Ready(v, r, gone)
  BY <1>8, <1>9, <1>10, <1>12, <1>13, <1>16, <1>17 DEF Ready
<1>19. n \in 0 .. MaxItems /\ <<>> \in Seq(Answer(v))
  BY <1>8, <1>9, SizesFit
<1>. QED
  BY <1>1, <1>6, <1>18, <1>19, OutputKeeps DEF Inv

(* The log, wherever it is ahead of the machine, has admitted instances     *)
(* only.                                                                    *)
LEMMA LogFits ==
  ASSUME NEW m, View(m), Cardinality(Holders(m)) <= Limit, NEW d, NEW S, NEW q \in Seq(S), Spans(m, d, q)
  PROVE  Cardinality(Holders(d)) <= Limit
<1>1. PICK h : Chain(h, m, d, q)
  BY DEF Spans
<1>2. Len(q) \in 0 .. Len(q)
  OBVIOUS
<1>3. Holders(d) \subseteq Admitted(m)
  BY <1>1, <1>2 DEF Chain, Within
<1>4. Holders(d) \in SUBSET Key /\ Admitted(m) \in SUBSET Key
  BY DEF Holders, Admitted, Waits
<1>5. Cardinality(Holders(d)) <= Cardinality(Admitted(m)) /\ Cardinality(Admitted(m)) <= Limit
  BY <1>3, <1>4, Sizing, AdmittedFit DEF View, ItemsOK
<1>6. Cardinality(Holders(d)) \in Nat /\ Cardinality(Admitted(m)) \in Nat /\ Limit \in Nat
  BY <1>4, Sizing, FanOutAssumption
<1>. QED
  BY <1>5, <1>6

LEMMA CommitKeeps ==
  ASSUME Inv, Commit
  PROVE  Inv'
<1>1. /\ loop = "ready" /\ batch # <<>> /\ batch \in Seq(Unit) /\ queue \in Seq(Happening)
      /\ machine' = machine /\ dispatched' = dispatched /\ reserved' = reserved /\ crashes' = crashes
  BY DEF Commit, Inv, PiecesOK
<1>2. PICK u \in Unit : u = Head(batch)
  BY <1>1
<1>3. Asked(machine, u) /\ Reserving(machine, reserved, u) /\ UnitFits(u)
  <2>1. 1 \in 1 .. Len(batch) /\ u = batch[1]
    BY <1>1, <1>2
  <2>. QED
    BY <2>1 DEF Inv, OnTheWay, Unit
<1>4. Reservations(machine', reserved') /\ Marked(reserved', dispatched')
  BY <1>1 DEF Inv
<1>5. CASE Rejects(durable, u)
  <2>1. loop' = "threw" /\ queue' = <<>> /\ batch' = <<>> /\ checks' = {} /\ tasks' = {} /\ durable' = durable
    BY <1>2, <1>5 DEF Commit
  <2>2. ViewsOK' /\ SlotsOK'
    BY <1>1, <2>1 DEF Inv, ViewsOK, SlotsOK
  <2>3. PiecesOK' /\ OnTheWay'
    <3>1. <<>> \in Seq(Happening) /\ <<>> \in Seq(Unit) /\ Len(<<>>) = 0
      OBVIOUS
    <3>. QED
      BY <3>1, <2>1, <1>1 DEF Inv, PiecesOK, OnTheWay
  <2>. QED
    BY <2>1, <2>2, <2>3, <1>4 DEF Inv
<1>6. CASE ~Rejects(durable, u)
  <2>1. PICK event : event = [kind |-> "ack", unit |-> u]
    OBVIOUS
  <2>2. event \in Happening /\ event.kind = "ack" /\ event.unit = u
    BY <2>1 DEF Happening
  <2>3. /\ durable' = Project(durable, u) /\ queue' = Append(queue, event) /\ batch' = Tail(batch)
        /\ checks' = checks /\ tasks' = tasks /\ loop' = loop
    BY <1>2, <1>6, <2>1 DEF Commit
  <2>4. View(machine) /\ View(durable) /\ MailOK(durable) /\ Spans(machine, durable, queue)
    BY <1>1 DEF Inv, ViewsOK
  <2>5. Spans(machine, durable', queue') /\ View(durable') /\ durable'.rounds <= MaxRounds
    BY <1>1, <1>3, <1>6, <2>2, <2>3, <2>4, ChainGrows
  <2>6. MailOK(durable')
    BY <1>3, <1>6, <2>3, <2>4, MailStep DEF MailsOf
  <2>7. queue' \in Seq(Happening)
    BY <1>1, <2>2, <2>3
  <2>8. Cardinality(Holders(durable')) <= Limit
    BY <2>4, <2>5, <2>7, LogFits DEF Inv, SlotsOK
  <2>9. ViewsOK' /\ SlotsOK'
    BY <1>1, <2>5, <2>6, <2>8 DEF Inv, ViewsOK, SlotsOK
  <2>10. PiecesOK'
    <3>1. batch' \in Seq(Unit)
      BY <1>1, <2>3
    <3>. QED
      BY <3>1, <1>1, <2>3, <2>7 DEF Inv, PiecesOK
  <2>11. ASSUME NEW i \in 1 .. Len(queue')
         PROVE  EventFits(machine, reserved, queue'[i])
    <3>1. CASE i \in 1 .. Len(queue)
      BY <3>1, <1>1, <2>3 DEF Inv, OnTheWay
    <3>2. CASE i \notin 1 .. Len(queue)
      <4>1. queue'[i] = event
        BY <3>2, <1>1, <2>3
      <4>. QED
        BY <4>1, <2>2, <1>3 DEF EventFits
    <3>. QED
      BY <3>1, <3>2
  <2>12. ASSUME NEW i \in 1 .. Len(batch')
         PROVE  Asked(machine, batch'[i]) /\ Reserving(machine, reserved, batch'[i])
    <3>1. i + 1 \in 1 .. Len(batch) /\ batch'[i] = batch[i + 1]
      BY <1>1, <2>3
    <3>. QED
      BY <3>1 DEF Inv, OnTheWay
  <2>13. OnTheWay'
    BY <1>1, <2>3, <2>11, <2>12 DEF Inv, OnTheWay
  <2>. QED
    BY <1>1, <1>4, <2>5, <2>9, <2>10, <2>13 DEF Inv
<1>. QED
  BY <1>5, <1>6

(* What runs beside the loop is heard of later.                             *)
LEMMA EventComes ==
  ASSUME Inv, loop = "ready", NEW event \in Happening, event.kind # "ack", EventFits(machine, reserved, event),
         queue' = Append(queue, event), checks' \subseteq checks, tasks' \subseteq tasks,
         UNCHANGED <<durable, machine, dispatched, reserved, batch, loop, crashes>>
  PROVE  Inv'
<1>1. queue \in Seq(Happening) /\ queue' \in Seq(Happening) /\ Spans(machine, durable, queue)
  BY DEF Inv, PiecesOK
<1>2. Spans(machine', durable', queue')
  BY <1>1, ChainWaits
<1>3. ViewsOK' /\ SlotsOK'
  BY DEF Inv, ViewsOK, SlotsOK
<1>4. PiecesOK'
  BY <1>1 DEF Inv, PiecesOK
<1>5. ASSUME NEW i \in 1 .. Len(queue')
      PROVE  EventFits(machine, reserved, queue'[i])
  <2>1. CASE i \in 1 .. Len(queue)
    BY <2>1, <1>1 DEF Inv, OnTheWay
  <2>2. CASE i \notin 1 .. Len(queue)
    <3>1. queue'[i] = event
      BY <2>2, <1>1
    <3>. QED
      BY <3>1
  <2>. QED
    BY <2>1, <2>2
<1>6. OnTheWay'
  BY <1>5 DEF Inv, OnTheWay
<1>7. Reservations(machine', reserved') /\ Marked(reserved', dispatched')
  BY DEF Inv
<1>. QED
  BY <1>2, <1>3, <1>4, <1>6, <1>7 DEF Inv

LEMMA ValidatedKeeps ==
  ASSUME Inv, NEW id \in checks, Validated(id)
  PROVE  Inv'
<1>1. id \in CheckId
  BY DEF Inv, PiecesOK
<1>2. PICK event : event = [kind |-> "checked", id |-> id]
  OBVIOUS
<1>3. event \in Happening /\ event.kind = "checked"
  BY <1>1, <1>2 DEF Happening
<1>4. EventFits(machine, reserved, event)
  BY <1>3 DEF EventFits
<1>5. /\ loop = "ready" /\ queue' = Append(queue, event) /\ checks' \subseteq checks /\ tasks' \subseteq tasks
      /\ UNCHANGED <<durable, machine, dispatched, reserved, batch, loop, crashes>>
  BY <1>2 DEF Validated, Sends
<1>. QED
  BY <1>3, <1>4, <1>5, EventComes

LEMMA WorkedKeeps ==
  ASSUME Inv, NEW id \in tasks, Worked(id)
  PROVE  Inv'
<1>1. id \in TaskId /\ TaskFits(machine, id)
  BY DEF Inv, PiecesOK, OnTheWay
<1>2. PICK to : /\ to \in Outcome[id[3]] \cup
                     (IF id[3] \in Aborts /\ IsItem(id[2]) /\ machine.rounds < MaxRounds THEN {"abort"} ELSE {})
                /\ queue' = Append(queue, [kind |-> "worked", id |-> id, to |-> to])
  BY DEF Worked, Sends
<1>3. PICK event : event = [kind |-> "worked", id |-> id, to |-> to]
  OBVIOUS
<1>4. to \in State \/ (to = "abort" /\ IsItem(id[2]) /\ machine.rounds < MaxRounds)
  <2>1. id[3] \in Of({"work"})
    BY <1>1 DEF TaskId
  <2>2. Outcome[id[3]] \subseteq State
    BY <2>1, FanOutAssumption
  <2>. QED
    BY <2>2, <1>2
<1>5. event \in Happening /\ event.kind = "worked" /\ event.id = id /\ event.to = to
  BY <1>1, <1>3, <1>4 DEF Happening
<1>6. EventFits(machine, reserved, event)
  BY <1>1, <1>4, <1>5, FanOutAssumption DEF EventFits
<1>7. /\ loop = "ready" /\ queue' = Append(queue, event) /\ checks' \subseteq checks /\ tasks' \subseteq tasks
      /\ UNCHANGED <<durable, machine, dispatched, reserved, batch, loop, crashes>>
  BY <1>2, <1>3 DEF Worked
<1>. QED
  BY <1>5, <1>6, <1>7, EventComes

(* An attempt begins with what the log says.                                *)
LEMMA Beginning ==
  ASSUME NEW v, View(v), MailOK(v), v.rounds <= MaxRounds, Cardinality(Holders(v)) <= Limit,
         durable' = v, machine' = v, loop' = "ready", queue' = <<[kind |-> "start"]>>,
         dispatched' = {}, reserved' = [e \in Endpoint |-> <<>>], batch' = <<>>, checks' = {}, tasks' = {},
         crashes' \in 0 .. MaxCrashes
  PROVE  Inv'
<1>1. ViewsOK' /\ SlotsOK'
  BY DEF ViewsOK, SlotsOK
<1>2. PICK event : event = [kind |-> "start"]
  OBVIOUS
<1>3. event \in Happening /\ event.kind = "start"
  BY <1>2 DEF Happening
<1>4. queue' \in Seq(Happening) /\ Len(queue') = 1 /\ queue'[1] = event
  BY <1>2, <1>3
<1>5. PiecesOK'
  <2>1. <<>> \in Seq(Unit)
    OBVIOUS
  <2>. QED
    BY <2>1, <1>4 DEF PiecesOK
<1>6. Reservations(machine', reserved')
  <2>1. <<>> \in Seq(Accept) /\ Len(<<>>) = 0
    OBVIOUS
  <2>2. \A e \in Endpoint : Len(v.mailbox[e]) \in Nat
    BY DEF View, ActorsOK
  <2>. QED
    BY <2>1, <2>2 DEF Reservations
<1>7. Marked(reserved', dispatched')
  BY DEF Marked
<1>8. OnTheWay'
  <2>1. \A i \in 1 .. Len(queue') : EventFits(machine', reserved', queue'[i])
    BY <1>3, <1>4 DEF EventFits
  <2>2. Len(<<>>) = 0
    OBVIOUS
  <2>. QED
    BY <2>1, <2>2 DEF OnTheWay
<1>9. Spans(machine', durable', queue')
  <2>1. \A i \in 1 .. Len(queue') : queue'[i].kind # "ack"
    BY <1>3, <1>4
  <2>2. Spans(v, v, queue')
    BY <1>4, <2>1, ChainStarts
  <2>. QED
    BY <2>2
<1>. QED
  BY <1>1, <1>5, <1>6, <1>7, <1>8, <1>9 DEF Inv

LEMMA RestartedKeeps ==
  ASSUME Inv, Restarted
  PROVE  Inv'
<1>1. PICK v : v = durable
  OBVIOUS
<1>2. View(v) /\ MailOK(v) /\ v.rounds <= MaxRounds /\ Cardinality(Holders(v)) <= Limit
  BY <1>1 DEF Inv, ViewsOK, SlotsOK
<1>3. /\ durable' = v /\ machine' = v /\ loop' = "ready" /\ queue' = <<[kind |-> "start"]>>
      /\ dispatched' = {} /\ reserved' = [e \in Endpoint |-> <<>>]
      /\ batch' = <<>> /\ checks' = {} /\ tasks' = {}
  BY <1>1 DEF Restarted
<1>4. crashes' \in 0 .. MaxCrashes
  <2>1. crashes \in 0 .. MaxCrashes /\ crashes < MaxCrashes /\ crashes' = crashes + 1
    BY DEF Restarted, Inv, PiecesOK
  <2>. QED
    BY <2>1, FanOutAssumption
<1>. QED
  BY <1>2, <1>3, <1>4, Beginning

-----------------------------------------------------------------------------
LEMMA EmptyFits ==
  /\ View(Empty) /\ MailOK(Empty) /\ Empty.rounds <= MaxRounds /\ Cardinality(Holders(Empty)) <= Limit
<1>1. PICK v : v = Empty
  OBVIOUS
<1>2. /\ DOMAIN v = Fields
      /\ v.chart = "map" /\ v.leaves = <<>> /\ v.rounds = 1 /\ v.failed = FALSE
      /\ v.status = [e \in Endpoint |-> "none"] /\ v.mailbox = [e \in Endpoint |-> <<>>]
      /\ v.at = [e \in Endpoint |-> [i \in 1 .. Workers[e] |-> Rest[e]]]
      /\ v.current = [e \in Endpoint |-> [i \in 1 .. Workers[e] |-> NoMessage]]
      /\ v.pending = [p \in Producer |-> 0] /\ v.visits = [p \in Producer |-> 0]
      /\ v.sends = [p \in Producer |-> 0] /\ v.calls = {} /\ v.settled = {}
  BY <1>1 DEF Empty, Fields
<1>3. Len(<<>>) = 0 /\ <<>> \in Seq(Leaf) /\ <<>> \in Seq(Messages)
  OBVIOUS
<1>4. \A k \in Key : v.pending[Item(k)] = 0
  BY <1>2, Producers
<1>5. Holders(v) = {}
  BY <1>4 DEF Holders
<1>6. ItemsOK(v)
  <2>1. LeavesOK(v)
    BY <1>2, <1>3 DEF LeavesOK, Leaves
  <2>. QED
    <3>1. \A p \in Producer : v.pending[p] = 0 /\ v.visits[p] = 0
      BY <1>2
    <3>2. v.pending \in [Producer -> Nat] /\ v.visits \in [Producer -> Nat]
      BY <1>2
    <3>3. \A p \in Producer : v.pending[p] <= v.visits[p]
      BY <3>1
    <3>4. v.chart \in Chart /\ v.failed \in BOOLEAN
      BY <1>2 DEF Chart
    <3>5. v.rounds \in Nat \ {0} /\ v.leaves = <<>>
      BY <1>2
    <3>. QED
      BY <2>1, <3>2, <3>3, <3>4, <3>5, <1>5 DEF ItemsOK
<1>7. ActorsOK(v)
  <2>1. IsFiniteSet({})
    BY FS_EmptySet
  <2>2. \A e \in Endpoint : Rest[e] \in State
    BY FanOutAssumption DEF Of
  <2>. QED
    BY <2>1, <2>2, <1>2, <1>3 DEF ActorsOK
<1>8. MailOK(v)
  BY <1>2, <1>3 DEF MailOK
<1>9. Cardinality(Holders(v)) <= Limit
  <2>1. Cardinality({}) = 0
    BY FS_EmptySet
  <2>. QED
    BY <2>1, <1>5, FanOutAssumption
<1>. QED
  BY <1>1, <1>2, <1>6, <1>7, <1>8, <1>9, FanOutAssumption DEF View

LEMMA InitHolds ==
  ASSUME Init
  PROVE  Inv
<1>1. PICK v : v = Empty
  OBVIOUS
<1>2. View(v) /\ MailOK(v) /\ v.rounds <= MaxRounds /\ Cardinality(Holders(v)) <= Limit
  BY <1>1, EmptyFits
<1>3. /\ durable = v /\ machine = v /\ loop = "ready" /\ queue = <<[kind |-> "start"]>>
      /\ dispatched = {} /\ reserved = [e \in Endpoint |-> <<>>] /\ batch = <<>> /\ checks = {} /\ tasks = {}
      /\ crashes = 0
  BY <1>1 DEF Init
<1>4. ViewsOK /\ SlotsOK
  BY <1>2, <1>3 DEF ViewsOK, SlotsOK
<1>5. PICK event : event = [kind |-> "start"]
  OBVIOUS
<1>6. event \in Happening /\ event.kind = "start"
  BY <1>5 DEF Happening
<1>7. queue \in Seq(Happening) /\ Len(queue) = 1 /\ queue[1] = event
  BY <1>3, <1>5, <1>6
<1>8. PiecesOK
  <2>1. <<>> \in Seq(Unit)
    OBVIOUS
  <2>. QED
    BY <2>1, <1>3, <1>7, FanOutAssumption DEF PiecesOK
<1>9. Reservations(machine, reserved)
  <2>1. <<>> \in Seq(Accept) /\ Len(<<>>) = 0
    OBVIOUS
  <2>2. \A e \in Endpoint : Len(v.mailbox[e]) \in Nat
    BY <1>2 DEF View, ActorsOK
  <2>. QED
    BY <2>1, <2>2, <1>3 DEF Reservations
<1>10. Marked(reserved, dispatched)
  BY <1>3 DEF Marked
<1>11. OnTheWay
  <2>1. \A i \in 1 .. Len(queue) : EventFits(machine, reserved, queue[i])
    BY <1>6, <1>7 DEF EventFits
  <2>2. Len(<<>>) = 0
    OBVIOUS
  <2>. QED
    BY <2>1, <2>2, <1>3 DEF OnTheWay
<1>12. Spans(machine, durable, queue)
  <2>1. \A i \in 1 .. Len(queue) : queue[i].kind # "ack"
    BY <1>6, <1>7
  <2>2. Spans(v, v, queue)
    BY <1>2, <1>7, <2>1, ChainStarts
  <2>. QED
    BY <2>2, <1>3
<1>. QED
  BY <1>4, <1>8, <1>9, <1>10, <1>11, <1>12 DEF Inv

LEMMA StepKeeps == Inv /\ [Next]_vars => Inv'
<1> SUFFICES ASSUME Inv, [Next]_vars PROVE Inv'
  OBVIOUS
<1>1. CASE Loop
  BY <1>1, StartKeeps, ActorEffectKeeps, WorkKeeps, AckKeeps, CommitKeeps DEF Loop
<1>2. CASE Validates
  BY <1>2, ValidatedKeeps DEF Validates
<1>3. CASE Works
  BY <1>3, WorkedKeeps DEF Works
<1>4. CASE Restarted
  BY <1>4, RestartedKeeps
<1>5. CASE UNCHANGED vars
  <2>1. UNCHANGED <<durable, machine, dispatched, reserved, queue, batch, checks, tasks, loop, crashes>>
    BY <1>5 DEF vars
  <2>2. ViewsOK' /\ SlotsOK' /\ PiecesOK'
    BY <2>1 DEF Inv, ViewsOK, SlotsOK, PiecesOK
  <2>3. Reservations(machine', reserved') /\ Marked(reserved', dispatched')
    BY <2>1 DEF Inv
  <2>4. OnTheWay' /\ (loop' = "ready" => Spans(machine', durable', queue'))
    BY <2>1 DEF Inv, OnTheWay
  <2>. QED
    BY <2>2, <2>3, <2>4 DEF Inv
<1>. QED
  BY <1>1, <1>2, <1>3, <1>4, <1>5 DEF Next

LEMMA SpecInv == Spec => []Inv
<1>1. Init => Inv
  BY InitHolds
<1>. QED
  BY <1>1, StepKeeps, PTL DEF Spec

-----------------------------------------------------------------------------
(* What the variables hold, as the runs say it.                             *)
LEMMA ViewTyped ==
  ASSUME NEW v, View(v), v.rounds <= MaxRounds
  PROVE  ProjectionOK(v)
<1>1. LeavesOK(v) /\ v.rounds \in 1 .. MaxRounds
  BY FanOutAssumption DEF View, ItemsOK
<1>2. IsInjective([j \in Leaves(v) |-> v.leaves[j].key])
  BY <1>1 DEF LeavesOK, IsInjective
<1>3. \A p \in Producer : v.pending[p] \in 0 .. v.visits[p] /\ v.sends[p] \in Nat
  BY DEF View, ItemsOK, ActorsOK
<1>4. v.calls \subseteq Calls
  BY DEF View, ActorsOK, Asking
<1>. QED
  BY <1>1, <1>2, <1>3, <1>4 DEF ProjectionOK, View, ItemsOK, ActorsOK, LeavesOK, Leaf, Chart

LEMMA InvTyped == Inv => TypeOK
<1> SUFFICES ASSUME Inv PROVE TypeOK
  OBVIOUS
<1>1. ProjectionOK(durable) /\ ProjectionOK(machine)
  BY ViewTyped DEF Inv, ViewsOK
<1>2. ASSUME NEW u \in Unit
      PROVE  UnitOK(u)
  BY DEF Unit, UnitFits
<1>3. ASSUME NEW e \in Endpoint, NEW j \in DOMAIN reserved[e]
      PROVE  UnitOK(reserved[e][j])
  <2>1. reserved[e][j] \in Accept
    <3>1. reserved[e] \in Seq(Accept)
      BY DEF Inv, Reservations
    <3>. QED
      BY <3>1
  <2>. QED
    BY <2>1 DEF Accept, UnitOK
<1>4. ASSUME NEW id \in CheckId
      PROVE  CheckOK(id)
  <2>1. CASE id \in {"create"} \X Endpoint
    BY <2>1 DEF CheckOK
  <2>2. CASE id \in {"enqueue"} \X Producer \X State \X Nat
    BY <2>2 DEF CheckOK
  <2>3. CASE id \in {"reply"} \X Producer \X Messages
    BY <2>3 DEF CheckOK
  <2>. QED
    BY <2>1, <2>2, <2>3 DEF CheckId
<1>5. ASSUME NEW id \in TaskId, TaskFits(machine, id)
      PROVE  TaskOK(id)
  <2>1. id[1] = "run" /\ id[2] \in Producer /\ id[3] \in State /\ id[4] \in Nat
    BY DEF TaskId, Of
  <2>2. machine.visits[id[2]] \in Nat
    BY <2>1 DEF Inv, ViewsOK, View, ItemsOK
  <2>. QED
    BY <2>1, <2>2, <1>5 DEF TaskOK, TaskFits
<1>6. ASSUME NEW j \in DOMAIN queue
      PROVE  \/ queue[j] = [kind |-> "start"]
             \/ queue[j].kind = "ack" /\ UnitOK(queue[j].unit)
             \/ queue[j].kind = "checked" /\ CheckOK(queue[j].id)
             \/ queue[j].kind = "worked" /\ TaskOK(queue[j].id) /\ queue[j].to \in State \cup {"abort"}
  <2>1. PICK event \in Happening : event = queue[j] /\ EventFits(machine, reserved, event)
    BY DEF Inv, PiecesOK, OnTheWay
  <2>2. CASE event \in [kind : {"start"}]
    BY <2>1, <2>2
  <2>3. CASE event \in [kind : {"ack"}, unit : Unit]
    BY <2>1, <2>3, <1>2
  <2>4. CASE event \in [kind : {"checked"}, id : CheckId]
    BY <2>1, <2>4, <1>4
  <2>5. CASE event \in [kind : {"worked"}, id : TaskId, to : State \cup {"abort"}]
    BY <2>1, <2>5, <1>5 DEF EventFits
  <2>. QED
    BY <2>2, <2>3, <2>4, <2>5 DEF Happening
<1>7. \A j \in DOMAIN batch : UnitOK(batch[j])
  <2>1. \A j \in DOMAIN batch : batch[j] \in Unit
    BY DEF Inv, PiecesOK
  <2>. QED
    BY <2>1, <1>2
<1>8. \A id \in checks : CheckOK(id)
  BY <1>4 DEF Inv, PiecesOK
<1>9. \A id \in tasks : TaskOK(id)
  BY <1>5 DEF Inv, PiecesOK, OnTheWay
<1>. QED
  BY <1>1, <1>3, <1>6, <1>7, <1>8, <1>9 DEF TypeOK, Inv, PiecesOK

-----------------------------------------------------------------------------
(* Every message is of the actor it was sent to, and in one place only; a   *)
(* message that asks is either there or settled, as long as its call waits; *)
(* a call of one message is over with its reply.                            *)
InBox(v, e) == Range(v.mailbox[e])
InHands(v, e) == {v.current[e][i] : i \in 1 .. Workers[e]} \ {NoMessage}
Proper(v, m) == m.at \in DOMAIN To /\ m.index \in 1 .. Count[m.at] /\ m.visit <= v.sends[m.from]
OpenOK(v) ==
  \A e \in Endpoint :
    /\ \A m \in InBox(v, e) \cup InHands(v, e) :
         /\ Proper(v, m) /\ To[m.at] = e
         /\ Asks(m) => CallOf(m) \in v.calls /\ m \notin v.settled
    /\ InBox(v, e) \cap InHands(v, e) = {}
    /\ \A i, j \in 1 .. Workers[e] : v.current[e][i] = v.current[e][j] /\ v.current[e][i] # NoMessage => i = j
SettledOK(v) == \A m \in v.settled : Proper(v, m) /\ Asks(m) /\ CallOf(m) \in v.calls /\ Count[m.at] > 1
CallsOK(v) ==
  \A c \in v.calls : /\ c.visit <= v.sends[c.from]
                     /\ Members(c) \subseteq InBox(v, To[c.at]) \cup InHands(v, To[c.at]) \cup v.settled

(* A worker without a message rests, and what is pending of it is work.     *)
WorkersOK(v) ==
  \A e \in Endpoint : \A i \in 1 .. Workers[e] :
    /\ v.current[e][i] = NoMessage => Kind[v.at[e][i]] = "receive"
    /\ v.pending[Worker(e, i)] # 0 => Kind[v.at[e][i]] = "work"

(* An actor closes with its owner and stops with nothing left to do.        *)
StatusOK(v) ==
  /\ \A e \in Endpoint : /\ v.status[e] \in {"none", "stopped"} =>
                              Quiescent(v, e) /\ \A c \in v.calls : To[c.at] # e
                         /\ v.status[e] \in {"closing", "stopped"} => v.chart \in {"end", "done"}
  /\ v.chart = "done" => Released(v)

Stuck(v, e) ==
  /\ Busy(v, e) = {} /\ v.mailbox[e] # <<>>
  /\ \A i \in 1 .. Workers[e] : ~Takes(v, e, i, Head(v.mailbox[e]))
FailureOK(v) == v.failed => \E e \in Endpoint : Stuck(v, e)

LogOK(v) == OpenOK(v) /\ SettledOK(v) /\ CallsOK(v) /\ WorkersOK(v) /\ StatusOK(v) /\ FailureOK(v)

(* What stays so, however far the log is ahead.                             *)
Further(v, w) ==
  /\ \A p \in Producer : v.sends[p] <= w.sends[p]
  /\ \A c \in w.calls : c \in v.calls \/ c.visit > v.sends[c.from]
  /\ \A e \in Endpoint : /\ v.status[e] # "none" => w.status[e] # "none"
                         /\ Stuck(v, e) => Stuck(w, e)
  /\ v.chart \in {"end", "done"} => w.chart \in {"end", "done"}

(* What the machine means by a unit.                                        *)
Meant(v, u) ==
  /\ u.type = "failure" => \E e \in Endpoint : Stuck(v, e)
  /\ u.type = "closing" => v.status[u.e] = "open" /\ v.chart \in {"end", "done"}
  /\ u.type = "stopped" => v.status[u.e] = "closing" /\ Quiescent(v, u.e)
  /\ u.type = "replied" => /\ u.msg \in InHands(v, u.p[2])
                           /\ Asks(u.msg) /\ Count[u.msg.at] = 1 => u.resolves
Knows(v) == \A m \in durable.settled : m.visit <= v.sends[m.from]
Resolution(c) == [type |-> "resolved", call |-> c]
ResolvingOK ==
  \A c \in Calls : <<"resolve", c>> \in dispatched =>
    c \in machine.calls /\ (c \in durable.calls => \E i \in 1 .. Len(batch) : batch[i] = Resolution(c))
StopsOK ==
  \A j \in 1 .. Len(batch) : batch[j].type = "stopped" =>
    \A c \in durable.calls : To[c.at] = batch[j].e =>
      \/ \E i \in 1 .. j - 1 : batch[i] = Resolution(c)
      \/ ~(Members(c) \subseteq durable.settled)

-----------------------------------------------------------------------------
(* The messages of a call, and what a mailbox holds.                        *)
LEMMA MembersAre ==
  ASSUME NEW c \in Calls, c.at \in DOMAIN To
  PROVE  /\ \A m : m \in Members(c) <=> m \in Messages /\ CallOf(m) = c /\ m.index \in 1 .. Count[c.at]
         /\ \E m \in Members(c) : TRUE
         /\ \A m \in Members(c) : m.from = c.from /\ m.at = c.at /\ m.visit = c.visit
<1>1. c.from \in Producer /\ c.at \in State /\ c.visit \in Nat /\ Count[c.at] \in Nat \ {0}
  BY FanOutAssumption DEF Calls
<1>2. Members(c) = {Message(c.from, c.at, c.visit, i) : i \in 1 .. Count[c.at]}
  BY DEF Members, Batch, Range
<1>3. ASSUME NEW m \in Members(c)
      PROVE  /\ m \in Messages /\ CallOf(m) = c /\ m.index \in 1 .. Count[c.at]
             /\ m.from = c.from /\ m.at = c.at /\ m.visit = c.visit
  <2>1. PICK i \in 1 .. Count[c.at] : m = [from |-> c.from, at |-> c.at, visit |-> c.visit, index |-> i]
    BY <1>2 DEF Message
  <2>2. m \in Messages /\ m.index = i /\ m.from = c.from /\ m.at = c.at /\ m.visit = c.visit
    BY <1>1, <2>1 DEF Messages
  <2>3. CallOf(m) = c
    BY <2>2 DEF CallOf, Call, Calls
  <2>. QED
    BY <2>2, <2>3
<1>4. ASSUME NEW m \in Messages, CallOf(m) = c, m.index \in 1 .. Count[c.at]
      PROVE  m \in Members(c)
  <2>1. m.from = c.from /\ m.at = c.at /\ m.visit = c.visit
    BY <1>4 DEF CallOf, Call
  <2>2. m = Message(c.from, c.at, c.visit, m.index)
    BY <2>1 DEF Message, Messages
  <2>. QED
    BY <1>2, <1>4, <2>2
<1>5. Message(c.from, c.at, c.visit, 1) \in Members(c)
  BY <1>1, <1>2
<1>. QED
  BY <1>3, <1>4, <1>5

LEMMA BoxShorter ==
  ASSUME NEW S, NEW s \in Seq(S), s # <<>>, \A i, j \in 1 .. Len(s) : s[i] = s[j] => i = j
  PROVE  Range(s) = {Head(s)} \cup Range(Tail(s)) /\ Head(s) \notin Range(Tail(s))
<1>1. PICK n \in Nat : Len(s) = n + 1
  <2>1. Len(s) \in Nat \ {0}
    OBVIOUS
  <2>. QED
    BY <2>1
<1>2. PICK t : t = Tail(s)
  OBVIOUS
<1>3. Len(t) = n /\ \A j \in 1 .. n : t[j] = s[j + 1]
  BY <1>1, <1>2
<1>4. Head(s) = s[1]
  OBVIOUS
<1>5. ASSUME NEW j \in 1 .. n + 1
      PROVE  s[j] = s[1] \/ \E i \in 1 .. n : t[i] = s[j]
  <2>1. j # 1 => j - 1 \in 1 .. n /\ (j - 1) + 1 = j
    OBVIOUS
  <2>. QED
    BY <2>1, <1>3
<1>6. ASSUME NEW i \in 1 .. n
      PROVE  t[i] # s[1] /\ \E j \in 1 .. n + 1 : s[j] = t[i]
  <2>1. i + 1 \in 1 .. n + 1 /\ i + 1 # 1 /\ 1 \in 1 .. n + 1
    OBVIOUS
  <2>. QED
    BY <2>1, <1>1, <1>3
<1>7. 1 \in 1 .. n + 1
  OBVIOUS
<1>8. DOMAIN s = 1 .. n + 1 /\ DOMAIN t = 1 .. n
  BY <1>1, <1>2, <1>3
<1>9. \A x : x \in Range(s) <=> \E j \in 1 .. n + 1 : x = s[j]
  BY <1>8 DEF Range
<1>10. \A x : x \in Range(t) <=> \E j \in 1 .. n : x = t[j]
  BY <1>8 DEF Range
<1>11. \A x \in Range(s) : x = s[1] \/ x \in Range(t)
  BY <1>5, <1>9, <1>10
<1>12. s[1] \in Range(s) /\ \A x \in Range(t) : x \in Range(s) /\ x # s[1]
  BY <1>6, <1>7, <1>9, <1>10
<1>. QED
  BY <1>2, <1>4, <1>11, <1>12

LEMMA BoxLonger ==
  ASSUME NEW S, NEW s \in Seq(S), NEW t \in Seq(S)
  PROVE  Range(s \o t) = Range(s) \cup Range(t)
<1>0. PICK w : w = s \o t
  OBVIOUS
<1>1. PICK a \in Nat, b \in Nat : a = Len(s) /\ b = Len(t)
  OBVIOUS
<1>2. /\ Len(w) = a + b /\ \A j \in 1 .. a : w[j] = s[j]
      /\ \A j \in 1 .. b : w[a + j] = t[j]
  BY <1>0, <1>1
<1>3. ASSUME NEW j \in 1 .. a + b
      PROVE  (\E i \in 1 .. a : w[j] = s[i]) \/ (\E i \in 1 .. b : w[j] = t[i])
  <2>1. CASE j \in 1 .. a
    BY <2>1, <1>2
  <2>2. CASE j \notin 1 .. a
    <3>1. j - a \in 1 .. b /\ a + (j - a) = j
      BY <2>2
    <3>. QED
      BY <3>1, <1>2
  <2>. QED
    BY <2>1, <2>2
<1>4. \A i \in 1 .. a : i \in 1 .. a + b
  OBVIOUS
<1>5. \A i \in 1 .. b : a + i \in 1 .. a + b
  OBVIOUS
<1>6. DOMAIN s = 1 .. a /\ DOMAIN t = 1 .. b /\ DOMAIN w = 1 .. a + b
  BY <1>0, <1>1
<1>7. \A x : x \in Range(w) <=> \E j \in 1 .. a + b : x = w[j]
  BY <1>6 DEF Range
<1>8. \A x : x \in Range(s) <=> \E j \in 1 .. a : x = s[j]
  BY <1>6 DEF Range
<1>9. \A x : x \in Range(t) <=> \E j \in 1 .. b : x = t[j]
  BY <1>6 DEF Range
<1>10. Range(w) \subseteq Range(s) \cup Range(t)
  BY <1>3, <1>7, <1>8, <1>9
<1>11. Range(s) \subseteq Range(w)
  BY <1>2, <1>4, <1>7, <1>8
<1>12. Range(t) \subseteq Range(w)
  BY <1>2, <1>5, <1>7, <1>9
<1>. QED
  BY <1>0, <1>10, <1>11, <1>12

(* The actors where they are, and an owner that is no less through.         *)
SameActors(v, w) ==
  /\ w.status = v.status /\ w.mailbox = v.mailbox /\ w.current = v.current
  /\ w.sends = v.sends /\ w.calls = v.calls /\ w.settled = v.settled
OwnerOn(v, w) ==
  /\ v.chart \in {"end", "done"} => w.chart \in {"end", "done"}
  /\ w.chart = "done" => v.chart = "done" \/ Released(w)
Moving(v, w, p, s) ==
  /\ SameActors(v, w) /\ OwnerOn(v, w) /\ w.pending = v.pending /\ w.failed = v.failed
  /\ \A e \in Endpoint : \A i \in 1 .. Workers[e] : w.at[e][i] = IF Worker(e, i) = p THEN s ELSE v.at[e][i]

LEMMA OneWorker ==
  ASSUME NEW a, DOMAIN a = Endpoint, \A e \in Endpoint : DOMAIN a[e] = 1 .. Workers[e],
         NEW e \in Endpoint, NEW i \in 1 .. Workers[e], NEW x, NEW b, b = [a EXCEPT ![e][i] = x]
  PROVE  \A f \in Endpoint : \A j \in 1 .. Workers[f] : b[f][j] = IF f = e /\ j = i THEN x ELSE a[f][j]
<1>1. ASSUME NEW f \in Endpoint, NEW j \in 1 .. Workers[f], f # e
      PROVE  b[f][j] = a[f][j]
  BY <1>1
<1>2. ASSUME NEW j \in 1 .. Workers[e]
      PROVE  b[e][j] = IF j = i THEN x ELSE a[e][j]
  <2>1. b[e] = [a[e] EXCEPT ![i] = x]
    OBVIOUS
  <2>2. j \in DOMAIN a[e]
    OBVIOUS
  <2>. QED
    BY <2>1, <2>2
<1>. QED
  BY <1>1, <1>2

LEMMA Completes ==
  ASSUME NEW v, DOMAIN v = Fields, NEW w, w = CompleteParallels(v)
  PROVE  /\ DOMAIN w = Fields /\ SameActors(v, w) /\ OwnerOn(v, w)
         /\ w.at = v.at /\ w.pending = v.pending /\ w.failed = v.failed
<1>1. PICK j : j = IF Joined(v) THEN [v EXCEPT !.chart = "end", !.leaves = <<>>] ELSE v
  OBVIOUS
<1>2. /\ DOMAIN j = Fields /\ SameActors(v, j) /\ j.at = v.at /\ j.pending = v.pending /\ j.failed = v.failed
      /\ j.chart = v.chart \/ (v.chart = "each" /\ j.chart = "end")
  BY <1>1 DEF Fields, SameActors, Joined
<1>3. w = IF j.chart = "end" /\ Released(j) THEN [j EXCEPT !.chart = "done"] ELSE j
  BY <1>1 DEF CompleteParallels
<1>4. /\ DOMAIN w = Fields /\ SameActors(j, w) /\ w.at = j.at /\ w.pending = j.pending /\ w.failed = j.failed
      /\ w.chart = j.chart \/ (j.chart = "end" /\ w.chart = "done" /\ Released(j))
  BY <1>2, <1>3 DEF Fields, SameActors
<1>5. Released(j) => Released(w)
  BY <1>4 DEF Released, SameActors
<1>6. OwnerOn(v, w)
  BY <1>2, <1>4, <1>5 DEF OwnerOn
<1>. QED
  BY <1>2, <1>4, <1>6 DEF SameActors

LEMMA Going ==
  ASSUME NEW v, DOMAIN v = Fields, DOMAIN v.at = Endpoint, \A e \in Endpoint : DOMAIN v.at[e] = 1 .. Workers[e],
         NEW p \in Producer, NEW s, NEW w, w = Goes(v, p, s)
  PROVE  Moving(v, w, p, s)
<1>1. CASE IsItem(p)
  <2>1. PICK x : x = [v EXCEPT !.leaves = Append(RemoveAt(@, LeafOf(v, p[2])), [key |-> p[2], at |-> s])]
    OBVIOUS
  <2>2. /\ DOMAIN x = Fields /\ SameActors(v, x) /\ x.at = v.at /\ x.pending = v.pending /\ x.failed = v.failed
        /\ x.chart = v.chart
    BY <2>1 DEF Fields, SameActors
  <2>3. w = CompleteParallels(x)
    BY <1>1, <2>1 DEF Goes
  <2>4. /\ SameActors(x, w) /\ OwnerOn(x, w) /\ w.at = x.at /\ w.pending = x.pending /\ w.failed = x.failed
    BY <2>2, <2>3, Completes
  <2>5. \A e \in Endpoint : \A i \in 1 .. Workers[e] : Worker(e, i) # p
    BY <1>1, Producers
  <2>6. OwnerOn(v, w) /\ SameActors(v, w)
    BY <2>2, <2>4 DEF OwnerOn, SameActors
  <2>. QED
    BY <2>2, <2>4, <2>5, <2>6 DEF Moving
<1>2. CASE ~IsItem(p)
  <2>1. PICK e \in Endpoint, i \in Nat : e = p[2] /\ i = p[3] /\ i \in 1 .. Workers[e] /\ p = Worker(e, i)
    BY <1>2, Producers
  <2>2. w = [v EXCEPT !.at[e][i] = s]
    BY <1>2, <2>1 DEF Goes
  <2>3. /\ SameActors(v, w) /\ w.at = [v.at EXCEPT ![e][i] = s] /\ w.pending = v.pending /\ w.failed = v.failed
        /\ w.chart = v.chart
    BY <2>2 DEF Fields, SameActors
  <2>4. OwnerOn(v, w)
    BY <2>3 DEF OwnerOn
  <2>5. ASSUME NEW f \in Endpoint, NEW j \in 1 .. Workers[f]
        PROVE  w.at[f][j] = IF Worker(f, j) = p THEN s ELSE v.at[f][j]
    <3>1. Worker(f, j) = p <=> f = e /\ j = i
      BY <2>1 DEF Worker
    <3>2. w.at[f][j] = IF f = e /\ j = i THEN s ELSE v.at[f][j]
      <4>1. PICK a, b : a = v.at /\ b = w.at
        OBVIOUS
      <4>2. DOMAIN a = Endpoint /\ (\A g \in Endpoint : DOMAIN a[g] = 1 .. Workers[g]) /\ b = [a EXCEPT ![e][i] = s]
        BY <2>3, <4>1
      <4>3. b[f][j] = IF f = e /\ j = i THEN s ELSE a[f][j]
        <5>1. i \in 1 .. Workers[e]
          BY <2>1
        <5>2. \A g \in Endpoint : \A k \in 1 .. Workers[g] : b[g][k] = IF g = e /\ k = i THEN s ELSE a[g][k]
          BY <5>1, <4>2, OneWorker, ZenonT(60)
        <5>. QED
          BY <5>2
      <4>. QED
        BY <4>1, <4>3
    <3>. QED
      BY <3>1, <3>2
  <2>. QED
    BY <2>3, <2>4, <2>5 DEF Moving
<1>. QED
  BY <1>1, <1>2

(* What keeps the messages where they are, and the idle workers at rest,    *)
(* keeps all of it.                                                         *)
Keeps(v, w) == LogOK(w) /\ Further(v, w)

LEMMA ActorsStay ==
  ASSUME NEW v, LogOK(v), View(v), NEW w, SameActors(v, w), OwnerOn(v, w),
         \A e \in Endpoint : \A i \in 1 .. Workers[e] : w.at[e][i] = v.at[e][i] \/ v.current[e][i] # NoMessage,
         \A e \in Endpoint : \A i \in 1 .. Workers[e] : w.pending[Worker(e, i)] # 0 => Kind[w.at[e][i]] = "work",
         w.failed => v.failed \/ \E e \in Endpoint : Stuck(v, e)
  PROVE  Keeps(v, w)
<1>1. /\ w.status = v.status /\ w.mailbox = v.mailbox /\ w.current = v.current
      /\ w.sends = v.sends /\ w.calls = v.calls /\ w.settled = v.settled
  BY DEF SameActors
<1>2. \A e \in Endpoint : InBox(w, e) = InBox(v, e) /\ InHands(w, e) = InHands(v, e) /\ Busy(w, e) = Busy(v, e)
  BY <1>1 DEF InBox, InHands, Busy
<1>3. \A m : Proper(w, m) = Proper(v, m)
  BY <1>1 DEF Proper
<1>4. OpenOK(w)
  BY <1>1, <1>2, <1>3 DEF OpenOK, LogOK
<1>5. SettledOK(w) /\ CallsOK(w)
  BY <1>1, <1>2, <1>3, FanOutAssumption DEF SettledOK, CallsOK, LogOK, View, ActorsOK, Asking, Calls, Of
<1>6. WorkersOK(w)
  <2>1. \A e \in Endpoint : \A i \in 1 .. Workers[e] : w.current[e][i] = NoMessage => Kind[w.at[e][i]] = "receive"
    BY <1>1 DEF LogOK, WorkersOK
  <2>. QED
    BY <2>1 DEF WorkersOK
<1>7. StatusOK(w)
  <2>1. Released(w) = Released(v)
    BY <1>1 DEF Released
  <2>2. \A e \in Endpoint : Quiescent(w, e) = Quiescent(v, e)
    BY <1>1, <1>2 DEF Quiescent
  <2>. QED
    BY <1>1, <2>1, <2>2 DEF StatusOK, LogOK, OwnerOn
<1>8. ASSUME NEW e \in Endpoint, Stuck(v, e)
      PROVE  Stuck(w, e)
  <2>1. \A i \in 1 .. Workers[e] : w.at[e][i] = v.at[e][i]
    BY <1>8 DEF Stuck, Busy
  <2>2. \A i \in 1 .. Workers[e] : \A m : Takes(w, e, i, m) = Takes(v, e, i, m)
    BY <2>1 DEF Takes
  <2>. QED
    BY <1>1, <1>2, <1>8, <2>2 DEF Stuck
<1>9. FailureOK(w)
  BY <1>8 DEF FailureOK, LogOK
<1>10. Further(v, w)
  <2>1. \A p \in Producer : v.sends[p] <= w.sends[p]
    BY <1>1 DEF View, ActorsOK
  <2>. QED
    BY <1>1, <1>8, <2>1 DEF Further, OwnerOn
<1>. QED
  BY <1>4, <1>5, <1>6, <1>7, <1>9, <1>10 DEF Keeps, LogOK

(* What the log has to be like for a unit not to break any of it.           *)
Legal(v, u) ==
  /\ u.type = "failure" => \E e \in Endpoint : Stuck(v, e)
  /\ u.type = "closing" => v.status[u.e] # "none" /\ v.chart \in {"end", "done"}
  /\ u.type = "stopped" => /\ v.chart \in {"end", "done"}
                           /\ \A c \in v.calls : To[c.at] = u.e => ~(Members(c) \subseteq v.settled)
  /\ u.type = "replied" => (Asks(u.msg) /\ Count[u.msg.at] = 1 => u.resolves)

LEMMA QuietKeeps ==
  ASSUME NEW v, LogOK(v), View(v), NEW u, UnitFits(u), Legal(v, u), ~Rejects(v, u),
         u.type \in {"failure", "spawned", "invoke"}
  PROVE  Keeps(v, Project(v, u))
<1>1. PICK w : w = Project(v, u)
  OBVIOUS
<1>2. SameActors(v, w) /\ OwnerOn(v, w) /\ w.at = v.at /\ (w.failed => v.failed \/ \E e \in Endpoint : Stuck(v, e))
  <2>1. CASE u.type = "failure"
    <3>1. w = [v EXCEPT !.failed = TRUE]
      BY <1>1, <2>1 DEF Project
    <3>. QED
      BY <3>1, <2>1 DEF View, Fields, SameActors, OwnerOn, Legal
  <2>2. CASE u.type = "spawned"
    <3>1. CASE v.chart # "map"
      <4>1. w = v
        BY <1>1, <2>2, <3>1 DEF Project
      <4>. QED
        BY <4>1 DEF SameActors, OwnerOn
    <3>2. CASE v.chart = "map"
      <4>1. PICK x : x = [v EXCEPT !.chart = IF u.n = 0 THEN "end" ELSE "each",
                                   !.leaves = [k \in 1 .. u.n |-> [key |-> k, at |-> First]]]
        OBVIOUS
      <4>2. DOMAIN x = Fields /\ SameActors(v, x) /\ x.at = v.at /\ x.failed = v.failed /\ x.chart \in {"end", "each"}
        BY <4>1 DEF View, Fields, SameActors
      <4>3. w = CompleteParallels(x)
        BY <1>1, <2>2, <3>2, <4>1 DEF Project
      <4>4. SameActors(x, w) /\ OwnerOn(x, w) /\ w.at = x.at /\ w.failed = x.failed
        BY <4>2, <4>3, Completes
      <4>. QED
        BY <3>2, <4>2, <4>4 DEF SameActors, OwnerOn
    <3>. QED
      BY <3>1, <3>2
  <2>3. CASE u.type = "invoke"
    <3>1. /\ DOMAIN w = Fields /\ SameActors(v, w) /\ w.at = v.at /\ w.failed = v.failed /\ w.chart = v.chart
      BY <1>1, <2>3 DEF Project, View, Fields, SameActors
    <3>. QED
      BY <3>1 DEF OwnerOn
  <2>. QED
    BY <2>1, <2>2, <2>3
<1>3. ASSUME NEW e \in Endpoint, NEW i \in 1 .. Workers[e], w.pending[Worker(e, i)] # 0
      PROVE  Kind[v.at[e][i]] = "work"
  <2>1. Worker(e, i) \in Producer /\ ~IsItem(Worker(e, i)) /\ Worker(e, i)[2] = e /\ Worker(e, i)[3] = i
    BY Producers DEF Worker
  <2>2. CASE w.pending[Worker(e, i)] = v.pending[Worker(e, i)]
    BY <1>3, <2>2 DEF LogOK, WorkersOK
  <2>3. CASE w.pending[Worker(e, i)] # v.pending[Worker(e, i)]
    <3>1. u.type = "invoke"
      <4>1. CASE u.type = "failure"
        <5>1. w = [v EXCEPT !.failed = TRUE]
          BY <1>1, <4>1 DEF Project
        <5>. QED
          BY <5>1, <2>3 DEF View, Fields
      <4>2. CASE u.type = "spawned"
        <5>1. PICK x : x = [v EXCEPT !.chart = IF u.n = 0 THEN "end" ELSE "each",
                                     !.leaves = [k \in 1 .. u.n |-> [key |-> k, at |-> First]]]
          OBVIOUS
        <5>2. DOMAIN x = Fields /\ x.pending = v.pending
          BY <5>1 DEF View, Fields
        <5>3. w = v \/ w = CompleteParallels(x)
          BY <1>1, <4>2, <5>1 DEF Project
        <5>. QED
          BY <5>2, <5>3, <2>3, Completes
      <4>. QED
        BY <4>1, <4>2
    <3>2. PICK starts : starts = {x \in u.group : At(v, x[1]) = x[2]}
      OBVIOUS
    <3>3. PICK visits : visits = [p \in Producer |-> IF \E x \in starts : x[1] = p THEN v.visits[p] + 1 ELSE v.visits[p]]
      OBVIOUS
    <3>4. w = [v EXCEPT !.visits = visits,
                        !.pending = [p \in Producer |-> IF visits[p] # v.visits[p] THEN visits[p] ELSE v.pending[p]]]
      BY <1>1, <3>1, <3>2, <3>3 DEF Project
    <3>5. w.pending = [p \in Producer |-> IF visits[p] # v.visits[p] THEN visits[p] ELSE v.pending[p]]
      BY <3>4 DEF View, Fields
    <3>6. visits[Worker(e, i)] # v.visits[Worker(e, i)]
      BY <3>5, <2>1, <2>3
    <3>7. PICK x \in starts : x[1] = Worker(e, i)
      BY <3>3, <3>6, <2>1
    <3>8. At(v, Worker(e, i)) = x[2] /\ Kind[x[2]] = "work" /\ x[2] \in State
      BY <3>1, <3>2, <3>7 DEF UnitFits, UnitOK
    <3>9. At(v, Worker(e, i)) = v.at[e][i]
      BY <3>8, <2>1, FanOutAssumption DEF At
    <3>. QED
      BY <3>8, <3>9
  <2>. QED
    BY <2>2, <2>3
<1>4. Keeps(v, w)
  BY <1>2, <1>3, ActorsStay
<1>. QED
  BY <1>1, <1>4

(* A worker that moves has a message.                                       *)
LEMMA MovingKeeps ==
  ASSUME NEW v, LogOK(v), View(v), NEW p \in Producer, NEW s, NEW x, DOMAIN x = Fields,
         SameActors(v, x), x.at = v.at, x.failed = v.failed, x.chart = v.chart,
         ~IsItem(p) => Current(v, p) # NoMessage /\ x.pending[p] = 0,
         \A e \in Endpoint : \A i \in 1 .. Workers[e] :
           x.pending[Worker(e, i)] = v.pending[Worker(e, i)] \/ x.pending[Worker(e, i)] = 0,
         NEW w, w = Goes(x, p, s)
  PROVE  Keeps(v, w)
<1>1. DOMAIN x.at = Endpoint /\ \A e \in Endpoint : DOMAIN x.at[e] = 1 .. Workers[e]
  BY DEF View, ActorsOK
<1>2. Moving(x, w, p, s)
  BY <1>1, Going
<1>3. SameActors(v, w) /\ OwnerOn(v, w) /\ w.failed = v.failed
  BY <1>2 DEF Moving, SameActors, OwnerOn
<1>4. ASSUME NEW e \in Endpoint, NEW i \in 1 .. Workers[e]
      PROVE  /\ w.at[e][i] = v.at[e][i] \/ v.current[e][i] # NoMessage
             /\ w.pending[Worker(e, i)] # 0 => Kind[w.at[e][i]] = "work"
  <2>1. CASE Worker(e, i) = p
    <3>1. ~IsItem(p) /\ p[2] = e /\ p[3] = i
      BY <2>1, Producers DEF Worker
    <3>. QED
      BY <2>1, <3>1, <1>2 DEF Current, Moving
  <2>2. CASE Worker(e, i) # p
    <3>1. w.at[e][i] = v.at[e][i] /\ w.pending = x.pending
      BY <1>2, <2>2 DEF Moving
    <3>2. v.pending[Worker(e, i)] # 0 => Kind[v.at[e][i]] = "work"
      BY DEF LogOK, WorkersOK
    <3>. QED
      BY <3>1, <3>2
  <2>. QED
    BY <2>1, <2>2
<1>. QED
  BY <1>3, <1>4, ActorsStay

LEMMA CompleteKeeps ==
  ASSUME NEW v, LogOK(v), View(v), NEW u, UnitFits(u), ~Rejects(v, u), u.type = "complete"
  PROVE  Keeps(v, Project(v, u))
<1>1. PICK w : w = Project(v, u)
  OBVIOUS
<1>2. u.p \in Producer /\ u.at \in State /\ u.to \in State \cup {"abort"}
  BY DEF UnitFits, UnitOK
<1>3. CASE At(v, u.p) # u.at
  <2>1. w = v
    BY <1>1, <1>3 DEF Project
  <2>2. SameActors(v, v) /\ OwnerOn(v, v)
    BY DEF SameActors, OwnerOn
  <2>3. \A e \in Endpoint : \A i \in 1 .. Workers[e] : v.pending[Worker(e, i)] # 0 => Kind[v.at[e][i]] = "work"
    BY DEF LogOK, WorkersOK
  <2>4. Keeps(v, v)
    BY <2>2, <2>3, ActorsStay
  <2>. QED
    BY <1>1, <2>1, <2>4
<1>4. CASE At(v, u.p) = u.at /\ u.to = "abort"
  <2>1. IsItem(u.p)
    BY <1>4 DEF UnitFits
  <2>2. At(v, u.p) # "none" /\ u.p[2] \in Key /\ u.p = Item(u.p[2])
    BY <1>2, <1>4, <2>1, Producers, FanOutAssumption
  <2>3. v.chart = "each"
    BY <2>2, NobodyThere DEF View
  <2>4. w = Leave(v)
    BY <1>1, <1>4 DEF Project
  <2>5. /\ SameActors(v, w) /\ w.at = v.at /\ w.failed = v.failed /\ w.chart = "map"
        /\ w.pending = [p \in Producer |-> IF IsItem(p) THEN 0 ELSE v.pending[p]]
    BY <2>4 DEF Leave, View, Fields, SameActors
  <2>6. OwnerOn(v, w)
    BY <2>3, <2>5 DEF OwnerOn
  <2>7. \A e \in Endpoint : \A i \in 1 .. Workers[e] : w.pending[Worker(e, i)] # 0 => Kind[w.at[e][i]] = "work"
    <3>1. \A e \in Endpoint : \A i \in 1 .. Workers[e] : w.pending[Worker(e, i)] = v.pending[Worker(e, i)]
      BY <2>5, Producers
    <3>. QED
      BY <2>5, <3>1 DEF LogOK, WorkersOK
  <2>8. Keeps(v, w)
    BY <2>5, <2>6, <2>7, ActorsStay, SMTT(60)
  <2>. QED
    BY <1>1, <2>8
<1>5. CASE At(v, u.p) = u.at /\ u.to # "abort"
  <2>1. PICK x : x = [v EXCEPT !.pending[u.p] = 0]
    OBVIOUS
  <2>2. w = Goes(x, u.p, u.to)
    BY <1>1, <1>5, <2>1 DEF Project
  <2>3. /\ DOMAIN x = Fields /\ SameActors(v, x) /\ x.at = v.at /\ x.failed = v.failed /\ x.chart = v.chart
        /\ x.pending = [v.pending EXCEPT ![u.p] = 0]
    BY <2>1 DEF View, Fields, SameActors
  <2>4. x.pending[u.p] = 0 /\ \A p \in Producer : x.pending[p] = v.pending[p] \/ x.pending[p] = 0
    BY <1>2, <2>3 DEF View, ItemsOK
  <2>5. \A e \in Endpoint : \A i \in 1 .. Workers[e] :
          x.pending[Worker(e, i)] = v.pending[Worker(e, i)] \/ x.pending[Worker(e, i)] = 0
    BY <2>4, Producers
  <2>6. ASSUME ~IsItem(u.p)
        PROVE  Current(v, u.p) # NoMessage
    <3>1. PICK e \in Endpoint, i \in Nat : e = u.p[2] /\ i = u.p[3] /\ i \in 1 .. Workers[e] /\ u.p = Worker(e, i)
      BY <1>2, <2>6, Producers
    <3>2. v.pending[Worker(e, i)] # 0
      BY <1>5, <3>1 DEF Rejects
    <3>3. Kind[v.at[e][i]] = "work"
      BY <3>1, <3>2 DEF LogOK, WorkersOK
    <3>4. v.current[e][i] # NoMessage
      BY <3>1, <3>3 DEF LogOK, WorkersOK
    <3>. QED
      BY <3>1, <3>4 DEF Current
  <2>7. Keeps(v, w)
    BY <1>2, <2>2, <2>3, <2>4, <2>5, <2>6, MovingKeeps
  <2>. QED
    BY <1>1, <2>7
<1>. QED
  BY <1>3, <1>4, <1>5

LEMMA StatusKeeps ==
  ASSUME NEW v, LogOK(v), View(v), NEW e \in Endpoint, NEW s \in {"open", "closing", "stopped"},
         NEW w, w = [v EXCEPT !.status[e] = s],
         s = "open" => v.status[e] = "none" /\ v.chart # "done",
         s = "closing" => v.status[e] \notin {"none", "stopped"} /\ v.chart \in {"end", "done"},
         s = "stopped" => v.chart \in {"end", "done"} /\ Quiescent(v, e) /\ \A c \in v.calls : To[c.at] # e
  PROVE  Keeps(v, w) /\ View(w)
<1>1. /\ DOMAIN w = Fields /\ w.status = [v.status EXCEPT ![e] = s] /\ w.mailbox = v.mailbox /\ w.at = v.at
      /\ w.current = v.current /\ w.sends = v.sends /\ w.calls = v.calls /\ w.settled = v.settled
      /\ w.chart = v.chart /\ w.failed = v.failed /\ w.pending = v.pending /\ w.leaves = v.leaves
      /\ w.visits = v.visits /\ w.rounds = v.rounds
  BY DEF View, Fields
<1>2. View(w)
  <2>1. SameItems(v, w)
    BY <1>1 DEF SameItems, View, ItemsOK
  <2>2. ActorsOK(w)
    BY <1>1 DEF View, ActorsOK
  <2>. QED
    BY <1>1, <2>1, <2>2, ActorsMove
<1>3. /\ \A f \in Endpoint : InBox(w, f) = InBox(v, f) /\ InHands(w, f) = InHands(v, f) /\ Busy(w, f) = Busy(v, f)
      /\ \A f \in Endpoint : Quiescent(w, f) = Quiescent(v, f)
  BY <1>1 DEF InBox, InHands, Busy, Quiescent
<1>4. \A m : Proper(w, m) = Proper(v, m)
  BY <1>1 DEF Proper
<1>5. OpenOK(w) /\ SettledOK(w)
  BY <1>1, <1>3, <1>4 DEF OpenOK, SettledOK, LogOK
<1>6. CallsOK(w)
  <2>1. \A c \in v.calls : To[c.at] \in Endpoint
    BY FanOutAssumption DEF View, ActorsOK, Asking, Calls, Of
  <2>. QED
    BY <1>1, <1>3, <2>1 DEF CallsOK, LogOK
<1>7. WorkersOK(w)
  BY <1>1 DEF WorkersOK, LogOK
<1>8. \A f \in Endpoint : w.status[f] = IF f = e THEN s ELSE v.status[f]
  BY <1>1 DEF View, ActorsOK
<1>9. ASSUME v.chart = "done"
      PROVE  Released(w)
  <2>1. \A f \in Endpoint : v.status[f] \in {"none", "stopped"}
    BY <1>9 DEF LogOK, StatusOK, Released
  <2>2. s = "stopped"
    BY <2>1, <1>9
  <2>. QED
    BY <2>1, <2>2, <1>8 DEF Released
<1>10. ASSUME NEW f \in Endpoint
       PROVE  /\ w.status[f] \in {"none", "stopped"} => Quiescent(w, f) /\ \A c \in w.calls : To[c.at] # f
              /\ w.status[f] \in {"closing", "stopped"} => w.chart \in {"end", "done"}
  <2>1. CASE f = e
    BY <2>1, <1>1, <1>3, <1>8
  <2>2. CASE f # e
    BY <2>2, <1>1, <1>3, <1>8 DEF LogOK, StatusOK
  <2>. QED
    BY <2>1, <2>2
<1>11. StatusOK(w)
  BY <1>1, <1>9, <1>10 DEF StatusOK
<1>12. \A f \in Endpoint : Stuck(w, f) = Stuck(v, f)
  BY <1>1, <1>3 DEF Stuck, Takes
<1>13. FailureOK(w)
  BY <1>1, <1>12 DEF FailureOK, LogOK
<1>14. Further(v, w)
  <2>1. \A p \in Producer : v.sends[p] <= w.sends[p]
    BY <1>1 DEF View, ActorsOK
  <2>. QED
    BY <1>1, <1>8, <1>12, <2>1 DEF Further
<1>. QED
  BY <1>2, <1>5, <1>6, <1>7, <1>11, <1>13, <1>14 DEF Keeps, LogOK

LEMMA FurtherOn ==
  ASSUME NEW v, NEW x, NEW w, View(v), View(x), View(w), Further(v, x), Further(x, w)
  PROVE  Further(v, w)
<1>1. \A p \in Producer : /\ v.sends[p] \in Nat /\ x.sends[p] \in Nat /\ w.sends[p] \in Nat
                          /\ v.sends[p] <= x.sends[p] /\ x.sends[p] <= w.sends[p]
  BY DEF Further, View, ActorsOK
<1>2. \A p \in Producer : v.sends[p] <= w.sends[p]
  BY <1>1
<1>3. ASSUME NEW c \in w.calls, c \notin v.calls
      PROVE  c.visit > v.sends[c.from]
  <2>1. c.from \in Producer /\ c.visit \in Nat
    BY DEF View, ActorsOK, Asking, Calls
  <2>2. CASE c \in x.calls
    BY <1>3, <2>2 DEF Further
  <2>3. CASE c \notin x.calls
    <3>1. c.visit > x.sends[c.from]
      BY <2>3 DEF Further
    <3>. QED
      BY <3>1, <2>1, <1>1
  <2>. QED
    BY <2>2, <2>3
<1>. QED
  BY <1>2, <1>3 DEF Further

LEMMA ScopeKeeps ==
  ASSUME NEW v, LogOK(v), View(v), NEW u, UnitFits(u), Legal(v, u), ~Rejects(v, u),
         u.type \in {"created", "closing", "stopped"}
  PROVE  Keeps(v, Project(v, u))
<1>1. PICK w : w = Project(v, u)
  OBVIOUS
<1>2. PICK e \in Endpoint : e = u.e
  BY DEF UnitFits, UnitOK
<1>3. CASE u.type = "created"
  <2>1. w = [v EXCEPT !.status[e] = "open"] /\ v.status[e] = "none" /\ v.chart # "done"
    BY <1>1, <1>2, <1>3 DEF Project, Rejects
  <2>2. Keeps(v, w)
    BY <2>1, StatusKeeps
  <2>. QED
    BY <1>1, <2>2
<1>4. CASE u.type = "closing"
  <2>1. w = [v EXCEPT !.status[e] = "closing"] /\ v.status[e] \notin {"none", "stopped"} /\ v.chart \in {"end", "done"}
    BY <1>1, <1>2, <1>4 DEF Project, Rejects, Legal
  <2>2. Keeps(v, w)
    BY <2>1, StatusKeeps
  <2>. QED
    BY <1>1, <2>2
<1>5. CASE u.type = "stopped"
  <2>1. PICK x : x = [v EXCEPT !.status[e] = "stopped"]
    OBVIOUS
  <2>2. w = CompleteParallels(x) /\ Quiescent(v, e) /\ v.chart \in {"end", "done"}
    BY <1>1, <1>2, <1>5, <2>1 DEF Project, Rejects, Legal, Quiescent
  <2>3. ASSUME NEW c \in v.calls, To[c.at] = e
        PROVE  FALSE
    <3>1. InBox(v, e) = {} /\ InHands(v, e) = {}
      <4>1. DOMAIN <<>> = {}
        OBVIOUS
      <4>2. Range(<<>>) = {}
        BY <4>1 DEF Range
      <4>. QED
        BY <2>2, <4>2 DEF Quiescent, Busy, InBox, InHands
    <3>2. Members(c) \subseteq v.settled
      BY <2>3, <3>1 DEF LogOK, CallsOK
    <3>. QED
      BY <2>3, <3>2, <1>2, <1>5 DEF Legal
  <2>4. Keeps(v, x) /\ View(x)
    BY <2>1, <2>2, <2>3, StatusKeeps
  <2>5. SameActors(x, w) /\ OwnerOn(x, w) /\ w.at = x.at /\ w.pending = x.pending /\ w.failed = x.failed
    BY <2>2, <2>4, Completes DEF View
  <2>6. \A f \in Endpoint : \A i \in 1 .. Workers[f] : w.pending[Worker(f, i)] # 0 => Kind[w.at[f][i]] = "work"
    BY <2>4, <2>5 DEF Keeps, LogOK, WorkersOK
  <2>7. Keeps(x, w)
    BY <2>4, <2>5, <2>6, ActorsStay DEF Keeps
  <2>8. View(w)
    BY <1>1, <1>5, StoppedStep DEF StepOf
  <2>9. Keeps(v, w)
    BY <2>4, <2>7, <2>8, FurtherOn DEF Keeps
  <2>. QED
    BY <1>1, <2>9
<1>. QED
  BY <1>3, <1>4, <1>5

LEMMA AcceptKeeps ==
  ASSUME NEW v, LogOK(v), View(v), MailOK(v), NEW u, UnitFits(u), ~Rejects(v, u), u.type = "accepted"
  PROVE  Keeps(v, Project(v, u))
<1>1. PICK w : w = Project(v, u)
  OBVIOUS
<1>2. PICK e \in Endpoint, i \in Nat, msg \in Messages : e = u.e /\ i = u.i /\ i \in 1 .. Workers[e] /\ msg = u.msg
  BY FanOutAssumption DEF UnitFits, UnitOK
<1>3. PICK s : s = On[v.at[e][i]][Says[msg.at]]
  OBVIOUS
<1>4. w = [v EXCEPT !.mailbox[e] = Tail(@), !.current[e][i] = msg, !.at[e][i] = On[@][Says[msg.at]]]
  BY <1>1, <1>2 DEF Project
<1>5. /\ DOMAIN v.at = Endpoint /\ DOMAIN v.current = Endpoint
      /\ \A f \in Endpoint : v.at[f] \in [1 .. Workers[f] -> State]
                             /\ v.current[f] \in [1 .. Workers[f] -> Messages \cup {NoMessage}]
      /\ v.mailbox \in [Endpoint -> Seq(Messages)]
  BY DEF View, ActorsOK
<1>6. /\ w.status = v.status /\ w.mailbox = [v.mailbox EXCEPT ![e] = Tail(@)]
      /\ w.at = [v.at EXCEPT ![e][i] = s] /\ w.current = [v.current EXCEPT ![e][i] = msg]
      /\ w.sends = v.sends /\ w.calls = v.calls /\ w.settled = v.settled
      /\ w.chart = v.chart /\ w.failed = v.failed /\ w.pending = v.pending
  BY <1>2, <1>3, <1>4, <1>5 DEF View, Fields
<1>7. /\ v.mailbox[e] # <<>> /\ Head(v.mailbox[e]) = msg /\ v.current[e][i] = NoMessage
      /\ Takes(v, e, i, msg) /\ v.status[e] # "stopped"
  BY <1>2 DEF Rejects, Busy
<1>8. msg # NoMessage /\ Kind[v.at[e][i]] = "receive"
  BY <1>7, FanOutAssumption DEF Messages, NoMessage, Takes
<1>9. /\ \A f \in Endpoint : w.mailbox[f] = IF f = e THEN Tail(v.mailbox[e]) ELSE v.mailbox[f]
      /\ \A f \in Endpoint : \A j \in 1 .. Workers[f] :
           w.current[f][j] = IF f = e /\ j = i THEN msg ELSE v.current[f][j]
      /\ \A f \in Endpoint : \A j \in 1 .. Workers[f] : w.at[f][j] = IF f = e /\ j = i THEN s ELSE v.at[f][j]
  <2>1. \A f \in Endpoint : w.mailbox[f] = IF f = e THEN Tail(v.mailbox[e]) ELSE v.mailbox[f]
    BY <1>5, <1>6
  <2>2. \A f \in Endpoint : \A j \in 1 .. Workers[f] :
           w.current[f][j] = IF f = e /\ j = i THEN msg ELSE v.current[f][j]
    <3>1. PICK a, b : a = v.current /\ b = w.current
      OBVIOUS
    <3>2. DOMAIN a = Endpoint /\ (\A f \in Endpoint : DOMAIN a[f] = 1 .. Workers[f]) /\ b = [a EXCEPT ![e][i] = msg]
      BY <1>5, <1>6, <3>1
    <3>3. \A f \in Endpoint : \A j \in 1 .. Workers[f] : b[f][j] = IF f = e /\ j = i THEN msg ELSE a[f][j]
      BY <1>2, <3>2, OneWorker
    <3>. QED
      BY <3>1, <3>3
  <2>3. \A f \in Endpoint : \A j \in 1 .. Workers[f] : w.at[f][j] = IF f = e /\ j = i THEN s ELSE v.at[f][j]
    <3>1. PICK a, b : a = v.at /\ b = w.at
      OBVIOUS
    <3>2. DOMAIN a = Endpoint /\ (\A f \in Endpoint : DOMAIN a[f] = 1 .. Workers[f]) /\ b = [a EXCEPT ![e][i] = s]
      BY <1>5, <1>6, <3>1
    <3>3. \A f \in Endpoint : \A j \in 1 .. Workers[f] : b[f][j] = IF f = e /\ j = i THEN s ELSE a[f][j]
      BY <1>2, <3>2, OneWorker
    <3>. QED
      BY <3>1, <3>3
  <2>. QED
    BY <2>1, <2>2, <2>3
<1>10. InBox(v, e) = {msg} \cup InBox(w, e) /\ msg \notin InBox(w, e)
  <2>1. \A j, k \in 1 .. Len(v.mailbox[e]) : v.mailbox[e][j] = v.mailbox[e][k] => j = k
    BY DEF MailOK
  <2>. QED
    <3>1. PICK b \in Seq(Messages) : b = v.mailbox[e]
      BY <1>5
    <3>2. b # <<>> /\ Head(b) = msg /\ w.mailbox[e] = Tail(b) /\ \A j, k \in 1 .. Len(b) : b[j] = b[k] => j = k
      BY <2>1, <3>1, <1>7, <1>9
    <3>3. Range(b) = {Head(b)} \cup Range(Tail(b)) /\ Head(b) \notin Range(Tail(b))
      BY <3>2, BoxShorter
    <3>4. InBox(v, e) = Range(b) /\ InBox(w, e) = Range(Tail(b))
      BY <3>1, <3>2 DEF InBox
    <3>. QED
      BY <3>2, <3>3, <3>4
<1>11. InHands(w, e) = InHands(v, e) \cup {msg}
  <2>1. \A j \in 1 .. Workers[e] : w.current[e][j] = IF j = i THEN msg ELSE v.current[e][j]
    BY <1>9
  <2>. QED
    BY <2>1, <1>2, <1>7, <1>8 DEF InHands
<1>12. ASSUME NEW f \in Endpoint, f # e
       PROVE  /\ InBox(w, f) = InBox(v, f) /\ InHands(w, f) = InHands(v, f) /\ Busy(w, f) = Busy(v, f)
              /\ w.mailbox[f] = v.mailbox[f] /\ \A j \in 1 .. Workers[f] : w.at[f][j] = v.at[f][j]
              /\ \A j \in 1 .. Workers[f] : w.current[f][j] = v.current[f][j]
  <2>1. /\ w.mailbox[f] = v.mailbox[f] /\ \A j \in 1 .. Workers[f] : w.at[f][j] = v.at[f][j]
        /\ \A j \in 1 .. Workers[f] : w.current[f][j] = v.current[f][j]
    BY <1>9, <1>12
  <2>. QED
    BY <2>1 DEF InBox, InHands, Busy
<1>13. \A m : Proper(w, m) = Proper(v, m)
  BY <1>6 DEF Proper
<1>14. \A f \in Endpoint : InBox(w, f) \cup InHands(w, f) = InBox(v, f) \cup InHands(v, f)
  BY <1>10, <1>11, <1>12
<1>15. OpenOK(w)
  <2>1. ASSUME NEW f \in Endpoint, NEW m \in InBox(w, f) \cup InHands(w, f)
        PROVE  Proper(w, m) /\ To[m.at] = f /\ (Asks(m) => CallOf(m) \in w.calls /\ m \notin w.settled)
    <3>1. m \in InBox(v, f) \cup InHands(v, f)
      BY <1>14, <2>1
    <3>. QED
      BY <3>1, <1>6, <1>13 DEF LogOK, OpenOK
  <2>2. ASSUME NEW f \in Endpoint
        PROVE  /\ InBox(w, f) \cap InHands(w, f) = {}
               /\ \A j, k \in 1 .. Workers[f] : w.current[f][j] = w.current[f][k] /\ w.current[f][j] # NoMessage => j = k
    <3>1. /\ InBox(v, f) \cap InHands(v, f) = {}
          /\ \A j, k \in 1 .. Workers[f] : v.current[f][j] = v.current[f][k] /\ v.current[f][j] # NoMessage => j = k
      BY DEF LogOK, OpenOK
    <3>2. CASE f # e
      BY <3>1, <3>2, <1>12
    <3>3. CASE f = e
      <4>1. \A j \in 1 .. Workers[e] : v.current[e][j] # msg
        <5>1. \A j \in 1 .. Workers[e] : v.current[e][j] = msg => msg \in InHands(v, e)
          BY <1>8 DEF InHands
        <5>. QED
          BY <5>1, <3>1, <3>3, <1>10
      <4>2. \A j \in 1 .. Workers[e] : w.current[e][j] = IF j = i THEN msg ELSE v.current[e][j]
        BY <1>9
      <4>3. \A j, k \in 1 .. Workers[e] : w.current[e][j] = w.current[e][k] /\ w.current[e][j] # NoMessage => j = k
        BY <4>1, <4>2, <3>1, <3>3
      <4>. QED
        BY <4>3, <3>1, <3>3, <1>10, <1>11
    <3>. QED
      BY <3>2, <3>3
  <2>. QED
    BY <2>1, <2>2 DEF OpenOK
<1>16. SettledOK(w)
  BY <1>6, <1>13 DEF LogOK, SettledOK
<1>17. CallsOK(w)
  <2>1. \A c \in v.calls : To[c.at] \in Endpoint
    BY FanOutAssumption DEF View, ActorsOK, Asking, Calls, Of
  <2>2. \A c \in v.calls : c.visit <= v.sends[c.from] /\ Members(c) \subseteq InBox(v, To[c.at]) \cup InHands(v, To[c.at]) \cup v.settled
    BY DEF LogOK, CallsOK
  <2>. QED
    BY <2>1, <2>2, <1>6, <1>14 DEF CallsOK
<1>18. WorkersOK(w)
  <2>1. ASSUME NEW f \in Endpoint, NEW j \in 1 .. Workers[f]
        PROVE  /\ w.current[f][j] = NoMessage => Kind[w.at[f][j]] = "receive"
               /\ w.pending[Worker(f, j)] # 0 => Kind[w.at[f][j]] = "work"
    <3>1. /\ v.current[f][j] = NoMessage => Kind[v.at[f][j]] = "receive"
          /\ v.pending[Worker(f, j)] # 0 => Kind[v.at[f][j]] = "work"
      BY DEF LogOK, WorkersOK
    <3>2. CASE f = e /\ j = i
      BY <3>1, <3>2, <1>6, <1>8, <1>9
    <3>3. CASE ~(f = e /\ j = i)
      BY <3>1, <3>3, <1>6, <1>9
    <3>. QED
      BY <3>2, <3>3
  <2>. QED
    BY <2>1 DEF WorkersOK
<1>19. StatusOK(w)
  <2>1. v.status[e] \notin {"none", "stopped"}
    BY <1>7 DEF LogOK, StatusOK, Quiescent
  <2>2. \A f \in Endpoint \ {e} : Quiescent(w, f) = Quiescent(v, f)
    BY <1>12 DEF Quiescent
  <2>3. Released(w) = Released(v)
    BY <1>6 DEF Released
  <2>. QED
    BY <2>1, <2>2, <2>3, <1>6 DEF LogOK, StatusOK
<1>20. ASSUME NEW f \in Endpoint, Stuck(v, f)
       PROVE  Stuck(w, f)
  <2>1. f # e
    BY <1>2, <1>7, <1>20 DEF Stuck
  <2>2. \A j \in 1 .. Workers[f] : \A m : Takes(w, f, j, m) = Takes(v, f, j, m)
    BY <2>1, <1>12 DEF Takes
  <2>. QED
    BY <2>1, <2>2, <1>12, <1>20 DEF Stuck
<1>21. FailureOK(w)
  BY <1>6, <1>20 DEF LogOK, FailureOK
<1>22. Further(v, w)
  <2>1. \A p \in Producer : v.sends[p] <= w.sends[p]
    BY <1>6 DEF View, ActorsOK
  <2>. QED
    BY <1>6, <1>20, <2>1 DEF Further
<1>. QED
  BY <1>1, <1>15, <1>16, <1>17, <1>18, <1>19, <1>21, <1>22 DEF Keeps, LogOK

LEMMA HeldAre ==
  ASSUME NEW v, View(v), NEW e \in Endpoint
  PROVE  InBox(v, e) \subseteq Messages /\ InHands(v, e) \subseteq Messages
<1>1. v.mailbox[e] \in Seq(Messages) /\ v.current[e] \in [1 .. Workers[e] -> Messages \cup {NoMessage}]
  BY DEF View, ActorsOK
<1>2. \A i \in 1 .. Workers[e] : v.current[e][i] \in Messages \cup {NoMessage}
  BY <1>1
<1>3. InHands(v, e) \subseteq Messages
  BY <1>2 DEF InHands
<1>4. \A s \in Seq(Messages) : Range(s) \subseteq Messages
  BY DEF Range
<1>. QED
  BY <1>1, <1>3, <1>4 DEF InBox

Posted(v, x, p, s, n) ==
  /\ DOMAIN x = Fields /\ SameItems(v, x) /\ x.failed = v.failed /\ x.at = v.at /\ x.current = v.current
  /\ x.status = v.status /\ x.settled = v.settled
  /\ x.mailbox = [v.mailbox EXCEPT ![To[s]] = @ \o Batch(p, s, n)] /\ x.sends = [v.sends EXCEPT ![p] = n]
  /\ x.calls = v.calls \cup (IF Kind[s] = "call" THEN {Call(p, s, n)} ELSE {})

LEMMA PostKeeps ==
  ASSUME NEW v, LogOK(v), View(v), NEW p \in Producer, NEW s \in Of({"send", "call"}), NEW n, n = v.sends[p] + 1,
         v.status[To[s]] \notin {"none", "stopped"},
         NEW x, Posted(v, x, p, s, n)
  PROVE  Keeps(v, x) /\ View(x)
<1>0. /\ DOMAIN x = Fields /\ SameItems(v, x) /\ x.failed = v.failed /\ x.at = v.at /\ x.current = v.current
      /\ x.status = v.status /\ x.settled = v.settled
      /\ x.mailbox = [v.mailbox EXCEPT ![To[s]] = @ \o Batch(p, s, n)] /\ x.sends = [v.sends EXCEPT ![p] = n]
      /\ x.calls = v.calls \cup (IF Kind[s] = "call" THEN {Call(p, s, n)} ELSE {})
  BY DEF Posted
<1>1. PICK e \in Endpoint, c \in Calls : e = To[s] /\ c = Call(p, s, n)
  <2>1. To[s] \in Endpoint /\ s \in State
    BY FanOutAssumption DEF Of
  <2>2. n \in Nat
    BY <1>0 DEF View, ActorsOK
  <2>3. Call(p, s, n) \in Calls
    BY <1>0, <2>1, <2>2 DEF Call, Calls
  <2>. QED
    BY <1>0, <2>1, <2>3
<1>2. /\ c.from = p /\ c.at = s /\ c.visit = n /\ c.at \in DOMAIN To /\ s \in State /\ n \in Nat
      /\ v.sends \in [Producer -> Nat] /\ v.mailbox \in [Endpoint -> Seq(Messages)] /\ v.settled \subseteq Messages
      /\ \A d \in v.calls : d.from \in Producer /\ d.visit \in Nat /\ To[d.at] \in Endpoint
  BY <1>0, <1>1, FanOutAssumption, SMTT(60) DEF Call, Of, View, ActorsOK, Asking, Calls
<1>3. PICK b : b = Batch(p, s, n)
  OBVIOUS
<1>4. PICK B : B = Members(c)
  OBVIOUS
<1>5. /\ \A m \in B : m \in Messages /\ CallOf(m) = c /\ m.index \in 1 .. Count[s] /\ m.from = p /\ m.at = s /\ m.visit = n
  BY <1>0, <1>1, <1>2, <1>4, MembersAre, SMTT(60)
<1>6. b \in Seq(Messages) /\ Range(b) = B
  <2>1. Count[s] \in Nat /\ Range(b) = B
    BY <1>0, <1>2, <1>3, <1>4, FanOutAssumption DEF Members
  <2>2. b = [j \in 1 .. Count[s] |-> Message(p, s, n, j)]
    BY <1>0, <1>3 DEF Batch
  <2>3. \A j \in 1 .. Count[s] : Message(p, s, n, j) \in Messages
    BY <1>0, <1>2, <2>1 DEF Message, Messages
  <2>4. b \in Seq(Messages)
    BY <1>0, <2>1, <2>2, <2>3
  <2>. QED
    BY <1>0, <2>1, <2>4
<1>7. /\ \A f \in Endpoint : x.mailbox[f] = IF f = e THEN v.mailbox[e] \o b ELSE v.mailbox[f]
      /\ \A q \in Producer : x.sends[q] = IF q = p THEN n ELSE v.sends[q]
  BY <1>0, <1>1, <1>2, <1>3
<1>8. \A q \in Producer : v.sends[q] <= x.sends[q]
  BY <1>0, <1>2, <1>7
<1>9. View(x)
  <2>1. v.mailbox[e] \o b \in Seq(Messages)
    BY <1>0, <1>2, <1>6
  <2>2. x.mailbox \in [Endpoint -> Seq(Messages)] /\ x.sends \in [Producer -> Nat]
    BY <1>0, <2>1, <1>1, <1>2, <1>3
  <2>3. x.calls \subseteq Asking /\ IsFiniteSet(x.calls)
    <3>1. Kind[s] = "call" => c \in Asking
      BY <1>0, <1>2 DEF Asking
    <3>2. v.calls \subseteq Asking /\ IsFiniteSet(v.calls) /\ IsFiniteSet(v.calls \cup {c})
      BY FS_AddElement DEF View, ActorsOK
    <3>. QED
      BY <1>0, <3>1, <3>2, <1>1
  <2>4. ActorsOK(x)
    BY <1>0, <2>2, <2>3 DEF View, ActorsOK
  <2>. QED
    BY <1>0, <2>4, ActorsMove
<1>10. /\ InBox(x, e) = InBox(v, e) \cup B
       /\ \A f \in Endpoint : InHands(x, f) = InHands(v, f) /\ Busy(x, f) = Busy(v, f)
       /\ \A f \in Endpoint \ {e} : x.mailbox[f] = v.mailbox[f] /\ InBox(x, f) = InBox(v, f)
  <2>1. InBox(x, e) = InBox(v, e) \cup B
    <3>0. PICK a \in Seq(Messages) : a = v.mailbox[e]
      BY <1>0, <1>2
    <3>1. PICK t : t = a \o b
      OBVIOUS
    <3>2. Range(t) = Range(a) \cup Range(b)
      BY <1>0, <3>0, <3>1, <1>6, BoxLonger
    <3>3. x.mailbox[e] = t
      BY <1>0, <3>0, <3>1, <1>7
    <3>. QED
      BY <1>0, <3>0, <3>1, <3>2, <3>3, <1>6 DEF InBox
  <2>2. \A f \in Endpoint : InHands(x, f) = InHands(v, f) /\ Busy(x, f) = Busy(v, f)
    BY <1>0 DEF InHands, Busy
  <2>3. \A f \in Endpoint \ {e} : x.mailbox[f] = v.mailbox[f]
    BY <1>0, <1>7
  <2>. QED
    BY <1>0, <2>1, <2>2, <2>3 DEF InBox
<1>11. ASSUME NEW f \in Endpoint, NEW m \in InBox(v, f) \cup InHands(v, f)
       PROVE  m \in Messages /\ Proper(v, m) /\ To[m.at] = f /\ (Asks(m) => CallOf(m) \in v.calls /\ m \notin v.settled)
  <2>1. m \in Messages
    BY <1>0, <1>11, HeldAre
  <2>. QED
    BY <1>0, <2>1, <1>11 DEF LogOK, OpenOK
<1>12. ASSUME NEW m \in Messages, Proper(v, m)
       PROVE  Proper(x, m) /\ m \notin B
  <2>1. m.from \in Producer /\ m.visit \in Nat /\ m.visit <= v.sends[m.from] /\ v.sends[m.from] \in Nat /\ x.sends[m.from] \in Nat
    BY <1>0, <1>2, <1>7, <1>12 DEF Messages, Proper
  <2>2. m.visit <= x.sends[m.from]
    BY <1>0, <2>1, <1>8
  <2>3. m \notin B
    BY <1>0, <2>1, <1>2, <1>5
  <2>. QED
    BY <1>0, <2>2, <2>3, <1>12 DEF Proper
<1>13. ASSUME NEW m \in B
       PROVE  /\ Proper(x, m) /\ To[m.at] = e /\ m \notin v.settled
              /\ Asks(m) => CallOf(m) \in x.calls
  <2>1. Proper(x, m)
    BY <1>0, <1>2, <1>5, <1>7 DEF Proper
  <2>2. m \notin v.settled
    <3>1. \A k \in v.settled : Proper(v, k) /\ k \in Messages
      BY <1>0, <1>2 DEF LogOK, SettledOK
    <3>. QED
      BY <1>0, <3>1, <1>12
  <2>3. Asks(m) => CallOf(m) \in x.calls
    BY <1>0, <1>1, <1>5 DEF Asks
  <2>. QED
    BY <1>0, <2>1, <2>2, <2>3, <1>1, <1>5
<1>14. OpenOK(x)
  <2>1. ASSUME NEW f \in Endpoint, NEW m \in InBox(x, f) \cup InHands(x, f)
        PROVE  Proper(x, m) /\ To[m.at] = f /\ (Asks(m) => CallOf(m) \in x.calls /\ m \notin x.settled)
    <3>1. m \in InBox(v, f) \cup InHands(v, f) \/ (f = e /\ m \in B)
      BY <1>0, <2>1, <1>10
    <3>2. CASE m \in InBox(v, f) \cup InHands(v, f)
      BY <1>0, <3>2, <1>11, <1>12
    <3>3. CASE f = e /\ m \in B
      BY <1>0, <3>3, <1>13
    <3>. QED
      BY <1>0, <3>1, <3>2, <3>3
  <2>2. ASSUME NEW f \in Endpoint
        PROVE  /\ InBox(x, f) \cap InHands(x, f) = {}
               /\ \A j, k \in 1 .. Workers[f] : x.current[f][j] = x.current[f][k] /\ x.current[f][j] # NoMessage => j = k
    <3>1. /\ InBox(v, f) \cap InHands(v, f) = {}
          /\ \A j, k \in 1 .. Workers[f] : v.current[f][j] = v.current[f][k] /\ v.current[f][j] # NoMessage => j = k
      BY <1>0 DEF LogOK, OpenOK
    <3>2. B \cap InHands(v, f) = {}
      BY <1>0, <1>11, <1>12
    <3>. QED
      BY <1>0, <3>1, <3>2, <1>10
  <2>. QED
    BY <1>0, <2>1, <2>2 DEF OpenOK
<1>15. SettledOK(x)
  <2>1. ASSUME NEW m \in v.settled
        PROVE  Proper(x, m) /\ Asks(m) /\ CallOf(m) \in x.calls /\ Count[m.at] > 1
    <3>1. Proper(v, m) /\ m \in Messages /\ Asks(m) /\ CallOf(m) \in v.calls /\ Count[m.at] > 1
      BY <1>0, <1>2 DEF LogOK, SettledOK
    <3>. QED
      BY <1>0, <3>1, <1>12
  <2>. QED
    BY <1>0, <2>1 DEF SettledOK
<1>16. CallsOK(x)
  <2>1. ASSUME NEW d \in v.calls
        PROVE  /\ d.visit <= x.sends[d.from]
               /\ Members(d) \subseteq InBox(x, To[d.at]) \cup InHands(x, To[d.at]) \cup x.settled
    <3>1. /\ d.visit <= v.sends[d.from]
          /\ Members(d) \subseteq InBox(v, To[d.at]) \cup InHands(v, To[d.at]) \cup v.settled
      BY <1>0 DEF LogOK, CallsOK
    <3>2. d.from \in Producer /\ d.visit \in Nat /\ To[d.at] \in Endpoint
      BY <1>0, <1>2
    <3>3. v.sends[d.from] \in Nat /\ x.sends[d.from] \in Nat /\ v.sends[d.from] <= x.sends[d.from]
      BY <1>0, <3>2, <1>2, <1>7, <1>8
    <3>4. d.visit <= x.sends[d.from]
      BY <1>0, <3>1, <3>2, <3>3
    <3>5. InBox(v, To[d.at]) \subseteq InBox(x, To[d.at]) /\ InHands(x, To[d.at]) = InHands(v, To[d.at])
      BY <1>0, <3>2, <1>10
    <3>. QED
      BY <1>0, <3>1, <3>4, <3>5
  <2>2. c.visit <= x.sends[c.from] /\ Members(c) \subseteq InBox(x, To[c.at])
    BY <1>0, <1>1, <1>2, <1>4, <1>7, <1>10
  <2>. QED
    BY <1>0, <2>1, <2>2, <1>1 DEF CallsOK
<1>17. WorkersOK(x)
  BY <1>0 DEF LogOK, WorkersOK, SameItems
<1>18. StatusOK(x)
  <2>1. \A f \in Endpoint \ {e} : Quiescent(x, f) = Quiescent(v, f)
    BY <1>0, <1>10 DEF Quiescent
  <2>2. Released(x) = Released(v)
    BY <1>0 DEF Released
  <2>3. \A d \in x.calls : d \in v.calls \/ To[d.at] = e
    BY <1>0, <1>1, <1>2
  <2>. QED
    BY <1>0, <2>1, <2>2, <2>3, <1>1 DEF LogOK, StatusOK, SameItems
<1>19. ASSUME NEW f \in Endpoint, Stuck(v, f)
       PROVE  Stuck(x, f)
  <2>1. x.mailbox[f] # <<>> /\ Head(x.mailbox[f]) = Head(v.mailbox[f])
    <3>1. PICK a \in Seq(Messages) : a = v.mailbox[f] /\ a # <<>>
      BY <1>0, <1>2, <1>19 DEF Stuck
    <3>2. a \o b # <<>> /\ Head(a \o b) = Head(a)
      BY <1>0, <3>1, <1>6
    <3>. QED
      BY <1>0, <3>1, <3>2, <1>7
  <2>2. \A j \in 1 .. Workers[f] : \A m : Takes(x, f, j, m) = Takes(v, f, j, m)
    BY <1>0 DEF Takes
  <2>3. Busy(x, f) = {}
    BY <1>0, <1>10, <1>19 DEF Stuck
  <2>4. \A j \in 1 .. Workers[f] : ~Takes(x, f, j, Head(x.mailbox[f]))
    BY <1>0, <2>1, <2>2, <1>19, ZenonT(60) DEF Stuck
  <2>. QED
    BY <1>0, <2>1, <2>3, <2>4 DEF Stuck
<1>20. FailureOK(x)
  BY <1>0, <1>19 DEF LogOK, FailureOK
<1>21. Further(v, x)
  <2>1. \A d \in x.calls : d \in v.calls \/ d.visit > v.sends[d.from]
    BY <1>0, <1>1, <1>2
  <2>. QED
    BY <1>0, <2>1, <1>8, <1>19 DEF Further, SameItems
<1>. QED
  BY <1>0, <1>9, <1>14, <1>15, <1>16, <1>17, <1>18, <1>20, <1>21 DEF Keeps, LogOK

LEMMA EnqueueKeeps ==
  ASSUME NEW v, LogOK(v), View(v), NEW u, UnitFits(u), ~Rejects(v, u), u.type = "enqueued"
  PROVE  Keeps(v, Project(v, u))
<1>1. PICK w : w = Project(v, u)
  OBVIOUS
<1>2. u.p \in Producer /\ u.visit \in Nat /\ u.at \in Of({"send", "call"}) /\ u.at \in State /\ Kind[u.at] \in {"send", "call"}
  BY FanOutAssumption DEF UnitFits, UnitOK, Of
<1>3. u.visit = v.sends[u.p] + 1 /\ v.status[To[u.at]] \notin {"none", "stopped"}
  BY <1>2 DEF Rejects
<1>4. PICK y : y = [v EXCEPT !.mailbox[To[u.at]] = @ \o Batch(u.p, u.at, u.visit), !.sends[u.p] = u.visit]
  OBVIOUS
<1>5. PICK x : x = IF Kind[u.at] = "call" THEN [y EXCEPT !.calls = @ \cup {Call(u.p, u.at, u.visit)}] ELSE y
  OBVIOUS
<1>6. /\ DOMAIN x = Fields /\ SameItems(v, x) /\ x.failed = v.failed /\ x.at = v.at /\ x.current = v.current
      /\ x.status = v.status /\ x.settled = v.settled
      /\ x.mailbox = [v.mailbox EXCEPT ![To[u.at]] = @ \o Batch(u.p, u.at, u.visit)]
      /\ x.sends = [v.sends EXCEPT ![u.p] = u.visit]
      /\ x.calls = v.calls \cup (IF Kind[u.at] = "call" THEN {Call(u.p, u.at, u.visit)} ELSE {})
  BY <1>4, <1>5 DEF View, ItemsOK, Fields, SameItems
<1>7. Keeps(v, x) /\ View(x)
  <2>1. PICK p \in Producer, s \in Of({"send", "call"}), n \in Nat : p = u.p /\ s = u.at /\ n = u.visit
    BY <1>2
  <2>2. n = v.sends[p] + 1 /\ v.status[To[s]] \notin {"none", "stopped"}
    BY <2>1, <1>3
  <2>3. Posted(v, x, p, s, n)
    BY <2>1, <1>6 DEF Posted
  <2>. QED
    BY <2>2, <2>3, PostKeeps
<1>8. CASE Kind[u.at] = "call"
  <2>1. w = x
    BY <1>1, <1>4, <1>5, <1>8 DEF Project
  <2>. QED
    BY <2>1, <1>1, <1>7
<1>9. CASE Kind[u.at] = "send"
  <2>1. w = Goes(x, u.p, Target[u.at]) /\ At(v, u.p) = u.at
    BY <1>1, <1>2, <1>4, <1>5, <1>9 DEF Project, Rejects
  <2>2. ASSUME ~IsItem(u.p)
        PROVE  Current(x, u.p) # NoMessage /\ x.pending[u.p] = 0
    <3>1. PICK e \in Endpoint, i \in Nat : e = u.p[2] /\ i = u.p[3] /\ i \in 1 .. Workers[e] /\ u.p = Worker(e, i)
      BY <1>2, <2>2, Producers
    <3>2. v.at[e][i] = u.at
      BY <1>2, <2>1, <2>2, <3>1, FanOutAssumption DEF At
    <3>3. v.current[e][i] # NoMessage /\ v.pending[Worker(e, i)] = 0
      BY <3>1, <3>2, <1>9 DEF LogOK, WorkersOK
    <3>. QED
      BY <3>1, <3>3, <1>6 DEF Current, SameItems
  <2>3. SameActors(x, x)
    BY DEF SameActors
  <2>4. Keeps(x, w)
    BY <1>2, <1>6, <1>7, <2>1, <2>2, <2>3, MovingKeeps DEF Keeps
  <2>5. View(w)
    BY <1>1, ProjectStep DEF StepOf
  <2>6. Keeps(v, w)
    BY <1>7, <2>4, <2>5, FurtherOn DEF Keeps
  <2>. QED
    BY <2>6, <1>1
<1>. QED
  BY <1>2, <1>8, <1>9

(* What was asked is settled: some messages leave the hands of workers, and *)
(* calls all of whose messages are settled are over.                        *)
Settling(v, y, out, over) ==
  /\ y.status = v.status /\ y.mailbox = v.mailbox /\ y.sends = v.sends /\ y.chart = v.chart /\ y.failed = v.failed
  /\ y.calls = v.calls \ over
  /\ y.settled = {m \in v.settled \cup {n \in out : Asks(n)} : CallOf(m) \notin over}
  /\ \A e \in Endpoint : InHands(y, e) = InHands(v, e) \ out
  /\ \A e \in Endpoint : \A i \in 1 .. Workers[e] :
       /\ y.current[e][i] = v.current[e][i] \/ y.current[e][i] = NoMessage
       /\ y.at[e][i] = v.at[e][i] \/ v.current[e][i] # NoMessage

LEMMA SettleKeeps ==
  ASSUME NEW v, LogOK(v), View(v), NEW y, NEW out, NEW over, Settling(v, y, out, over),
         \A m \in out : \E e \in Endpoint : m \in InHands(v, e),
         \A c \in over : c \in v.calls /\ Members(c) \subseteq v.settled \cup out,
         \A m \in out : Asks(m) /\ CallOf(m) \notin over => Count[m.at] > 1,
         WorkersOK(y)
  PROVE  Keeps(v, y)
<1>1. /\ y.status = v.status /\ y.mailbox = v.mailbox /\ y.sends = v.sends /\ y.chart = v.chart /\ y.failed = v.failed
      /\ y.calls = v.calls \ over
      /\ y.settled = {m \in v.settled \cup {n \in out : Asks(n)} : CallOf(m) \notin over}
      /\ \A e \in Endpoint : InHands(y, e) = InHands(v, e) \ out
  BY DEF Settling
<1>2. \A e \in Endpoint : InBox(y, e) = InBox(v, e)
  BY <1>1 DEF InBox
<1>3. \A m : Proper(y, m) = Proper(v, m)
  BY <1>1 DEF Proper
<1>4. ASSUME NEW e \in Endpoint, NEW m \in InBox(v, e) \cup InHands(v, e)
      PROVE  /\ m \in Messages /\ Proper(v, m) /\ To[m.at] = e /\ (Asks(m) => CallOf(m) \in v.calls /\ m \notin v.settled)
             /\ m \in out => m \in InHands(v, e)
  <2>1. m \in Messages /\ Proper(v, m) /\ To[m.at] = e /\ (Asks(m) => CallOf(m) \in v.calls /\ m \notin v.settled)
    BY <1>4, HeldAre DEF LogOK, OpenOK
  <2>2. ASSUME m \in out
        PROVE  m \in InHands(v, e)
    <3>1. PICK f \in Endpoint : m \in InHands(v, f)
      BY <2>2
    <3>2. To[m.at] = f
      BY <3>1 DEF LogOK, OpenOK
    <3>. QED
      BY <3>1, <3>2, <2>1
  <2>. QED
    BY <2>1, <2>2
<1>5. ASSUME NEW m \in Messages, Proper(v, m), CallOf(m) \in v.calls
      PROVE  /\ m \in Members(CallOf(m)) /\ CallOf(m).at = m.at
  <2>1. CallOf(m) \in Calls /\ CallOf(m).at = m.at
    BY <1>5 DEF CallOf, Call, Calls, Messages
  <2>. QED
    BY <2>1, <1>5, MembersAre DEF Proper
<1>6. OpenOK(y)
  <2>1. ASSUME NEW e \in Endpoint, NEW m \in InBox(y, e) \cup InHands(y, e)
        PROVE  Proper(y, m) /\ To[m.at] = e /\ (Asks(m) => CallOf(m) \in y.calls /\ m \notin y.settled)
    <3>1. m \in InBox(v, e) \cup InHands(v, e) /\ InBox(v, e) \cap InHands(v, e) = {}
      BY <2>1, <1>1, <1>2 DEF LogOK, OpenOK
    <3>2. /\ m \in Messages /\ Proper(v, m) /\ To[m.at] = e /\ (Asks(m) => CallOf(m) \in v.calls /\ m \notin v.settled)
          /\ m \in out => m \in InHands(v, e)
      BY <3>1, <1>4
    <3>3. m \notin out
      BY <3>1, <3>2, <2>1, <1>1, <1>2
    <3>4. Asks(m) => CallOf(m) \notin over
      <4>1. SUFFICES ASSUME Asks(m), CallOf(m) \in over PROVE FALSE
        OBVIOUS
      <4>2. m \in Members(CallOf(m))
        BY <4>1, <3>2, <1>5
      <4>. QED
        BY <4>1, <4>2, <3>2, <3>3
    <3>. QED
      BY <3>2, <3>3, <3>4, <1>1, <1>3
  <2>2. ASSUME NEW e \in Endpoint
        PROVE  /\ InBox(y, e) \cap InHands(y, e) = {}
               /\ \A i, j \in 1 .. Workers[e] : y.current[e][i] = y.current[e][j] /\ y.current[e][i] # NoMessage => i = j
    <3>1. /\ InBox(v, e) \cap InHands(v, e) = {}
          /\ \A i, j \in 1 .. Workers[e] : v.current[e][i] = v.current[e][j] /\ v.current[e][i] # NoMessage => i = j
      BY DEF LogOK, OpenOK
    <3>2. \A i \in 1 .. Workers[e] : y.current[e][i] = v.current[e][i] \/ y.current[e][i] = NoMessage
      BY DEF Settling
    <3>3. \A i, j \in 1 .. Workers[e] : y.current[e][i] = y.current[e][j] /\ y.current[e][i] # NoMessage => i = j
      BY <3>1, <3>2
    <3>. QED
      BY <3>1, <3>3, <1>1, <1>2
  <2>. QED
    BY <2>1, <2>2 DEF OpenOK
<1>7. SettledOK(y)
  <2>1. ASSUME NEW m \in y.settled
        PROVE  Proper(y, m) /\ Asks(m) /\ CallOf(m) \in y.calls /\ Count[m.at] > 1
    <3>1. CallOf(m) \notin over /\ (m \in v.settled \/ (m \in out /\ Asks(m)))
      BY <1>1, <2>1
    <3>2. CASE m \in v.settled
      BY <3>1, <3>2, <1>1, <1>3 DEF LogOK, SettledOK
    <3>3. CASE m \in out /\ Asks(m)
      <4>1. PICK e \in Endpoint : m \in InHands(v, e)
        BY <3>3
      <4>. QED
        BY <4>1, <3>1, <3>3, <1>1, <1>3, <1>4
    <3>. QED
      BY <3>1, <3>2, <3>3
  <2>. QED
    BY <2>1 DEF SettledOK
<1>8. CallsOK(y)
  <2>1. ASSUME NEW c \in v.calls, c \notin over
        PROVE  c.visit <= y.sends[c.from] /\ Members(c) \subseteq InBox(y, To[c.at]) \cup InHands(y, To[c.at]) \cup y.settled
    <3>1. c.visit <= v.sends[c.from] /\ Members(c) \subseteq InBox(v, To[c.at]) \cup InHands(v, To[c.at]) \cup v.settled
      BY DEF LogOK, CallsOK
    <3>2. c \in Calls /\ c.at \in DOMAIN To /\ To[c.at] \in Endpoint /\ Kind[c.at] = "call"
      BY FanOutAssumption DEF View, ActorsOK, Asking, Calls, Of
    <3>3. ASSUME NEW m \in Members(c)
          PROVE  m \in InBox(y, To[c.at]) \cup InHands(y, To[c.at]) \cup y.settled
      <4>1. CallOf(m) = c /\ m.at = c.at
        BY <3>2, MembersAre
      <4>2. Asks(m)
        BY <4>1, <3>2 DEF Asks
      <4>3. m \in InBox(v, To[c.at]) \cup InHands(v, To[c.at]) \cup v.settled
        BY <3>1
      <4>4. m \in out \/ m \in v.settled => m \in y.settled
        BY <4>1, <4>2, <2>1, <1>1
      <4>. QED
        BY <4>3, <4>4, <3>2, <1>1, <1>2
    <3>. QED
      BY <3>1, <3>3, <1>1
  <2>. QED
    BY <2>1, <1>1 DEF CallsOK
<1>9. \A e \in Endpoint : Busy(y, e) \subseteq Busy(v, e)
  BY DEF Busy, Settling
<1>10. StatusOK(y)
  <2>1. \A e \in Endpoint : Quiescent(v, e) => Quiescent(y, e)
    BY <1>1, <1>9 DEF Quiescent
  <2>2. Released(y) = Released(v)
    BY <1>1 DEF Released
  <2>. QED
    BY <2>1, <2>2, <1>1 DEF LogOK, StatusOK
<1>11. ASSUME NEW e \in Endpoint, Stuck(v, e)
       PROVE  Stuck(y, e)
  <2>1. Busy(y, e) = {} /\ Busy(v, e) = {}
    BY <1>9, <1>11 DEF Stuck
  <2>2. \A i \in 1 .. Workers[e] : y.at[e][i] = v.at[e][i]
    BY <2>1 DEF Settling, Busy
  <2>3. \A i \in 1 .. Workers[e] : \A m : Takes(y, e, i, m) = Takes(v, e, i, m)
    BY <2>2 DEF Takes
  <2>. QED
    BY <2>1, <2>3, <1>1, <1>11 DEF Stuck
<1>12. FailureOK(y)
  BY <1>1, <1>11 DEF LogOK, FailureOK
<1>13. Further(v, y)
  <2>1. \A p \in Producer : v.sends[p] <= y.sends[p]
    BY <1>1 DEF View, ActorsOK
  <2>. QED
    BY <2>1, <1>1, <1>11 DEF Further
<1>. QED
  BY <1>6, <1>7, <1>8, <1>10, <1>12, <1>13 DEF Keeps, LogOK

(* Who called goes on.                                                      *)
LEMMA CallerGoes ==
  ASSUME NEW v, LogOK(v), View(v), NEW y, View(y), Keeps(v, y), NEW c \in v.calls, At(v, c.from) = c.at,
         y.pending = v.pending, \A e \in Endpoint : \A i \in 1 .. Workers[e] :
           v.at[e][i] = c.at => y.current[e][i] = v.current[e][i],
         NEW s, NEW w, View(w), w = Goes(y, c.from, s)
  PROVE  Keeps(v, w)
<1>1. c.from \in Producer /\ c.at \in State /\ Kind[c.at] = "call"
  BY DEF View, ActorsOK, Asking, Calls
<1>2. ASSUME ~IsItem(c.from)
      PROVE  Current(y, c.from) # NoMessage /\ y.pending[c.from] = 0
  <2>1. PICK e \in Endpoint, i \in Nat : e = c.from[2] /\ i = c.from[3] /\ i \in 1 .. Workers[e] /\ c.from = Worker(e, i)
    BY <1>1, <1>2, Producers
  <2>2. v.at[e][i] = c.at
    BY <1>1, <1>2, <2>1, FanOutAssumption DEF At
  <2>3. v.current[e][i] # NoMessage /\ v.pending[Worker(e, i)] = 0
    BY <1>1, <2>1, <2>2 DEF LogOK, WorkersOK
  <2>. QED
    BY <2>1, <2>2, <2>3 DEF Current
<1>3. SameActors(y, y) /\ DOMAIN y = Fields /\ LogOK(y)
  BY DEF SameActors, View, Keeps
<1>4. Keeps(y, w)
  BY <1>1, <1>2, <1>3, MovingKeeps
<1>. QED
  BY <1>4, FurtherOn DEF Keeps

LEMMA ResolvedKeeps ==
  ASSUME NEW v, LogOK(v), View(v), NEW u, UnitFits(u), ~Rejects(v, u), u.type = "resolved"
  PROVE  Keeps(v, Project(v, u))
<1>1. PICK w : w = Project(v, u)
  OBVIOUS
<1>2. PICK c \in v.calls : c = u.call /\ Members(c) \subseteq v.settled /\ At(v, c.from) = c.at
  BY DEF Rejects, Resolvable
<1>3. PICK y : y = [v EXCEPT !.calls = @ \ {c}, !.settled = @ \ Members(c)]
  OBVIOUS
<1>4. w = Goes(y, c.from, Target[c.at])
  BY <1>1, <1>2, <1>3 DEF Project, Resolve
<1>5. /\ DOMAIN y = Fields /\ SameItems(v, y) /\ y.failed = v.failed
      /\ y.status = v.status /\ y.mailbox = v.mailbox /\ y.at = v.at /\ y.current = v.current
      /\ y.sends = v.sends /\ y.calls = v.calls \ {c} /\ y.settled = v.settled \ Members(c)
  BY <1>3 DEF View, Fields, SameItems, ItemsOK
<1>6. View(y)
  <2>1. IsFiniteSet(y.calls)
    BY <1>5, FS_RemoveElement DEF View, ActorsOK
  <2>2. ActorsOK(y)
    BY <1>5, <2>1 DEF View, ActorsOK
  <2>. QED
    BY <1>5, <2>2, ActorsMove
<1>7. Settling(v, y, {}, {c})
  <2>1. c \in Calls /\ c.at \in DOMAIN To
    BY FanOutAssumption DEF View, ActorsOK, Asking, Calls, Of
  <2>2. \A m \in v.settled : m \in Members(c) <=> CallOf(m) = c
    <3>1. \A m \in v.settled : m \in Messages /\ Proper(v, m)
      BY DEF LogOK, SettledOK, View, ActorsOK
    <3>2. \A m \in v.settled : CallOf(m) = c => m.at = c.at
      BY DEF CallOf, Call
    <3>. QED
      BY <2>1, <3>1, <3>2, MembersAre DEF Proper
  <2>3. y.settled = {m \in v.settled \cup {n \in {} : Asks(n)} : CallOf(m) \notin {c}}
    BY <1>5, <2>2
  <2>4. \A e \in Endpoint : InHands(y, e) = InHands(v, e) \ {}
    BY <1>5 DEF InHands
  <2>. QED
    BY <1>5, <2>3, <2>4 DEF Settling, SameItems
<1>8. WorkersOK(y)
  BY <1>5 DEF LogOK, WorkersOK, SameItems
<1>9. Keeps(v, y)
  BY <1>2, <1>7, <1>8, SettleKeeps
<1>10. View(w)
  BY <1>1, ProjectStep DEF StepOf
<1>11. Keeps(v, w)
  BY <1>2, <1>4, <1>5, <1>6, <1>9, <1>10, CallerGoes DEF SameItems
<1>. QED
  BY <1>1, <1>11

LEMMA ReplyKeeps ==
  ASSUME NEW v, LogOK(v), View(v), NEW u, UnitFits(u), Legal(v, u), ~Rejects(v, u), u.type = "replied"
  PROVE  Keeps(v, Project(v, u))
<1>1. PICK w : w = Project(v, u)
  OBVIOUS
<1>2. PICK e \in Endpoint, i \in Nat, msg \in Messages :
        e = u.p[2] /\ i = u.p[3] /\ i \in 1 .. Workers[e] /\ msg = u.msg
  BY Producers DEF UnitFits, UnitOK
<1>3. v.current[e][i] = msg /\ Kind[v.at[e][i]] = "reply" /\ v.at[e][i] \in State
  BY <1>2 DEF Rejects, Current, View, ActorsOK
<1>4. PICK t \in State : t = Target[v.at[e][i]] /\ Kind[t] = "receive"
  BY <1>3, FanOutAssumption DEF Of
<1>5. PICK x : x = [v EXCEPT !.current[e][i] = NoMessage, !.at[e][i] = Target[@],
                             !.settled = IF Asks(msg) THEN @ \cup {msg} ELSE @]
  OBVIOUS
<1>6. /\ DOMAIN v.at = Endpoint /\ DOMAIN v.current = Endpoint
      /\ \A f \in Endpoint : v.at[f] \in [1 .. Workers[f] -> State]
                             /\ v.current[f] \in [1 .. Workers[f] -> Messages \cup {NoMessage}]
      /\ v.settled \subseteq Messages
  BY DEF View, ActorsOK
<1>7. /\ DOMAIN x = Fields /\ SameItems(v, x) /\ x.failed = v.failed
      /\ x.status = v.status /\ x.mailbox = v.mailbox
      /\ x.at = [v.at EXCEPT ![e][i] = t] /\ x.current = [v.current EXCEPT ![e][i] = NoMessage]
      /\ x.sends = v.sends /\ x.calls = v.calls
      /\ x.settled = IF Asks(msg) THEN v.settled \cup {msg} ELSE v.settled
  BY <1>2, <1>4, <1>5, <1>6 DEF View, Fields, SameItems, ItemsOK
<1>8. View(x)
  <2>1. DOMAIN x.at = Endpoint /\ \A f \in Endpoint : x.at[f] \in [1 .. Workers[f] -> State]
    BY <1>2, <1>6, <1>7
  <2>2. PICK n \in Messages \cup {NoMessage} : x.current = [v.current EXCEPT ![e][i] = n]
    BY <1>7
  <2>3. /\ DOMAIN x.current = Endpoint
        /\ \A f \in Endpoint : x.current[f] \in [1 .. Workers[f] -> Messages \cup {NoMessage}]
    BY <1>2, <1>6, <2>2
  <2>4. x.settled \subseteq Messages
    BY <1>6, <1>7
  <2>5. /\ x.status \in [Endpoint -> {"none", "open", "closing", "stopped"}]
        /\ x.mailbox \in [Endpoint -> Seq(Messages)]
        /\ x.sends \in [Producer -> Nat] /\ x.calls \subseteq Asking /\ IsFiniteSet(x.calls)
    BY <1>7 DEF View, ActorsOK
  <2>6. ActorsOK(x)
    BY <2>1, <2>3, <2>4, <2>5 DEF ActorsOK
  <2>. QED
    BY <1>7, <2>6, ActorsMove
<1>9. \A f \in Endpoint : \A j \in 1 .. Workers[f] :
        /\ x.current[f][j] = IF f = e /\ j = i THEN NoMessage ELSE v.current[f][j]
        /\ x.at[f][j] = IF f = e /\ j = i THEN t ELSE v.at[f][j]
  <2>1. PICK a, b : a = v.current /\ b = x.current
    OBVIOUS
  <2>2. DOMAIN a = Endpoint /\ (\A f \in Endpoint : DOMAIN a[f] = 1 .. Workers[f]) /\ b = [a EXCEPT ![e][i] = NoMessage]
    BY <1>6, <1>7, <2>1
  <2>3. \A f \in Endpoint : \A j \in 1 .. Workers[f] : b[f][j] = IF f = e /\ j = i THEN NoMessage ELSE a[f][j]
    BY <1>2, <2>2, OneWorker, ZenonT(60)
  <2>4. PICK a1, b1 : a1 = v.at /\ b1 = x.at
    OBVIOUS
  <2>5. DOMAIN a1 = Endpoint /\ (\A f \in Endpoint : DOMAIN a1[f] = 1 .. Workers[f]) /\ b1 = [a1 EXCEPT ![e][i] = t]
    BY <1>6, <1>7, <2>4
  <2>6. \A f \in Endpoint : \A j \in 1 .. Workers[f] : b1[f][j] = IF f = e /\ j = i THEN t ELSE a1[f][j]
    BY <1>2, <2>5, OneWorker, ZenonT(60)
  <2>. QED
    BY <2>1, <2>3, <2>4, <2>6
<1>10. msg # NoMessage /\ msg \in InHands(v, e)
  <2>1. msg # NoMessage
    BY FanOutAssumption DEF Messages, NoMessage
  <2>. QED
    BY <2>1, <1>2, <1>3 DEF InHands
<1>11. Proper(v, msg) /\ To[msg.at] = e /\ msg.at \in DOMAIN To /\ Count[msg.at] \in Nat \ {0}
  <2>1. Proper(v, msg) /\ To[msg.at] = e
    BY <1>10 DEF LogOK, OpenOK
  <2>. QED
    BY <2>1, FanOutAssumption DEF Proper
<1>12. \A f \in Endpoint : InHands(x, f) = InHands(v, f) \ {msg}
  <2>1. ASSUME NEW f \in Endpoint
        PROVE  InHands(x, f) = InHands(v, f) \ {msg}
    <3>1. CASE f = e
      <4>1. \A j \in 1 .. Workers[e] : j # i => v.current[e][j] # msg
        BY <1>2, <1>3, <1>10 DEF LogOK, OpenOK
      <4>2. \A j \in 1 .. Workers[e] : x.current[e][j] = IF j = i THEN NoMessage ELSE v.current[e][j]
        BY <1>9
      <4>. QED
        BY <3>1, <4>1, <4>2, <1>2, <1>3 DEF InHands
    <3>2. CASE f # e
      <4>1. \A j \in 1 .. Workers[f] : x.current[f][j] = v.current[f][j]
        BY <3>2, <1>9
      <4>2. msg \notin InHands(v, f)
        BY <3>2, <1>11 DEF LogOK, OpenOK
      <4>. QED
        BY <4>1, <4>2 DEF InHands
    <3>. QED
      BY <3>1, <3>2
  <2>. QED
    BY <2>1
<1>13. \A f \in Endpoint : \A j \in 1 .. Workers[f] :
         /\ x.current[f][j] = v.current[f][j] \/ x.current[f][j] = NoMessage
         /\ x.at[f][j] = v.at[f][j] \/ v.current[f][j] # NoMessage
  BY <1>3, <1>9, <1>10
<1>14. WorkersOK(x)
  <2>1. ASSUME NEW f \in Endpoint, NEW j \in 1 .. Workers[f]
        PROVE  /\ x.current[f][j] = NoMessage => Kind[x.at[f][j]] = "receive"
               /\ x.pending[Worker(f, j)] # 0 => Kind[x.at[f][j]] = "work"
    <3>1. /\ v.current[f][j] = NoMessage => Kind[v.at[f][j]] = "receive"
          /\ v.pending[Worker(f, j)] # 0 => Kind[v.at[f][j]] = "work"
      BY DEF LogOK, WorkersOK
    <3>2. x.pending[Worker(f, j)] = v.pending[Worker(f, j)]
      BY <1>7 DEF SameItems
    <3>. QED
      BY <3>1, <3>2, <1>3, <1>4, <1>9
  <2>. QED
    BY <2>1 DEF WorkersOK
<1>15. CASE ~u.resolves
  <2>1. w = x
    BY <1>1, <1>2, <1>5, <1>15 DEF Project
  <2>2. Settling(v, x, {msg}, {})
    <3>1. x.settled = {m \in v.settled \cup {n \in {msg} : Asks(n)} : CallOf(m) \notin {}}
      BY <1>7
    <3>2. x.calls = v.calls \ {} /\ x.chart = v.chart
      BY <1>7 DEF SameItems
    <3>. QED
      BY <3>1, <3>2, <1>7, <1>12, <1>13 DEF Settling
  <2>3. \A m \in {msg} : Asks(m) /\ CallOf(m) \notin {} => Count[m.at] > 1
    BY <1>2, <1>11, <1>15 DEF Legal
  <2>4. \A m \in {msg} : \E f \in Endpoint : m \in InHands(v, f)
    BY <1>10
  <2>5. Keeps(v, x)
    <3>1. PICK out, over : out = {msg} /\ over = {}
      OBVIOUS
    <3>2. /\ Settling(v, x, out, over) /\ \A m \in out : Asks(m) /\ CallOf(m) \notin over => Count[m.at] > 1
          /\ \A m \in out : \E f \in Endpoint : m \in InHands(v, f)
          /\ \A c \in over : c \in v.calls /\ Members(c) \subseteq v.settled \cup out
      BY <3>1, <2>2, <2>3, <2>4
    <3>. QED
      BY <3>2, <1>14, SettleKeeps
  <2>. QED
    BY <1>1, <2>1, <2>5
<1>16. CASE u.resolves
  <2>1. PICK c \in v.calls : c = CallOf(msg) /\ Members(c) \subseteq v.settled \cup {msg} /\ At(v, c.from) = c.at
    BY <1>2, <1>16 DEF Rejects, Resolvable
  <2>2. c \in Calls /\ Kind[c.at] = "call" /\ c.at = msg.at /\ c.at \in DOMAIN To
    BY <1>11, <2>1 DEF View, ActorsOK, Asking, CallOf, Call
  <2>3. Asks(msg)
    BY <2>2 DEF Asks
  <2>4. PICK y : y = [x EXCEPT !.calls = @ \ {c}, !.settled = @ \ Members(c)]
    OBVIOUS
  <2>5. w = Goes(y, c.from, Target[c.at])
    BY <1>1, <1>2, <1>5, <1>16, <2>1, <2>4 DEF Project, Resolve
  <2>6. /\ DOMAIN y = Fields /\ SameItems(v, y) /\ SameItems(x, y) /\ y.failed = v.failed
        /\ y.status = v.status /\ y.mailbox = v.mailbox /\ y.at = x.at /\ y.current = x.current
        /\ y.sends = v.sends /\ y.calls = v.calls \ {c} /\ y.settled = (v.settled \cup {msg}) \ Members(c)
    BY <1>7, <2>3, <2>4 DEF View, Fields, SameItems
  <2>7. View(y)
    <3>1. IsFiniteSet(y.calls)
      <4>1. IsFiniteSet(v.calls)
        BY DEF View, ActorsOK
      <4>2. IsFiniteSet(v.calls \ {c})
        BY <4>1, FS_RemoveElement
      <4>. QED
        BY <4>2, <2>6
    <3>2. ActorsOK(y)
      BY <1>2, <1>7, <1>8, <2>6, <3>1 DEF View, ActorsOK
    <3>. QED
      BY <1>8, <2>6, <3>2, ActorsMove
  <2>8. Settling(v, y, {msg}, {c})
    <3>1. \A m \in v.settled \cup {msg} : m \in Members(c) <=> CallOf(m) = c
      <4>1. \A m \in v.settled \cup {msg} : m \in Messages /\ Proper(v, m)
        BY <1>6, <1>11 DEF LogOK, SettledOK
      <4>2. \A m \in v.settled \cup {msg} : CallOf(m) = c => m.at = c.at
        BY DEF CallOf, Call
      <4>. QED
        BY <2>2, <4>1, <4>2, MembersAre DEF Proper
    <3>2. y.settled = {m \in v.settled \cup {n \in {msg} : Asks(n)} : CallOf(m) \notin {c}}
      BY <2>3, <2>6, <3>1
    <3>3. \A f \in Endpoint : InHands(y, f) = InHands(x, f)
      BY <2>6 DEF InHands
    <3>. QED
      BY <1>12, <1>13, <2>6, <3>2, <3>3 DEF Settling, SameItems
  <2>9. WorkersOK(y)
    BY <1>14, <2>6 DEF WorkersOK, SameItems
  <2>10. Keeps(v, y)
    <3>1. PICK out, over : out = {msg} /\ over = {c}
      OBVIOUS
    <3>2. /\ Settling(v, y, out, over) /\ \A m \in out : Asks(m) /\ CallOf(m) \notin over => Count[m.at] > 1
          /\ \A m \in out : \E f \in Endpoint : m \in InHands(v, f)
          /\ \A d \in over : d \in v.calls /\ Members(d) \subseteq v.settled \cup out
      BY <3>1, <2>1, <2>8, <1>10
    <3>. QED
      BY <3>2, <2>9, SettleKeeps
  <2>11. \A f \in Endpoint : \A j \in 1 .. Workers[f] : v.at[f][j] = c.at => y.current[f][j] = v.current[f][j]
    BY <1>3, <1>9, <2>2, <2>6
  <2>12. View(w) /\ y.pending = v.pending
    BY <1>1, <2>6, ProjectStep DEF StepOf, SameItems
  <2>13. Keeps(v, w)
    BY <2>1, <2>5, <2>7, <2>10, <2>11, <2>12, CallerGoes
  <2>. QED
    BY <1>1, <2>13
<1>. QED
  BY <1>15, <1>16, <1>2 DEF UnitFits, UnitOK

(* Every unit that is legal leads to a projection that is in order.         *)
LEMMA ProjectKeeps ==
  ASSUME NEW v, LogOK(v), View(v), MailOK(v), NEW u, UnitFits(u), Legal(v, u), ~Rejects(v, u)
  PROVE  Keeps(v, Project(v, u))
<1>1. u.type \in UnitType
  BY DEF UnitFits
<1>. QED
  BY <1>1, QuietKeeps, CompleteKeeps, ScopeKeeps, EnqueueKeeps, AcceptKeeps, ReplyKeeps, ResolvedKeeps DEF UnitType

-----------------------------------------------------------------------------
(* Event by event, from the machine's projection up to the log's: all of    *)
(* them are in order, and the log is no less far than any.                  *)
Led(v, event) == IF event.kind = "ack" THEN Project(v, event.unit) ELSE v
Line(h, m, d, q) ==
  /\ h[0] = m /\ h[Len(q)] = d
  /\ \A i \in 0 .. Len(q) : View(h[i]) /\ LogOK(h[i]) /\ Further(h[i], d)
  /\ \A i \in 1 .. Len(q) : h[i] = Led(h[i - 1], q[i])
Climbs(m, d, q) == \E h : Line(h, m, d, q)

LEMMA FurtherSelf ==
  ASSUME NEW v, View(v)
  PROVE  Further(v, v)
<1>1. \A p \in Producer : v.sends[p] <= v.sends[p]
  BY DEF View, ActorsOK
<1>. QED
  BY <1>1 DEF Further

LEMMA ClimbStarts ==
  ASSUME NEW v, View(v), LogOK(v), NEW S, NEW q \in Seq(S), \A i \in 1 .. Len(q) : q[i].kind # "ack"
  PROVE  Climbs(v, v, q)
<1>1. PICK h : h = [i \in 0 .. Len(q) |-> v]
  OBVIOUS
<1>2. Len(q) \in Nat /\ \A i \in 0 .. Len(q) : h[i] = v
  BY <1>1
<1>3. \A i \in 1 .. Len(q) : i \in 0 .. Len(q) /\ i - 1 \in 0 .. Len(q)
  BY <1>2
<1>4. \A i \in 1 .. Len(q) : h[i] = Led(h[i - 1], q[i])
  BY <1>2, <1>3 DEF Led
<1>. QED
  BY <1>2, <1>4, FurtherSelf DEF Line, Climbs

LEMMA ClimbOn ==
  ASSUME NEW m, NEW d, NEW S, NEW q \in Seq(S), Climbs(m, d, q), NEW event \in S,
         NEW w, w = Led(d, event), View(w), Keeps(d, w)
  PROVE  Climbs(m, w, Append(q, event))
<1>1. PICK h : Line(h, m, d, q)
  BY DEF Climbs
<1>2. PICK n \in Nat : n = Len(q)
  OBVIOUS
<1>3. PICK t : t = Append(q, event)
  OBVIOUS
<1>4. Len(t) = n + 1 /\ t[n + 1] = event /\ \A i \in 1 .. n : t[i] = q[i]
  BY <1>2, <1>3
<1>5. PICK g : g = [i \in 0 .. n + 1 |-> IF i = n + 1 THEN w ELSE h[i]]
  OBVIOUS
<1>6. g[n + 1] = w /\ h[n] = d /\ h[0] = m /\ g[0] = m /\ \A i \in 0 .. n : g[i] = h[i]
  BY <1>1, <1>2, <1>5 DEF Line
<1>7. View(d) /\ LogOK(w) /\ Further(d, w)
  <2>1. n \in 0 .. n
    OBVIOUS
  <2>. QED
    BY <2>1, <1>1, <1>2, <1>6 DEF Line, Keeps
<1>8. ASSUME NEW i \in 0 .. n + 1
      PROVE  View(g[i]) /\ LogOK(g[i]) /\ Further(g[i], w)
  <2>1. CASE i = n + 1
    BY <2>1, <1>6, <1>7, FurtherSelf
  <2>2. CASE i # n + 1
    <3>1. i \in 0 .. n
      BY <2>2
    <3>2. g[i] = h[i] /\ View(h[i]) /\ LogOK(h[i]) /\ Further(h[i], d)
      BY <3>1, <1>1, <1>2, <1>6 DEF Line
    <3>3. Further(h[i], w)
      BY <3>2, <1>7, FurtherOn
    <3>. QED
      BY <3>2, <3>3
  <2>. QED
    BY <2>1, <2>2
<1>9. ASSUME NEW i \in 1 .. n + 1
      PROVE  g[i] = Led(g[i - 1], t[i])
  <2>1. CASE i = n + 1
    <3>1. i - 1 = n /\ g[n] = d
      BY <2>1, <1>6
    <3>. QED
      BY <2>1, <3>1, <1>4, <1>6
  <2>2. CASE i # n + 1
    <3>1. i \in 1 .. n /\ i \in 0 .. n /\ i - 1 \in 0 .. n
      BY <2>2
    <3>2. g[i] = h[i] /\ g[i - 1] = h[i - 1] /\ t[i] = q[i]
      BY <3>1, <1>4, <1>6
    <3>. QED
      BY <3>1, <3>2, <1>1, <1>2 DEF Line
  <2>. QED
    BY <2>1, <2>2
<1>. QED
  BY <1>3, <1>4, <1>6, <1>8, <1>9 DEF Line, Climbs

LEMMA ClimbDown ==
  ASSUME NEW m, NEW d, NEW S, NEW q \in Seq(S), q # <<>>, Climbs(m, d, q), NEW w, w = Led(m, Head(q))
  PROVE  Climbs(w, d, Tail(q)) /\ LogOK(w) /\ Further(m, d) /\ Further(w, d)
<1>1. PICK h : Line(h, m, d, q)
  BY DEF Climbs
<1>2. PICK n \in Nat : Len(q) = n + 1
  <2>1. Len(q) \in Nat \ {0}
    OBVIOUS
  <2>. QED
    BY <2>1
<1>3. PICK t : t = Tail(q)
  OBVIOUS
<1>4. Len(t) = n /\ \A i \in 1 .. n : t[i] = q[i + 1]
  BY <1>2, <1>3
<1>5. PICK g : g = [i \in 0 .. n |-> h[i + 1]]
  OBVIOUS
<1>6. /\ \A i \in 0 .. n : g[i] = h[i + 1] /\ i + 1 \in 0 .. n + 1
      /\ \A i \in 1 .. n : i - 1 \in 0 .. n /\ i + 1 \in 1 .. n + 1 /\ (i - 1) + 1 = i /\ (i + 1) - 1 = i
  BY <1>5
<1>7. h[0] = m /\ h[n + 1] = d /\ h[1] = w /\ g[0] = w /\ g[n] = d
  <2>1. 1 \in 1 .. n + 1 /\ 1 - 1 = 0 /\ q[1] = Head(q) /\ 0 \in 0 .. n /\ n \in 0 .. n /\ 0 + 1 = 1
    BY <1>2
  <2>2. h[0] = m /\ h[n + 1] = d /\ h[1] = Led(h[0], q[1])
    BY <2>1, <1>1, <1>2 DEF Line
  <2>. QED
    BY <2>1, <2>2, <1>6
<1>8. \A i \in 0 .. n : View(g[i]) /\ LogOK(g[i]) /\ Further(g[i], d)
  BY <1>1, <1>2, <1>6 DEF Line
<1>9. ASSUME NEW i \in 1 .. n
      PROVE  g[i] = Led(g[i - 1], t[i])
  <2>1. i \in 0 .. n /\ i - 1 \in 0 .. n /\ i + 1 \in 1 .. n + 1 /\ (i - 1) + 1 = i /\ (i + 1) - 1 = i
    BY <1>6
  <2>2. g[i] = h[i + 1] /\ g[i - 1] = h[i] /\ t[i] = q[i + 1]
    BY <2>1, <1>4, <1>6
  <2>3. h[i + 1] = Led(h[i], q[i + 1])
    BY <2>1, <1>1, <1>2 DEF Line
  <2>. QED
    BY <2>2, <2>3
<1>10. LogOK(w) /\ Further(w, d) /\ Further(m, d)
  <2>1. 0 \in 0 .. n /\ 0 \in 0 .. n + 1
    OBVIOUS
  <2>. QED
    BY <2>1, <1>1, <1>2, <1>7, <1>8 DEF Line
<1>11. Climbs(w, d, t)
  BY <1>4, <1>7, <1>8, <1>9 DEF Line, Climbs
<1>. QED
  BY <1>3, <1>10, <1>11

LEMMA ClimbSpans ==
  ASSUME NEW m, NEW d, NEW S, NEW q \in Seq(S), Climbs(m, d, q)
  PROVE  LogOK(m) /\ LogOK(d) /\ Further(m, d)
<1>1. PICK h : Line(h, m, d, q)
  BY DEF Climbs
<1>2. 0 \in 0 .. Len(q) /\ Len(q) \in 0 .. Len(q)
  OBVIOUS
<1>. QED
  BY <1>1, <1>2 DEF Line

-----------------------------------------------------------------------------
(* An output: what it means by each of its units, and that a call is        *)
(* resolved before the actor that was asked is stopped.                     *)

LEMMA AllInOrder ==
  ASSUME NEW S, IsFiniteSet(S)
  PROVE  \A x \in S : \E j \in 1 .. Cardinality(S) : SetToSeq(S)[j] = x
<1>1. PICK n \in Nat : n = Cardinality(S) /\ ExistsBijection(1 .. n, S)
  BY FS_CardinalityType
<1>2. \E f \in [1 .. n -> S] : IsInjective(f)
  BY <1>1 DEF ExistsBijection, Bijection, Injection
<1>3. PICK f \in [1 .. n -> S] : f = SetToSeq(S) /\ IsInjective(f)
  BY <1>1, <1>2 DEF SetToSeq
<1>4. f \in Injection(1 .. n, S)
  BY <1>3 DEF Injection
<1>5. Cardinality(1 .. n) = n
  BY FS_Interval
<1>6. f \in Surjection(1 .. n, S)
  BY <1>1, <1>4, <1>5, FS_Injection
<1>. QED
  BY <1>1, <1>3, <1>6 DEF Surjection

LEMMA NobodyRefused ==
  ASSUME NEW v, View(v), LogOK(v)
  PROVE  DueAdmissionFailures(v) = {}
<1>1. SUFFICES ASSUME NEW q \in Messaging(v), TargetIs(v, q, {"closing"}), ~MayUseClosing(v, q) PROVE FALSE
  BY DEF DueAdmissionFailures
<1>2. q \in Producer /\ At(v, q) # "none" /\ Kind[At(v, q)] \in {"send", "call"}
  BY DEF Messaging, Doing
<1>3. To[At(v, q)] \in Endpoint
  BY <1>2, AtType, FanOutAssumption DEF Of
<1>4. v.chart \in {"end", "done"}
  BY <1>1, <1>3 DEF TargetIs, LogOK, StatusOK
<1>5. CASE IsItem(q)
  <2>1. q[2] \in Key /\ q = Item(q[2])
    BY <1>2, <1>5, Producers
  <2>2. v.chart = "each"
    BY <1>2, <2>1, NobodyThere DEF View
  <2>. QED
    BY <1>4, <2>2
<1>6. CASE ~IsItem(q)
  <2>1. PICK e \in Endpoint, i \in Nat : e = q[2] /\ i = q[3] /\ i \in 1 .. Workers[e] /\ q = Worker(e, i)
    BY <1>2, <1>6, Producers
  <2>2. v.current[e][i] = NoMessage /\ At(v, q) = v.at[e][i]
    BY <1>1, <1>2, <1>6, <2>1 DEF MayUseClosing, Current, At
  <2>3. Kind[v.at[e][i]] = "receive"
    BY <2>1, <2>2 DEF LogOK, WorkersOK
  <2>. QED
    BY <1>2, <2>2, <2>3
<1>. QED
  BY <1>5, <1>6

Start(v, e, r) == [accepts |-> <<>>, taken |-> Taken(v, e, r), over |-> FALSE, fails |-> FALSE]
Runs(v, e, r, g) ==
  \A j \in Len(r[e]) .. Len(v.mailbox[e]) :
    /\ g[j] \in SoFar
    /\ g[j] = IF j = Len(r[e]) THEN Start(v, e, r) ELSE Admit(v, e, g[j - 1], v.mailbox[e][j])

LEMMA AdmissionRuns ==
  ASSUME NEW v, View(v), NEW e \in Endpoint, NEW r, r[e] \in Seq(Accept), Len(r[e]) <= Len(v.mailbox[e]),
         v.status[e] \notin {"none", "stopped"}
  PROVE  \E g : Runs(v, e, r, g) /\ Admission(v, e, r) = g[Len(v.mailbox[e])]
<1>1. PICK box \in Seq(Messages) : box = v.mailbox[e]
  BY DEF View, ActorsOK
<1>2. PICK past \in Nat, n \in Nat : past = Len(r[e]) /\ n = Len(box) /\ past <= n
  BY <1>1
<1>3. PICK start : start = Start(v, e, r)
  OBVIOUS
<1>4. PICK g : g = CHOOSE f : Admits(v, e, past, start, f)
  OBVIOUS
<1>5. Admission(v, e, r) = g[n]
  BY <1>1, <1>2, <1>3, <1>4 DEF Admission, Admits, Start
<1>6. start \in SoFar
  <2>1. Busy(v, e) \in SUBSET Nat
    BY FanOutAssumption DEF Busy
  <2>2. \A j \in DOMAIN r[e] : r[e][j].i \in Nat
    BY DEF Accept
  <2>3. Taken(v, e, r) \in SUBSET Nat
    BY <2>1, <2>2 DEF Taken
  <2>. QED
    BY <1>3, <2>3 DEF SoFar, Start
<1>7. \A i \in 1 .. n : box[i] \in Messages
  BY <1>1, <1>2
<1>8. PICK F : F = [p \in SoFar \X (past .. n) |-> IF p[2] = past THEN p[1] ELSE Admit(v, e, p[1], box[p[2]])]
  OBVIOUS
<1>9. \A so \in SoFar, j \in past .. n : j # past => Admit(v, e, so, box[j]) \in SoFar
  <2>1. \A j \in past .. n : j # past => j \in 1 .. n
    OBVIOUS
  <2>. QED
    BY <2>1, <1>7, AdmitFits
<1>10. F \in [SoFar \X (past .. n) -> SoFar]
  BY <1>8, <1>9
<1>11. PICK f \in [past .. n -> SoFar] : f[past] = start /\ \A i \in past + 1 .. n : f[i] = F[<<f[i - 1], i>>]
  <2>1. \E f : Recurs(f, past, n, SoFar, start, F)
    BY <1>2, <1>6, <1>10, Recursion
  <2>. QED
    BY <2>1 DEF Recurs
<1>12. ASSUME NEW j \in past .. n
       PROVE  f[j] = IF j = past THEN start ELSE Admit(v, e, f[j - 1], box[j])
  <2>1. CASE j = past
    BY <2>1, <1>11
  <2>2. CASE j # past
    <3>1. j \in past + 1 .. n /\ j - 1 \in past .. n
      BY <2>2
    <3>2. <<f[j - 1], j>> \in SoFar \X (past .. n)
      BY <3>1, <1>11
    <3>. QED
      BY <2>2, <3>1, <3>2, <1>8, <1>11
  <2>. QED
    BY <2>1, <2>2
<1>13. f = [j \in past .. n |-> IF j = past THEN start ELSE Admit(v, e, f[j - 1], box[j])]
  BY <1>11, <1>12
<1>14. Admits(v, e, past, start, f)
  BY <1>1, <1>2, <1>13 DEF Admits
<1>15. \A j \in past .. n : g[j] = IF j = past THEN start ELSE Admit(v, e, g[j - 1], box[j])
  <2>1. \E h : Admits(v, e, past, start, h)
    BY <1>14
  <2>2. Admits(v, e, past, start, g)
    BY <1>4, <2>1
  <2>3. g = [j \in past .. n |-> IF j = past THEN start ELSE Admit(v, e, g[j - 1], box[j])]
    BY <1>1, <1>2, <2>2 DEF Admits
  <2>. QED
    BY <2>3
<1>16. PICK A : A = {j \in past .. n : g[j] \in SoFar}
  OBVIOUS
<1>17. \A j \in past .. n : j \in A
  <2>1. past \in A
    BY <1>2, <1>6, <1>15, <1>16
  <2>2. ASSUME NEW j \in past + 1 .. n, j - 1 \in A
        PROVE  j \in A
    <3>1. j \in past .. n /\ j # past
      OBVIOUS
    <3>2. g[j] = Admit(v, e, g[j - 1], box[j]) /\ g[j - 1] \in SoFar
      BY <3>1, <2>2, <1>15, <1>16
    <3>3. g[j] \in SoFar
      BY <3>1, <3>2, <1>9
    <3>. QED
      BY <3>1, <3>3, <1>16
  <2>. QED
    BY <2>1, <2>2, <1>2, Upward
<1>18. Runs(v, e, r, g)
  BY <1>1, <1>2, <1>3, <1>15, <1>16, <1>17 DEF Runs
<1>. QED
  BY <1>1, <1>2, <1>5, <1>18

(* A head that no worker takes fails the run if all of them are idle.       *)
Holding(v, e, j, so) ==
  IF so.over THEN so.fails => Stuck(v, e)
  ELSE ~so.fails /\ Busy(v, e) \subseteq so.taken /\ (j > 0 => so.taken # {})

LEMMA AdmitHolds ==
  ASSUME NEW v, View(v), NEW e \in Endpoint, NEW so \in SoFar, NEW j \in 1 .. Len(v.mailbox[e]), Holding(v, e, j - 1, so)
  PROVE  Holding(v, e, j, Admit(v, e, so, v.mailbox[e][j]))
<1>1. PICK box \in Seq(Messages) : box = v.mailbox[e]
  BY DEF View, ActorsOK
<1>2. PICK msg : msg = box[j]
  OBVIOUS
<1>3. PICK w : w = Admit(v, e, so, msg)
  OBVIOUS
<1>4. PICK eligible : eligible = Eligible(v, e, so.taken, msg)
  OBVIOUS
<1>5. CASE so.over
  <2>1. w = so
    BY <1>3, <1>5 DEF Admit
  <2>. QED
    BY <2>1, <1>1, <1>2, <1>3, <1>5 DEF Holding
<1>6. CASE ~so.over /\ eligible = {}
  <2>1. w = [so EXCEPT !.over = TRUE, !.fails = NoneBusy(v, e, so.taken)]
    BY <1>3, <1>4, <1>6 DEF Admit
  <2>2. w.over /\ w.fails = (so.taken = {})
    BY <2>1 DEF SoFar, NoneBusy
  <2>3. ASSUME so.taken = {}
        PROVE  Stuck(v, e)
    <3>1. Busy(v, e) = {} /\ j = 1
      BY <1>6, <2>3 DEF Holding
    <3>2. box # <<>> /\ msg = Head(box)
      BY <1>1, <1>2, <3>1
    <3>3. \A i \in 1 .. Workers[e] : ~Takes(v, e, i, msg)
      BY <1>4, <1>6, <2>3 DEF Eligible
    <3>. QED
      BY <1>1, <3>1, <3>2, <3>3 DEF Stuck
  <2>4. Holding(v, e, j, w)
    BY <2>2, <2>3 DEF Holding
  <2>. QED
    BY <2>4, <1>1, <1>2, <1>3
<1>7. CASE ~so.over /\ eligible # {}
  <2>1. PICK a : a = [type |-> "accepted", e |-> e, i |-> Min(eligible), msg |-> msg]
    OBVIOUS
  <2>2. w = [so EXCEPT !.accepts = Append(@, a), !.taken = @ \cup {Min(eligible)}]
    BY <1>3, <1>4, <1>7, <2>1 DEF Admit
  <2>3. ~w.over /\ w.fails = so.fails /\ w.taken = so.taken \cup {Min(eligible)}
    BY <2>2, <1>7 DEF SoFar
  <2>4. Holding(v, e, j, w)
    BY <2>3, <1>7 DEF Holding
  <2>. QED
    BY <2>4, <1>1, <1>2, <1>3
<1>. QED
  BY <1>5, <1>6, <1>7

LEMMA FailsStuck ==
  ASSUME NEW v, View(v), NEW e \in Endpoint, NEW r, r[e] \in Seq(Accept), Len(r[e]) <= Len(v.mailbox[e]),
         Admission(v, e, r).fails
  PROVE  Stuck(v, e)
<1>1. v.status[e] \notin {"none", "stopped"}
  BY DEF Admission
<1>2. PICK g : Runs(v, e, r, g) /\ Admission(v, e, r) = g[Len(v.mailbox[e])]
  BY <1>1, AdmissionRuns
<1>3. PICK past \in Nat, n \in Nat : past = Len(r[e]) /\ n = Len(v.mailbox[e]) /\ past <= n
  BY DEF View, ActorsOK
<1>4. PICK A : A = {j \in past .. n : Holding(v, e, j, g[j])}
  OBVIOUS
<1>5. past \in A
  <2>1. g[past] = Start(v, e, r)
    BY <1>2, <1>3 DEF Runs
  <2>2. Busy(v, e) \subseteq Taken(v, e, r) /\ (past > 0 => Taken(v, e, r) # {})
    <3>1. past > 0 => 1 \in DOMAIN r[e]
      BY <1>3
    <3>. QED
      BY <3>1 DEF Taken
  <2>. QED
    BY <2>1, <2>2, <1>3, <1>4 DEF Holding, Start
<1>6. ASSUME NEW j \in past + 1 .. n, j - 1 \in A
      PROVE  j \in A
  <2>1. j \in past .. n /\ j \in 1 .. n /\ j # past /\ j - 1 \in past .. n
    BY <1>3
  <2>2. g[j] = Admit(v, e, g[j - 1], v.mailbox[e][j]) /\ g[j - 1] \in SoFar
    BY <2>1, <1>2, <1>3 DEF Runs
  <2>3. Holding(v, e, j - 1, g[j - 1])
    BY <1>4, <1>6
  <2>4. Holding(v, e, j, g[j])
    BY <2>1, <2>2, <2>3, <1>3, AdmitHolds
  <2>. QED
    BY <2>1, <2>4, <1>4
<1>7. n \in A
  <2>1. \A j \in past .. n : j \in A
    BY <1>3, <1>5, <1>6, Upward
  <2>. QED
    BY <2>1, <1>3
<1>8. Holding(v, e, n, g[n]) /\ g[n].fails
  BY <1>2, <1>3, <1>4, <1>7
<1>. QED
  BY <1>8 DEF Holding

(* The units of an output are meant, and what stops an actor comes after    *)
(* the calls that are resolved.                                             *)
Quiet(v, u) == u.type # "stopped" /\ Meant(v, u)
Fresh(v) == {c \in DueBatches(v) : <<"resolve", c>> \notin dispatched}
AllResolved(v, p) == \A c \in Fresh(v) : \E i \in 1 .. Len(p) : p[i] = Resolution(c)
Halves(v, p, s) ==
  /\ \A i \in 1 .. Len(p) : Quiet(v, p[i])
  /\ \A i \in 1 .. Len(s) : Meant(v, s[i])
  /\ AllResolved(v, p)
Sorted(v, b) ==
  /\ \A j \in 1 .. Len(b) : Meant(v, b[j])
  /\ \A c \in Fresh(v) : \E i \in 1 .. Len(b) : b[i] = Resolution(c)
  /\ \A j \in 1 .. Len(b) : b[j].type = "stopped" =>
       \A c \in Fresh(v) : \E i \in 1 .. j - 1 : b[i] = Resolution(c)

LEMMA AtMostOne ==
  ASSUME NEW S, NEW u \in S
  PROVE  <<>> \in Seq(S) /\ <<u>> \in Seq(S)
OBVIOUS

LEMMA AppendsParts ==
  ASSUME NEW v, View(v), LogOK(v), NEW r \in [Endpoint -> Seq(Accept)], \A e \in Endpoint : Len(r[e]) <= Len(v.mailbox[e]),
         NEW n \in 0 .. MaxItems
  PROVE  \E Q : \E p \in Seq(Q) : \E s \in Seq(Q) : Appends(v, r, n) = p \o s /\ Halves(v, p, s)
<1> DEFINE once(ids, u) == IF Chosen(ids) \subseteq dispatched THEN <<>> ELSE <<u>>
           invokes == {x \in DueInvokes(v) : <<"invoke", x>> \notin dispatched}
           batches == {c \in DueBatches(v) : <<"resolve", c>> \notin dispatched}
           fresh(type, es) == {e \in es : <<type, e>> \notin dispatched}
           scope(type, es) == [j \in 1 .. Cardinality(fresh(type, es)) |-> [type |-> type, e |-> InOrder(fresh(type, es))[j]]]
           one == once(DueSpawns(v), [type |-> "spawned", n |-> n])
           two == once(DueAdmissionFailures(v), Failure)
           three == once(Unsupported(v, r), Failure)
           four == FlattenSeq([e \in Endpoint |-> Accepts(v, e, r)])
           five == IF invokes = {} THEN <<>> ELSE <<[type |-> "invoke", group |-> invokes]>>
           six == [j \in 1 .. Cardinality(batches) |-> [type |-> "resolved", call |-> SetToSeq(batches)[j]]]
           closings == scope("closing", DueClosings(v))
           stops == scope("stopped", DueStops(v))
           A == {[type |-> "spawned", n |-> n]}
           B == {x \in {Failure} : \E e \in Endpoint : Stuck(v, e)}
           C == {[type |-> "invoke", group |-> invokes]}
           D == {[type |-> "resolved", call |-> c] : c \in batches}
           F == {[type |-> "closing", e |-> e] : e \in DueClosings(v)}
           G == {[type |-> "stopped", e |-> e] : e \in DueStops(v)}
           Q == A \cup B \cup Accept \cup C \cup D \cup F \cup G
           front == one \o two \o three \o four \o five
           p == front \o six \o closings
<1>1. Appends(v, r, n) = p \o stops
  BY DEF Appends
<1>2. one \in Seq(A)
  <2>1. PICK u : u = [type |-> "spawned", n |-> n]
    OBVIOUS
  <2>2. <<>> \in Seq({u}) /\ <<u>> \in Seq({u})
    BY AtMostOne
  <2>. QED
    BY <2>1, <2>2
<1>3. two = <<>>
  <2>1. Chosen(DueAdmissionFailures(v)) = {}
    BY NobodyRefused DEF Chosen
  <2>. QED
    BY <2>1
<1>4. three \in Seq(B)
  <2>1. CASE Unsupported(v, r) = {}
    <3>1. Chosen(Unsupported(v, r)) = {}
      BY <2>1 DEF Chosen
    <3>. QED
      BY <3>1
  <2>2. CASE Unsupported(v, r) # {}
    <3>1. PICK e \in Endpoint : Admission(v, e, r).fails
      BY <2>2 DEF Unsupported
    <3>2. r[e] \in Seq(Accept) /\ Len(r[e]) <= Len(v.mailbox[e])
      OBVIOUS
    <3>3. Stuck(v, e)
      BY <3>1, <3>2, FailsStuck
    <3>4. Failure \in B
      BY <3>3
    <3>5. PICK u \in B : u = Failure
      BY <3>4
    <3>6. <<>> \in Seq(B) /\ <<u>> \in Seq(B)
      <4> HIDE DEF B
      <4>. QED
        BY AtMostOne
    <3> HIDE DEF B
    <3>. QED
      BY <3>5, <3>6
  <2>. QED
    BY <2>1, <2>2
<1>5. four \in Seq(Accept)
  <2>1. \A e \in Endpoint : Accepts(v, e, r) \in Seq(Accept)
    BY AcceptsFit
  <2>2. PICK ss : ss = [e \in Endpoint |-> Accepts(v, e, r)]
    OBVIOUS
  <2>3. ss \in Seq(Seq(Accept))
    BY <2>1, <2>2, FanOutAssumption DEF Endpoint
  <2>. QED
    BY <2>2, <2>3, Flattened
<1>6. five \in Seq(C)
  <2>1. PICK u : u = [type |-> "invoke", group |-> invokes]
    OBVIOUS
  <2>2. <<>> \in Seq({u}) /\ <<u>> \in Seq({u})
    BY AtMostOne
  <2>. QED
    BY <2>1, <2>2
<1>7. /\ Cardinality(batches) \in Nat /\ six \in Seq(D)
      /\ \A c \in batches : \E j \in 1 .. Cardinality(batches) : six[j] = [type |-> "resolved", call |-> c]
  <2>1. IsFiniteSet(v.calls) /\ v.calls \subseteq Calls
    BY DEF View, ActorsOK, Asking
  <2>2. batches \subseteq v.calls
    BY DEF DueBatches
  <2>3. IsFiniteSet(batches)
    BY <2>1, <2>2, FS_Subset
  <2>4. PICK bs : bs = batches
    OBVIOUS
  <2>5. Cardinality(bs) \in Nat /\ \A j \in 1 .. Cardinality(bs) : SetToSeq(bs)[j] \in bs
    BY <2>3, <2>4, SomeOrder
  <2>6. \A c \in bs : \E j \in 1 .. Cardinality(bs) : SetToSeq(bs)[j] = c
    BY <2>3, <2>4, AllInOrder
  <2>7. D = {[type |-> "resolved", call |-> c] : c \in bs}
        /\ six = [j \in 1 .. Cardinality(bs) |-> [type |-> "resolved", call |-> SetToSeq(bs)[j]]]
    BY <2>4
  <2> HIDE DEF batches, D, six
  <2>8. six \in Seq(D)
    BY <2>5, <2>7
  <2>. QED
    BY <2>4, <2>5, <2>6, <2>7, <2>8
<1>8. closings \in Seq(F) /\ stops \in Seq(G)
  <2>1. ASSUME NEW type, NEW es \in SUBSET Endpoint
        PROVE  scope(type, es) \in Seq({[type |-> type, e |-> e] : e \in es})
    <3>1. PICK P \in SUBSET (1 .. Endpoints) : P = fresh(type, es)
      BY DEF Endpoint
    <3>2. Cardinality(P) \in Nat /\ \A j \in 1 .. Cardinality(P) : InOrder(P)[j] \in es
      BY <3>1, FanOutAssumption, Ordered
    <3>3. PICK X : X = {[type |-> type, e |-> e] : e \in es}
      OBVIOUS
    <3>4. \A j \in 1 .. Cardinality(P) : [type |-> type, e |-> InOrder(P)[j]] \in X
      BY <3>2, <3>3
    <3>5. [j \in 1 .. Cardinality(P) |-> [type |-> type, e |-> InOrder(P)[j]]] \in Seq(X)
      BY <3>2, <3>4
    <3>. QED
      BY <3>1, <3>3, <3>5
  <2>2. DueClosings(v) \in SUBSET Endpoint /\ DueStops(v) \in SUBSET Endpoint
    BY DEF DueClosings, DueStops
  <2> HIDE DEF scope
  <2>. QED
    BY <2>1, <2>2
<1>9. \A u \in A \cup B \cup Accept \cup C \cup D \cup F : Quiet(v, u)
  <2>1. \A u \in A \cup Accept \cup C \cup D : u.type \in {"spawned", "accepted", "invoke", "resolved"}
    <3>1. \A u \in A : u.type = "spawned"
      OBVIOUS
    <3>2. \A u \in C : u.type = "invoke"
      OBVIOUS
    <3>3. \A u \in D : u.type = "resolved"
      <4> HIDE DEF batches
      <4>. QED
        OBVIOUS
    <3>4. \A u \in Accept : u.type = "accepted"
      BY DEF Accept
    <3> HIDE DEF A, C, D
    <3>. QED
      BY <3>1, <3>2, <3>3, <3>4
  <2>2. \A u \in A \cup Accept \cup C \cup D : Quiet(v, u)
    BY <2>1 DEF Quiet, Meant
  <2>3. \A u \in B : Quiet(v, u)
    BY DEF Quiet, Meant, Failure
  <2>4. \A u \in F : Quiet(v, u)
    BY DEF Quiet, Meant, DueClosings, OwnerIsClosing
  <2>. QED
    BY <2>2, <2>3, <2>4
<1>10. \A u \in G : Meant(v, u)
  BY DEF Meant, DueStops
<1>11. batches = Fresh(v) /\ \A c : Resolution(c) = [type |-> "resolved", call |-> c]
  BY DEF Fresh, Resolution
<1> DEFINE H == A \cup B \cup Accept \cup C \cup D \cup F
<1>12. Q = H \cup G
  OBVIOUS
<1>13. front \in Seq(H) /\ six \in Seq(H) /\ closings \in Seq(H)
  <2>1. one \in Seq(H) /\ two \in Seq(H) /\ three \in Seq(H) /\ four \in Seq(H) /\ five \in Seq(H)
    <3> HIDE DEF one, two, three, four, five, A, B, C, D, F
    <3>. QED
      BY <1>2, <1>3, <1>4, <1>5, <1>6
  <2>2. six \in Seq(H) /\ closings \in Seq(H)
    <3> HIDE DEF six, closings, A, B, C, D, F
    <3>. QED
      BY <1>7, <1>8
  <2> HIDE DEF one, two, three, four, five, H
  <2>. QED
    BY <2>1, <2>2
<1>14. stops \in Seq(Q)
  BY <1>8
<1>15. Len(six) = Cardinality(batches)
  BY <1>7
<1> HIDE DEF front, six, closings, stops, Q, A, B, C, D, F, G, batches
<1>16. p \in Seq(H) /\ p \in Seq(Q)
  <2>1. p \in Seq(H)
    <3> HIDE DEF H
    <3>. QED
      BY <1>13
  <2> HIDE DEF p
  <2>. QED
    BY <2>1, <1>12
<1>17. \A i \in 1 .. Len(p) : Quiet(v, p[i])
  <2> HIDE DEF p
  <2>1. \A i \in 1 .. Len(p) : p[i] \in H
    <3> HIDE DEF H
    <3>. QED
      BY <1>16
  <2>. QED
    BY <2>1, <1>9
<1>18. \A i \in 1 .. Len(stops) : Meant(v, stops[i])
  BY <1>8, <1>10
<1>19. \A c \in batches : \E i \in 1 .. Len(p) : p[i] = Resolution(c)
  <2>1. SUFFICES ASSUME NEW c \in batches PROVE \E i \in 1 .. Len(p) : p[i] = Resolution(c)
    OBVIOUS
  <2>2. PICK j \in 1 .. Len(six) : six[j] = Resolution(c)
    BY <1>7, <1>11, <1>15
  <2>3. Len(front) \in Nat /\ Len(six) \in Nat /\ Len(closings) \in Nat
    BY <1>13
  <2>4. Len(front \o six) = Len(front) + Len(six) /\ front \o six \in Seq(H)
    <3> HIDE DEF H
    <3>. QED
      BY <1>13
  <2>5. (front \o six)[Len(front) + j] = six[j]
    <3> HIDE DEF H
    <3>. QED
      BY <1>13, <2>2
  <2>6. PICK i : i = Len(front) + j
    OBVIOUS
  <2>7. i \in 1 .. Len(front \o six) /\ Len(p) = Len(front \o six) + Len(closings)
    <3> HIDE DEF H
    <3>. QED
      BY <1>13, <2>2, <2>3, <2>4, <2>6
  <2>8. p[i] = (front \o six)[i]
    <3> HIDE DEF H
    <3>. QED
      BY <1>13, <2>4, <2>7
  <2>9. i \in 1 .. Len(p)
    BY <2>3, <2>4, <2>7
  <2>. QED
    BY <2>2, <2>5, <2>6, <2>8, <2>9
<1>20. Halves(v, p, stops)
  <2> HIDE DEF p
  <2>. QED
    BY <1>11, <1>17, <1>18, <1>19 DEF Halves, AllResolved
<1> HIDE DEF p
<1>. QED
  BY <1>1, <1>14, <1>16, <1>20

LEMMA OutputSorted ==
  ASSUME NEW v, View(v), LogOK(v), NEW r \in [Endpoint -> Seq(Accept)], \A e \in Endpoint : Len(r[e]) <= Len(v.mailbox[e]),
         NEW n \in 0 .. MaxItems, NEW R, NEW response \in Seq(R), \A i \in 1 .. Len(response) : Quiet(v, response[i])
  PROVE  Sorted(v, response \o Appends(v, r, n))
<1>1. PICK Q : \E p \in Seq(Q) : \E s \in Seq(Q) : Appends(v, r, n) = p \o s /\ Halves(v, p, s)
  BY AppendsParts
<1>2. PICK p \in Seq(Q) : \E s \in Seq(Q) : Appends(v, r, n) = p \o s /\ Halves(v, p, s)
  BY <1>1
<1>3. PICK s \in Seq(Q) : Appends(v, r, n) = p \o s /\ Halves(v, p, s)
  BY <1>2
<1>4. PICK b : b = response \o (p \o s)
  OBVIOUS
<1>5. PICK k \in Nat, l \in Nat, m \in Nat : k = Len(response) /\ l = Len(p) /\ m = Len(s)
  OBVIOUS
<1>6. PICK w \in Seq(Q) : w = p \o s
  <2>1. p \o s \in Seq(Q)
    OBVIOUS
  <2>. QED
    BY <2>1
<1>7. Len(w) = l + m /\ (\A i \in 1 .. l : w[i] = p[i]) /\ (\A i \in l + 1 .. l + m : w[i] = s[i - l])
  BY <1>5, <1>6
<1>8. Len(b) = k + (l + m) /\ (\A i \in 1 .. k : b[i] = response[i])
      /\ (\A i \in k + 1 .. k + (l + m) : b[i] = w[i - k])
  BY <1>4, <1>5, <1>6, <1>7
<1>9. ASSUME NEW j \in 1 .. k + (l + m)
      PROVE  \/ j <= k /\ j \in 1 .. k /\ b[j] = response[j]
             \/ j <= k + l /\ j - k \in 1 .. l /\ b[j] = p[j - k]
             \/ j > k + l /\ j - (k + l) \in 1 .. m /\ b[j] = s[j - (k + l)]
  <2>1. CASE j <= k
    <3>1. j \in 1 .. k
      BY <2>1
    <3>. QED
      BY <2>1, <3>1, <1>8
  <2>2. CASE ~(j <= k) /\ j <= k + l
    <3>1. j \in k + 1 .. k + (l + m) /\ j - k \in 1 .. l
      BY <2>2
    <3>2. b[j] = w[j - k]
      BY <3>1, <1>8
    <3>3. w[j - k] = p[j - k]
      BY <3>1, <1>7
    <3>. QED
      BY <2>2, <3>1, <3>2, <3>3
  <2>3. CASE ~(j <= k + l)
    <3>1. j \in k + 1 .. k + (l + m) /\ j - k \in l + 1 .. l + m /\ (j - k) - l = j - (k + l)
          /\ j - (k + l) \in 1 .. m /\ j > k + l
      BY <2>3
    <3>2. b[j] = w[j - k]
      BY <3>1, <1>8
    <3>3. w[j - k] = s[(j - k) - l]
      BY <3>1, <1>7
    <3>. QED
      BY <3>1, <3>2, <3>3
  <2>. QED
    BY <2>1, <2>2, <2>3
<1>10. \A i \in 1 .. l : i + k \in 1 .. k + (l + m) /\ i + k \in k + 1 .. k + (l + m) /\ (i + k) - k = i /\ i + k <= k + l
  OBVIOUS
<1>11. \A i \in 1 .. l : b[i + k] = p[i]
  <2>1. SUFFICES ASSUME NEW i \in 1 .. l PROVE b[i + k] = p[i]
    OBVIOUS
  <2>2. b[i + k] = w[(i + k) - k]
    BY <1>8, <1>10
  <2>. QED
    BY <2>2, <1>7, <1>10
<1>12. ASSUME NEW c \in Fresh(v)
       PROVE  \E i \in 1 .. k + (l + m) : i <= k + l /\ b[i] = Resolution(c)
  <2>1. PICK i \in 1 .. l : p[i] = Resolution(c)
    BY <1>3, <1>5 DEF Halves, AllResolved
  <2>. QED
    BY <2>1, <1>10, <1>11
<1>13. ASSUME NEW j \in 1 .. k + (l + m)
       PROVE  Meant(v, b[j]) /\ (b[j].type = "stopped" => j > k + l)
  <2>1. CASE j <= k /\ j \in 1 .. k /\ b[j] = response[j]
    <3>1. Quiet(v, b[j])
      BY <2>1, <1>5
    <3>. QED
      BY <3>1 DEF Quiet
  <2>2. CASE j <= k + l /\ j - k \in 1 .. l /\ b[j] = p[j - k]
    <3>1. Quiet(v, b[j])
      BY <2>2, <1>3, <1>5 DEF Halves
    <3>. QED
      BY <3>1 DEF Quiet
  <2>3. CASE j > k + l /\ j - (k + l) \in 1 .. m /\ b[j] = s[j - (k + l)]
    BY <2>3, <1>3, <1>5 DEF Halves
  <2>. QED
    BY <1>9, <2>1, <2>2, <2>3
<1>14. ASSUME NEW j \in 1 .. k + (l + m), b[j].type = "stopped", NEW c \in Fresh(v)
       PROVE  \E i \in 1 .. j - 1 : b[i] = Resolution(c)
  <2>1. PICK i \in 1 .. k + (l + m) : i <= k + l /\ b[i] = Resolution(c)
    BY <1>12
  <2>2. j > k + l
    BY <1>13, <1>14
  <2>3. i \in 1 .. j - 1
    BY <2>1, <2>2
  <2>. QED
    BY <2>1, <2>3
<1>15. Sorted(v, b)
  BY <1>8, <1>12, <1>13, <1>14 DEF Sorted
<1>. QED
  BY <1>3, <1>4, <1>15

(* What the machine answers to an actor effect that is still due.           *)
LEMMA ReplyMeant ==
  ASSUME NEW id \in CheckId, View(machine), LogOK(machine), StillDue(id)
  PROVE  Quiet(machine, ActorUnit(id))
<1>1. PICK u : u = ActorUnit(id)
  OBVIOUS
<1>2. CASE id[1] = "create"
  <2>1. u.type = "created"
    BY <1>1, <1>2 DEF ActorUnit
  <2>. QED
    BY <1>1, <2>1 DEF Quiet, Meant
<1>3. CASE id[1] = "enqueue"
  <2>1. u.type = "enqueued"
    BY <1>1, <1>3 DEF ActorUnit
  <2>. QED
    BY <1>1, <2>1 DEF Quiet, Meant
<1>4. CASE id[1] = "reply"
  <2>1. u = [type |-> "replied", p |-> id[2], msg |-> id[3], resolves |-> Resolves(id[3])]
    BY <1>1, <1>4 DEF ActorUnit
  <2>2. PICK msg : msg = id[3]
    OBVIOUS
  <2>3. u.type = "replied" /\ u.p = id[2] /\ u.msg = msg /\ u.resolves = Resolves(msg)
    BY <2>1, <2>2
  <2>4. id \in DueReplies(machine)
    BY <1>4 DEF StillDue, Effects, DueCreates, DueEnqueues, DuePhases
  <2>5. id[2] \in Producer /\ ~IsItem(id[2]) /\ msg = Current(machine, id[2]) /\ msg # NoMessage
    BY <2>2, <2>4 DEF DueReplies, Doing
  <2>6. PICK e \in Endpoint, i \in Nat : e = id[2][2] /\ i = id[2][3] /\ i \in 1 .. Workers[e]
    BY <2>5, Producers, FanOutAssumption, SMTT(60)
  <2>7. msg = machine.current[e][i]
    BY <2>5, <2>6 DEF Current
  <2>8. msg \in InHands(machine, e)
    BY <2>5, <2>6, <2>7 DEF InHands
  <2>9. Asks(msg) /\ Count[msg.at] = 1 => Resolves(msg)
    BY DEF Resolves
  <2>. QED
    BY <1>1, <2>3, <2>6, <2>8, <2>9 DEF Quiet, Meant
<1>. QED
  BY <1>2, <1>3, <1>4 DEF CheckId

(* Which calls wait and what is settled after a step along the log.         *)
SameOpen(v, w) == w.calls = v.calls /\ w.settled = v.settled

LEMMA NobodyCalls ==
  ASSUME NEW v, DOMAIN v = Fields
  PROVE  /\ DOMAIN CompleteParallels(v) = Fields /\ SameOpen(v, CompleteParallels(v))
         /\ \A p, s : DOMAIN Goes(v, p, s) = Fields /\ SameOpen(v, Goes(v, p, s))
<1>1. ASSUME NEW x, DOMAIN x = Fields
      PROVE  DOMAIN CompleteParallels(x) = Fields /\ SameOpen(x, CompleteParallels(x))
  BY <1>1, Completes DEF SameActors, SameOpen
<1>2. ASSUME NEW p, NEW s
      PROVE  DOMAIN Goes(v, p, s) = Fields /\ SameOpen(v, Goes(v, p, s))
  <2>1. CASE IsItem(p)
    <3>1. PICK x : x = [v EXCEPT !.leaves = Append(RemoveAt(@, LeafOf(v, p[2])), [key |-> p[2], at |-> s])]
      OBVIOUS
    <3>2. DOMAIN x = Fields /\ x.calls = v.calls /\ x.settled = v.settled
      BY <3>1 DEF Fields
    <3>3. Goes(v, p, s) = CompleteParallels(x)
      BY <2>1, <3>1 DEF Goes
    <3>4. DOMAIN CompleteParallels(x) = Fields /\ SameOpen(x, CompleteParallels(x))
      BY <3>2, <1>1
    <3>. QED
      BY <3>2, <3>3, <3>4 DEF SameOpen
  <2>2. CASE ~IsItem(p)
    BY <2>2 DEF Goes, Fields, SameOpen
  <2>. QED
    BY <2>1, <2>2
<1>. QED
  BY <1>1, <1>2

LEMMA ResolveTakes ==
  ASSUME NEW v, DOMAIN v = Fields, NEW c
  PROVE  Resolve(v, c).calls = v.calls \ {c} /\ Resolve(v, c).settled \subseteq v.settled
<1>1. PICK y : y = [v EXCEPT !.calls = @ \ {c}, !.settled = @ \ Members(c)]
  OBVIOUS
<1>2. DOMAIN y = Fields /\ y.calls = v.calls \ {c} /\ y.settled = v.settled \ Members(c)
  BY <1>1 DEF Fields
<1>3. Resolve(v, c) = Goes(y, c.from, Target[c.at])
  BY <1>1 DEF Resolve
<1>4. SameOpen(y, Goes(y, c.from, Target[c.at]))
  BY <1>2, NobodyCalls
<1>. QED
  BY <1>2, <1>3, <1>4 DEF SameOpen

LEMMA ProjectSettles ==
  ASSUME NEW v, DOMAIN v = Fields, NEW u, u.type \in UnitType, NEW m \in Project(v, u).settled, m \notin v.settled
  PROVE  u.type = "replied" /\ m = u.msg
<1>1. PICK w : w = Project(v, u)
  OBVIOUS
<1>2. m \in w.settled
  BY <1>1
<1>3. CASE u.type \in {"failure", "created", "closing", "invoke", "accepted"}
  BY <1>1, <1>2, <1>3 DEF Project, Fields
<1>4. CASE u.type = "spawned"
  <2>1. CASE v.chart # "map"
    BY <2>1, <1>1, <1>2, <1>4 DEF Project
  <2>2. CASE v.chart = "map"
    <3>1. PICK x : x = [v EXCEPT !.chart = IF u.n = 0 THEN "end" ELSE "each",
                                 !.leaves = [k \in 1 .. u.n |-> [key |-> k, at |-> First]]]
      OBVIOUS
    <3>2. DOMAIN x = Fields /\ x.settled = v.settled
      BY <3>1 DEF Fields
    <3>3. w = CompleteParallels(x)
      BY <3>1, <2>2, <1>1, <1>4 DEF Project
    <3>. QED
      BY <3>2, <3>3, <1>2, NobodyCalls DEF SameOpen
  <2>. QED
    BY <2>1, <2>2
<1>5. CASE u.type = "complete"
  <2>1. CASE At(v, u.p) # u.at
    BY <2>1, <1>1, <1>2, <1>5 DEF Project
  <2>2. CASE At(v, u.p) = u.at /\ u.to = "abort"
    <3>1. w = Leave(v)
      BY <2>2, <1>1, <1>5 DEF Project
    <3>. QED
      BY <3>1, <1>2 DEF Leave, Fields
  <2>3. CASE At(v, u.p) = u.at /\ u.to # "abort"
    <3>1. PICK x : x = [v EXCEPT !.pending[u.p] = 0]
      OBVIOUS
    <3>2. DOMAIN x = Fields /\ x.settled = v.settled
      BY <3>1 DEF Fields
    <3>3. w = Goes(x, u.p, u.to)
      BY <3>1, <2>3, <1>1, <1>5 DEF Project
    <3>. QED
      BY <3>2, <3>3, <1>2, NobodyCalls DEF SameOpen
  <2>. QED
    BY <2>1, <2>2, <2>3
<1>6. CASE u.type = "enqueued"
  <2>1. PICK x : x = [v EXCEPT !.mailbox[To[u.at]] = @ \o Batch(u.p, u.at, u.visit), !.sends[u.p] = u.visit]
    OBVIOUS
  <2>2. DOMAIN x = Fields /\ x.settled = v.settled
    BY <2>1 DEF Fields
  <2>3. w = IF Kind[u.at] = "call" THEN [x EXCEPT !.calls = @ \cup {Call(u.p, u.at, u.visit)}]
            ELSE Goes(x, u.p, Target[u.at])
    BY <2>1, <1>1, <1>6 DEF Project
  <2>4. Kind[u.at] = "call" => w.settled = x.settled
    BY <2>2, <2>3 DEF Fields
  <2>5. SameOpen(x, Goes(x, u.p, Target[u.at]))
    BY <2>2, NobodyCalls
  <2>. QED
    BY <2>2, <2>3, <2>4, <2>5, <1>2 DEF SameOpen
<1>7. CASE u.type = "replied"
  <2>1. PICK x : x = [v EXCEPT !.current[u.p[2]][u.p[3]] = NoMessage, !.at[u.p[2]][u.p[3]] = Target[@],
                               !.settled = IF Asks(u.msg) THEN @ \cup {u.msg} ELSE @]
    OBVIOUS
  <2>2. DOMAIN x = Fields /\ x.settled \subseteq v.settled \cup {u.msg}
    BY <2>1 DEF Fields
  <2>3. w = IF u.resolves THEN Resolve(x, CallOf(u.msg)) ELSE x
    <3>1. Project(v, u) =
            LET over == [v EXCEPT !.current[u.p[2]][u.p[3]] = NoMessage, !.at[u.p[2]][u.p[3]] = Target[@],
                                  !.settled = IF Asks(u.msg) THEN @ \cup {u.msg} ELSE @]
            IN IF u.resolves THEN Resolve(over, CallOf(u.msg)) ELSE over
      BY <1>7 DEF Project
    <3>. QED
      BY <3>1, <2>1, <1>1
  <2>4. w.settled \subseteq x.settled
    BY <2>2, <2>3, ResolveTakes
  <2>. QED
    BY <2>2, <2>4, <1>2, <1>7
<1>8. CASE u.type = "resolved"
  <2>1. w = Resolve(v, u.call)
    BY <1>1, <1>8 DEF Project
  <2>. QED
    BY <2>1, <1>2, ResolveTakes
<1>9. CASE u.type = "stopped"
  <2>1. PICK x : x = [v EXCEPT !.status[u.e] = "stopped"]
    OBVIOUS
  <2>2. DOMAIN x = Fields /\ x.settled = v.settled
    BY <2>1 DEF Fields
  <2>3. w = CompleteParallels(x)
    BY <2>1, <1>1, <1>9 DEF Project
  <2>. QED
    BY <2>2, <2>3, <1>2, NobodyCalls DEF SameOpen
<1>. QED
  BY <1>3, <1>4, <1>5, <1>6, <1>7, <1>8, <1>9 DEF UnitType

LEMMA ResolutionTakes ==
  ASSUME NEW v, DOMAIN v = Fields, NEW c
  PROVE  c \notin Project(v, Resolution(c)).calls
<1>1. PICK u : u = Resolution(c)
  OBVIOUS
<1>2. u.type = "resolved" /\ u.call = c
  BY <1>1 DEF Resolution
<1>3. Project(v, u) = Resolve(v, c)
  BY <1>2 DEF Project
<1>. QED
  BY <1>1, <1>3, ResolveTakes

(* Only calls that are due to be resolved are marked so.                    *)
LEMMA DesiredResolves ==
  ASSUME NEW v, NEW r, NEW c, <<"resolve", c>> \in Desired(v, r)
  PROVE  c \in DueBatches(v)
<1>1. PICK x : x = <<"resolve", c>>
  OBVIOUS
<1>2. x[1] = "resolve" /\ x[2] = c /\ x \in Desired(v, r)
  BY <1>1
<1>3. \A ids : Chosen(ids) \subseteq ids
  BY DEF Chosen
<1>4. x \notin Chosen(DueSpawns(v))
  BY <1>2, <1>3 DEF DueSpawns
<1>5. x \notin Chosen(DueAdmissionFailures(v))
  BY <1>2, <1>3 DEF DueAdmissionFailures
<1>6. x \notin Chosen(Unsupported(v, r))
  BY <1>2, <1>3 DEF Unsupported
<1>7. x \notin UNION {{AcceptId(a) : a \in Range(DueAccepts(v, e, r))} : e \in Endpoint}
  BY <1>2 DEF AcceptId
<1>8. x \notin {<<"invoke", y>> : y \in DueInvokes(v)}
  BY <1>2
<1>9. x \notin {<<"closing", e>> : e \in DueClosings(v)} /\ x \notin {<<"stopped", e>> : e \in DueStops(v)}
  BY <1>2
<1>10. x \notin Effects(v)
  BY <1>2 DEF Effects, DueCreates, DueEnqueues, DueReplies, DuePhases
<1>11. x \in {<<"resolve", d>> : d \in DueBatches(v)}
  BY <1>2, <1>4, <1>5, <1>6, <1>7, <1>8, <1>9, <1>10 DEF Desired
<1>. QED
  BY <1>2, <1>11

(* The invariant of the actors.                                             *)
Orderly ==
  /\ LogOK(machine) /\ LogOK(durable) /\ Knows(machine)
  /\ \A i \in 1 .. Len(batch) : Meant(machine, batch[i])
  /\ StopsOK
  /\ loop = "ready" => Climbs(machine, durable, queue) /\ ResolvingOK

LEMMA OutputOrders ==
  ASSUME NEW v, View(v), LogOK(v), View(durable), LogOK(durable), Further(v, durable), Knows(v),
         Climbs(v, durable, Tail(queue)), ResolvingOK, batch = <<>>, loop = "ready",
         NEW r, Reservations(v, r), NEW gone, NEW n \in 0 .. MaxItems,
         NEW R, NEW response \in Seq(R), \A i \in 1 .. Len(response) : Quiet(v, response[i]),
         Output(v, r, response, gone, n)
  PROVE  Orderly'
<1>1. PICK over \in BOOLEAN : over = (v.failed \/ v.chart = "done")
  OBVIOUS
<1>2. machine' = v /\ durable' = durable
  BY DEF Output
<1>3. LogOK(machine)' /\ LogOK(durable)' /\ Knows(machine)'
  BY <1>2 DEF Knows
<1>4. CASE over
  <2>1. loop' \in {"failed", "final"} /\ batch' = <<>>
    BY <1>1, <1>4 DEF Output
  <2>2. Len(batch') = 0
    BY <2>1
  <2>. QED
    BY <1>3, <2>1, <2>2 DEF Orderly, StopsOK
<1>5. CASE ~over
  <2>1. dispatched' = Desired(v, r) /\ batch' = response \o Appends(v, r, n) /\ queue' = Tail(queue) /\ loop' = loop
    BY <1>1, <1>5 DEF Output
  <2>2. Sorted(v, batch')
    <3>1. r \in [Endpoint -> Seq(Accept)] /\ \A e \in Endpoint : Len(r[e]) <= Len(v.mailbox[e])
      BY DEF Reservations
    <3>. QED
      BY <3>1, <2>1, OutputSorted
  <2>3. \A i \in 1 .. Len(batch') : Meant(v, batch'[i])
    BY <2>2 DEF Sorted
  <2>4. ASSUME NEW c \in Calls, c \in durable.calls, c \in DueBatches(v)
        PROVE  c \in Fresh(v)
    <3>1. ~\E i \in 1 .. Len(batch) : batch[i] = Resolution(c)
      OBVIOUS
    <3>2. <<"resolve", c>> \notin dispatched
      BY <3>1, <2>4 DEF ResolvingOK
    <3>. QED
      BY <3>2, <2>4 DEF Fresh
  <2>5. ASSUME NEW j \in 1 .. Len(batch'), batch'[j].type = "stopped", NEW c \in durable.calls, To[c.at] = batch'[j].e,
               Members(c) \subseteq durable.settled
        PROVE  \E i \in 1 .. j - 1 : batch'[i] = Resolution(c)
    <3>1. PICK e : e = batch'[j].e
      OBVIOUS
    <3>2. Quiescent(v, e)
      BY <2>3, <2>5, <3>1 DEF Meant
    <3>3. c \in Calls /\ c.at \in DOMAIN To /\ c.from \in Producer /\ c.visit \in Nat /\ c.at \in State
      BY FanOutAssumption DEF View, ActorsOK, Asking, Calls, Of
    <3>4. e \in Endpoint
      BY <3>1, <3>3, <2>5, FanOutAssumption
    <3>5. PICK m \in Members(c) : TRUE
      BY <3>3, MembersAre
    <3>6. m.from = c.from /\ m.at = c.at /\ m.visit = c.visit
      BY <3>3, MembersAre
    <3>7. c \in v.calls
      <4>1. SUFFICES ASSUME c \notin v.calls PROVE FALSE
        OBVIOUS
      <4>2. c.visit > v.sends[c.from]
        BY <4>1 DEF Further
      <4>3. c.visit <= v.sends[c.from]
        BY <2>5, <3>5, <3>6 DEF Knows
      <4>4. v.sends[c.from] \in Nat
        BY <3>3 DEF View, ActorsOK
      <4>. QED
        BY <3>3, <4>2, <4>3, <4>4
    <3>8. InBox(v, e) = {} /\ InHands(v, e) = {}
      <4>1. v.mailbox[e] = <<>> /\ \A i \in 1 .. Workers[e] : v.current[e][i] = NoMessage
        BY <3>2 DEF Quiescent, Busy
      <4>2. InBox(v, e) = {}
        BY <4>1 DEF InBox, Range
      <4>3. InHands(v, e) = {}
        BY <4>1 DEF InHands
      <4>. QED
        BY <4>2, <4>3
    <3>9. Members(c) \subseteq v.settled
      BY <3>1, <3>7, <3>8, <2>5 DEF LogOK, CallsOK
    <3>10. Count[c.at] > 1
      BY <3>5, <3>6, <3>9 DEF LogOK, SettledOK
    <3>11. c \in Fresh(v)
      BY <3>3, <3>7, <3>9, <3>10, <2>4 DEF DueBatches
    <3>. QED
      BY <3>11, <2>2, <2>5 DEF Sorted
  <2>6. StopsOK'
    BY <2>5, <1>2 DEF StopsOK
  <2>7. ResolvingOK'
    <3>1. ASSUME NEW c \in Calls, <<"resolve", c>> \in dispatched'
          PROVE  c \in v.calls /\ (c \in durable.calls => \E i \in 1 .. Len(batch') : batch'[i] = Resolution(c))
      <4>1. c \in DueBatches(v)
        BY <3>1, <2>1, DesiredResolves
      <4>2. c \in v.calls
        BY <4>1 DEF DueBatches
      <4>3. c \in durable.calls => \E i \in 1 .. Len(batch') : batch'[i] = Resolution(c)
        BY <4>1, <2>2, <2>4 DEF Sorted
      <4>. QED
        BY <4>2, <4>3
    <3>. QED
      BY <3>1, <1>2 DEF ResolvingOK
  <2>8. Climbs(machine', durable', queue')
    BY <1>2, <2>1
  <2>. QED
    BY <1>2, <1>3, <2>3, <2>6, <2>7, <2>8 DEF Orderly
<1>. QED
  BY <1>1, <1>4, <1>5

(* The events that leave the projection as it is.                           *)
LEMMA StillOrders ==
  ASSUME Inv, Orderly, loop = "ready", batch = <<>>, queue # <<>>, Head(queue).kind # "ack",
         NEW R, NEW response \in Seq(R), \A i \in 1 .. Len(response) : Quiet(machine, response[i]),
         NEW n \in Sizes[machine.rounds], Output(machine, reserved, response, {}, n)
  PROVE  Orderly'
<1>1. /\ View(machine) /\ View(durable) /\ machine.rounds <= MaxRounds /\ queue \in Seq(Happening)
      /\ Reservations(machine, reserved)
  BY DEF Inv, ViewsOK, PiecesOK
<1>2. LogOK(machine) /\ LogOK(durable) /\ Knows(machine) /\ Climbs(machine, durable, queue) /\ ResolvingOK
  BY DEF Orderly
<1>3. machine = Led(machine, Head(queue))
  BY DEF Led
<1>4. Climbs(machine, durable, Tail(queue)) /\ Further(machine, durable)
  BY <1>1, <1>2, <1>3, ClimbDown
<1>5. n \in 0 .. MaxItems
  BY <1>1, SizesFit
<1>. QED
  BY <1>1, <1>2, <1>4, <1>5, OutputOrders

LEMMA StartOrders ==
  ASSUME Inv, Orderly, StepStart
  PROVE  Orderly'
<1>1. loop = "ready" /\ batch = <<>> /\ queue # <<>> /\ Head(queue).kind = "start"
  BY DEF StepStart, Awaiting
<1>2. PICK n \in Sizes[machine.rounds] : Output(machine, reserved, <<>>, {}, n)
  BY DEF StepStart
<1>3. PICK response \in Seq(Unit) : response = <<>>
  BY <<>> \in Seq(Unit)
<1>4. \A i \in 1 .. Len(response) : Quiet(machine, response[i])
  BY <1>3
<1>5. Output(machine, reserved, response, {}, n)
  BY <1>2, <1>3
<1>. QED
  BY <1>1, <1>4, <1>5, StillOrders

LEMMA ActorEffectOrders ==
  ASSUME Inv, Orderly, StepActorEffect
  PROVE  Orderly'
<1>1. loop = "ready" /\ batch = <<>> /\ queue # <<>> /\ Head(queue).kind = "checked"
  BY DEF StepActorEffect, Awaiting
<1>2. PICK id : id = Head(queue).id
  OBVIOUS
<1>3. PICK response : response = IF StillDue(id) THEN <<ActorUnit(id)>> ELSE <<>>
  OBVIOUS
<1>4. PICK n \in Sizes[machine.rounds] : Output(machine, reserved, response, {}, n)
  BY <1>2, <1>3 DEF StepActorEffect
<1>5. id \in CheckId
  <2>1. Head(queue) \in Happening
    BY <1>1 DEF Inv, PiecesOK
  <2>. QED
    BY <2>1, <1>1, <1>2 DEF Happening
<1>6. PICK u : u = ActorUnit(id)
  OBVIOUS
<1>7. response \in Seq({u}) /\ \A i \in 1 .. Len(response) : Quiet(machine, response[i])
  <2>1. StillDue(id) => Quiet(machine, u)
    BY <1>5, <1>6, ReplyMeant DEF Inv, ViewsOK, Orderly
  <2>2. CASE StillDue(id)
    <3>1. response = <<u>>
      BY <2>2, <1>3, <1>6
    <3>2. response \in Seq({u}) /\ Len(response) = 1 /\ response[1] = u
      BY <3>1
    <3>. QED
      BY <3>2, <2>1, <2>2
  <2>3. CASE ~StillDue(id)
    <3>1. response = <<>>
      BY <2>3, <1>3
    <3>. QED
      BY <3>1
  <2>. QED
    BY <2>2, <2>3
<1>. QED
  BY <1>1, <1>4, <1>7, StillOrders

LEMMA WorkOrders ==
  ASSUME Inv, Orderly, StepWork
  PROVE  Orderly'
<1>1. loop = "ready" /\ batch = <<>> /\ queue # <<>> /\ Head(queue).kind = "worked"
  BY DEF StepWork, Awaiting
<1>2. PICK id : id = Head(queue).id
  OBVIOUS
<1>3. PICK current \in BOOLEAN : current = (machine.pending[id[2]] = id[4] /\ At(machine, id[2]) = id[3])
  OBVIOUS
<1>4. PICK u : u = [type |-> "complete", p |-> id[2], at |-> id[3], to |-> Head(queue).to]
  OBVIOUS
<1>5. PICK response : response = IF current THEN <<u>> ELSE <<>>
  OBVIOUS
<1>6. PICK n \in Sizes[machine.rounds] : Output(machine, reserved, response, {}, n)
  BY <1>2, <1>3, <1>4, <1>5 DEF StepWork
<1>7. Quiet(machine, u)
  BY <1>4 DEF Quiet, Meant
<1>8. response \in Seq({u}) /\ \A i \in 1 .. Len(response) : Quiet(machine, response[i])
  <2>1. CASE current
    <3>1. response \in Seq({u}) /\ Len(response) = 1 /\ response[1] = u
      BY <2>1, <1>5
    <3>. QED
      BY <3>1, <1>7
  <2>2. CASE ~current
    <3>1. response = <<>>
      BY <2>2, <1>5
    <3>. QED
      BY <3>1
  <2>. QED
    BY <2>1, <2>2
<1>. QED
  BY <1>1, <1>6, <1>8, StillOrders

(* The machine learns of a unit.                                            *)
LEMMA AckOrders ==
  ASSUME Inv, Orderly, StepAck
  PROVE  Orderly'
<1>1. loop = "ready" /\ batch = <<>> /\ queue # <<>> /\ Head(queue).kind = "ack" /\ queue \in Seq(Happening)
  BY DEF StepAck, Awaiting, Inv, PiecesOK
<1>2. PICK u : u = Head(queue).unit
  OBVIOUS
<1>3. PICK v : v = Project(machine, u)
  OBVIOUS
<1>4. PICK gone : gone = {t \in tasks : v.pending[t[2]] # t[4]}
  OBVIOUS
<1>5. PICK r : r = Forgotten(u)
  OBVIOUS
<1>6. PICK n \in Sizes[v.rounds] : Output(v, r, <<>>, gone, n)
  BY <1>2, <1>3, <1>4, <1>5 DEF StepAck
<1>7. /\ View(machine) /\ MailOK(machine) /\ View(durable)
      /\ Reservations(machine, reserved) /\ Marked(reserved, dispatched) /\ Spans(machine, durable, queue)
  BY <1>1 DEF Inv, ViewsOK
<1>8. UnitFits(u) /\ ~Rejects(machine, u) /\ StepOf(machine, v, u) /\ v.rounds <= MaxRounds
  BY <1>1, <1>2, <1>3, <1>7, ChainAdvances
<1>9. View(v)
  BY <1>8 DEF StepOf
<1>10. MailsOf(machine, v, u)
  BY <1>3, <1>7, <1>8, MailStep
<1>11. u \in Unit /\ Reserving(machine, reserved, u)
  <2>1. Head(queue) \in Happening /\ Head(queue) = queue[1] /\ 1 \in 1 .. Len(queue)
    BY <1>1
  <2>2. EventFits(machine, reserved, queue[1])
    BY <2>1 DEF Inv, OnTheWay
  <2>. QED
    BY <2>1, <2>2, <1>1, <1>2 DEF Happening, EventFits
<1>12. Reservations(v, r)
  BY <1>5, <1>7, <1>9, <1>10, <1>11, ReservationsMove
<1>13. n \in 0 .. MaxItems
  BY <1>8, <1>9, SizesFit
<1>14. LogOK(durable) /\ Knows(machine) /\ Climbs(machine, durable, queue) /\ ResolvingOK
  BY <1>1 DEF Orderly
<1>15. v = Led(machine, Head(queue))
  BY <1>1, <1>2, <1>3 DEF Led
<1>16. Climbs(v, durable, Tail(queue)) /\ LogOK(v) /\ Further(v, durable)
  BY <1>1, <1>14, <1>15, ClimbDown
<1>17. Knows(v)
  <2>1. ASSUME NEW m \in durable.settled
        PROVE  m.visit <= v.sends[m.from]
    <3>1. m.from \in Producer /\ m.visit \in Nat
      BY <1>7 DEF View, ActorsOK, Messages
    <3>2. m.visit <= machine.sends[m.from] /\ machine.sends[m.from] <= v.sends[m.from]
      BY <3>1, <1>10, <1>14 DEF Knows, MailsOf
    <3>3. machine.sends[m.from] \in Nat /\ v.sends[m.from] \in Nat
      BY <3>1, <1>7, <1>9 DEF View, ActorsOK
    <3>. QED
      BY <3>1, <3>2, <3>3
  <2>. QED
    BY <2>1 DEF Knows
<1>18. PICK response \in Seq(Unit) : response = <<>>
  BY <<>> \in Seq(Unit)
<1>19. \A i \in 1 .. Len(response) : Quiet(v, response[i])
  BY <1>18
<1>20. Output(v, r, response, gone, n)
  BY <1>6, <1>18
<1>. QED
  BY <1>1, <1>19, <1>20, <1>7, <1>9, <1>12, <1>13, <1>14, <1>16, <1>17, OutputOrders

(* What the machine meant by a unit is still so on the log.                 *)
LEMMA StillLegal ==
  ASSUME Inv, Orderly, loop = "ready", batch # <<>>, NEW u \in Unit, u = batch[1]
  PROVE  Legal(durable, u)
<1>1. batch \in Seq(Unit) /\ queue \in Seq(Happening)
  BY DEF Inv, PiecesOK
<1>2. Meant(machine, u) /\ StopsOK /\ LogOK(machine)
  <2>1. 1 \in 1 .. Len(batch)
    BY <1>1
  <2>. QED
    BY <2>1 DEF Orderly
<1>3. Further(machine, durable)
  BY <1>1, ClimbSpans DEF Orderly
<1>4. u.type \in {"closing", "stopped"} => u.e \in Endpoint
  BY DEF Unit, UnitFits, UnitOK
<1>5. u.type = "failure" => \E e \in Endpoint : Stuck(durable, e)
  BY <1>2, <1>3 DEF Meant, Further
<1>6. u.type = "closing" => durable.status[u.e] # "none" /\ durable.chart \in {"end", "done"}
  BY <1>2, <1>3, <1>4 DEF Meant, Further
<1>7. ASSUME u.type = "stopped"
      PROVE  /\ durable.chart \in {"end", "done"}
             /\ \A c \in durable.calls : To[c.at] = u.e => ~(Members(c) \subseteq durable.settled)
  <2>1. machine.status[u.e] = "closing"
    BY <1>2, <1>7 DEF Meant
  <2>2. machine.chart \in {"end", "done"}
    BY <2>1, <1>2, <1>4, <1>7 DEF LogOK, StatusOK
  <2>3. ASSUME NEW c \in durable.calls, To[c.at] = u.e
        PROVE  ~(Members(c) \subseteq durable.settled)
    <3>1. 1 \in 1 .. Len(batch) /\ batch[1].type = "stopped" /\ To[c.at] = batch[1].e
      BY <1>1, <1>7, <2>3
    <3>2. ~\E i \in 1 .. 1 - 1 : batch[i] = Resolution(c)
      OBVIOUS
    <3>. QED
      BY <3>1, <3>2, <1>2 DEF StopsOK
  <2>. QED
    BY <2>2, <2>3, <1>3 DEF Further
<1>8. u.type = "replied" => (Asks(u.msg) /\ Count[u.msg.at] = 1 => u.resolves)
  BY <1>2 DEF Meant
<1>. QED
  BY <1>5, <1>6, <1>7, <1>8 DEF Legal

LEMMA CommitOrders ==
  ASSUME Inv, Inv', Orderly, Commit
  PROVE  Orderly'
<1>1. /\ loop = "ready" /\ batch # <<>> /\ batch \in Seq(Unit) /\ queue \in Seq(Happening)
      /\ machine' = machine /\ dispatched' = dispatched
  BY DEF Commit, Inv, PiecesOK
<1>2. PICK u \in Unit : u = batch[1] /\ u = Head(batch)
  BY <1>1
<1>3. CASE Rejects(durable, u)
  <2>1. loop' = "threw" /\ batch' = <<>> /\ durable' = durable
    BY <1>2, <1>3 DEF Commit
  <2>2. Len(batch') = 0
    BY <2>1
  <2>. QED
    BY <2>1, <2>2, <1>1 DEF Orderly, StopsOK, Knows
<1>4. CASE ~Rejects(durable, u)
  <2>1. PICK event : event = [kind |-> "ack", unit |-> u]
    OBVIOUS
  <2>2. event \in Happening /\ event.kind = "ack" /\ event.unit = u
    BY <2>1 DEF Happening
  <2>3. PICK d : d = Project(durable, u)
    OBVIOUS
  <2>4. durable' = d /\ queue' = Append(queue, event) /\ batch' = Tail(batch) /\ loop' = loop
    BY <1>2, <1>4, <2>1, <2>3 DEF Commit
  <2>5. /\ View(machine) /\ View(durable) /\ MailOK(durable) /\ View(d)
    BY <2>4 DEF Inv, ViewsOK
  <2>6. /\ LogOK(machine) /\ LogOK(durable) /\ Knows(machine) /\ StopsOK /\ ResolvingOK
        /\ Climbs(machine, durable, queue) /\ Further(machine, durable)
        /\ \A i \in 1 .. Len(batch) : Meant(machine, batch[i])
    <3>1. Climbs(machine, durable, queue)
      BY <1>1 DEF Orderly
    <3>2. Further(machine, durable)
      BY <3>1, <1>1, ClimbSpans
    <3>. QED
      BY <3>1, <3>2, <1>1 DEF Orderly
  <2>7. Keeps(durable, d)
    <3>1. UnitFits(u)
      BY DEF Unit
    <3>2. Legal(durable, u)
      BY <1>1, <1>2, StillLegal
    <3>. QED
      BY <3>1, <3>2, <1>4, <2>3, <2>5, <2>6, ProjectKeeps
  <2>8. LogOK(d) /\ Further(durable, d)
    BY <2>7 DEF Keeps
  <2>9. Climbs(machine, d, queue')
    <3>1. d = Led(durable, event)
      BY <2>2, <2>3 DEF Led
    <3>. QED
      BY <3>1, <1>1, <2>2, <2>4, <2>5, <2>6, <2>7, ClimbOn
  <2>10. PICK rest \in Seq(Unit) : rest = Tail(batch)
    <3>1. Tail(batch) \in Seq(Unit)
      BY <1>1
    <3>. QED
      BY <3>1
  <2>11. PICK l \in Nat : Len(batch) = l + 1
    <3>1. Len(batch) \in Nat \ {0}
      BY <1>1
    <3>. QED
      BY <3>1
  <2>12. Len(rest) = l /\ \A i \in 1 .. l : rest[i] = batch[i + 1] /\ i + 1 \in 1 .. l + 1
    BY <1>1, <2>10, <2>11
  <2>13. \A i \in 1 .. l : Meant(machine, rest[i])
    BY <2>6, <2>11, <2>12
  <2>14. \A p \in Producer : machine.sends[p] \in Nat /\ durable.sends[p] \in Nat /\ machine.sends[p] <= durable.sends[p]
    BY <2>5, <2>6 DEF View, ActorsOK, Further
  <2>15. u.type = "replied" => u.p[2] \in Endpoint /\ u.msg \in InHands(machine, u.p[2])
    <3>1. u.type = "replied" => u.p \in Producer /\ ~IsItem(u.p)
      BY DEF Unit, UnitFits, UnitOK
    <3>2. 1 \in 1 .. Len(batch)
      BY <1>1
    <3>3. Meant(machine, u)
      BY <3>2, <1>2, <2>6
    <3>. QED
      BY <3>1, <3>3, Producers DEF Meant
  <2>16. ASSUME NEW m \in d.settled
         PROVE  \/ m \in durable.settled
                \/ u.type = "replied" /\ m = u.msg
    <3>1. DOMAIN durable = Fields /\ u.type \in UnitType
      BY <2>5 DEF View, Unit, UnitFits
    <3>. QED
      BY <3>1, <2>3, ProjectSettles
  <2>17. ASSUME NEW m \in d.settled
         PROVE  m.visit <= machine.sends[m.from]
    <3>1. CASE m \in durable.settled
      BY <3>1, <2>6 DEF Knows
    <3>2. CASE u.type = "replied" /\ m = u.msg
      <4>1. PICK e \in Endpoint : m \in InHands(machine, e)
        BY <3>2, <2>15
      <4>. QED
        BY <4>1, <2>6 DEF LogOK, OpenOK, Proper
    <3>. QED
      BY <3>1, <3>2, <2>16
  <2>18. ASSUME NEW c \in d.calls
         PROVE  /\ c \in Calls /\ c.at \in DOMAIN To /\ c.from \in Producer /\ c.visit \in Nat /\ To[c.at] \in Endpoint
                /\ c \in durable.calls \/ c.visit > machine.sends[c.from]
    <3>1. c \in Calls /\ c.at \in DOMAIN To /\ c.from \in Producer /\ c.visit \in Nat
      BY <2>5, FanOutAssumption DEF View, ActorsOK, Asking, Calls, Of
    <3>2. c \in durable.calls \/ c.visit > durable.sends[c.from]
      BY <2>8 DEF Further
    <3>3. c.visit > durable.sends[c.from] => c.visit > machine.sends[c.from]
      BY <3>1, <2>14
    <3>. QED
      BY <3>1, <3>2, <3>3, FanOutAssumption
  <2>19. ASSUME NEW c \in d.calls, NEW i \in 1 .. l + 1, batch[i] = Resolution(c)
         PROVE  i # 1 /\ i - 1 \in 1 .. l /\ rest[i - 1] = Resolution(c)
    <3>1. i # 1
      <4>1. SUFFICES ASSUME i = 1 PROVE FALSE
        OBVIOUS
      <4>2. u = Resolution(c)
        BY <4>1, <1>2, <2>19
      <4>3. c \notin d.calls
        BY <4>2, <2>3, <2>5, ResolutionTakes DEF View
      <4>. QED
        BY <4>3
    <3>2. i - 1 \in 1 .. l /\ (i - 1) + 1 = i
      BY <3>1
    <3>. QED
      BY <3>1, <3>2, <2>12, <2>19
  <2>20. ASSUME NEW j \in 1 .. l, rest[j].type = "stopped", NEW c \in d.calls, To[c.at] = rest[j].e,
                Members(c) \subseteq d.settled
         PROVE  \E i \in 1 .. j - 1 : rest[i] = Resolution(c)
    <3>1. PICK e \in Endpoint : e = To[c.at]
      BY <2>18
    <3>2. PICK m \in Members(c) : TRUE
      BY <2>18, MembersAre
    <3>3. \A k \in Members(c) : k.from = c.from /\ k.at = c.at /\ k.visit = c.visit
      BY <2>18, MembersAre
    <3>4. c \in durable.calls
      <4>1. SUFFICES ASSUME c.visit > machine.sends[c.from] PROVE FALSE
        BY <2>18
      <4>2. c.visit <= machine.sends[c.from]
        BY <3>2, <3>3, <2>17, <2>20
      <4>. QED
        BY <4>1, <4>2, <2>14, <2>18
    <3>5. Quiescent(machine, e)
      BY <3>1, <2>13, <2>20 DEF Meant
    <3>6. Members(c) \subseteq durable.settled
      <4>1. SUFFICES ASSUME NEW k \in Members(c), k \notin durable.settled PROVE FALSE
        OBVIOUS
      <4>2. u.type = "replied" /\ k = u.msg
        BY <4>1, <2>16, <2>20
      <4>3. PICK f \in Endpoint : f = u.p[2] /\ k \in InHands(machine, f)
        BY <4>2, <2>15
      <4>4. To[k.at] = f
        BY <4>3, <2>6 DEF LogOK, OpenOK
      <4>5. f = e
        BY <4>1, <4>4, <3>1, <3>3
      <4>6. InHands(machine, e) = {}
        BY <3>5 DEF Quiescent, Busy, InHands
      <4>. QED
        BY <4>3, <4>5, <4>6
    <3>7. j + 1 \in 1 .. Len(batch) /\ batch[j + 1] = rest[j]
      BY <2>11, <2>12
    <3>8. PICK i \in 1 .. (j + 1) - 1 : batch[i] = Resolution(c)
      BY <3>4, <3>6, <3>7, <2>6, <2>20 DEF StopsOK
    <3>9. i \in 1 .. l + 1
      OBVIOUS
    <3>10. i # 1 /\ rest[i - 1] = Resolution(c)
      BY <3>8, <3>9, <2>19
    <3>11. i - 1 \in 1 .. j - 1
      BY <3>10
    <3>. QED
      BY <3>10, <3>11
  <2>21. ASSUME NEW c \in Calls, <<"resolve", c>> \in dispatched, c \in d.calls
         PROVE  \E i \in 1 .. l : rest[i] = Resolution(c)
    <3>1. c \in machine.calls
      BY <2>6, <2>21 DEF ResolvingOK
    <3>2. c.visit <= machine.sends[c.from]
      BY <3>1, <2>6 DEF LogOK, CallsOK
    <3>3. c \in durable.calls
      BY <3>2, <2>14, <2>18, <2>21
    <3>4. PICK i \in 1 .. Len(batch) : batch[i] = Resolution(c)
      BY <3>3, <2>6, <2>21 DEF ResolvingOK
    <3>5. i - 1 \in 1 .. l /\ rest[i - 1] = Resolution(c)
      BY <3>4, <2>11, <2>19, <2>21
    <3>. QED
      BY <3>5
  <2>22. batch' = rest /\ Len(batch') = l
    BY <2>4, <2>10, <2>12
  <2>23. Knows(machine)'
    BY <1>1, <2>4, <2>17 DEF Knows
  <2>24. StopsOK'
    BY <2>4, <2>20, <2>22, ZenonT(60) DEF StopsOK
  <2>25. ResolvingOK'
    <3>1. \A c \in Calls : <<"resolve", c>> \in dispatched => c \in machine.calls
      BY <2>6 DEF ResolvingOK
    <3>. QED
      BY <3>1, <1>1, <2>4, <2>21, <2>22 DEF ResolvingOK
  <2>26. \A i \in 1 .. Len(batch') : Meant(machine, batch'[i])
    BY <2>13, <2>22
  <2>. QED
    BY <1>1, <2>4, <2>6, <2>8, <2>9, <2>23, <2>24, <2>25, <2>26 DEF Orderly
<1>. QED
  BY <1>3, <1>4

(* What runs beside the loop is heard of later.                             *)
LEMMA ArrivalOrders ==
  ASSUME Inv, Orderly, loop = "ready", NEW event \in Happening, event.kind # "ack", queue' = Append(queue, event),
         UNCHANGED <<durable, machine, dispatched, batch, loop>>
  PROVE  Orderly'
<1>1. queue \in Seq(Happening) /\ View(durable) /\ LogOK(durable) /\ Climbs(machine, durable, queue)
  BY DEF Inv, PiecesOK, ViewsOK, Orderly
<1>2. durable = Led(durable, event) /\ Keeps(durable, durable)
  BY <1>1, FurtherSelf DEF Led, Keeps
<1>3. PICK d : d = durable
  OBVIOUS
<1>4. Climbs(machine, d, queue')
  BY <1>1, <1>2, <1>3, ClimbOn
<1>5. Knows(machine)' /\ StopsOK' /\ ResolvingOK'
  BY DEF Orderly, Knows, StopsOK, ResolvingOK
<1>. QED
  BY <1>3, <1>4, <1>5 DEF Orderly

LEMMA BesideOrders ==
  ASSUME Inv, Orderly, Validates \/ Works
  PROVE  Orderly'
<1>1. CASE Validates
  <2>1. PICK id \in checks : Validated(id)
    BY <1>1 DEF Validates
  <2>2. id \in CheckId
    BY DEF Inv, PiecesOK
  <2>3. PICK event : event = [kind |-> "checked", id |-> id]
    OBVIOUS
  <2>4. event \in Happening /\ event.kind = "checked"
    BY <2>2, <2>3 DEF Happening
  <2>5. loop = "ready" /\ queue' = Append(queue, event) /\ UNCHANGED <<durable, machine, dispatched, batch, loop>>
    BY <2>1, <2>3 DEF Validated, Sends
  <2>. QED
    BY <2>4, <2>5, ArrivalOrders
<1>2. CASE Works
  <2>1. PICK id \in tasks : Worked(id)
    BY <1>2 DEF Works
  <2>2. PICK to : /\ to \in Outcome[id[3]] \cup
                       (IF id[3] \in Aborts /\ IsItem(id[2]) /\ machine.rounds < MaxRounds THEN {"abort"} ELSE {})
                  /\ queue' = Append(queue, [kind |-> "worked", id |-> id, to |-> to])
    BY <2>1 DEF Worked, Sends
  <2>3. PICK event : event = [kind |-> "worked", id |-> id, to |-> to]
    OBVIOUS
  <2>4. id \in TaskId /\ to \in State \cup {"abort"}
    <3>1. id \in TaskId
      BY DEF Inv, PiecesOK
    <3>2. id[3] \in Of({"work"})
      BY <3>1 DEF TaskId
    <3>3. Outcome[id[3]] \subseteq State
      BY <3>2, FanOutAssumption
    <3>. QED
      BY <3>1, <3>3, <2>2
  <2>5. event \in Happening /\ event.kind = "worked"
    BY <2>3, <2>4 DEF Happening
  <2>6. loop = "ready" /\ queue' = Append(queue, event) /\ UNCHANGED <<durable, machine, dispatched, batch, loop>>
    BY <2>1, <2>2, <2>3 DEF Worked
  <2>. QED
    BY <2>5, <2>6, ArrivalOrders
<1>. QED
  BY <1>1, <1>2

(* An attempt begins with what the log says.                                *)
LEMMA AnewOrders ==
  ASSUME NEW v, View(v), LogOK(v), NEW q, q = <<[kind |-> "start"]>>
  PROVE  Climbs(v, v, q) /\ \A m \in v.settled : m.visit <= v.sends[m.from]
<1>1. PICK event : event = [kind |-> "start"]
  OBVIOUS
<1>2. event \in Happening /\ event.kind # "ack"
  BY <1>1 DEF Happening
<1>3. q \in Seq(Happening) /\ Len(q) = 1 /\ q[1] = event
  BY <1>1, <1>2
<1>4. \A i \in 1 .. Len(q) : q[i].kind # "ack"
  BY <1>2, <1>3
<1>. QED
  BY <1>3, <1>4, ClimbStarts DEF LogOK, SettledOK, Proper

LEMMA RestartedOrders ==
  ASSUME Inv, Orderly, Restarted
  PROVE  Orderly'
<1>1. PICK v : v = durable
  OBVIOUS
<1>2. PICK q : q = <<[kind |-> "start"]>>
  OBVIOUS
<1>3. durable' = v /\ machine' = v /\ queue' = q /\ dispatched' = {} /\ batch' = <<>>
  BY <1>1, <1>2 DEF Restarted
<1>4. View(v) /\ LogOK(v)
  BY <1>1 DEF Inv, ViewsOK, Orderly
<1>5. Climbs(v, v, q) /\ \A m \in v.settled : m.visit <= v.sends[m.from]
  BY <1>2, <1>4, AnewOrders
<1>6. Len(batch') = 0
  BY <1>3
<1>7. Knows(machine)' /\ StopsOK' /\ ResolvingOK'
  BY <1>3, <1>5, <1>6 DEF Knows, StopsOK, ResolvingOK
<1>. QED
  BY <1>3, <1>4, <1>5, <1>6, <1>7 DEF Orderly

LEMMA EmptyInOrder == LogOK(Empty)
<1>1. PICK v : v = Empty
  OBVIOUS
<1>2. /\ v.chart = "map" /\ v.failed = FALSE /\ v.calls = {} /\ v.settled = {}
      /\ \A e \in Endpoint : v.status[e] = "none" /\ v.mailbox[e] = <<>>
      /\ \A p \in Producer : v.pending[p] = 0
      /\ v.at = [e \in Endpoint |-> [i \in 1 .. Workers[e] |-> Rest[e]]]
      /\ v.current = [e \in Endpoint |-> [i \in 1 .. Workers[e] |-> NoMessage]]
  BY <1>1 DEF Empty
<1>3. \A e \in Endpoint : \A i \in 1 .. Workers[e] : v.at[e][i] = Rest[e] /\ v.current[e][i] = NoMessage
  BY <1>2
<1>4. \A e \in Endpoint : InBox(v, e) = {} /\ InHands(v, e) = {} /\ Busy(v, e) = {}
  BY <1>2, <1>3 DEF InBox, InHands, Busy, Range
<1>5. OpenOK(v)
  BY <1>3, <1>4 DEF OpenOK
<1>6. SettledOK(v) /\ CallsOK(v) /\ FailureOK(v)
  BY <1>2 DEF SettledOK, CallsOK, FailureOK
<1>7. WorkersOK(v)
  <2>1. \A e \in Endpoint : Kind[Rest[e]] = "receive"
    BY FanOutAssumption DEF Of
  <2>2. \A e \in Endpoint : \A i \in 1 .. Workers[e] : v.pending[Worker(e, i)] = 0
    BY <1>2, Producers
  <2>. QED
    BY <2>1, <2>2, <1>3 DEF WorkersOK
<1>8. StatusOK(v)
  BY <1>2, <1>4 DEF StatusOK, Quiescent
<1>. QED
  BY <1>1, <1>5, <1>6, <1>7, <1>8 DEF LogOK

LEMMA InitOrders ==
  ASSUME Init
  PROVE  Orderly
<1>1. PICK v : v = Empty
  OBVIOUS
<1>2. PICK q : q = <<[kind |-> "start"]>>
  OBVIOUS
<1>3. durable = v /\ machine = v /\ queue = q /\ dispatched = {} /\ batch = <<>>
  BY <1>1, <1>2 DEF Init
<1>4. View(v) /\ LogOK(v)
  BY <1>1, EmptyFits, EmptyInOrder
<1>5. Climbs(v, v, q) /\ \A m \in v.settled : m.visit <= v.sends[m.from]
  BY <1>2, <1>4, AnewOrders
<1>6. Len(batch) = 0
  BY <1>3
<1>7. Knows(machine) /\ StopsOK /\ ResolvingOK
  BY <1>3, <1>5, <1>6 DEF Knows, StopsOK, ResolvingOK
<1>. QED
  BY <1>3, <1>4, <1>5, <1>6, <1>7 DEF Orderly

LEMMA StepOrders == Inv /\ Inv' /\ Orderly /\ [Next]_vars => Orderly'
<1> SUFFICES ASSUME Inv, Inv', Orderly, [Next]_vars PROVE Orderly'
  OBVIOUS
<1>1. CASE Loop
  BY <1>1, StartOrders, ActorEffectOrders, WorkOrders, AckOrders, CommitOrders DEF Loop
<1>2. CASE Validates \/ Works
  BY <1>2, BesideOrders
<1>3. CASE Restarted
  BY <1>3, RestartedOrders
<1>4. CASE UNCHANGED vars
  <2>1. UNCHANGED <<durable, machine, dispatched, queue, batch, loop>>
    BY <1>4 DEF vars
  <2>2. Knows(machine)' /\ StopsOK' /\ (loop = "ready" => ResolvingOK')
    BY <2>1 DEF Orderly, Knows, StopsOK, ResolvingOK
  <2>. QED
    BY <2>1, <2>2 DEF Orderly
<1>. QED
  BY <1>1, <1>2, <1>3, <1>4 DEF Next

LEMMA SpecOrderly == Spec => [](Inv /\ Orderly)
<1>1. Init => Inv /\ Orderly
  BY InitHolds, InitOrders
<1>2. Inv /\ Orderly /\ [Next]_vars => (Inv /\ Orderly)'
  BY StepKeeps, StepOrders
<1>. QED
  BY <1>1, <1>2, PTL DEF Spec

-----------------------------------------------------------------------------
(* Two projections, reservations, queue, batch, validations and actions at  *)
(* work hold what the code keeps in them (core/machine.ts, runtime/generic/ *)
(* chart_runtime.ts), for every chart, pool and number of items.            *)
THEOREM SpecTypeOK == Spec => []TypeOK
BY SpecInv, InvTyped, PTL

(* The concurrency of the map (concurrencyBlockedActionLeaves,              *)
(* core/machine.ts) is never exceeded on the log, although each machine     *)
(* admits by a projection that is behind it, and attempts follow each       *)
(* other.                                                                   *)
THEOREM SpecGateHolds == Spec => []GateHolds
<1>1. Inv => GateHolds
  BY DEF Inv, SlotsOK, GateHolds
<1>. QED
  BY <1>1, SpecInv, PTL

(* What the code asserts of its reservations (actorEndpointAdmission,       *)
(* core/machine.ts): they are a prefix of the mailbox, in its order.        *)
THEOREM SpecReservedAreFirst == Spec => []ReservedAreFirst
<1>1. Inv => ReservedAreFirst
  <2> SUFFICES ASSUME Inv, NEW e \in Endpoint
               PROVE  /\ Len(reserved[e]) <= Len(machine.mailbox[e])
                      /\ \A j \in DOMAIN reserved[e] : reserved[e][j].msg = machine.mailbox[e][j]
    BY DEF ReservedAreFirst
  <2>1. reserved[e] \in Seq(Accept)
    BY DEF Inv, Reservations
  <2>2. DOMAIN reserved[e] = 1 .. Len(reserved[e])
    BY <2>1
  <2>. QED
    BY <2>2 DEF Inv, Reservations
<1>. QED
  BY <1>1, SpecInv, PTL

(* The scope's end is held back until its actors have stopped               *)
(* (findCompletedCompound, core/projection.ts), an actor is stopped only    *)
(* when it has nothing left, and the calls that the same output resolves    *)
(* are resolved before (createMachineOutput, core/machine.ts): a scope that *)
(* is over has left no message, no settled reply and no waiting caller      *)
(* behind, however far the machine was behind the log when it decided.      *)
THEOREM SpecDoneMeansDrained == Spec => []DoneMeansDrained
<1>1. Inv /\ Orderly => DoneMeansDrained
  <2> SUFFICES ASSUME View(durable), LogOK(durable), durable.chart = "done"
               PROVE  /\ durable.calls = {} /\ durable.settled = {}
                      /\ \A e \in Endpoint : Quiescent(durable, e) /\ durable.status[e] \in {"none", "stopped"}
    BY DEF Inv, ViewsOK, Orderly, DoneMeansDrained
  <2>1. \A e \in Endpoint : durable.status[e] \in {"none", "stopped"}
    BY DEF LogOK, StatusOK, Released
  <2>2. \A e \in Endpoint : Quiescent(durable, e) /\ \A c \in durable.calls : To[c.at] # e
    BY <2>1 DEF LogOK, StatusOK
  <2>3. durable.calls = {}
    <3>1. \A c \in durable.calls : To[c.at] \in Endpoint
      BY FanOutAssumption DEF View, ActorsOK, Asking, Calls, Of
    <3>. QED
      BY <3>1, <2>2
  <2>4. durable.settled = {}
    BY <2>3 DEF LogOK, SettledOK
  <2>. QED
    BY <2>1, <2>2, <2>3, <2>4
<1>. QED
  BY <1>1, SpecOrderly, PTL

(* actorEndpointAdmission (core/machine.ts) fails the run over a message    *)
(* that no worker takes only if none of them is busy; the decision is made  *)
(* on an older projection, and what has come to the log since cannot have   *)
(* freed the endpoint: on the log, too, its workers are idle and none takes *)
(* the first message.                                                       *)
THEOREM SpecFailsOnlyWhenStuck == Spec => []FailsOnlyWhenStuck
<1>1. Inv /\ Orderly => FailsOnlyWhenStuck
  BY DEF Orderly, LogOK, FailureOK, Stuck, FailsOnlyWhenStuck
<1>. QED
  BY <1>1, SpecOrderly, PTL
=============================================================================
