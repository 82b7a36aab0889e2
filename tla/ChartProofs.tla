------------------------------ MODULE ChartProofs -----------------------------
(***************************************************************************)
(* What entering, leaving and joining do to a complete configuration of    *)
(* the chart: it stays one, on every chart that normalize.ts accepts and   *)
(* whose joins end.  The walks are recursive; the first part shows that    *)
(* they satisfy the equations they are defined by, and where they end      *)
(* gives the induction.                                                    *)
(***************************************************************************)
EXTENDS ChartTree, FiniteSetTheorems, TLAPS

-----------------------------------------------------------------------------
(* Up: the containers of a node form a chain, and no node contains itself. *)

(* What Up leads to: the nodes in every set that holds n and, with a node, *)
(* its container.                                                          *)
Closed(ns) == \A x \in ns : Parent[x] # None => Parent[x] \in ns
Above(n) == {m \in Node : \A ns \in SUBSET Node : n \in ns /\ Closed(ns) => m \in ns}
UpBody(f) == [n \in Node |-> {n} \cup (IF Parent[n] = None THEN {} ELSE f[Parent[n]])]

(* A container is a node.                                                  *)
LEMMA ParentType == \A n \in Node : Parent[n] = None \/ Parent[n] \in Node
BY ChartAssumption DEF Containers

(* Up is what its definition says it is.                                   *)
LEMMA UpEquation ==
  \A n \in Node : Up[n] = {n} \cup (IF Parent[n] = None THEN {} ELSE Up[Parent[n]])
<1> DEFINE f == [n \in Node |-> Above(n)]
<1>1. \A n \in Node : n \in Above(n)
  BY DEF Above
<1>2. ASSUME NEW n \in Node, Parent[n] = None PROVE Above(n) = {n}
  <2>1. Closed({n})
    BY <1>2 DEF Closed
  <2> QED
    BY <1>1, <2>1 DEF Above
<1>3. ASSUME NEW n \in Node, Parent[n] # None PROVE Above(n) = {n} \cup Above(Parent[n])
  <2> DEFINE p == Parent[n]
             ns == {n} \cup Above(p)
  <2>1. p \in Node
    BY <1>3, ParentType
  <2>2. Closed(Above(p))
    BY ParentType DEF Closed, Above
  <2>3. ns \in SUBSET Node /\ n \in ns /\ Closed(ns)
    BY <1>1, <2>1, <2>2 DEF Closed, Above
  <2>4. Above(n) \subseteq ns
    BY <2>3 DEF Above
  <2>5. ASSUME NEW m \in Above(p) PROVE m \in Above(n)
    <3>1. \A s \in SUBSET Node : n \in s /\ Closed(s) => p \in s
      BY <1>3 DEF Closed
    <3> QED
      BY <2>5, <3>1 DEF Above
  <2> QED
    BY <1>1, <2>4, <2>5
<1>4. f = UpBody(f)
  <2>1. \A n \in Node : f[n] = UpBody(f)[n]
    BY <1>2, <1>3, ParentType DEF UpBody
  <2> QED
    BY <2>1 DEF UpBody
<1> HIDE DEF f
<1>5. Up = CHOOSE g : g = UpBody(g)
  BY DEF Up, UpBody
<1>6. Up = UpBody(Up)
  BY <1>4, <1>5
<1> QED
  BY <1>6 DEF UpBody

(* The containers of a node are nodes.                                     *)
LEMMA UpType == \A n \in Node : Up[n] \subseteq Node /\ n \in Up[n]
<1> DEFINE ns == {n \in Node : ~(Up[n] \subseteq Node)}
<1>1. SUFFICES ASSUME ns # {} PROVE FALSE
  BY UpEquation
<1>2. PICK n \in ns : Parent[n] \notin ns
  BY <1>1, ChartAssumption DEF Containers
<1> QED
  BY <1>2, UpEquation, ParentType

(* Containers of containers are containers.                                *)
LEMMA UpTransitive == \A n \in Node : \A m \in Up[n] : Up[m] \subseteq Up[n]
<1> DEFINE ns == {n \in Node : \E m \in Up[n] : ~(Up[m] \subseteq Up[n])}
<1>1. SUFFICES ASSUME ns # {} PROVE FALSE
  OBVIOUS
<1>2. PICK n \in ns : Parent[n] \notin ns
  BY <1>1, ChartAssumption DEF Containers
<1> QED
  BY <1>2, UpEquation, ParentType

(* Whatever contains a node beside itself, contains its container. *)
LEMMA UpParent ==
  ASSUME NEW n \in Node, NEW m \in Up[n], m # n
  PROVE  Parent[n] \in Node /\ m \in Up[Parent[n]]
BY UpEquation, ParentType

(* The container of a node, if it has one, is above it.                    *)
LEMMA ParentUp ==
  ASSUME NEW n \in Node, Parent[n] # None
  PROVE  Parent[n] \in Node /\ Parent[n] \in Up[n] /\ Up[Parent[n]] \subseteq Up[n]
BY UpEquation, ParentType, UpType

(* No node is above its own container.                                     *)
LEMMA UpAcyclic == \A n \in Node : Parent[n] # None => n \notin Up[Parent[n]]
<1> SUFFICES ASSUME NEW n \in Node, Parent[n] # None, n \in Up[Parent[n]] PROVE FALSE
  OBVIOUS
<1> DEFINE ns == {x \in Node : x \in Up[n] /\ n \in Up[x]}
<1>1. n \in ns
  BY UpType
<1>2. PICK x \in ns : Parent[x] \notin ns
  BY <1>1, ChartAssumption DEF Containers
<1>3. x # n
  BY <1>2, ParentUp
<1>4. Parent[x] \in Node /\ n \in Up[Parent[x]] /\ Parent[x] \in Up[x]
  BY <1>2, <1>3, UpParent, ParentUp, ChartAssumption
<1> QED
  BY <1>2, <1>4, UpTransitive

(* Two nodes that are above each other are one.                            *)
LEMMA UpAntisymmetric ==
  ASSUME NEW n \in Node, NEW m \in Up[n], n \in Up[m]
  PROVE  m = n
<1>1. ASSUME m # n PROVE FALSE
  <2>1. Parent[n] \in Node /\ m \in Up[Parent[n]]
    BY <1>1, UpParent
  <2>2. n \in Up[Parent[n]]
    BY <2>1, UpTransitive
  <2> QED
    BY <2>1, <2>2, UpAcyclic, ChartAssumption
<1> QED
  BY <1>1

(* The containers of a node form a chain.                                  *)
LEMMA UpChain == \A n \in Node : \A x, y \in Up[n] : x \in Up[y] \/ y \in Up[x]
<1> DEFINE ns == {n \in Node : \E x, y \in Up[n] : ~(x \in Up[y] \/ y \in Up[x])}
<1>1. SUFFICES ASSUME ns # {} PROVE FALSE
  OBVIOUS
<1>2. PICK n \in ns : Parent[n] \notin ns
  BY <1>1, ChartAssumption DEF Containers
<1> QED
  BY <1>2, UpEquation, UpType, ParentType

-----------------------------------------------------------------------------
(* EnterState: a node with successors resolves to what they resolve to.    *)
Settled(n) == Kind[n] # "parallel" /\ Successors(n) = {}
EnterBody(f) ==
  [n \in Node |-> IF Settled(n) THEN {n} ELSE UNION {f[m] : m \in Successors(n)}]

(* Entering a node continues at nodes.                                     *)
LEMMA SuccessorsType == \A n \in Node : Successors(n) \subseteq Node
BY ChartAssumption, ParentType DEF ContainersResolve, Successors, Children, Beside

(* What EnterState leads to, as the least relation that satisfies it. *)
Entering(r) ==
  \A n \in Node :
    /\ Settled(n) => <<n, n>> \in r
    /\ ~Settled(n) => \A m \in Successors(n) : \A l \in Node : <<m, l>> \in r => <<n, l>> \in r
Entered(n) == {l \in Node : \A r \in SUBSET (Node \X Node) : Entering(r) => <<n, l>> \in r}

(* The least relation satisfies the equation of entering,                  *)
LEMMA EnteredEquation ==
  \A n \in Node : Entered(n) = IF Settled(n) THEN {n} ELSE UNION {Entered(m) : m \in Successors(n)}
<1> SUFFICES ASSUME NEW n \in Node
             PROVE  Entered(n) = IF Settled(n) THEN {n} ELSE UNION {Entered(m) : m \in Successors(n)}
  OBVIOUS
<1> DEFINE body(x) == IF Settled(x) THEN {x} ELSE UNION {Entered(m) : m \in Successors(x)}
           r == {z \in Node \X Node : z[2] \in body(z[1])}
<1>1. \A x \in Node : body(x) \subseteq Entered(x)
  <2>1. ASSUME NEW x \in Node, Settled(x) PROVE x \in Entered(x)
    BY <2>1 DEF Entered, Entering
  <2>2. ASSUME NEW x \in Node, ~Settled(x), NEW m \in Successors(x), NEW l \in Entered(m)
        PROVE  l \in Entered(x)
    <3>1. m \in Node /\ l \in Node
      BY SuccessorsType DEF Entered
    <3>2. ASSUME NEW q \in SUBSET (Node \X Node), Entering(q) PROVE <<x, l>> \in q
      <4>1. <<m, l>> \in q
        BY <3>2 DEF Entered
      <4> QED
        BY <2>2, <3>1, <3>2, <4>1 DEF Entering
    <3> QED
      BY <3>1, <3>2 DEF Entered
  <2> QED
    BY <2>1, <2>2
<1>2. Entering(r)
  <2>1. ASSUME NEW x \in Node, Settled(x) PROVE <<x, x>> \in r
    BY <2>1
  <2>2. ASSUME NEW x \in Node, ~Settled(x), NEW m \in Successors(x), NEW l \in Node, <<m, l>> \in r
        PROVE  <<x, l>> \in r
    <3>1. m \in Node /\ l \in body(m)
      BY <2>2, SuccessorsType
    <3>2. l \in Entered(m)
      BY <1>1, <3>1
    <3>3. l \in body(x)
      BY <2>2, <3>2
    <3> QED
      BY <3>3
  <2> QED
    BY <2>1, <2>2 DEF Entering
<1>3. Entered(n) \subseteq body(n)
  <2>1. ASSUME NEW l \in Entered(n) PROVE l \in body(n)
    <3>1. r \in SUBSET (Node \X Node)
      OBVIOUS
    <3>2. <<n, l>> \in r
      BY <1>2, <2>1, <3>1 DEF Entered
    <3> QED
      BY <3>2
  <2> QED
    BY <2>1
<1> QED
  BY <1>1, <1>3

(* and so EnterState is what its definition says it is.                    *)
LEMMA EnterEquation ==
  \A n \in Node :
    EnterState[n] = IF Settled(n) THEN {n} ELSE UNION {EnterState[m] : m \in Successors(n)}
<1> DEFINE body(f) ==
      [n \in Node |->
         CASE Kind[n] \in {"compound", "region"} -> f[Initial[n]]
           [] Kind[n] = "parallel" -> UNION {f[r] : r \in {m \in Node : Parent[m] = n}}
           [] Kind[n] = "final" /\ Parent[n] # None ->
                IF Kind[Parent[n]] = "compound" THEN f[OnDone[Parent[n]]] ELSE {n}
           [] OTHER -> {n}]
           f == [n \in Node |-> Entered(n)]
<1>1. ASSUME NEW g PROVE body(g) = EnterBody(g)
  <2>1. ASSUME NEW n \in Node PROVE body(g)[n] = EnterBody(g)[n]
    <3>1. CASE Kind[n] \in {"compound", "region"}
      <4>1. ~Settled(n) /\ Successors(n) = {Initial[n]}
        BY <3>1 DEF Settled, Successors
      <4> QED
        BY <3>1, <4>1 DEF EnterBody
    <3>2. CASE Kind[n] = "parallel"
      BY <3>2 DEF Settled, Successors, Children, EnterBody
    <3>3. CASE Kind[n] = "final" /\ Parent[n] # None /\ Kind[Parent[n]] = "compound"
      <4>1. ~Settled(n) /\ Successors(n) = {OnDone[Parent[n]]}
        BY <3>3 DEF Settled, Successors
      <4> QED
        BY <3>3, <4>1 DEF EnterBody
    <3>4. CASE /\ ~(Kind[n] \in {"compound", "region"}) /\ Kind[n] # "parallel"
               /\ ~(Kind[n] = "final" /\ Parent[n] # None /\ Kind[Parent[n]] = "compound")
      <4>1. Settled(n)
        BY <3>4 DEF Settled, Successors
      <4> QED
        BY <3>4, <4>1 DEF EnterBody
    <3> QED
      BY <3>1, <3>2, <3>3, <3>4
  <2> QED
    BY <2>1 DEF EnterBody
<1>2. f = EnterBody(f)
  <2>1. \A n \in Node : f[n] = EnterBody(f)[n]
    BY EnteredEquation, SuccessorsType DEF EnterBody
  <2> QED
    BY <2>1 DEF EnterBody
<1> HIDE DEF f
<1>3. EnterState = CHOOSE g : g = body(g)
  BY DEF EnterState
<1>4. EnterState = body(EnterState)
  <2>1. f = body(f)
    BY <1>1, <1>2
  <2> HIDE DEF body
  <2> QED
    BY <1>3, <2>1
<1>5. EnterState = EnterBody(EnterState)
  BY <1>1, <1>4
<1> QED
  BY <1>5 DEF EnterBody

(* Entering ends at nodes.                                                 *)
LEMMA EnterType == \A n \in Node : EnterState[n] \subseteq Node
<1> DEFINE ns == {n \in Node : ~(EnterState[n] \subseteq Node)}
<1>1. SUFFICES ASSUME ns # {} PROVE FALSE
  OBVIOUS
<1>2. PICK n \in ns : Successors(n) \cap ns = {}
  BY <1>1, ChartAssumption DEF EntrySettles
<1>3. \A m \in Successors(n) : EnterState[m] \subseteq Node
  BY <1>2, SuccessorsType
<1>4. n \in Node /\ ~(EnterState[n] \subseteq Node)
  BY <1>2
<1>5. CASE Settled(n)
  BY <1>4, <1>5, EnterEquation
<1>6. CASE ~Settled(n)
  <2>1. EnterState[n] = UNION {EnterState[m] : m \in Successors(n)}
    BY <1>4, <1>6, EnterEquation
  <2> QED
    BY <1>3, <1>4, <2>1
<1> QED
  BY <1>5, <1>6

-----------------------------------------------------------------------------
(* FindHandler: the closest container that declares the event.             *)
Declares(n, e) == Kind[n] # "final" /\ On[n][e] # None
HandlerBody(f) ==
  [n \in Node |-> [e \in Event |->
     IF Declares(n, e) THEN n ELSE IF Parent[n] = None THEN None ELSE f[Parent[n]][e]]]
Handlers(n, e) == {m \in Up[n] : Declares(m, e)}
Closest(n, e) ==
  IF Handlers(n, e) = {} THEN None ELSE CHOOSE m \in Handlers(n, e) : Handlers(n, e) \subseteq Up[m]

(* FindHandler is what its definition says it is.                          *)
LEMMA HandlerEquation ==
  \A n \in Node, e \in Event :
    FindHandler[n][e] = IF Declares(n, e) THEN n
                        ELSE IF Parent[n] = None THEN None ELSE FindHandler[Parent[n]][e]
<1> DEFINE f == [n \in Node |-> [e \in Event |-> Closest(n, e)]]
<1>1. ASSUME NEW n \in Node, NEW e \in Event
      PROVE  Closest(n, e) = IF Declares(n, e) THEN n
                             ELSE IF Parent[n] = None THEN None ELSE Closest(Parent[n], e)
  <2>1. CASE Declares(n, e)
    <3>1. n \in Handlers(n, e) /\ Handlers(n, e) \subseteq Up[n]
      BY <2>1, UpType DEF Handlers
    <3>2. ASSUME NEW m \in Handlers(n, e), Handlers(n, e) \subseteq Up[m] PROVE m = n
      BY <3>1, <3>2, UpAntisymmetric DEF Handlers
    <3> QED
      BY <2>1, <3>1, <3>2 DEF Closest
  <2>2. CASE ~Declares(n, e) /\ Parent[n] = None
    BY <2>2, UpEquation DEF Closest, Handlers
  <2>3. CASE ~Declares(n, e) /\ Parent[n] # None
    <3>1. Handlers(n, e) = Handlers(Parent[n], e)
      BY <2>3, UpEquation DEF Handlers
    <3> QED
      BY <2>3, <3>1 DEF Closest
  <2> QED
    BY <2>1, <2>2, <2>3
<1>2. f = HandlerBody(f)
  <2>1. ASSUME NEW n \in Node, NEW e \in Event PROVE f[n][e] = HandlerBody(f)[n][e]
    BY <1>1, ParentType DEF HandlerBody
  <2>2. \A n \in Node : f[n] = HandlerBody(f)[n]
    BY <2>1 DEF HandlerBody
  <2> QED
    BY <2>2 DEF HandlerBody
<1> HIDE DEF f
<1>3. FindHandler = CHOOSE g : g = HandlerBody(g)
  BY DEF FindHandler, HandlerBody, Declares
<1>4. FindHandler = HandlerBody(FindHandler)
  BY <1>2, <1>3
<1> QED
  BY <1>4 DEF HandlerBody

(* A handler contains the leaf and declares the event; its transition      *)
(* leads to a sibling, or a region to itself.                              *)
LEMMA HandlerFound ==
  ASSUME NEW n \in Node, NEW e \in Event, FindHandler[n][e] # None
  PROVE  FindHandler[n][e] \in Up[n] /\ Declares(FindHandler[n][e], e)
<1> DEFINE ns == {m \in Node : /\ FindHandler[m][e] # None
                               /\ ~(FindHandler[m][e] \in Up[m] /\ Declares(FindHandler[m][e], e))}
<1>1. SUFFICES ASSUME ns # {} PROVE FALSE
  OBVIOUS
<1>2. PICK m \in ns : Parent[m] \notin ns
  BY <1>1, ChartAssumption DEF Containers
<1> QED
  BY <1>2, HandlerEquation, UpEquation, ParentType

(* The target of a handler is its sibling, or itself for a region.         *)
LEMMA HandlerLeads ==
  ASSUME NEW n \in Node, NEW e \in Event, FindHandler[n][e] # None
  PROVE  LET h == FindHandler[n][e] IN
         h \in Node /\ Beside(On[h][e], h) /\ (Kind[h] = "region" => On[h][e] = h)
BY HandlerFound, UpType, ChartAssumption DEF HandlersResolve, Declares

-----------------------------------------------------------------------------
(* Joins. *)
LEMMA LeastNumber ==
  ASSUME NEW ks \in SUBSET Nat, ks # {}
  PROVE  \E k \in ks : \A j \in ks : k <= j
<1> DEFINE T == {0 .. k : k \in ks}
<1>1. IsWellFoundedOn(StrictSubsetOrdering(Nat), FiniteSubsetsOf(Nat))
  BY FS_StrictSubsetOrderingWellFounded
<1>2. T \subseteq FiniteSubsetsOf(Nat)
  <2>1. \A k \in Nat : 0 \in Int /\ k \in Int /\ 0 .. k \in SUBSET Nat
    OBVIOUS
  <2>2. \A k \in Nat : IsFiniteSet(0 .. k)
    BY <2>1, FS_Interval
  <2> QED
    BY <2>1, <2>2 DEF FiniteSubsetsOf
<1>3. T # {}
  OBVIOUS
<1>4. PICK x \in T : \A y \in T : ~(<<y, x>> \in StrictSubsetOrdering(Nat))
  BY <1>1, <1>2, <1>3, WFMin
<1>5. PICK k \in ks : x = 0 .. k
  OBVIOUS
<1>6. ASSUME NEW j \in ks, ~(k <= j) PROVE FALSE
  <2>1. 0 .. j \in SUBSET Nat /\ 0 .. k \in SUBSET Nat
    OBVIOUS
  <2>2. k \in 0 .. k /\ k \notin 0 .. j /\ 0 .. j \subseteq 0 .. k
    BY <1>6
  <2>3. <<0 .. j, 0 .. k>> \in StrictSubsetOrdering(Nat)
    BY <2>1, <2>2 DEF StrictSubsetOrdering
  <2> QED
    BY <1>4, <1>5, <2>3
<1> QED
  BY <1>6

(* Among completed parallels there is an innermost one. *)
LEMMA Innermost ==
  ASSUME NEW done \in SUBSET Node, done # {}
  PROVE  \E q \in done : done \cap Under(q) = {q}
<1> DEFINE T == {Node \ Up[q] : q \in done}
<1>1. IsWellFoundedOn(StrictSubsetOrdering(Node), FiniteSubsetsOf(Node))
  BY FS_StrictSubsetOrderingWellFounded
<1>2. T \subseteq FiniteSubsetsOf(Node)
  BY ChartAssumption, FS_Subset DEF FiniteSubsetsOf
<1>3. T # {}
  OBVIOUS
<1>4. PICK x \in T : \A y \in T : ~(<<y, x>> \in StrictSubsetOrdering(Node))
  BY <1>1, <1>2, <1>3, WFMin
<1>5. PICK q \in done : x = Node \ Up[q]
  OBVIOUS
<1>6. ASSUME NEW r \in done \cap Under(q), r # q PROVE FALSE
  <2>1. q \in Up[r] /\ r \in Node
    BY <1>6 DEF Under
  <2>2. Up[q] \subseteq Up[r] /\ r \in Up[r] /\ r \notin Up[q] /\ Up[r] \subseteq Node
    BY <1>6, <2>1, UpTransitive, UpType, UpAntisymmetric
  <2>3. <<Node \ Up[r], Node \ Up[q]>> \in StrictSubsetOrdering(Node)
    BY <2>2 DEF StrictSubsetOrdering
  <2> QED
    BY <1>4, <1>5, <1>6, <2>3
<1>7. q \in Under(q)
  BY UpType DEF Under
<1> QED
  BY <1>6, <1>7

(* A join leaves a completed parallel for its sibling.                     *)
LEMMA JoinMeans ==
  ASSUME NEW leaves \in SUBSET Node, CompletedParallels(leaves) # {}
  PROVE  \E p \in CompletedParallels(leaves) :
           /\ p \in Node /\ Kind[p] = "parallel" /\ OnDone[p] \in Node /\ Parent[OnDone[p]] = Parent[p]
           /\ Join(leaves) = (leaves \ Under(p)) \cup EnterState[OnDone[p]]
<1> DEFINE done == CompletedParallels(leaves)
           p == CHOOSE q \in done : done \cap Under(q) = {q}
<1>1. done \subseteq Node /\ \A q \in done : Kind[q] = "parallel"
  BY UpType DEF CompletedParallels
<1>2. p \in done
  BY <1>1, Innermost
<1>3. Join(leaves) = (leaves \ Under(p)) \cup EnterState[OnDone[p]]
  BY DEF Join
<1> HIDE DEF p
<1>4. OnDone[p] \in Node /\ Parent[OnDone[p]] = Parent[p]
  BY <1>1, <1>2, ChartAssumption DEF ContainersResolve, Beside
<1> QED
  BY <1>1, <1>2, <1>3, <1>4

(* It leads to nodes.                                                      *)
LEMMA JoinType ==
  ASSUME NEW leaves \in SUBSET Node, CompletedParallels(leaves) # {}
  PROVE  Join(leaves) \in SUBSET Node
BY JoinMeans, EnterType

(* What CompleteParallels leads to, as the least relation again. *)
Joining(r) ==
  \A ls \in SUBSET Node :
    /\ CompletedParallels(ls) = {} => <<ls, ls>> \in r
    /\ CompletedParallels(ls) # {} =>
         \A ms \in SUBSET Node : <<Join(ls), ms>> \in r => <<ls, ms>> \in r
JoinsTo(ls, ms) ==
  \A r \in SUBSET ((SUBSET Node) \X (SUBSET Node)) : Joining(r) => <<ls, ms>> \in r
JoinBody(f) ==
  [ls \in SUBSET Node |-> IF CompletedParallels(ls) = {} THEN ls ELSE f[Join(ls)]]

(* That relation satisfies the equation of joining,                        *)
LEMMA JoinsToEquation ==
  ASSUME NEW ls \in SUBSET Node, NEW ms \in SUBSET Node
  PROVE  JoinsTo(ls, ms) <=> IF CompletedParallels(ls) = {} THEN ms = ls ELSE JoinsTo(Join(ls), ms)
<1> DEFINE P == SUBSET Node
           body(x, y) == IF CompletedParallels(x) = {} THEN y = x ELSE JoinsTo(Join(x), y)
           r == {z \in P \X P : body(z[1], z[2])}
<1>1. ASSUME NEW x \in P, NEW y \in P, body(x, y) PROVE JoinsTo(x, y)
  <2>1. ASSUME NEW q \in SUBSET (P \X P), Joining(q) PROVE <<x, y>> \in q
    <3>1. CASE CompletedParallels(x) = {}
      BY <1>1, <2>1, <3>1 DEF Joining
    <3>2. CASE CompletedParallels(x) # {}
      <4>1. <<Join(x), y>> \in q
        BY <1>1, <2>1, <3>2 DEF JoinsTo
      <4> QED
        BY <2>1, <3>2, <4>1 DEF Joining
    <3> QED
      BY <3>1, <3>2
  <2> QED
    BY <2>1 DEF JoinsTo
<1>2. Joining(r)
  <2>1. ASSUME NEW x \in P, CompletedParallels(x) = {} PROVE <<x, x>> \in r
    BY <2>1
  <2>2. ASSUME NEW x \in P, CompletedParallels(x) # {}, NEW y \in P, <<Join(x), y>> \in r
        PROVE  <<x, y>> \in r
    <3>1. body(Join(x), y) /\ Join(x) \in P
      BY <2>2, JoinType
    <3> HIDE DEF body
    <3>2. JoinsTo(Join(x), y)
      BY <1>1, <3>1
    <3> USE DEF body
    <3>3. body(x, y)
      BY <2>2, <3>2
    <3> QED
      BY <3>3
  <2> HIDE DEF r
  <2> QED
    BY <2>1, <2>2 DEF Joining
<1>3. ASSUME JoinsTo(ls, ms) PROVE body(ls, ms)
  <2>1. r \in SUBSET (P \X P)
    OBVIOUS
  <2> HIDE DEF r
  <2>2. <<ls, ms>> \in r
    BY <1>2, <1>3, <2>1 DEF JoinsTo
  <2> USE DEF r
  <2> QED
    BY <2>2
<1> QED
  BY <1>1, <1>3

(* and so CompleteParallels is what its definition says it is.             *)
LEMMA CompleteEquation ==
  \A ls \in SUBSET Node :
    CompleteParallels[ls] =
      IF CompletedParallels(ls) = {} THEN ls ELSE CompleteParallels[Join(ls)]
<1> DEFINE f == [ls \in SUBSET Node |-> CHOOSE ms : ms \in SUBSET Node /\ JoinsTo(ls, ms)]
<1>1. ASSUME NEW ls \in SUBSET Node PROVE f[ls] = JoinBody(f)[ls]
  <2>1. CASE CompletedParallels(ls) = {}
    <3>1. \A ms : (ms \in SUBSET Node /\ JoinsTo(ls, ms)) <=> ms = ls
      BY <2>1, JoinsToEquation
    <3> QED
      BY <2>1, <3>1 DEF JoinBody
  <2>2. CASE CompletedParallels(ls) # {}
    <3>1. \A ms : (ms \in SUBSET Node /\ JoinsTo(ls, ms)) <=> (ms \in SUBSET Node /\ JoinsTo(Join(ls), ms))
      BY <2>2, JoinsToEquation
    <3>2. Join(ls) \in SUBSET Node
      BY <2>2, JoinType
    <3>3. f[ls] = f[Join(ls)]
      BY <3>1, <3>2
    <3> HIDE DEF f
    <3>4. JoinBody(f)[ls] = f[Join(ls)]
      BY <2>2 DEF JoinBody
    <3> QED
      BY <3>3, <3>4
  <2> QED
    BY <2>1, <2>2
<1>2. f = JoinBody(f)
  BY <1>1 DEF JoinBody
<1> HIDE DEF f
<1>3. CompleteParallels = CHOOSE g : g = JoinBody(g)
  BY DEF CompleteParallels, JoinBody
<1>4. CompleteParallels = JoinBody(CompleteParallels)
  BY <1>2, <1>3
<1> QED
  BY <1>4 DEF JoinBody

(* What every join keeps, completeParallels keeps, and it leaves no        *)
(* completed parallel behind.                                              *)
LEMMA JoinsKeep ==
  ASSUME NEW P \in SUBSET (SUBSET Node),
         \A ls \in P : CompletedParallels(ls) # {} => Join(ls) \in P,
         NEW leaves \in P
  PROVE  CompleteParallels[leaves] \in P /\ CompletedParallels(CompleteParallels[leaves]) = {}
<1> DEFINE bad == {ls \in P : ~(CompleteParallels[ls] \in P /\ CompletedParallels(CompleteParallels[ls]) = {})}
           ks == {JoinsLeft[ls] : ls \in bad}
<1>1. SUFFICES ASSUME bad # {} PROVE FALSE
  OBVIOUS
<1>2. ks \in SUBSET Nat /\ ks # {}
  BY <1>1, JoinAssumption
<1>3. PICK k \in ks : \A j \in ks : k <= j
  BY <1>2, LeastNumber
<1>4. PICK ls \in bad : k = JoinsLeft[ls]
  OBVIOUS
<1>5. CASE CompletedParallels(ls) = {}
  BY <1>4, <1>5, CompleteEquation
<1>6. CASE CompletedParallels(ls) # {}
  <2>1. Join(ls) \in P /\ CompleteParallels[ls] = CompleteParallels[Join(ls)]
    BY <1>4, <1>6, CompleteEquation
  <2>2. Join(ls) \in bad
    BY <1>4, <2>1
  <2>3. JoinsLeft[Join(ls)] \in ks
    BY <2>2
  <2>4. JoinsLeft[Join(ls)] < JoinsLeft[ls] /\ JoinsLeft[ls] \in Nat /\ JoinsLeft[Join(ls)] \in Nat
    BY <1>4, <1>6, <2>1, JoinAssumption
  <2> QED
    BY <1>3, <1>4, <2>3, <2>4
<1> QED
  BY <1>5, <1>6

(* Joins take final leaves away, and nothing else. *)
LEMMA JoinsTakeFinals ==
  ASSUME NEW leaves \in SUBSET Node
  PROVE  /\ CompleteParallels[leaves] \in SUBSET Node
         /\ \A l \in leaves : Kind[l] # "final" => l \in CompleteParallels[leaves]
<1> DEFINE kept == {l \in leaves : Kind[l] # "final"}
           P == {ls \in SUBSET Node : kept \subseteq ls}
<1>1. ASSUME NEW ls \in P, CompletedParallels(ls) # {} PROVE Join(ls) \in P
  <2>1. Join(ls) \in SUBSET Node
    BY <1>1, JoinType
  <2>2. PICK p \in CompletedParallels(ls) : Join(ls) = (ls \ Under(p)) \cup EnterState[OnDone[p]]
    BY <1>1, JoinMeans
  <2>3. \A l \in ls \cap Under(p) : Kind[l] = "final"
    BY <2>2 DEF CompletedParallels
  <2> QED
    BY <2>1, <2>2, <2>3
<1>2. leaves \in P /\ P \in SUBSET (SUBSET Node)
  OBVIOUS
<1> HIDE DEF P
<1>3. CompleteParallels[leaves] \in P
  BY <1>1, <1>2, JoinsKeep
<1> QED
  BY <1>3 DEF P

-----------------------------------------------------------------------------
(* Complete configurations, of the whole chart and below one node.         *)
Active(leaves) == UNION {Up[l] : l \in leaves}
Kids(c) == {m \in Node : Parent[m] = c}
One(s) == \E x : s = {x}

(* A leaf can rest; a node is balanced if its active children fit.         *)
Rests(l) ==
  /\ Kind[l] \in {"state", "final"}
  /\ Kind[l] = "final" /\ Parent[l] # None => Kind[Parent[l]] # "compound"
Balanced(n, leaves, active) ==
  CASE Kind[n] \in {"compound", "region"} -> One(Kids(n) \cap active)
    [] Kind[n] = "parallel" -> Kids(n) \subseteq active
    [] OTHER -> n \in leaves

Full(leaves) ==
  /\ leaves \subseteq Node /\ \A l \in leaves : Rests(l)
  /\ One(Kids(None) \cap Active(leaves))
  /\ \A n \in Active(leaves) : Balanced(n, leaves, Active(leaves))
FullBelow(r, leaves) ==
  /\ leaves \subseteq Under(r) /\ leaves # {} /\ \A l \in leaves : Rests(l)
  /\ \A n \in Active(leaves) \cap Under(r) : Balanced(n, leaves, Active(leaves))

(* Only one of two siblings is above a given node.                         *)
LEMMA KidsApart ==
  ASSUME NEW e \in Node, NEW x \in Up[e], NEW y \in Up[e], Parent[x] = Parent[y]
  PROVE  x = y
<1>1. x \in Node /\ y \in Node /\ (x \in Up[y] \/ y \in Up[x])
  BY UpChain, UpType
<1>2. ASSUME x \in Up[y], x # y PROVE FALSE
  BY <1>1, <1>2, UpParent, UpAcyclic, ChartAssumption
<1>3. ASSUME y \in Up[x], x # y PROVE FALSE
  BY <1>1, <1>3, UpParent, UpAcyclic, ChartAssumption
<1> QED
  BY <1>1, <1>2, <1>3

(* Above a leaf of c, what is not below c contains c. *)
LEMMA Between ==
  ASSUME NEW e \in Node, NEW c \in Up[e], NEW m \in Up[e], m \notin Under(c)
  PROVE  c \in Node /\ m \in Node /\ Parent[c] \in Node /\ m \in Up[c] /\ m \in Up[Parent[c]]
<1>1. c \in Node /\ m \in Node /\ c \notin Up[m]
  BY UpType DEF Under
<1>2. m \in Up[c] /\ m # c
  BY <1>1, UpChain, UpType
<1> QED
  BY <1>1, <1>2, UpParent

(* What is active is a node.                                               *)
LEMMA ActiveType == \A leaves \in SUBSET Node : Active(leaves) \subseteq Node
BY UpType DEF Active

(* A leaf is a complete configuration below itself.                        *)
LEMMA FullBelowLeaf ==
  ASSUME NEW n \in Node, Settled(n) PROVE FullBelow(n, {n})
<1>1. Kind[n] \in {"state", "final"}
  BY ChartAssumption DEF Settled, Successors, Containers
<1>2. Rests(n)
  BY <1>1 DEF Settled, Successors, Rests
<1>3. \A m \in Active({n}) \cap Under(n) : m = n
  BY UpAntisymmetric DEF Active, Under
<1>4. Balanced(n, {n}, Active({n}))
  BY <1>1 DEF Balanced
<1>5. n \in Under(n)
  BY UpType DEF Under
<1> QED
  BY <1>2, <1>3, <1>4, <1>5 DEF FullBelow

(* What fills the child a container begins with, fills the container. *)
LEMMA FullBelowParent ==
  ASSUME NEW n \in Node, Kind[n] \in {"compound", "region"},
         NEW c \in Node, Parent[c] = n, NEW E, FullBelow(c, E)
  PROVE  FullBelow(n, E)
<1> n # None
  BY ChartAssumption
<1>1. /\ E \subseteq Node /\ E \subseteq Under(c) /\ E # {} /\ \A l \in E : Rests(l) /\ c \in Up[l]
  BY DEF FullBelow, Under
<1>2. n \in Up[c] /\ \A l \in E : n \in Up[l]
  BY <1>1, ParentUp, UpTransitive
<1>3. E \subseteq Under(n)
  BY <1>1, <1>2 DEF Under
<1>4. c \in Kids(n) \cap Active(E)
  BY <1>1 DEF Kids, Active
<1>5. ASSUME NEW x \in Kids(n) \cap Active(E) PROVE x = c
  <2>1. PICK e \in E : x \in Up[e]
    BY <1>5 DEF Active
  <2> QED
    BY <1>1, <1>5, <2>1, KidsApart DEF Kids
<1>6. Balanced(n, E, Active(E))
  BY <1>4, <1>5 DEF Balanced, One
<1>7. ASSUME NEW m \in Active(E) \cap Under(n) PROVE Balanced(m, E, Active(E))
  <2>1. PICK e \in E : m \in Up[e]
    BY <1>7 DEF Active
  <2>2. CASE m \in Under(c)
    BY <1>7, <2>2 DEF FullBelow
  <2>3. CASE m \notin Under(c)
    <3>1. m \in Up[n] /\ n \in Up[m]
      BY <1>1, <1>7, <2>1, <2>3, Between DEF Under
    <3> QED
      BY <1>6, <3>1, UpAntisymmetric
  <2> QED
    BY <2>2, <2>3
<1> QED
  BY <1>1, <1>3, <1>7 DEF FullBelow

(* What fills all regions, fills the parallel. *)
LEMMA FullBelowParallel ==
  ASSUME NEW n \in Node, Kind[n] = "parallel", NEW enter,
         \A r \in Kids(n) : FullBelow(r, enter[r])
  PROVE  FullBelow(n, UNION {enter[r] : r \in Kids(n)})
<1> n # None
  BY ChartAssumption
<1> DEFINE E == UNION {enter[r] : r \in Kids(n)}
<1>1. ASSUME NEW r \in Kids(n)
      PROVE  /\ r \in Node /\ Parent[r] = n /\ n \in Up[r] /\ enter[r] # {} /\ enter[r] \subseteq Node
             /\ \A l \in enter[r] : Rests(l) /\ r \in Up[l] /\ n \in Up[l]
  <2>1. r \in Node /\ Parent[r] = n /\ n \in Up[r]
    BY ParentUp DEF Kids
  <2>2. enter[r] # {} /\ enter[r] \subseteq Node /\ \A l \in enter[r] : Rests(l) /\ r \in Up[l]
    BY DEF FullBelow, Under
  <2> QED
    BY <2>1, <2>2, UpTransitive
<1>2. E \subseteq Under(n) /\ \A l \in E : Rests(l)
  BY <1>1 DEF Under
<1>3. E # {}
  <2>1. Kids(n) # {}
    BY JoinAssumption DEF Kids, Children
  <2> QED
    BY <1>1, <2>1
<1>4. Balanced(n, E, Active(E))
  <2>1. ASSUME NEW r \in Kids(n) PROVE r \in Active(E)
    <3>1. PICK l \in enter[r] : r \in Up[l]
      BY <1>1
    <3> QED
      BY <3>1 DEF Active
  <2> QED
    BY <2>1 DEF Balanced
<1>5. ASSUME NEW m \in Active(E) \cap Under(n) PROVE Balanced(m, E, Active(E))
  <2>1. PICK r \in Kids(n) : \E e \in enter[r] : m \in Up[e]
    BY <1>5 DEF Active
  <2>2. PICK e \in enter[r] : m \in Up[e]
    BY <2>1
  <2>3. CASE m \in Under(r)
    <3>1. Balanced(m, enter[r], Active(enter[r]))
      BY <2>2, <2>3 DEF FullBelow, Active
    <3>2. ASSUME NEW x \in Kids(m) \cap Active(E) PROVE x \in Active(enter[r])
      <4>1. PICK q \in Kids(n) : \E d \in enter[q] : x \in Up[d]
        BY <3>2 DEF Active
      <4>2. PICK d \in enter[q] : x \in Up[d]
        BY <4>1
      <4>3. x \in Node /\ m \in Node /\ m \in Up[x] /\ r \in Up[m]
        BY <2>3, <3>2, ParentUp, ChartAssumption DEF Kids, Under
      <4>4. d \in Node /\ r \in Up[d] /\ q \in Up[d]
        BY <1>1, <4>2, <4>3, UpTransitive
      <4>5. r = q
        BY <1>1, <4>4, KidsApart
      <4> QED
        BY <4>2, <4>5 DEF Active
    <3>3. Active(enter[r]) \subseteq Active(E) /\ enter[r] \subseteq E
      BY DEF Active
    <3>4. Kids(m) \cap Active(E) = Kids(m) \cap Active(enter[r])
      BY <3>2, <3>3
    <3> QED
      BY <3>1, <3>3, <3>4 DEF Balanced
  <2>4. CASE m \notin Under(r)
    <3>1. m \in Up[n] /\ n \in Up[m]
      BY <1>1, <1>5, <2>2, <2>4, Between DEF Under
    <3> QED
      BY <1>4, <3>1, UpAntisymmetric
  <2> QED
    BY <2>3, <2>4
<1> QED
  BY <1>2, <1>3, <1>5 DEF FullBelow

(* Entering a node fills it or a sibling of it; or, past completed         *)
(* compounds, a sibling of one that it was in.                             *)
Through(n, a) ==
  a \in Up[n] /\ \A m \in Up[n] : m # n /\ a \in Up[m] => Kind[m] = "compound"
Lands(n, a, r) ==
  /\ Through(n, a) /\ r \in Node /\ Parent[r] = Parent[a] /\ (Kind[a] = "region" => r = a)
  /\ FullBelow(r, EnterState[n])

(* A node may land on itself.                                              *)
LEMMA LandsHere ==
  ASSUME NEW n \in Node, FullBelow(n, EnterState[n]) PROVE Lands(n, n, n)
BY UpType, UpAntisymmetric DEF Lands, Through

(* Entering a node with one successor is entering that.                    *)
LEMMA EnterOn ==
  ASSUME NEW n \in Node, NEW m, Successors(n) = {m}
  PROVE  EnterState[n] = EnterState[m]
<1>1. ~Settled(n)
  BY DEF Settled
<1>2. EnterState[n] = UNION {EnterState[x] : x \in {m}}
  BY <1>1, EnterEquation
<1> QED
  BY <1>2

(* Entering a compound or region lands where entering its first child does.*)
LEMMA EnterInitial ==
  ASSUME NEW n \in Node, Kind[n] \in {"compound", "region"},
         NEW a, NEW r, Lands(Initial[n], a, r)
  PROVE  \E b, s : Lands(n, b, s)
<1> DEFINE c == Initial[n]
<1>1. c \in Node /\ Parent[c] = n /\ n # None
  BY ChartAssumption DEF ContainersResolve
<1>2. EnterState[n] = EnterState[c]
  BY EnterOn DEF Successors
<1>3. CASE a = c
  <2>1. FullBelow(n, EnterState[n])
    BY <1>1, <1>2, <1>3, FullBelowParent DEF Lands
  <2> QED
    BY <2>1, LandsHere
<1>4. CASE a # c
  <2>1. a \in Up[n] /\ n \in Up[c] /\ c \notin Up[n] /\ Up[n] \subseteq Up[c]
    BY <1>1, <1>4, UpParent, ParentUp, UpAcyclic DEF Lands, Through
  <2>2. Through(n, a)
    BY <1>1, <2>1 DEF Lands, Through
  <2> QED
    BY <1>2, <2>2 DEF Lands
<1> QED
  BY <1>3, <1>4

(* Entering a parallel lands on all its regions.                           *)
LEMMA EnterRegions ==
  ASSUME NEW n \in Node, Kind[n] = "parallel",
         \A c \in Kids(n) : \E a, r : Lands(c, a, r)
  PROVE  \E b, s : Lands(n, b, s)
<1>1. n # None
  BY ChartAssumption
<1>2. ASSUME NEW c \in Kids(n) PROVE FullBelow(c, EnterState[c])
  <2>1. PICK a, r : Lands(c, a, r)
    OBVIOUS
  <2>2. c \in Node /\ Parent[c] = n /\ n \in Up[c] /\ Kind[c] = "region"
    BY <1>1, ParentUp, ChartAssumption DEF Kids, Containers
  <2>3. a = c
    <3>1. ASSUME a # c PROVE FALSE
      <4>1. a \in Up[n]
        BY <2>1, <2>2, <3>1, UpParent DEF Lands, Through
      <4>2. n # c
        BY <1>1, <2>2
      <4> QED
        BY <2>1, <2>2, <4>1, <4>2 DEF Lands, Through
    <3> QED
      BY <3>1
  <2> QED
    BY <2>1, <2>2, <2>3 DEF Lands
<1>3. EnterState[n] = UNION {EnterState[c] : c \in Kids(n)}
  <2>1. Successors(n) = Kids(n) /\ ~Settled(n)
    BY DEF Successors, Settled, Kids, Children
  <2> QED
    BY <2>1, EnterEquation
<1>4. FullBelow(n, EnterState[n])
  BY <1>2, <1>3, FullBelowParallel
<1> QED
  BY <1>4, LandsHere

(* Entering a final child lands where the completed compound goes on.      *)
LEMMA EnterDone ==
  ASSUME NEW n \in Node, Kind[n] = "final", Parent[n] # None, Kind[Parent[n]] = "compound",
         NEW a, NEW r, Lands(OnDone[Parent[n]], a, r)
  PROVE  \E b, s : Lands(n, b, s)
<1> DEFINE c == Parent[n]
           d == OnDone[c]
<1>1. c \in Node /\ c \in Up[n] /\ Up[c] \subseteq Up[n] /\ n \notin Up[c]
  BY ParentUp, UpAcyclic
<1>2. d \in Node /\ Parent[d] = Parent[c]
  BY <1>1, ChartAssumption DEF ContainersResolve, Beside
<1>3. EnterState[n] = EnterState[d]
  BY EnterOn DEF Successors
<1>4. CASE a = d
  <2>1. Through(n, c)
    <3>1. ASSUME NEW m \in Up[n], m # n, c \in Up[m] PROVE m = c
      BY <1>1, <3>1, UpParent, UpAntisymmetric
    <3> QED
      BY <1>1, <3>1 DEF Through
  <2> QED
    BY <1>2, <1>3, <1>4, <2>1 DEF Lands
<1>5. CASE a # d
  <2>0. Parent[d] \in Node /\ a \in Up[Parent[d]]
    BY <1>2, <1>5, UpParent DEF Lands, Through
  <2>1. Parent[c] \in Node /\ a \in Up[Parent[c]] /\ Up[Parent[c]] \subseteq Up[c] /\ d \notin Up[Parent[d]]
    BY <1>1, <1>2, <2>0, ParentUp, UpAcyclic, ChartAssumption
  <2>2. a \in Up[n]
    BY <1>1, <2>1
  <2>3. ASSUME NEW m \in Up[n], m # n, a \in Up[m] PROVE Kind[m] = "compound"
    <3>1. m \in Up[c]
      BY <1>1, <2>3, UpParent
    <3>2. CASE m = c
      BY <3>2
    <3>3. CASE m # c
      <4>1. m \in Up[Parent[c]]
        BY <1>1, <3>1, <3>3, UpParent
      <4>2. m \in Up[d] /\ m # d
        BY <1>2, <2>1, <4>1, ParentUp, ChartAssumption
      <4> QED
        BY <2>3, <4>2 DEF Lands, Through
    <3> QED
      BY <3>2, <3>3
  <2> QED
    BY <1>3, <2>2, <2>3 DEF Lands, Through
<1> QED
  BY <1>4, <1>5

(* Entering always lands on a complete configuration below one node.       *)
LEMMA EnterLands == \A n \in Node : \E a, r : Lands(n, a, r)
<1> DEFINE ns == {n \in Node : ~\E a, r : Lands(n, a, r)}
<1>1. SUFFICES ASSUME ns # {} PROVE FALSE
  OBVIOUS
<1>2. PICK n \in ns : Successors(n) \cap ns = {}
  BY <1>1, ChartAssumption DEF EntrySettles
<1>3. \A m \in Successors(n) : \E a, r : Lands(m, a, r)
  BY <1>2, SuccessorsType
<1>4. CASE Kind[n] \in {"compound", "region"}
  <2>1. Initial[n] \in Successors(n)
    BY <1>4 DEF Successors
  <2> QED
    BY <1>2, <1>3, <1>4, <2>1, EnterInitial
<1>5. CASE Kind[n] = "parallel"
  <2>1. Kids(n) = Successors(n)
    BY <1>5 DEF Successors, Kids, Children
  <2> QED
    BY <1>2, <1>3, <1>5, <2>1, EnterRegions
<1>6. CASE Kind[n] = "final" /\ Parent[n] # None /\ Kind[Parent[n]] = "compound"
  <2>1. OnDone[Parent[n]] \in Successors(n)
    BY <1>6 DEF Successors
  <2> QED
    BY <1>2, <1>3, <1>6, <2>1, EnterDone
<1>7. CASE Settled(n)
  <2>1. EnterState[n] = {n}
    BY <1>2, <1>7, EnterEquation
  <2> QED
    BY <1>2, <1>7, <2>1, FullBelowLeaf, LandsHere
<1>8. \/ Kind[n] \in {"compound", "region"} \/ Kind[n] = "parallel" \/ Settled(n)
      \/ Kind[n] = "final" /\ Parent[n] # None /\ Kind[Parent[n]] = "compound"
  BY DEF Settled, Successors
<1> QED
  BY <1>4, <1>5, <1>6, <1>7, <1>8

(* What is above an active node is active.                                 *)
LEMMA ActiveUp ==
  ASSUME NEW leaves \in SUBSET Node, NEW x \in Active(leaves)
  PROVE  x \in Node /\ Up[x] \subseteq Active(leaves)
BY UpTransitive, UpType DEF Active

(* Within a complete configuration, only a region has active siblings. *)
LEMMA NoActiveSibling ==
  ASSUME NEW leaves, Full(leaves), NEW a \in Active(leaves), Kind[a] # "region",
         NEW x \in Active(leaves), Parent[x] = Parent[a]
  PROVE  x = a
<1>1. leaves \in SUBSET Node /\ a \in Node /\ x \in Node
  BY ActiveUp DEF Full
<1>2. CASE Parent[a] = None
  BY <1>1, <1>2 DEF Full, One, Kids
<1>3. CASE Parent[a] # None
  <2>1. Parent[a] \in Active(leaves)
    BY <1>1, <1>3, ActiveUp, ParentUp
  <2>2. Kind[Parent[a]] \in {"compound", "region"}
    BY <1>1, <1>3, ChartAssumption DEF Containers
  <2>3. One(Kids(Parent[a]) \cap Active(leaves))
    BY <2>1, <2>2 DEF Full, Balanced
  <2> QED
    BY <1>1, <2>3 DEF One, Kids
<1> QED
  BY <1>2, <1>3

(* One part of a complete configuration is exchanged for another. *)
LEMMA Swap ==
  ASSUME NEW leaves, Full(leaves), NEW a \in Active(leaves),
         NEW r \in Node, Parent[r] = Parent[a], Kind[a] = "region" => r = a,
         NEW E, FullBelow(r, E)
  PROVE  Full((leaves \ Under(a)) \cup E)
<1> DEFINE A == Active(leaves)
           M == (leaves \ Under(a)) \cup E
           B == Active(M)
           D == A \ Under(a)
           F == Active(E) \cap Under(r)
<1>1. leaves \in SUBSET Node /\ a \in Node /\ A \subseteq Node /\ \A x \in A : Up[x] \subseteq A
  BY ActiveUp, ActiveType DEF Full
<1>2. /\ E \subseteq Node /\ E # {} /\ \A l \in E : Rests(l) /\ r \in Up[l] /\ Up[r] \subseteq Up[l]
  BY UpTransitive DEF FullBelow, Under
<1>3. M \subseteq Node /\ \A l \in M : Rests(l)
  BY <1>1, <1>2 DEF Full
<1>4. Parent[a] # None => /\ Parent[a] \in Node /\ Parent[a] \in A /\ Up[Parent[a]] \subseteq A
                          /\ a \notin Up[Parent[a]] /\ r \notin Up[Parent[a]]
                          /\ Up[Parent[a]] \subseteq Up[r]
  BY <1>1, ParentUp, UpAcyclic
<1>5. ASSUME NEW x \in Up[r], x # r PROVE x \in D
  <2>1. Parent[r] # None /\ x \in Up[Parent[a]]
    BY <1>5, UpParent, ChartAssumption
  <2>2. x \in A /\ x \in Node
    BY <1>1, <1>4, <2>1
  <2>3. a \notin Up[x]
    BY <1>1, <1>4, <2>1, UpTransitive
  <2> QED
    BY <2>2, <2>3 DEF Under
<1>6. ASSUME NEW x \in D PROVE x \notin Under(r)
  <2>1. ASSUME r \in Up[x] PROVE FALSE
    <3>1. r \in A
      BY <1>1, <1>6, <2>1
    <3>2. r = a
      BY <3>1, NoActiveSibling
    <3> QED
      BY <1>1, <1>6, <2>1, <3>2 DEF Under
  <2> QED
    BY <2>1 DEF Under
<1>7. ASSUME NEW x \in B PROVE x \in D \cup F
  <2>1. PICK l \in M : x \in Up[l]
    BY DEF Active
  <2>2. l \in Node /\ x \in Node
    BY <1>3, <2>1, UpType
  <2>3. CASE l \in leaves \ Under(a)
    <3>1. x \in A
      BY <2>1, <2>3 DEF Active
    <3>2. a \notin Up[x]
      BY <1>1, <2>1, <2>2, <2>3, UpTransitive DEF Under
    <3> QED
      BY <3>1, <3>2 DEF Under
  <2>4. CASE l \in E
    <3>1. CASE x \in Under(r)
      BY <2>1, <2>4, <3>1 DEF Active
    <3>2. CASE x \notin Under(r)
      <4>1. x \in Up[r]
        BY <1>2, <2>1, <2>2, <2>4, <3>2, Between
      <4>2. x # r
        BY <2>2, <3>2, UpType DEF Under
      <4> QED
        BY <1>5, <4>1, <4>2
    <3> QED
      BY <3>1, <3>2
  <2> QED
    BY <2>1, <2>3, <2>4
<1>8. ASSUME NEW x \in D PROVE x \in B
  <2>1. PICK l \in leaves : x \in Up[l]
    BY <1>8 DEF Active
  <2>2. CASE l \notin Under(a)
    BY <2>1, <2>2 DEF Active
  <2>3. CASE l \in Under(a)
    <3>1. l \in Node /\ a \in Up[l] /\ x \notin Under(a)
      BY <1>1, <1>8, <2>3 DEF Under
    <3>2. Parent[a] \in Node /\ x \in Up[Parent[a]]
      BY <2>1, <3>1, Between
    <3>3. x \in Up[r]
      BY <1>4, <3>2, ChartAssumption
    <3>4. PICK e \in E : x \in Up[e]
      BY <1>2, <3>3
    <3> QED
      BY <3>4 DEF Active
  <2> QED
    BY <2>2, <2>3
<1>9. F \subseteq B
  BY DEF Active
<1>10. B = D \cup F
  BY <1>7, <1>8, <1>9
<1>11. r \in F
  BY <1>2, UpType DEF Active, Under
<1> HIDE DEF A, M, B, D, F
(* The siblings of a: r is the active one. *)
<1>12. ASSUME Kind[a] # "region" PROVE Kids(Parent[a]) \cap B = {r}
  <2>1. ASSUME NEW x \in D, Parent[x] = Parent[a] PROVE FALSE
    <3>1. x = a
      BY <1>12, <2>1, NoActiveSibling DEF D, A
    <3> QED
      BY <1>1, <2>1, <3>1, UpType DEF D, Under
  <2>2. ASSUME NEW x \in F, Parent[x] = Parent[a] PROVE x = r
    <3>1. x \in Node /\ r \in Up[x] /\ x \in Up[x]
      BY <2>2, UpType DEF F, Under
    <3> QED
      BY <2>2, <3>1, KidsApart
  <2> QED
    BY <1>10, <1>11, <2>1, <2>2 DEF Kids
(* No other node outside has other active children than before. *)
<1>13. ASSUME NEW c \in D \cup {None}, c # Parent[a] PROVE Kids(c) \cap B = Kids(c) \cap A
  <2>1. ASSUME NEW x \in F, Parent[x] = c PROVE FALSE
    <3>1. x \in Node /\ r \in Up[x] /\ x # r
      BY <1>13, <2>1 DEF F, Under
    <3>2. c \in Node /\ r \in Up[c]
      BY <2>1, <3>1, UpParent
    <3> QED
      BY <1>6, <1>13, <3>2, ChartAssumption DEF Under
  <2>2. ASSUME NEW x \in A, Parent[x] = c PROVE x \in D
    <3>1. ASSUME a \in Up[x] PROVE FALSE
      <4>1. c \in Node /\ a \in Up[c]
        BY <1>1, <1>13, <2>2, <3>1, UpParent
      <4> QED
        BY <1>13, <4>1, ChartAssumption DEF D, Under
    <3> QED
      BY <2>2, <3>1 DEF D, Under
  <2>3. D \subseteq A
    BY DEF D
  <2> QED
    BY <1>10, <2>1, <2>2, <2>3 DEF Kids
<1>14. One(Kids(None) \cap B)
  <2>1. CASE Parent[a] = None
    <3>1. Kind[a] # "region"
      BY <1>1, <2>1, ChartAssumption DEF Containers
    <3> QED
      BY <1>12, <2>1, <3>1 DEF One
  <2>2. CASE Parent[a] # None
    BY <1>13, <2>2 DEF Full, A
  <2> QED
    BY <2>1, <2>2
<1>15. ASSUME NEW n \in D PROVE Balanced(n, M, B)
  <2>1. n \in A /\ n \in Node /\ n # None /\ n \notin Under(a)
    BY <1>1, <1>15, ChartAssumption DEF D
  <2>2. Balanced(n, leaves, A)
    BY <2>1 DEF Full, A
  <2>3. n \in leaves => n \in M
    BY <2>1 DEF M
  <2>4. CASE n # Parent[a]
    <3>1. Kids(n) \cap B = Kids(n) \cap A
      BY <1>13, <1>15, <2>4
    <3> QED
      BY <2>2, <2>3, <3>1 DEF Balanced
  <2>5. CASE n = Parent[a] /\ Kind[a] # "region"
    <3>1. Kind[n] \in {"compound", "region"}
      BY <1>1, <2>1, <2>5, ChartAssumption DEF Containers
    <3> QED
      BY <1>12, <2>5, <3>1 DEF Balanced, One
  <2>6. CASE n = Parent[a] /\ Kind[a] = "region"
    <3>1. Kind[n] = "parallel" /\ r = a
      BY <1>1, <2>1, <2>6, ChartAssumption DEF Containers
    <3>2. Kids(n) \subseteq A
      BY <2>2, <3>1 DEF Balanced
    <3>3. ASSUME NEW x \in Kids(n), x # a PROVE x \in D
      <4>1. ASSUME a \in Up[x] PROVE FALSE
        <5>1. x \in Node /\ Parent[x] = n /\ a \in Up[n]
          BY <3>3, <4>1, UpParent DEF Kids
        <5> QED
          BY <1>4, <2>1, <2>6, <5>1
      <4> QED
        BY <3>2, <4>1 DEF D, Under
    <3> QED
      BY <1>10, <1>11, <3>1, <3>3 DEF Balanced
  <2> QED
    BY <2>4, <2>5, <2>6
<1>16. ASSUME NEW n \in F PROVE Balanced(n, M, B)
  <2>1. Balanced(n, E, Active(E)) /\ n \in Node /\ n # None /\ r \in Up[n]
    BY <1>16, ChartAssumption DEF FullBelow, F, Under
  <2>2. ASSUME NEW x \in Kids(n) PROVE x \in B <=> x \in Active(E)
    <3>1. x \in Node /\ r \in Up[x]
      BY <2>1, <2>2, ParentUp DEF Kids
    <3>2. x \in Under(r) /\ x \notin D
      BY <1>6, <3>1 DEF Under
    <3> QED
      BY <1>10, <3>2 DEF F
  <2>3. Kids(n) \cap B = Kids(n) \cap Active(E) /\ (Kids(n) \subseteq B <=> Kids(n) \subseteq Active(E))
    BY <2>2
  <2>4. E \subseteq M
    BY DEF M
  <2> QED
    BY <2>1, <2>3, <2>4 DEF Balanced
<1> QED
  BY <1>3, <1>10, <1>14, <1>15, <1>16 DEF Full, M, B

(* Leaving an active node for a sibling, or a region for itself.           *)
LEMMA Exchange ==
  ASSUME NEW leaves, Full(leaves), NEW h \in Active(leaves),
         NEW t \in Node, Parent[t] = Parent[h], Kind[h] = "region" => t = h
  PROVE  Full(ExitAndEnter(leaves, h, t))
<1>1. leaves \in SUBSET Node /\ h \in Node /\ \A x \in Active(leaves) : Up[x] \subseteq Active(leaves)
  BY ActiveUp DEF Full
<1>2. PICK a, r : Lands(t, a, r)
  BY EnterLands
<1>3. CASE a = t
  <2>1. Kind[h] = "region" => r = h
    BY <1>2, <1>3 DEF Lands
  <2>2. Full((leaves \ Under(h)) \cup EnterState[t])
    BY <1>2, <1>3, <2>1, Swap DEF Lands
  <2> QED
    BY <2>2 DEF ExitAndEnter
<1>4. CASE a # t
  <2>1. Parent[t] \in Node /\ a \in Up[Parent[t]] /\ t \notin Up[Parent[t]] /\ Up[Parent[t]] \subseteq Up[t]
    BY <1>2, <1>4, UpParent, ParentUp, UpAcyclic, ChartAssumption DEF Lands, Through
  <2>2. Parent[h] \in Node /\ Up[Parent[h]] \subseteq Up[h] /\ Parent[h] # None
    <3>1. Parent[h] \in Node /\ Parent[h] # None
      BY <2>1, ChartAssumption
    <3> QED
      BY <1>1, <3>1, ParentUp
  <2>3. a \in Active(leaves) /\ a \in Node /\ a \in Up[h] /\ a \in Up[Parent[h]]
    BY <1>1, <2>1, <2>2, UpType
  <2>4. \A m \in Up[Parent[h]] : a \in Up[m] => Kind[m] = "compound"
    BY <1>2, <2>1 DEF Lands, Through
  <2>5. Kind[a] = "compound"
    BY <2>3, <2>4, UpType
  (* Whatever is active below a, is active below h. *)
  <2>6. ASSUME NEW l \in leaves, a \in Up[l] PROVE h \in Up[l]
    <3> DEFINE ns == {x \in Node : x \in Up[h] /\ a \in Up[x] /\ x \notin Up[l]}
    <3>1. SUFFICES ASSUME ns # {} PROVE FALSE
      BY <1>1, <2>3, UpType
    <3>2. PICK x \in ns : Parent[x] \notin ns
      BY <3>1, ChartAssumption DEF Containers
    <3>3. x # a /\ Parent[x] \in Node /\ Parent[x] # None /\ a \in Up[Parent[x]] /\ Parent[x] \in Up[h]
      BY <1>1, <2>6, <3>2, UpParent, ParentUp, UpTransitive, ChartAssumption
    <3>4. Parent[x] \in Up[l]
      BY <3>2, <3>3
    <3>5. Parent[x] # l
      <4>1. Kind[Parent[x]] \in {"compound", "parallel", "region"}
        BY <3>2, <3>3, ChartAssumption DEF Containers
      <4> QED
        BY <4>1 DEF Full, Rests
    <3>6. Parent[x] \in Active(leaves) /\ x \in Active(leaves)
      BY <1>1, <3>2, <3>4 DEF Active
    <3>7. Kind[Parent[x]] = "compound"
      <4>1. Parent[x] \in Up[Parent[h]]
        BY <1>1, <3>2, <3>3, UpParent, UpAcyclic, UpTransitive
      <4> QED
        BY <2>4, <3>3, <4>1
    <3>8. One(Kids(Parent[x]) \cap Active(leaves))
      BY <3>6, <3>7 DEF Full, Balanced
    (* The child of Parent[x] on the way to l is x. *)
    <3>9. \E y \in Up[l] : y \in Node /\ Parent[y] = Parent[x]
      <4> DEFINE ys == {y \in Node : y \in Up[l] /\ Parent[x] \in Up[y] /\ y # Parent[x]}
      <4>1. l \in ys
        BY <1>1, <3>4, <3>5, UpType
      <4>2. PICK y \in ys : Parent[y] \notin ys
        BY <4>1, ChartAssumption DEF Containers
      <4>3. Parent[y] \in Node /\ Parent[x] \in Up[Parent[y]] /\ Parent[y] \in Up[l]
        BY <1>1, <4>2, UpParent, ParentUp, UpTransitive, ChartAssumption
      <4> QED
        BY <4>2, <4>3
    <3>10. PICK y \in Up[l] : y \in Node /\ Parent[y] = Parent[x]
      BY <3>9
    <3>11. y \in Active(leaves)
      BY <3>10 DEF Active
    <3> QED
      BY <3>2, <3>6, <3>8, <3>10, <3>11 DEF One, Kids
  <2>7. leaves \ Under(h) = leaves \ Under(a)
    <3>1. \A l \in leaves : h \in Up[l] => a \in Up[l]
      BY <1>1, <2>3, UpTransitive
    <3> QED
      BY <1>1, <2>6, <3>1 DEF Under
  <2>8. Full((leaves \ Under(a)) \cup EnterState[t])
    BY <1>2, <2>3, <2>5, Swap DEF Lands
  <2> QED
    BY <2>7, <2>8 DEF ExitAndEnter
<1> QED
  BY <1>3, <1>4

(* A join leaves a completed parallel for its sibling. *)
LEMMA JoinFull ==
  ASSUME NEW leaves, Full(leaves), CompletedParallels(leaves) # {}
  PROVE  Full(Join(leaves))
<1>1. leaves \in SUBSET Node
  BY DEF Full
<1>2. PICK p \in CompletedParallels(leaves) :
        /\ p \in Node /\ Kind[p] = "parallel" /\ OnDone[p] \in Node /\ Parent[OnDone[p]] = Parent[p]
        /\ Join(leaves) = (leaves \ Under(p)) \cup EnterState[OnDone[p]]
  BY <1>1, JoinMeans
<1>3. p \in Active(leaves)
  BY DEF CompletedParallels, Active
<1> QED
  BY <1>2, <1>3, Exchange DEF ExitAndEnter

(* A run begins in a complete configuration.                               *)
LEMMA EnterTop == Full(EnterState[Top])
<1> DEFINE E == EnterState[Top]
<1>1. Top \in Node /\ Parent[Top] = None /\ Up[Top] = {Top}
  BY UpEquation, ChartAssumption
<1>2. PICK a, r : Lands(Top, a, r)
  BY <1>1, EnterLands
<1>3. r \in Node /\ Parent[r] = None /\ Up[r] = {r} /\ FullBelow(r, E)
  BY <1>1, <1>2, UpEquation DEF Lands, Through
<1> HIDE DEF E
<1>4. E \subseteq Node /\ E # {} /\ \A l \in E : Rests(l) /\ r \in Up[l]
  BY <1>3 DEF FullBelow, Under
<1>5. ASSUME NEW n \in Active(E) PROVE n \in Under(r)
  <2>1. PICK l \in E : n \in Up[l]
    BY DEF Active
  <2> QED
    BY <1>3, <1>4, <2>1, Between, ChartAssumption
<1>6. Kids(None) \cap Active(E) = {r}
  <2>1. r \in Kids(None) \cap Active(E)
    BY <1>3, <1>4 DEF Kids, Active
  <2>2. ASSUME NEW x \in Kids(None) \cap Active(E) PROVE x = r
    <3>1. x \in Node /\ r \in Up[x] /\ Parent[x] = None
      BY <1>5, <2>2 DEF Kids, Under
    <3> QED
      BY <3>1, UpEquation
  <2> QED
    BY <2>1, <2>2
<1> QED
  BY <1>3, <1>4, <1>5, <1>6 DEF E, Full, FullBelow, One

-----------------------------------------------------------------------------
(* The two readings of a complete configuration are one. *)
LEMMA LegalIsFull ==
  ASSUME NEW leaves \in SUBSET Node
  PROVE  Legal(leaves) <=> Full(leaves) /\ CompletedParallels(leaves) = {}
<1> DEFINE A == UNION {Up[l] : l \in leaves}
<1>1. A = Active(leaves) /\ A \subseteq Node /\ IsFiniteSet(A)
  BY ActiveType, ChartAssumption, FS_Subset DEF Active
<1>2. ASSUME NEW s \in SUBSET A PROVE Cardinality(s) = 1 <=> One(s)
  <2>1. IsFiniteSet(s)
    BY <1>1, FS_Subset
  <2>2. Cardinality(s) = 1 <=> \E x : s = {x}
    BY <2>1, FS_Singleton
  <2> QED
    BY <2>2 DEF One
<1>3. Cardinality({n \in A : Parent[n] = None}) = 1 <=> One(Kids(None) \cap A)
  <2>1. {n \in A : Parent[n] = None} = Kids(None) \cap A
    BY <1>1 DEF Kids
  <2> QED
    BY <1>2, <2>1
<1>4. \A n \in A : Children(n) = Kids(n) /\ (Cardinality(Children(n) \cap A) = 1 <=> One(Kids(n) \cap A))
  BY <1>2 DEF Children, Kids
<1>5. (\A n \in A : Balanced(n, leaves, A)) <=>
      \A n \in A : CASE Kind[n] \in {"compound", "region"} -> Cardinality(Children(n) \cap A) = 1
                     [] Kind[n] = "parallel" -> Children(n) \subseteq A
                     [] OTHER -> n \in leaves
  BY <1>4 DEF Balanced
<1>6. (\A l \in leaves : Rests(l)) <=>
      /\ \A l \in leaves : Kind[l] \in {"state", "final"}
      /\ \A l \in leaves : Kind[l] = "final" /\ Parent[l] # None => Kind[Parent[l]] # "compound"
  BY DEF Rests
<1>7. Legal(leaves) <=>
      /\ Cardinality({n \in A : Parent[n] = None}) = 1
      /\ \A l \in leaves : Kind[l] \in {"state", "final"}
      /\ \A n \in A : CASE Kind[n] \in {"compound", "region"} -> Cardinality(Children(n) \cap A) = 1
                        [] Kind[n] = "parallel" -> Children(n) \subseteq A
                        [] OTHER -> n \in leaves
      /\ \A l \in leaves : Kind[l] = "final" /\ Parent[l] # None => Kind[Parent[l]] # "compound"
      /\ CompletedParallels(leaves) = {}
  BY DEF Legal
<1> HIDE DEF A
<1>8. Full(leaves) <=> /\ \A l \in leaves : Rests(l)
                       /\ One(Kids(None) \cap A) /\ \A n \in A : Balanced(n, leaves, A)
  BY <1>1 DEF Full
<1> QED
  BY <1>3, <1>5, <1>6, <1>7, <1>8

(* Joins lead from a complete configuration to a legal one.                *)
LEMMA JoinsLegal ==
  ASSUME NEW leaves, Full(leaves) PROVE Legal(CompleteParallels[leaves])
<1> DEFINE P == {ls \in SUBSET Node : Full(ls)}
<1>1. \A ls \in P : CompletedParallels(ls) # {} => Join(ls) \in P
  BY JoinFull, JoinType
<1>2. P \in SUBSET (SUBSET Node) /\ leaves \in P
  BY DEF Full
<1>3. CompleteParallels[leaves] \in P /\ CompletedParallels(CompleteParallels[leaves]) = {}
  BY <1>1, <1>2, JoinsKeep
<1> QED
  BY <1>3, LegalIsFull

(* A chart begins in a complete configuration, and every step from one     *)
(* that leaves an active node for a sibling leads to one (exitAndEnter     *)
(* followed by completeParallels), on every chart that normalize.ts        *)
(* accepts, whose parallels have regions and whose joins end.              *)
THEOREM ConfigurationsStayComplete ==
  /\ Legal(CompleteParallels[EnterState[Top]])
  /\ \A leaves \in SUBSET Node : \A l \in leaves : \A h \in Up[l] : \A t \in Node :
       Legal(leaves) /\ Beside(t, h) /\ (Kind[h] = "region" => t = h)
         => Legal(CompleteParallels[ExitAndEnter(leaves, h, t)])
<1>1. Legal(CompleteParallels[EnterState[Top]])
  BY EnterTop, JoinsLegal
<1>2. ASSUME NEW leaves \in SUBSET Node, NEW l \in leaves, NEW h \in Up[l], NEW t \in Node,
             Legal(leaves), Beside(t, h), Kind[h] = "region" => t = h
      PROVE  Legal(CompleteParallels[ExitAndEnter(leaves, h, t)])
  <2>1. h \in Active(leaves) /\ Full(leaves)
    BY <1>2, LegalIsFull DEF Active
  <2> QED
    BY <1>2, <2>1, Exchange, JoinsLegal DEF Beside
<1> QED
  BY <1>1, <1>2
=============================================================================
