--------------------------- MODULE DecisionProofs ---------------------------
(***************************************************************************)
(* That the log never refuses an accept or the closing of an actor         *)
(* (DecisionsStand of FanOut), however far the machine was behind it when  *)
(* it decided, for every chart and every number of actors and workers.     *)
(*                                                                         *)
(* The accepts that are on their way to the machine are, actor by actor    *)
(* and in order, the reservations it keeps.  Each was promised: its        *)
(* message stands at its place of the mailbox, its worker is idle, is      *)
(* nobody else's, and takes the message.  Records of others keep a promise *)
(* and the accept itself, when the projection comes to it, finds it kept   *)
(* and leaves the rest promised.  So what holds of the machine's           *)
(* projection is carried from event to event of the queue to the log's.    *)
(***************************************************************************)
EXTENDS FanOutProofs

-----------------------------------------------------------------------------
(* The accepts of one actor that are on their way, in order: s are those of *)
(* w after its first n units.                                               *)
AtPlaces(f, w, n, s, e) ==
  /\ f \in [1 .. Len(s) -> n + 1 .. Len(w)]
  /\ \A i, j \in 1 .. Len(s) : i < j => f[i] < f[j]
  /\ \A j \in 1 .. Len(s) : w[f[j]] = s[j] /\ Gone(s[j], e) = 1
  /\ \A x \in n + 1 .. Len(w) : Gone(w[x], e) = 1 => \E j \in 1 .. Len(s) : f[j] = x
Lists(w, n, s, e) == \E f : AtPlaces(f, w, n, s, e)

LEMMA ListsNext ==
  ASSUME NEW S, NEW w \in Seq(S), NEW n \in Nat, n + 1 <= Len(w), NEW s \in Seq(Accept), NEW e, Lists(w, n, s, e)
  PROVE  /\ Gone(w[n + 1], e) = 1 => s # <<>> /\ Head(s) = w[n + 1] /\ Lists(w, n + 1, Tail(s), e)
         /\ Gone(w[n + 1], e) # 1 => Lists(w, n + 1, s, e)
<1>1. PICK f : AtPlaces(f, w, n, s, e)
  BY DEF Lists
<1>2. PICK k \in Nat, m \in Nat : k = Len(s) /\ m = Len(w) /\ n + 1 <= m
  OBVIOUS
<1>3. /\ f \in [1 .. k -> n + 1 .. m] /\ \A i, j \in 1 .. k : i < j => f[i] < f[j]
      /\ \A j \in 1 .. k : w[f[j]] = s[j] /\ Gone(s[j], e) = 1
      /\ \A x \in n + 1 .. m : Gone(w[x], e) = 1 => \E j \in 1 .. k : f[j] = x
  BY <1>1, <1>2 DEF AtPlaces
<1>4. ASSUME Gone(w[n + 1], e) = 1
      PROVE  s # <<>> /\ Head(s) = w[n + 1] /\ Lists(w, n + 1, Tail(s), e)
  <2>1. n + 1 \in n + 1 .. m
    BY <1>2
  <2>2. PICK j \in 1 .. k : f[j] = n + 1
    BY <1>3, <1>4, <2>1
  <2>3. 1 \in 1 .. k /\ f[1] \in n + 1 .. m
    BY <1>3, <2>2
  <2>4. j = 1
    <3>1. SUFFICES ASSUME 1 < j PROVE FALSE
      OBVIOUS
    <3>2. f[1] < f[j]
      BY <1>3, <2>3, <3>1
    <3>. QED
      BY <2>2, <2>3, <3>2
  <2>5. f[1] = n + 1 /\ s[1] = w[n + 1]
    BY <1>3, <2>2, <2>3, <2>4
  <2>6. s # <<>> /\ Head(s) = w[n + 1]
    BY <1>2, <2>3, <2>5
  <2>7. PICK t \in Seq(Accept) : t = Tail(s) /\ Len(t) = k - 1 /\ \A i \in 1 .. k - 1 : t[i] = s[i + 1]
    <3>1. Tail(s) \in Seq(Accept) /\ Len(Tail(s)) = k - 1 /\ \A i \in 1 .. k - 1 : Tail(s)[i] = s[i + 1]
      BY <1>2, <2>6
    <3>. QED
      BY <3>1
  <2>8. \A i \in 1 .. k - 1 : i + 1 \in 1 .. k
    OBVIOUS
  <2>9. PICK g : g = [i \in 1 .. k - 1 |-> f[i + 1]]
    OBVIOUS
  <2>10. ASSUME NEW i \in 1 .. k - 1
         PROVE  g[i] = f[i + 1] /\ g[i] \in n + 2 .. m
    <3>1. g[i] = f[i + 1] /\ f[i + 1] \in n + 1 .. m
      BY <1>3, <2>8, <2>9
    <3>2. 1 < i + 1
      OBVIOUS
    <3>3. f[1] < f[i + 1]
      BY <1>3, <2>3, <2>8, <3>2
    <3>. QED
      BY <3>1, <3>3, <2>5
  <2>11. g \in [1 .. k - 1 -> (n + 1) + 1 .. m]
    <3>1. n + 2 = (n + 1) + 1
      OBVIOUS
    <3>. QED
      BY <3>1, <2>9, <2>10
  <2>12. \A i, h \in 1 .. k - 1 : i < h => g[i] < g[h]
    <3>1. SUFFICES ASSUME NEW i \in 1 .. k - 1, NEW h \in 1 .. k - 1, i < h PROVE f[i + 1] < f[h + 1]
      BY <2>10
    <3>2. i + 1 < h + 1
      BY <3>1
    <3>. QED
      BY <3>2, <1>3, <2>8
  <2>13. ASSUME NEW i \in 1 .. k - 1
         PROVE  w[g[i]] = t[i] /\ Gone(t[i], e) = 1
    <3>1. i + 1 \in 1 .. k /\ g[i] = f[i + 1] /\ t[i] = s[i + 1]
      BY <2>7, <2>8, <2>10
    <3>2. w[f[i + 1]] = s[i + 1] /\ Gone(s[i + 1], e) = 1
      BY <3>1, <1>3
    <3>. QED
      BY <3>1, <3>2
  <2>14. ASSUME NEW x \in (n + 1) + 1 .. m, Gone(w[x], e) = 1
         PROVE  \E i \in 1 .. k - 1 : g[i] = x
    <3>1. x \in n + 1 .. m /\ x # n + 1
      OBVIOUS
    <3>2. PICK h \in 1 .. k : f[h] = x
      BY <1>3, <2>14, <3>1
    <3>3. h # 1
      BY <2>5, <3>1, <3>2
    <3>4. h - 1 \in 1 .. k - 1 /\ (h - 1) + 1 = h
      BY <3>3
    <3>5. g[h - 1] = f[(h - 1) + 1]
      BY <3>4, <2>10
    <3>. QED
      BY <3>2, <3>4, <3>5
  <2>15. AtPlaces(g, w, n + 1, t, e)
    BY <1>2, <2>7, <2>11, <2>12, <2>13, <2>14 DEF AtPlaces
  <2>. QED
    BY <2>6, <2>7, <2>15 DEF Lists
<1>5. ASSUME Gone(w[n + 1], e) # 1
      PROVE  Lists(w, n + 1, s, e)
  <2>1. ASSUME NEW j \in 1 .. k
        PROVE  f[j] \in (n + 1) + 1 .. m
    <3>1. f[j] \in n + 1 .. m /\ Gone(w[f[j]], e) = 1
      BY <1>3
    <3>2. f[j] # n + 1
      BY <3>1, <1>5
    <3>. QED
      BY <3>1, <3>2
  <2>2. f \in [1 .. k -> (n + 1) + 1 .. m]
    BY <1>3, <2>1
  <2>3. \A x \in (n + 1) + 1 .. m : x \in n + 1 .. m
    OBVIOUS
  <2>4. AtPlaces(f, w, n + 1, s, e)
    BY <1>2, <1>3, <2>2, <2>3 DEF AtPlaces
  <2>. QED
    BY <2>4 DEF Lists
<1>. QED
  BY <1>4, <1>5

LEMMA ListsTail ==
  ASSUME NEW S, NEW w \in Seq(S), w # <<>>, NEW s \in Seq(Accept), NEW e, Lists(w, 1, s, e)
  PROVE  Lists(Tail(w), 0, s, e)
<1>1. PICK f : AtPlaces(f, w, 1, s, e)
  BY DEF Lists
<1>2. PICK k \in Nat, m \in Nat \ {0} : k = Len(s) /\ m = Len(w)
  OBVIOUS
<1>3. /\ f \in [1 .. k -> 1 + 1 .. m] /\ \A i, j \in 1 .. k : i < j => f[i] < f[j]
      /\ \A j \in 1 .. k : w[f[j]] = s[j] /\ Gone(s[j], e) = 1
      /\ \A x \in 1 + 1 .. m : Gone(w[x], e) = 1 => \E j \in 1 .. k : f[j] = x
  BY <1>1, <1>2 DEF AtPlaces
<1>4. PICK t : t = Tail(w)
  OBVIOUS
<1>5. Len(t) = m - 1 /\ \A x \in 1 .. m - 1 : t[x] = w[x + 1]
  BY <1>2, <1>4
<1>6. PICK g : g = [j \in 1 .. k |-> f[j] - 1]
  OBVIOUS
<1>7. ASSUME NEW j \in 1 .. k
      PROVE  g[j] = f[j] - 1 /\ g[j] \in 0 + 1 .. m - 1 /\ t[g[j]] = w[f[j]] /\ f[j] \in Nat
  <2>1. f[j] \in 1 + 1 .. m /\ g[j] = f[j] - 1
    BY <1>3, <1>6
  <2>2. f[j] - 1 \in 1 .. m - 1 /\ (f[j] - 1) + 1 = f[j]
    BY <2>1
  <2>3. t[f[j] - 1] = w[(f[j] - 1) + 1]
    BY <2>2, <1>5
  <2>. QED
    BY <2>1, <2>2, <2>3
<1>8. g \in [1 .. k -> 0 + 1 .. m - 1]
  BY <1>6, <1>7
<1>9. \A i, j \in 1 .. k : i < j => g[i] < g[j]
  <2>1. SUFFICES ASSUME NEW i \in 1 .. k, NEW j \in 1 .. k, i < j PROVE g[i] < g[j]
    OBVIOUS
  <2>2. f[i] < f[j] /\ f[i] \in Nat /\ f[j] \in Nat /\ g[i] = f[i] - 1 /\ g[j] = f[j] - 1
    BY <2>1, <1>3, <1>7
  <2>. QED
    BY <2>2
<1>10. ASSUME NEW x \in 0 + 1 .. m - 1, Gone(t[x], e) = 1
       PROVE  \E j \in 1 .. k : g[j] = x
  <2>1. x + 1 \in 1 + 1 .. m /\ t[x] = w[x + 1] /\ (x + 1) - 1 = x
    BY <1>5
  <2>2. PICK j \in 1 .. k : f[j] = x + 1
    BY <2>1, <1>3, <1>10
  <2>. QED
    BY <2>1, <2>2, <1>7
<1>11. \A j \in 1 .. k : t[g[j]] = s[j] /\ Gone(s[j], e) = 1
  BY <1>3, <1>7
<1>12. AtPlaces(g, t, 0, s, e)
  BY <1>2, <1>5, <1>8, <1>9, <1>10, <1>11 DEF AtPlaces
<1>. QED
  BY <1>4, <1>12 DEF Lists

LEMMA ListsNone ==
  ASSUME NEW S, NEW w \in Seq(S), NEW e, \A x \in 1 .. Len(w) : Gone(w[x], e) # 1
  PROVE  Lists(w, 0, <<>>, e)
<1>1. PICK s \in Seq(Accept) : s = <<>> /\ Len(s) = 0
  BY <<>> \in Seq(Accept)
<1>2. PICK f : f = [j \in 1 .. 0 |-> j]
  OBVIOUS
<1>3. f \in [1 .. 0 -> 0 + 1 .. Len(w)]
  BY <1>2
<1>4. AtPlaces(f, w, 0, s, e)
  BY <1>1, <1>3 DEF AtPlaces
<1>. QED
  BY <1>1, <1>4 DEF Lists

LEMMA ListsAll ==
  ASSUME NEW w \in Seq(Accept), NEW e, \A x \in 1 .. Len(w) : Gone(w[x], e) = 1
  PROVE  Lists(w, 0, w, e)
<1>1. PICK f : f = [j \in 1 .. Len(w) |-> j]
  OBVIOUS
<1>2. f \in [1 .. Len(w) -> 0 + 1 .. Len(w)] /\ \A j \in 1 .. Len(w) : f[j] = j
  BY <1>1
<1>3. AtPlaces(f, w, 0, w, e)
  BY <1>2 DEF AtPlaces
<1>. QED
  BY <1>3 DEF Lists

LEMMA ListsJoin ==
  ASSUME NEW S, NEW v \in Seq(S), NEW w \in Seq(S), NEW s \in Seq(Accept), NEW t \in Seq(Accept), NEW e,
         Lists(v, 0, s, e), Lists(w, 0, t, e)
  PROVE  Lists(v \o w, 0, s \o t, e)
<1>1. PICK f, g : AtPlaces(f, v, 0, s, e) /\ AtPlaces(g, w, 0, t, e)
  BY DEF Lists
<1>2. PICK k \in Nat, l \in Nat, m \in Nat, n \in Nat : k = Len(s) /\ l = Len(t) /\ m = Len(v) /\ n = Len(w)
  OBVIOUS
<1>3. PICK b : b = v \o w
  OBVIOUS
<1>4. PICK r : r = s \o t
  OBVIOUS
<1>5. Len(b) = m + n /\ (\A x \in 1 .. m : b[x] = v[x]) /\ \A x \in 1 .. n : b[m + x] = w[x]
  <2>1. Len(b) = m + n /\ \A x \in 1 .. m + n : b[x] = IF x <= m THEN v[x] ELSE w[x - m]
    BY <1>2, <1>3
  <2>2. \A x \in 1 .. m : x \in 1 .. m + n /\ x <= m
    OBVIOUS
  <2>3. \A x \in 1 .. n : m + x \in 1 .. m + n /\ ~(m + x <= m) /\ (m + x) - m = x
    OBVIOUS
  <2>. QED
    BY <2>1, <2>2, <2>3
<1>6. Len(r) = k + l /\ (\A x \in 1 .. k : r[x] = s[x]) /\ \A x \in 1 .. l : r[k + x] = t[x]
  <2>1. Len(r) = k + l /\ \A x \in 1 .. k + l : r[x] = IF x <= k THEN s[x] ELSE t[x - k]
    BY <1>2, <1>4
  <2>2. \A x \in 1 .. k : x \in 1 .. k + l /\ x <= k
    OBVIOUS
  <2>3. \A x \in 1 .. l : k + x \in 1 .. k + l /\ ~(k + x <= k) /\ (k + x) - k = x
    OBVIOUS
  <2>. QED
    BY <2>1, <2>2, <2>3
<1>7. /\ f \in [1 .. k -> 0 + 1 .. m] /\ \A i, j \in 1 .. k : i < j => f[i] < f[j]
      /\ \A j \in 1 .. k : v[f[j]] = s[j] /\ Gone(s[j], e) = 1
      /\ \A x \in 0 + 1 .. m : Gone(v[x], e) = 1 => \E j \in 1 .. k : f[j] = x
  BY <1>1, <1>2 DEF AtPlaces
<1>8. /\ g \in [1 .. l -> 0 + 1 .. n] /\ \A i, j \in 1 .. l : i < j => g[i] < g[j]
      /\ \A j \in 1 .. l : w[g[j]] = t[j] /\ Gone(t[j], e) = 1
      /\ \A x \in 0 + 1 .. n : Gone(w[x], e) = 1 => \E j \in 1 .. l : g[j] = x
  BY <1>1, <1>2 DEF AtPlaces
<1>9. PICK h : h = [j \in 1 .. k + l |-> IF j <= k THEN f[j] ELSE m + g[j - k]]
  OBVIOUS
<1>10. ASSUME NEW j \in 1 .. k
       PROVE  /\ h[j] = f[j] /\ h[j] \in 0 + 1 .. m + n /\ h[j] <= m /\ f[j] \in Nat /\ j \in 1 .. k + l
              /\ b[h[j]] = r[j] /\ Gone(r[j], e) = 1
  <2>1. j \in 1 .. k + l /\ j <= k
    OBVIOUS
  <2>2. h[j] = f[j]
    BY <2>1, <1>9
  <2>3. f[j] \in 0 + 1 .. m
    BY <1>7
  <2>4. f[j] \in 1 .. m /\ f[j] \in 0 + 1 .. m + n /\ f[j] <= m /\ f[j] \in Nat
    BY <2>3
  <2>5. b[f[j]] = v[f[j]] /\ r[j] = s[j]
    BY <2>4, <1>5, <1>6
  <2>6. v[f[j]] = s[j] /\ Gone(s[j], e) = 1
    BY <1>7
  <2>. QED
    BY <2>1, <2>2, <2>4, <2>5, <2>6
<1>11. ASSUME NEW j \in 1 .. l
       PROVE  /\ h[k + j] = m + g[j] /\ h[k + j] \in 0 + 1 .. m + n /\ h[k + j] > m /\ g[j] \in Nat /\ k + j \in 1 .. k + l
              /\ b[h[k + j]] = r[k + j] /\ Gone(r[k + j], e) = 1
  <2>1. k + j \in 1 .. k + l /\ ~(k + j <= k) /\ (k + j) - k = j /\ g[j] \in 1 .. n
    BY <1>8
  <2>2. h[k + j] = m + g[j]
    BY <2>1, <1>9
  <2>3. b[m + g[j]] = w[g[j]] /\ r[k + j] = t[j] /\ w[g[j]] = t[j] /\ Gone(t[j], e) = 1
    BY <2>1, <1>5, <1>6, <1>8
  <2>4. ASSUME NEW y \in 1 .. n
        PROVE  m + y \in 0 + 1 .. m + n /\ m + y > m /\ y \in Nat
    OBVIOUS
  <2>5. h[k + j] \in 0 + 1 .. m + n /\ h[k + j] > m /\ g[j] \in Nat
    BY <2>1, <2>2, <2>4
  <2>6. b[h[k + j]] = r[k + j]
    BY <2>2, <2>3
  <2>. QED
    BY <2>1, <2>2, <2>3, <2>5, <2>6
<1>12. ASSUME NEW j \in 1 .. k + l
       PROVE  j \in 1 .. k \/ \E i \in 1 .. l : j = k + i
  <2>1. CASE j <= k
    BY <2>1
  <2>2. CASE ~(j <= k)
    <3>1. j - k \in 1 .. l /\ j = k + (j - k)
      BY <2>2
    <3>. QED
      BY <3>1
  <2>. QED
    BY <2>1, <2>2
<1>13. h \in [1 .. k + l -> 0 + 1 .. m + n]
  <2>1. \A j \in 1 .. k + l : h[j] \in 0 + 1 .. m + n
    BY <1>10, <1>11, <1>12
  <2>. QED
    BY <2>1, <1>9
<1>14. \A i, j \in 1 .. k + l : i < j => h[i] < h[j]
  <2>1. SUFFICES ASSUME NEW i \in 1 .. k + l, NEW j \in 1 .. k + l, i < j PROVE h[i] < h[j]
    OBVIOUS
  <2>2. CASE i \in 1 .. k /\ j \in 1 .. k
    <3>1. f[i] < f[j] /\ h[i] = f[i] /\ h[j] = f[j]
      BY <2>1, <2>2, <1>7, <1>10
    <3>. QED
      BY <3>1
  <2>3. CASE i \in 1 .. k /\ j \notin 1 .. k
    <3>1. PICK y \in 1 .. l : j = k + y
      BY <2>3, <1>12
    <3>2. h[i] <= m /\ h[j] > m /\ h[i] = f[i] /\ f[i] \in Nat /\ h[j] = m + g[y] /\ g[y] \in Nat
      BY <2>3, <3>1, <1>10, <1>11
    <3>. QED
      BY <3>2
  <2>4. CASE i \notin 1 .. k
    <3>1. PICK x \in 1 .. l : i = k + x
      BY <2>4, <1>12
    <3>2. PICK y \in 1 .. l : j = k + y
      <4>1. j \notin 1 .. k
        BY <2>1, <3>1
      <4>. QED
        BY <4>1, <1>12
    <3>3. x < y
      BY <2>1, <3>1, <3>2
    <3>4. g[x] < g[y] /\ g[x] \in Nat /\ g[y] \in Nat /\ h[i] = m + g[x] /\ h[j] = m + g[y]
      BY <3>1, <3>2, <3>3, <1>8, <1>11
    <3>. QED
      BY <3>4
  <2>. QED
    BY <2>2, <2>3, <2>4
<1>15. \A j \in 1 .. k + l : b[h[j]] = r[j] /\ Gone(r[j], e) = 1
  BY <1>10, <1>11, <1>12
<1>16. ASSUME NEW x \in 0 + 1 .. m + n, Gone(b[x], e) = 1
       PROVE  \E j \in 1 .. k + l : h[j] = x
  <2>1. CASE x <= m
    <3>1. x \in 0 + 1 .. m /\ b[x] = v[x]
      BY <2>1, <1>5
    <3>2. PICK j \in 1 .. k : f[j] = x
      BY <3>1, <1>7, <1>16
    <3>. QED
      BY <3>2, <1>10
  <2>2. CASE ~(x <= m)
    <3>1. PICK y \in 0 + 1 .. n : x = m + y
      <4>1. x - m \in 0 + 1 .. n /\ x = m + (x - m)
        BY <2>2
      <4>. QED
        BY <4>1
    <3>2. b[x] = w[y]
      BY <3>1, <1>5
    <3>3. PICK j \in 1 .. l : g[j] = y
      BY <3>2, <1>8, <1>16
    <3>. QED
      BY <3>1, <3>3, <1>11
  <2>. QED
    BY <2>1, <2>2
<1>17. AtPlaces(h, b, 0, r, e)
  BY <1>5, <1>6, <1>13, <1>14, <1>15, <1>16 DEF AtPlaces
<1>. QED
  BY <1>3, <1>4, <1>17 DEF Lists

(* Of the accepts of all actors, one after the other, those of one.         *)
LEMMA ListsFlattened ==
  ASSUME NEW ss \in Seq(Seq(Accept)), NEW e \in 1 .. Len(ss),
         \A i \in 1 .. Len(ss) : \A x \in 1 .. Len(ss[i]) : ss[i][x].e = i
  PROVE  Lists(FlattenSeq(ss), 0, ss[e], e)
<1>1. PICK g : g = CHOOSE f : Joins(ss, f)
  OBVIOUS
<1>2. PICK n \in Nat \ {0} : n = Len(ss) /\ \A i \in 1 .. n : ss[i] \in Seq(Accept)
  OBVIOUS
<1>3. FlattenSeq(ss) = g[n]
  BY <1>1, <1>2 DEF FlattenSeq, Joins
<1>4. Joins(ss, g)
  <2>1. ss # <<>>
    OBVIOUS
  <2>. QED
    BY <2>1, <1>1, JoinsFit
<1>5. \A i \in 1 .. n : g[i] = IF i = 1 THEN ss[i] ELSE g[i - 1] \o ss[i]
  BY <1>4, <1>2 DEF Joins
<1>6. PICK none \in Seq(Accept) : none = <<>>
  BY <<>> \in Seq(Accept)
<1>7. ASSUME NEW i \in 1 .. n
      PROVE  Lists(ss[i], 0, IF i = e THEN ss[i] ELSE none, e)
  <2>1. ASSUME NEW x \in 1 .. Len(ss[i])
        PROVE  ss[i][x] \in Accept /\ ss[i][x].type = "accepted" /\ ss[i][x].e = i
    <3>1. ss[i][x] \in Accept
      BY <1>2
    <3>2. ss[i][x].e = i
      BY <1>2
    <3>. QED
      BY <3>1, <3>2 DEF Accept
  <2>2. CASE i = e
    <3>1. \A x \in 1 .. Len(ss[i]) : Gone(ss[i][x], e) = 1
      BY <2>1, <2>2 DEF Gone
    <3>. QED
      BY <3>1, <2>2, <1>2, ListsAll
  <2>3. CASE i # e
    <3>1. \A x \in 1 .. Len(ss[i]) : Gone(ss[i][x], e) # 1
      BY <2>1, <2>3 DEF Gone
    <3>. QED
      BY <3>1, <2>3, <1>2, <1>6, ListsNone
  <2>. QED
    BY <2>2, <2>3
<1>8. PICK A : A = {i \in 1 .. n : g[i] \in Seq(Accept) /\ Lists(g[i], 0, IF e <= i THEN ss[e] ELSE none, e)}
  OBVIOUS
<1>9. 1 \in A
  <2>1. g[1] = ss[1] /\ 1 \in 1 .. n /\ (e <= 1 <=> e = 1)
    BY <1>2, <1>5
  <2>. QED
    BY <2>1, <1>2, <1>7, <1>8
<1>10. ASSUME NEW i \in 1 + 1 .. n, i - 1 \in A
       PROVE  i \in A
  <2>1. i \in 1 .. n /\ i # 1 /\ i - 1 \in 1 .. n
    OBVIOUS
  <2>2. PICK a \in Seq(Accept) : a = g[i - 1] /\ Lists(a, 0, IF e <= i - 1 THEN ss[e] ELSE none, e)
    BY <1>8, <1>10
  <2>3. PICK b \in Seq(Accept) : b = ss[i]
    BY <1>2, <2>1
  <2>4. g[i] = a \o b /\ g[i] \in Seq(Accept)
    <3>1. a \o b \in Seq(Accept)
      OBVIOUS
    <3>. QED
      BY <3>1, <1>5, <2>1, <2>2, <2>3
  <2>5. PICK c \in Seq(Accept) : c = ss[e]
    BY <1>2
  <2>6. c \o none = c /\ none \o c = c /\ none \o none = none
    BY <1>6
  <2>7. CASE e <= i - 1
    <3>1. i # e /\ e <= i
      BY <2>7
    <3>2. Lists(a, 0, c, e) /\ Lists(b, 0, none, e)
      BY <2>1, <2>2, <2>3, <2>5, <2>7, <3>1, <1>7
    <3>3. Lists(a \o b, 0, c \o none, e)
      BY <3>2, ListsJoin
    <3>. QED
      BY <3>1, <3>3, <2>1, <2>4, <2>5, <2>6, <1>8
  <2>8. CASE i = e
    <3>1. ~(e <= i - 1) /\ e <= i
      BY <2>8
    <3>2. Lists(a, 0, none, e) /\ Lists(b, 0, c, e)
      BY <2>1, <2>2, <2>3, <2>5, <2>8, <3>1, <1>7
    <3>3. Lists(a \o b, 0, none \o c, e)
      BY <3>2, ListsJoin
    <3>. QED
      BY <3>1, <3>3, <2>1, <2>4, <2>5, <2>6, <1>8
  <2>9. CASE ~(e <= i - 1) /\ i # e
    <3>1. ~(e <= i)
      BY <2>1, <2>9
    <3>2. Lists(a, 0, none, e) /\ Lists(b, 0, none, e)
      BY <2>1, <2>2, <2>3, <2>9, <1>7
    <3>3. Lists(a \o b, 0, none \o none, e)
      BY <3>2, ListsJoin
    <3>. QED
      BY <3>1, <3>3, <2>1, <2>4, <2>6, <1>8
  <2>. QED
    BY <2>7, <2>8, <2>9
<1>11. n \in A
  <2>1. \A i \in 1 .. n : i \in A
    BY <1>9, <1>10, Upward
  <2>. QED
    BY <2>1
<1>12. e <= n
  BY <1>2
<1>. QED
  BY <1>3, <1>8, <1>11, <1>12

-----------------------------------------------------------------------------
(* A worker without a message stays as it is, whatever else happens, until  *)
(* it is given one.                                                         *)
Rests(v, e, i) == v.current[e][i] = NoMessage
Undisturbed(v, w, e, i) == Rests(w, e, i) /\ w.at[e][i] = v.at[e][i]

LEMMA RestsElsewhere ==
  ASSUME NEW v, View(v), LogOK(v), NEW e \in Endpoint, NEW i \in 1 .. Workers[e], Rests(v, e, i),
         NEW p \in Producer, At(v, p) \in State, Kind[At(v, p)] # "receive"
  PROVE  p # Worker(e, i)
<1>1. SUFFICES ASSUME p = Worker(e, i) PROVE FALSE
  OBVIOUS
<1>2. ~IsItem(p) /\ p[2] = e /\ p[3] = i
  BY <1>1, Producers DEF Worker
<1>3. At(v, p) = v.at[e][i]
  BY <1>2, FanOutAssumption DEF At
<1>4. Kind[v.at[e][i]] = "receive"
  BY DEF Rests, LogOK, WorkersOK
<1>. QED
  BY <1>3, <1>4

LEMMA GoesBy ==
  ASSUME NEW v, View(v), NEW x, DOMAIN x = Fields, DOMAIN x.at = Endpoint,
         \A f \in Endpoint : DOMAIN x.at[f] = 1 .. Workers[f],
         NEW e \in Endpoint, NEW i \in 1 .. Workers[e], Undisturbed(v, x, e, i),
         NEW p \in Producer, p # Worker(e, i), NEW s, NEW w, w = Goes(x, p, s)
  PROVE  Undisturbed(v, w, e, i)
<1>1. Moving(x, w, p, s)
  BY Going
<1>2. w.current = x.current /\ w.at[e][i] = x.at[e][i]
  BY <1>1 DEF Moving, SameActors
<1>. QED
  BY <1>2 DEF Undisturbed, Rests

LEMMA RestsInScope ==
  ASSUME NEW v, View(v), NEW u, UnitFits(u), NEW e \in Endpoint, NEW i \in 1 .. Workers[e], Rests(v, e, i),
         u.type \in {"failure", "spawned", "invoke", "created", "closing", "stopped"}
  PROVE  Undisturbed(v, Project(v, u), e, i)
<1>1. PICK w : w = Project(v, u)
  OBVIOUS
<1>2. w.current = v.current /\ w.at = v.at
  <2>1. CASE u.type = "spawned"
    <3>1. CASE v.chart # "map"
      BY <1>1, <2>1, <3>1 DEF Project
    <3>2. CASE v.chart = "map"
      <4>1. PICK x : x = [v EXCEPT !.chart = IF u.n = 0 THEN "end" ELSE "each",
                                   !.leaves = [k \in 1 .. u.n |-> [key |-> k, at |-> First]]]
        OBVIOUS
      <4>2. DOMAIN x = Fields /\ x.at = v.at /\ x.current = v.current
        BY <4>1 DEF View, Fields
      <4>3. w = CompleteParallels(x)
        BY <1>1, <2>1, <3>2, <4>1 DEF Project
      <4>. QED
        BY <4>2, <4>3, Completes DEF SameActors
    <3>. QED
      BY <3>1, <3>2
  <2>2. CASE u.type = "stopped"
    <3>1. PICK x : x = [v EXCEPT !.status[u.e] = "stopped"]
      OBVIOUS
    <3>2. DOMAIN x = Fields /\ x.at = v.at /\ x.current = v.current
      BY <3>1 DEF View, Fields
    <3>3. w = CompleteParallels(x)
      BY <1>1, <2>2, <3>1 DEF Project
    <3>. QED
      BY <3>2, <3>3, Completes DEF SameActors
  <2>3. CASE u.type = "invoke"
    BY <1>1, <2>3 DEF Project, View, Fields
  <2>4. CASE u.type \in {"failure", "created", "closing"}
    BY <1>1, <2>4 DEF Project, View, Fields
  <2>. QED
    BY <2>1, <2>2, <2>3, <2>4
<1>. QED
  BY <1>1, <1>2 DEF Undisturbed, Rests

LEMMA RestsInWork ==
  ASSUME NEW v, View(v), LogOK(v), NEW u, UnitFits(u), ~Rejects(v, u), NEW e \in Endpoint, NEW i \in 1 .. Workers[e],
         Rests(v, e, i), u.type = "complete"
  PROVE  Undisturbed(v, Project(v, u), e, i)
<1>1. PICK w : w = Project(v, u)
  OBVIOUS
<1>2. u.p \in Producer /\ u.at \in State /\ u.to \in State \cup {"abort"}
  BY DEF UnitFits, UnitOK
<1>3. CASE At(v, u.p) # u.at
  <2>1. w = v
    BY <1>1, <1>3 DEF Project
  <2>. QED
    BY <1>1, <2>1 DEF Undisturbed
<1>4. CASE At(v, u.p) = u.at /\ u.to = "abort"
  <2>1. w = Leave(v)
    BY <1>1, <1>4 DEF Project
  <2>2. w.current = v.current /\ w.at = v.at
    BY <2>1 DEF Leave, View, Fields
  <2>. QED
    BY <1>1, <2>2 DEF Undisturbed, Rests
<1>5. CASE At(v, u.p) = u.at /\ u.to # "abort"
  <2>1. PICK x : x = [v EXCEPT !.pending[u.p] = 0]
    OBVIOUS
  <2>2. w = Goes(x, u.p, u.to)
    BY <1>1, <1>5, <2>1 DEF Project
  <2>3. DOMAIN x = Fields /\ x.at = v.at /\ x.current = v.current
    BY <2>1 DEF View, Fields
  <2>4. DOMAIN x.at = Endpoint /\ \A f \in Endpoint : DOMAIN x.at[f] = 1 .. Workers[f]
    BY <2>3 DEF View, ActorsOK
  <2>5. u.p # Worker(e, i)
    <3>1. SUFFICES ASSUME u.p = Worker(e, i) PROVE FALSE
      OBVIOUS
    <3>2. v.pending[Worker(e, i)] # 0
      BY <1>5, <3>1 DEF Rejects
    <3>3. Kind[v.at[e][i]] = "work" /\ Kind[v.at[e][i]] = "receive"
      BY <3>2 DEF LogOK, WorkersOK, Rests
    <3>. QED
      BY <3>3
  <2>6. Undisturbed(v, x, e, i)
    BY <2>3 DEF Undisturbed, Rests
  <2>7. Undisturbed(v, w, e, i)
    BY <1>2, <2>2, <2>3, <2>4, <2>5, <2>6, GoesBy
  <2>. QED
    BY <1>1, <2>7
<1>. QED
  BY <1>3, <1>4, <1>5

LEMMA RestsInSending ==
  ASSUME NEW v, View(v), LogOK(v), NEW u, UnitFits(u), ~Rejects(v, u), NEW e \in Endpoint, NEW i \in 1 .. Workers[e],
         Rests(v, e, i), u.type = "enqueued"
  PROVE  Undisturbed(v, Project(v, u), e, i)
<1>1. PICK w : w = Project(v, u)
  OBVIOUS
<1>2. u.p \in Producer /\ u.at \in State /\ Kind[u.at] \in {"send", "call"}
  BY FanOutAssumption DEF UnitFits, UnitOK, Of
<1>3. PICK x : x = [v EXCEPT !.mailbox[To[u.at]] = @ \o Batch(u.p, u.at, u.visit), !.sends[u.p] = u.visit]
  OBVIOUS
<1>4. DOMAIN x = Fields /\ x.at = v.at /\ x.current = v.current
  BY <1>3 DEF View, Fields
<1>5. CASE Kind[u.at] = "call"
  <2>1. w = [x EXCEPT !.calls = @ \cup {Call(u.p, u.at, u.visit)}]
    BY <1>1, <1>3, <1>5 DEF Project
  <2>2. w.at = v.at /\ w.current = v.current
    BY <1>4, <2>1 DEF Fields
  <2>. QED
    BY <1>1, <2>2 DEF Undisturbed, Rests
<1>6. CASE Kind[u.at] = "send"
  <2>1. w = Goes(x, u.p, Target[u.at])
    BY <1>1, <1>3, <1>6 DEF Project
  <2>2. At(v, u.p) = u.at
    BY <1>6 DEF Rejects
  <2>3. u.p # Worker(e, i)
    BY <1>2, <1>6, <2>2, RestsElsewhere
  <2>4. DOMAIN x.at = Endpoint /\ \A f \in Endpoint : DOMAIN x.at[f] = 1 .. Workers[f]
    BY <1>4 DEF View, ActorsOK
  <2>5. Undisturbed(v, x, e, i)
    BY <1>4 DEF Undisturbed, Rests
  <2>6. Undisturbed(v, w, e, i)
    BY <1>2, <1>4, <2>1, <2>3, <2>4, <2>5, GoesBy
  <2>. QED
    BY <1>1, <2>6
<1>. QED
  BY <1>2, <1>5, <1>6

LEMMA RestsInResolving ==
  ASSUME NEW v, View(v), LogOK(v), NEW e \in Endpoint, NEW i \in 1 .. Workers[e], Rests(v, e, i),
         NEW x, DOMAIN x = Fields, DOMAIN x.at = Endpoint, \A f \in Endpoint : DOMAIN x.at[f] = 1 .. Workers[f],
         Undisturbed(v, x, e, i), NEW c \in v.calls, At(v, c.from) = c.at
  PROVE  Undisturbed(v, Resolve(x, c), e, i)
<1>1. PICK y : y = [x EXCEPT !.calls = @ \ {c}, !.settled = @ \ Members(c)]
  OBVIOUS
<1>2. PICK w : w = Goes(y, c.from, Target[c.at])
  OBVIOUS
<1>3. DOMAIN y = Fields /\ y.at = x.at /\ y.current = x.current
  BY <1>1 DEF Fields
<1>4. Undisturbed(v, y, e, i)
  BY <1>3 DEF Undisturbed, Rests
<1>5. c.from \in Producer /\ c.at \in State /\ Kind[c.at] = "call"
  BY DEF View, ActorsOK, Asking, Calls
<1>6. c.from # Worker(e, i)
  BY <1>5, RestsElsewhere
<1>7. Undisturbed(v, w, e, i)
  BY <1>2, <1>3, <1>4, <1>5, <1>6, GoesBy
<1>. QED
  BY <1>1, <1>2, <1>7 DEF Resolve

LEMMA RestsInReply ==
  ASSUME NEW v, View(v), LogOK(v), NEW u, UnitFits(u), ~Rejects(v, u), NEW e \in Endpoint, NEW i \in 1 .. Workers[e],
         Rests(v, e, i), u.type = "replied"
  PROVE  Undisturbed(v, Project(v, u), e, i)
<1>1. PICK f \in Endpoint, j \in Nat, msg \in Messages :
        f = u.p[2] /\ j = u.p[3] /\ j \in 1 .. Workers[f] /\ msg = u.msg
  BY Producers DEF UnitFits, UnitOK
<1>2. v.current[f][j] = msg /\ msg # NoMessage
  BY <1>1, FanOutAssumption DEF Rejects, Current, Messages, NoMessage
<1>3. PICK x : x = [v EXCEPT !.current[f][j] = NoMessage, !.at[f][j] = Target[@],
                             !.settled = IF Asks(msg) THEN @ \cup {msg} ELSE @]
  OBVIOUS
<1>4. ~(f = e /\ j = i)
  BY <1>2 DEF Rests
<1>5. /\ DOMAIN v.at = Endpoint /\ DOMAIN v.current = Endpoint
      /\ \A g \in Endpoint : DOMAIN v.at[g] = 1 .. Workers[g] /\ DOMAIN v.current[g] = 1 .. Workers[g]
  BY DEF View, ActorsOK
<1>6. PICK t : t = Target[v.at[f][j]]
  OBVIOUS
<1>7. /\ DOMAIN x = Fields /\ x.at = [v.at EXCEPT ![f][j] = t] /\ x.current = [v.current EXCEPT ![f][j] = NoMessage]
  BY <1>1, <1>3, <1>5, <1>6 DEF View, Fields
<1>8. DOMAIN x.at = Endpoint /\ \A g \in Endpoint : DOMAIN x.at[g] = 1 .. Workers[g]
  BY <1>5, <1>7
<1>9. Undisturbed(v, x, e, i)
  <2>1. PICK a, b : a = v.current /\ b = x.current
    OBVIOUS
  <2>2. DOMAIN a = Endpoint /\ (\A g \in Endpoint : DOMAIN a[g] = 1 .. Workers[g]) /\ b = [a EXCEPT ![f][j] = NoMessage]
    BY <1>5, <1>7, <2>1
  <2>3. \A g \in Endpoint : \A k \in 1 .. Workers[g] : b[g][k] = IF g = f /\ k = j THEN NoMessage ELSE a[g][k]
    BY <1>1, <2>2, OneWorker, ZenonT(60)
  <2>4. PICK a1, b1 : a1 = v.at /\ b1 = x.at
    OBVIOUS
  <2>5. DOMAIN a1 = Endpoint /\ (\A g \in Endpoint : DOMAIN a1[g] = 1 .. Workers[g]) /\ b1 = [a1 EXCEPT ![f][j] = t]
    BY <1>5, <1>7, <2>4
  <2>6. \A g \in Endpoint : \A k \in 1 .. Workers[g] : b1[g][k] = IF g = f /\ k = j THEN t ELSE a1[g][k]
    BY <1>1, <2>5, OneWorker, ZenonT(60)
  <2>7. x.current[e][i] = v.current[e][i] /\ x.at[e][i] = v.at[e][i]
    BY <1>4, <2>1, <2>3, <2>4, <2>6
  <2>. QED
    BY <2>7 DEF Undisturbed, Rests
<1>10. CASE ~u.resolves
  <2>1. Project(v, u) = x
    BY <1>1, <1>3, <1>10 DEF Project
  <2>. QED
    BY <2>1, <1>9
<1>11. CASE u.resolves
  <2>1. PICK c : c = CallOf(msg)
    OBVIOUS
  <2>2. Project(v, u) = Resolve(x, c)
    BY <1>1, <1>3, <1>11, <2>1 DEF Project
  <2>3. c \in v.calls /\ At(v, c.from) = c.at
    BY <1>1, <1>11, <2>1 DEF Rejects, Resolvable
  <2>. QED
    BY <2>2, <2>3, <1>7, <1>8, <1>9, RestsInResolving
<1>. QED
  BY <1>10, <1>11

LEMMA RestsOn ==
  ASSUME NEW v, View(v), LogOK(v), NEW u, UnitFits(u), ~Rejects(v, u), NEW e \in Endpoint, NEW i \in 1 .. Workers[e],
         Rests(v, e, i), ~(u.type = "accepted" /\ u.e = e /\ u.i = i)
  PROVE  Undisturbed(v, Project(v, u), e, i)
<1>1. u.type \in UnitType
  BY DEF UnitFits
<1>2. CASE u.type = "resolved"
  <2>1. PICK c : c = u.call
    OBVIOUS
  <2>2. Project(v, u) = Resolve(v, c)
    BY <1>2, <2>1 DEF Project
  <2>3. c \in v.calls /\ At(v, c.from) = c.at
    BY <1>2, <2>1 DEF Rejects, Resolvable
  <2>4. DOMAIN v = Fields /\ DOMAIN v.at = Endpoint /\ \A g \in Endpoint : DOMAIN v.at[g] = 1 .. Workers[g]
    BY DEF View, ActorsOK
  <2>5. Undisturbed(v, v, e, i)
    BY DEF Undisturbed
  <2>. QED
    BY <2>2, <2>3, <2>4, <2>5, RestsInResolving
<1>3. CASE u.type = "accepted"
  <2>1. PICK f \in Endpoint, j \in Nat : f = u.e /\ j = u.i /\ j \in 1 .. Workers[f]
    BY <1>3, FanOutAssumption DEF UnitFits, UnitOK
  <2>2. PICK w : w = Project(v, u)
    OBVIOUS
  <2>3. PICK s : s = On[v.at[f][j]][Says[u.msg.at]]
    OBVIOUS
  <2>4. w = [v EXCEPT !.mailbox[f] = Tail(@), !.current[f][j] = u.msg, !.at[f][j] = On[@][Says[u.msg.at]]]
    BY <1>3, <2>1, <2>2 DEF Project
  <2>5. /\ DOMAIN v.at = Endpoint /\ DOMAIN v.current = Endpoint
        /\ \A g \in Endpoint : DOMAIN v.at[g] = 1 .. Workers[g] /\ DOMAIN v.current[g] = 1 .. Workers[g]
    BY DEF View, ActorsOK
  <2>6. w.at = [v.at EXCEPT ![f][j] = s] /\ w.current = [v.current EXCEPT ![f][j] = u.msg]
    BY <2>1, <2>3, <2>4, <2>5 DEF View, Fields
  <2>7. PICK a, b : a = v.current /\ b = w.current
    OBVIOUS
  <2>8. DOMAIN a = Endpoint /\ (\A g \in Endpoint : DOMAIN a[g] = 1 .. Workers[g]) /\ b = [a EXCEPT ![f][j] = u.msg]
    BY <2>5, <2>6, <2>7
  <2>9. \A g \in Endpoint : \A k \in 1 .. Workers[g] : b[g][k] = IF g = f /\ k = j THEN u.msg ELSE a[g][k]
    BY <2>1, <2>8, OneWorker
  <2>10. PICK a1, b1 : a1 = v.at /\ b1 = w.at
    OBVIOUS
  <2>11. DOMAIN a1 = Endpoint /\ (\A g \in Endpoint : DOMAIN a1[g] = 1 .. Workers[g]) /\ b1 = [a1 EXCEPT ![f][j] = s]
    BY <2>5, <2>6, <2>10
  <2>12. \A g \in Endpoint : \A k \in 1 .. Workers[g] : b1[g][k] = IF g = f /\ k = j THEN s ELSE a1[g][k]
    BY <2>1, <2>11, OneWorker
  <2>13. ~(f = e /\ j = i)
    BY <1>3, <2>1
  <2>14. w.current[e][i] = v.current[e][i] /\ w.at[e][i] = v.at[e][i]
    BY <2>7, <2>9, <2>10, <2>12, <2>13
  <2>. QED
    BY <2>2, <2>14 DEF Undisturbed, Rests
<1>. QED
  BY <1>1, <1>2, <1>3, RestsInScope, RestsInWork, RestsInSending, RestsInReply DEF UnitType

-----------------------------------------------------------------------------
(* What an accept on its way relies on: the messages are the first of the   *)
(* mailbox, and each goes to an idle worker of its own that takes it.       *)
Promised(v, s, e) ==
  /\ Len(s) <= Len(v.mailbox[e])
  /\ \A j \in 1 .. Len(s) : s[j].e = e /\ s[j].msg = v.mailbox[e][j] /\ Rests(v, e, s[j].i) /\ Takes(v, e, s[j].i, s[j].msg)
  /\ \A j, k \in 1 .. Len(s) : s[j].i = s[k].i => j = k

LEMMA PromiseHolds ==
  ASSUME NEW v, View(v), LogOK(v), NEW e \in Endpoint, NEW s \in Seq(Accept), s # <<>>, Promised(v, s, e)
  PROVE  ~Rejects(v, Head(s))
<1>1. PICK a \in Accept : a = Head(s) /\ a = s[1] /\ 1 \in 1 .. Len(s) /\ Len(s) \in Nat
  OBVIOUS
<1>2. a.e = e /\ a.msg = v.mailbox[e][1] /\ Rests(v, e, a.i) /\ Takes(v, e, a.i, a.msg) /\ Len(s) <= Len(v.mailbox[e])
  BY <1>1 DEF Promised
<1>3. PICK box \in Seq(Messages) : box = v.mailbox[e]
  BY DEF View, ActorsOK
<1>4. box # <<>> /\ Head(box) = a.msg
  BY <1>1, <1>2, <1>3
<1>5. a.type = "accepted"
  BY DEF Accept
<1>6. a.i \notin Busy(v, e)
  BY <1>2 DEF Rests, Busy
<1>7. v.status[e] # "stopped"
  BY <1>3, <1>4 DEF LogOK, StatusOK, Quiescent
<1>8. ~Rejects(v, a)
  BY <1>2, <1>3, <1>4, <1>5, <1>6, <1>7 DEF Rejects
<1>. QED
  BY <1>1, <1>8

LEMMA PromiseStays ==
  ASSUME NEW v, View(v), MailOK(v), LogOK(v), NEW u, UnitFits(u), ~Rejects(v, u),
         NEW e \in Endpoint, NEW s \in Seq(Accept), Promised(v, s, e), Gone(u, e) # 1
  PROVE  Promised(Project(v, u), s, e)
<1>1. PICK w : w = Project(v, u)
  OBVIOUS
<1>2. ~(u.type = "accepted" /\ u.e = e)
  BY DEF Gone
<1>3. Getting(v, w, e)
  BY <1>1, <1>2, MailStep DEF MailsOf
<1>4. View(w)
  BY <1>1, ProjectStep DEF StepOf
<1>5. PICK k \in Nat, l \in Nat, m \in Nat : k = Len(s) /\ l = Len(v.mailbox[e]) /\ m = Len(w.mailbox[e])
  BY <1>4 DEF View, ActorsOK
<1>6. k <= l /\ l <= m /\ \A j \in 1 .. l : w.mailbox[e][j] = v.mailbox[e][j]
  BY <1>3, <1>5 DEF Getting, Promised
<1>7. ASSUME NEW j \in 1 .. k
      PROVE  s[j].e = e /\ s[j].msg = w.mailbox[e][j] /\ Rests(w, e, s[j].i) /\ Takes(w, e, s[j].i, s[j].msg)
  <2>1. s[j].e = e /\ s[j].msg = v.mailbox[e][j] /\ Rests(v, e, s[j].i) /\ Takes(v, e, s[j].i, s[j].msg)
    BY <1>5 DEF Promised
  <2>2. s[j] \in Accept
    BY <1>5
  <2>3. s[j].i \in 1 .. Workers[e]
    BY <2>1, <2>2 DEF Accept
  <2>4. PICK i \in 1 .. Workers[e] : i = s[j].i
    BY <2>3
  <2>5. Undisturbed(v, w, e, i)
    BY <1>1, <1>2, <2>1, <2>4, RestsOn
  <2>6. Takes(w, e, i, s[j].msg)
    BY <2>1, <2>4, <2>5 DEF Takes, Undisturbed
  <2>7. j \in 1 .. l
    BY <1>6
  <2>. QED
    BY <2>1, <2>4, <2>5, <2>6, <2>7, <1>6 DEF Undisturbed
<1>8. \A i, j \in 1 .. k : s[i].i = s[j].i => i = j
  BY <1>5 DEF Promised
<1>9. Promised(w, s, e)
  BY <1>5, <1>6, <1>7, <1>8 DEF Promised
<1>. QED
  BY <1>1, <1>9

LEMMA PromiseKept ==
  ASSUME NEW v, View(v), MailOK(v), LogOK(v), NEW e \in Endpoint, NEW s \in Seq(Accept), s # <<>>, Promised(v, s, e),
         NEW u, u = Head(s), UnitFits(u), ~Rejects(v, u)
  PROVE  Promised(Project(v, u), Tail(s), e)
<1>1. PICK w : w = Project(v, u)
  OBVIOUS
<1>2. PICK k \in Nat : Len(s) = k + 1
  <2>1. Len(s) \in Nat \ {0}
    OBVIOUS
  <2>. QED
    BY <2>1
<1>3. PICK t \in Seq(Accept) : t = Tail(s) /\ Len(t) = k /\ \A j \in 1 .. k : t[j] = s[j + 1]
  <2>1. Tail(s) \in Seq(Accept) /\ Len(Tail(s)) = k /\ \A j \in 1 .. k : Tail(s)[j] = s[j + 1]
    BY <1>2
  <2>. QED
    BY <2>1
<1>4. /\ k + 1 <= Len(v.mailbox[e])
      /\ \A j \in 1 .. k + 1 : /\ s[j] \in Accept /\ s[j].e = e /\ s[j].msg = v.mailbox[e][j]
                               /\ Rests(v, e, s[j].i) /\ Takes(v, e, s[j].i, s[j].msg)
      /\ \A i, j \in 1 .. k + 1 : s[i].i = s[j].i => i = j
  BY <1>2 DEF Promised
<1>5. 1 \in 1 .. k + 1 /\ u = s[1] /\ u \in Accept
  BY <1>2
<1>6. u.type = "accepted" /\ u.e = e
  BY <1>4, <1>5 DEF Accept
<1>7. Taking(v, w, e, u.msg)
  BY <1>1, <1>6, MailStep DEF MailsOf
<1>8. PICK box \in Seq(Messages) : box = v.mailbox[e]
  BY DEF View, ActorsOK
<1>9. PICK new : new = w.mailbox[e]
  OBVIOUS
<1>10. box # <<>> /\ new = Tail(box)
  BY <1>7, <1>8, <1>9 DEF Taking
<1>11. Len(new) = Len(box) - 1 /\ \A j \in 1 .. Len(box) - 1 : new[j] = box[j + 1]
  BY <1>10
<1>12. k <= Len(new) /\ \A j \in 1 .. k : new[j] = box[j + 1]
  <2>1. k + 1 <= Len(box) /\ Len(box) \in Nat
    BY <1>4, <1>8
  <2>2. k <= Len(box) - 1 /\ \A j \in 1 .. k : j \in 1 .. Len(box) - 1
    BY <2>1
  <2>. QED
    BY <2>2, <1>11
<1>13. ASSUME NEW j \in 1 .. k
       PROVE  t[j].e = e /\ t[j].msg = new[j] /\ Rests(w, e, t[j].i) /\ Takes(w, e, t[j].i, t[j].msg)
  <2>1. j + 1 \in 1 .. k + 1 /\ j + 1 # 1 /\ t[j] = s[j + 1]
    BY <1>3
  <2>2. PICK a \in Accept : a = t[j] /\ a = s[j + 1]
    BY <2>1, <1>4
  <2>3. a.e = e /\ a.msg = box[j + 1] /\ Rests(v, e, a.i) /\ Takes(v, e, a.i, a.msg) /\ a.i # u.i
    BY <1>4, <1>5, <1>8, <2>1, <2>2
  <2>4. PICK i \in 1 .. Workers[e] : i = a.i
    BY <2>3 DEF Accept
  <2>5. Undisturbed(v, w, e, i)
    BY <1>1, <1>6, <2>3, <2>4, RestsOn
  <2>6. Takes(w, e, i, a.msg)
    BY <2>3, <2>4, <2>5 DEF Takes, Undisturbed
  <2>. QED
    BY <2>2, <2>3, <2>4, <2>5, <2>6, <1>12 DEF Undisturbed
<1>14. ASSUME NEW i \in 1 .. k, NEW j \in 1 .. k, t[i].i = t[j].i
       PROVE  i = j
  <2>1. i + 1 \in 1 .. k + 1 /\ j + 1 \in 1 .. k + 1 /\ t[i] = s[i + 1] /\ t[j] = s[j + 1]
    BY <1>3
  <2>2. i + 1 = j + 1
    BY <2>1, <1>4, <1>14
  <2>. QED
    BY <2>2
<1>15. Promised(w, t, e)
  BY <1>3, <1>9, <1>12, <1>13, <1>14 DEF Promised
<1>. QED
  BY <1>1, <1>3, <1>15

(* The workers to which an admission gives the messages.                    *)
Gives(v, e, r, so) ==
  /\ Taken(v, e, r) \subseteq so.taken
  /\ \A k \in 1 .. Len(so.accepts) : /\ so.accepts[k].i \in so.taken /\ so.accepts[k].i \notin Taken(v, e, r)
                                     /\ Takes(v, e, so.accepts[k].i, so.accepts[k].msg)
  /\ \A j, k \in 1 .. Len(so.accepts) : so.accepts[j].i = so.accepts[k].i => j = k

LEMMA AdmitGives ==
  ASSUME NEW v, View(v), NEW e \in Endpoint, NEW r, NEW so \in SoFar, NEW msg \in Messages, Gives(v, e, r, so)
  PROVE  Gives(v, e, r, Admit(v, e, so, msg))
<1>1. PICK w : w = Admit(v, e, so, msg)
  OBVIOUS
<1>2. PICK eligible : eligible = Eligible(v, e, so.taken, msg)
  OBVIOUS
<1>3. CASE so.over \/ eligible = {}
  <2>1. w = so \/ w = [so EXCEPT !.over = TRUE, !.fails = NoneBusy(v, e, so.taken)]
    BY <1>1, <1>2, <1>3 DEF Admit
  <2>2. w.accepts = so.accepts /\ w.taken = so.taken
    BY <2>1 DEF SoFar
  <2>. QED
    BY <1>1, <2>2 DEF Gives
<1>4. CASE ~so.over /\ eligible # {}
  <2>1. PICK i : i = Min(eligible)
    OBVIOUS
  <2>2. eligible \in SUBSET Nat
    BY <1>2, FanOutAssumption DEF Eligible
  <2>3. i \in eligible
    <3>1. \E x \in eligible : \A y \in eligible : x <= y
      BY <1>4, <2>2, LeastNumber
    <3>. QED
      BY <2>1, <3>1 DEF Min
  <2>4. i \notin so.taken /\ Takes(v, e, i, msg)
    BY <1>2, <2>3 DEF Eligible
  <2>5. PICK a : a = [type |-> "accepted", e |-> e, i |-> i, msg |-> msg]
    OBVIOUS
  <2>6. w = [so EXCEPT !.accepts = Append(@, a), !.taken = @ \cup {i}]
    BY <1>1, <1>2, <1>4, <2>1, <2>5 DEF Admit
  <2>7. PICK old \in Seq(Accept) : old = so.accepts
    BY DEF SoFar
  <2>8. PICK n \in Nat : n = Len(old)
    OBVIOUS
  <2>9. PICK new : new = Append(old, a)
    OBVIOUS
  <2>10. w.accepts = new /\ w.taken = so.taken \cup {i}
    BY <2>6, <2>7, <2>9 DEF SoFar
  <2>11. Len(new) = n + 1 /\ new[n + 1] = a /\ \A k \in 1 .. n : new[k] = old[k]
    BY <2>7, <2>8, <2>9
  <2>12. \A k \in 1 .. n + 1 : k = n + 1 \/ k \in 1 .. n
    OBVIOUS
  <2>13. /\ \A k \in 1 .. n : /\ old[k].i \in so.taken /\ old[k].i \notin Taken(v, e, r)
                              /\ Takes(v, e, old[k].i, old[k].msg)
         /\ \A j, k \in 1 .. n : old[j].i = old[k].i => j = k
         /\ Taken(v, e, r) \subseteq so.taken
    BY <2>7, <2>8 DEF Gives
  <2>14. a.i = i /\ a.msg = msg
    BY <2>5
  <2>15. \A k \in 1 .. n + 1 : /\ new[k].i \in w.taken /\ new[k].i \notin Taken(v, e, r)
                               /\ Takes(v, e, new[k].i, new[k].msg)
    BY <2>4, <2>10, <2>11, <2>12, <2>13, <2>14
  <2>16. \A j, k \in 1 .. n + 1 : new[j].i = new[k].i => j = k
    BY <2>4, <2>11, <2>12, <2>13, <2>14
  <2>17. Gives(v, e, r, w)
    BY <2>10, <2>11, <2>13, <2>15, <2>16 DEF Gives
  <2>. QED
    BY <1>1, <2>17
<1>. QED
  BY <1>3, <1>4

LEMMA AdmissionGives ==
  ASSUME NEW v, View(v), NEW e \in Endpoint, NEW r, r[e] \in Seq(Accept), Len(r[e]) <= Len(v.mailbox[e]),
         v.status[e] \notin {"none", "stopped"}
  PROVE  Gives(v, e, r, Admission(v, e, r))
<1>1. PICK g : Runs(v, e, r, g) /\ Admission(v, e, r) = g[Len(v.mailbox[e])]
  BY AdmissionRuns
<1>2. PICK past \in Nat, n \in Nat : past = Len(r[e]) /\ n = Len(v.mailbox[e]) /\ past <= n
  BY DEF View, ActorsOK
<1>3. PICK A : A = {j \in past .. n : Gives(v, e, r, g[j])}
  OBVIOUS
<1>4. past \in A
  <2>1. PICK none : none = <<>> /\ Len(none) = 0
    OBVIOUS
  <2>2. g[past] = Start(v, e, r)
    BY <1>1, <1>2 DEF Runs
  <2>3. g[past].taken = Taken(v, e, r) /\ g[past].accepts = none
    BY <2>1, <2>2 DEF Start
  <2>4. Gives(v, e, r, g[past])
    BY <2>1, <2>3 DEF Gives
  <2>. QED
    BY <1>2, <1>3, <2>4
<1>5. ASSUME NEW j \in past + 1 .. n, j - 1 \in A
      PROVE  j \in A
  <2>1. j \in past .. n /\ j \in 1 .. n /\ j # past /\ j - 1 \in past .. n
    BY <1>2
  <2>2. g[j] = Admit(v, e, g[j - 1], v.mailbox[e][j]) /\ g[j - 1] \in SoFar
    BY <2>1, <1>1, <1>2 DEF Runs
  <2>3. v.mailbox[e][j] \in Messages
    <3>1. v.mailbox[e] \in Seq(Messages)
      BY DEF View, ActorsOK
    <3>. QED
      BY <3>1, <2>1, <1>2
  <2>4. Gives(v, e, r, g[j - 1])
    BY <1>3, <1>5
  <2>5. Gives(v, e, r, g[j])
    BY <2>2, <2>3, <2>4, AdmitGives
  <2>. QED
    BY <2>1, <2>5, <1>3
<1>6. \A j \in past .. n : j \in A
  BY <1>2, <1>4, <1>5, Upward
<1>. QED
  BY <1>1, <1>2, <1>3, <1>6

(* An output promises more.                                                 *)
LEMMA PromiseMade ==
  ASSUME NEW v, View(v), MailOK(v), NEW r, Reservations(v, r), Unmarked(v, r), NEW e \in Endpoint, Promised(v, r[e], e)
  PROVE  Promised(v, r[e] \o Accepts(v, e, r), e)
<1>1. PICK s \in Seq(Accept) : s = r[e]
  BY DEF Reservations
<1>2. PICK due \in Seq(Accept) : due = DueAccepts(v, e, r)
  BY AcceptsFit DEF Reservations
<1>3. PICK new \in Seq(Accept) : new = Accepts(v, e, r)
  BY AllAreAsked
<1>4. PICK k \in Nat, l \in Nat, m \in Nat, n \in Nat : k = Len(s) /\ l = Len(new) /\ m = Len(v.mailbox[e]) /\ n = Len(due)
  BY DEF View, ActorsOK
<1>5. k + l <= m /\ \A j \in 1 .. l : new[j].e = e /\ new[j].msg = v.mailbox[e][k + j]
  BY <1>1, <1>3, <1>4, AllAreAsked DEF InTurn
<1>6. k + n <= m /\ \A j \in 1 .. n : due[j].msg = v.mailbox[e][k + j]
  <2>1. Len(r[e]) + Len(due) <= Len(v.mailbox[e]) /\ InTurn(v, e, Len(r[e]), due)
    BY <1>2, AcceptsFit DEF Reservations
  <2>. QED
    BY <2>1, <1>1, <1>4 DEF InTurn
<1>7. ASSUME NEW j \in 1 .. l
      PROVE  j \in 1 .. n /\ new[j] = due[j]
  <2>1. new[j] \in Range(due)
    <3>1. \A x \in 1 .. Len(Accepts(v, e, r)) : Accepts(v, e, r)[x] \in Range(DueAccepts(v, e, r))
      BY AcceptsFit DEF Reservations
    <3>. QED
      BY <3>1, <1>2, <1>3, <1>4
  <2>2. PICK i \in 1 .. n : due[i] = new[j]
    BY <2>1, <1>4 DEF Range
  <2>3. k + i \in 1 .. m /\ k + j \in 1 .. m
    BY <1>5, <1>6
  <2>4. v.mailbox[e][k + i] = v.mailbox[e][k + j]
    BY <2>2, <1>5, <1>6
  <2>5. k + i = k + j
    BY <2>3, <2>4, <1>4 DEF MailOK
  <2>6. i = j
    BY <2>5
  <2>. QED
    BY <2>2, <2>6
<1>8. n # 0 => Gives(v, e, r, Admission(v, e, r)) /\ due = Admission(v, e, r).accepts
  <2>1. SUFFICES ASSUME n # 0 PROVE Gives(v, e, r, Admission(v, e, r)) /\ due = Admission(v, e, r).accepts
    OBVIOUS
  <2>2. due # <<>>
    BY <2>1, <1>4
  <2>3. due = Admission(v, e, r).accepts
    BY <2>2, <1>2 DEF DueAccepts
  <2>4. v.status[e] \notin {"none", "stopped"}
    BY <2>2, <2>3 DEF Admission
  <2>. QED
    BY <2>3, <2>4, AdmissionGives DEF Reservations
<1>9. ASSUME NEW j \in 1 .. l
      PROVE  /\ new[j].i \notin Taken(v, e, r) /\ Takes(v, e, new[j].i, new[j].msg)
             /\ \A i \in 1 .. l : new[i].i = new[j].i => i = j
  <2>1. n # 0 /\ j \in 1 .. n /\ new[j] = due[j]
    BY <1>7
  <2>2. /\ due[j].i \notin Taken(v, e, r) /\ Takes(v, e, due[j].i, due[j].msg)
        /\ \A i \in 1 .. n : due[i].i = due[j].i => i = j
    BY <2>1, <1>4, <1>8 DEF Gives
  <2>. QED
    BY <2>1, <2>2, <1>7
<1>10. /\ \A i \in Busy(v, e) : i \in Taken(v, e, r)
       /\ \A j \in 1 .. k : s[j].i \in Taken(v, e, r)
  <2>1. DOMAIN r[e] = 1 .. k
    BY <1>1, <1>4
  <2>. QED
    BY <2>1, <1>1 DEF Taken
<1>11. PICK t : t = s \o new
  OBVIOUS
<1>12. Len(t) = k + l /\ (\A x \in 1 .. k : t[x] = s[x]) /\ \A x \in 1 .. l : t[k + x] = new[x]
  <2>1. Len(t) = k + l /\ \A x \in 1 .. k + l : t[x] = IF x <= k THEN s[x] ELSE new[x - k]
    BY <1>4, <1>11
  <2>2. \A x \in 1 .. k : x \in 1 .. k + l /\ x <= k
    OBVIOUS
  <2>3. \A x \in 1 .. l : k + x \in 1 .. k + l /\ ~(k + x <= k) /\ (k + x) - k = x
    OBVIOUS
  <2>. QED
    BY <2>1, <2>2, <2>3
<1>13. ASSUME NEW j \in 1 .. k + l
       PROVE  j \in 1 .. k \/ \E i \in 1 .. l : j = k + i
  <2>1. CASE j <= k
    BY <2>1
  <2>2. CASE ~(j <= k)
    <3>1. j - k \in 1 .. l /\ j = k + (j - k)
      BY <2>2
    <3>. QED
      BY <3>1
  <2>. QED
    BY <2>1, <2>2
<1>14. /\ \A j \in 1 .. k : s[j].e = e /\ s[j].msg = v.mailbox[e][j] /\ Rests(v, e, s[j].i) /\ Takes(v, e, s[j].i, s[j].msg)
       /\ \A i, j \in 1 .. k : s[i].i = s[j].i => i = j
  BY <1>1, <1>4 DEF Promised
<1>15. ASSUME NEW j \in 1 .. l
       PROVE  Rests(v, e, new[j].i)
  <2>1. new[j] \in Accept /\ new[j].e = e
    BY <1>4, <1>5
  <2>2. new[j].i \in 1 .. Workers[e]
    BY <2>1 DEF Accept
  <2>3. new[j].i \notin Busy(v, e)
    BY <1>9, <1>10
  <2>. QED
    BY <2>2, <2>3 DEF Busy, Rests
<1>16. ASSUME NEW j \in 1 .. k + l
       PROVE  t[j].e = e /\ t[j].msg = v.mailbox[e][j] /\ Rests(v, e, t[j].i) /\ Takes(v, e, t[j].i, t[j].msg)
  <2>1. CASE j \in 1 .. k
    BY <2>1, <1>12, <1>14
  <2>2. CASE \E i \in 1 .. l : j = k + i
    <3>1. PICK i \in 1 .. l : j = k + i
      BY <2>2
    <3>2. t[j] = new[i]
      BY <3>1, <1>12
    <3>3. new[i].e = e /\ new[i].msg = v.mailbox[e][j] /\ Rests(v, e, new[i].i) /\ Takes(v, e, new[i].i, new[i].msg)
      BY <3>1, <1>5, <1>9, <1>15
    <3>. QED
      BY <3>2, <3>3
  <2>. QED
    BY <2>1, <2>2, <1>13
<1>17. \A i, j \in 1 .. k + l : t[i].i = t[j].i => i = j
  <2>1. SUFFICES ASSUME NEW i \in 1 .. k + l, NEW j \in 1 .. k + l, t[i].i = t[j].i PROVE i = j
    OBVIOUS
  <2>2. CASE i \in 1 .. k /\ j \in 1 .. k
    BY <2>1, <2>2, <1>12, <1>14
  <2>3. ASSUME NEW x \in 1 .. k, NEW y \in 1 .. l, t[x].i = t[k + y].i
        PROVE  FALSE
    BY <2>3, <1>9, <1>10, <1>12
  <2>4. CASE i \in 1 .. k /\ j \notin 1 .. k
    BY <2>1, <2>3, <2>4, <1>13
  <2>5. CASE i \notin 1 .. k /\ j \in 1 .. k
    BY <2>1, <2>3, <2>5, <1>13
  <2>6. CASE i \notin 1 .. k /\ j \notin 1 .. k
    <3>1. PICK x \in 1 .. l, y \in 1 .. l : i = k + x /\ j = k + y
      BY <2>6, <1>13
    <3>2. new[x].i = new[y].i
      BY <2>1, <3>1, <1>12
    <3>. QED
      BY <3>1, <3>2, <1>9
  <2>. QED
    BY <2>2, <2>4, <2>5, <2>6
<1>18. Promised(v, t, e)
  BY <1>4, <1>5, <1>12, <1>16, <1>17 DEF Promised
<1>. QED
  BY <1>1, <1>3, <1>11, <1>18

-----------------------------------------------------------------------------
(* Units that are no accepts change nothing about what is listed.           *)
NoAccepts(w) == \A x \in 1 .. Len(w) : w[x].type # "accepted"

LEMMA NoneJoined ==
  ASSUME NEW S, NEW v \in Seq(S), NEW w \in Seq(S), NoAccepts(v), NoAccepts(w)
  PROVE  NoAccepts(v \o w)
<1>0. PICK m \in Nat, n \in Nat : m = Len(v) /\ n = Len(w)
  OBVIOUS
<1>1. PICK b : b = v \o w
  OBVIOUS
<1>2. Len(b) = m + n /\ \A x \in 1 .. m + n : b[x] = IF x <= m THEN v[x] ELSE w[x - m]
  BY <1>0, <1>1
<1>3. ASSUME NEW x \in 1 .. m + n
      PROVE  b[x].type # "accepted"
  <2>1. CASE x <= m
    <3>1. x \in 1 .. m
      BY <2>1
    <3>. QED
      BY <3>1, <2>1, <1>0, <1>2 DEF NoAccepts
  <2>2. CASE ~(x <= m)
    <3>1. x - m \in 1 .. n
      BY <2>2
    <3>. QED
      BY <3>1, <2>2, <1>0, <1>2 DEF NoAccepts
  <2>. QED
    BY <2>1, <2>2
<1>. QED
  BY <1>1, <1>2, <1>3 DEF NoAccepts

LEMMA ListsAround ==
  ASSUME NEW S, NEW v \in Seq(S), NEW w \in Seq(S), NEW s \in Seq(Accept), NEW e, NoAccepts(w), Lists(v, 0, s, e)
  PROVE  Lists(v \o w, 0, s, e) /\ Lists(w \o v, 0, s, e)
<1>1. PICK t \in Seq(Accept) : t = <<>>
  BY <<>> \in Seq(Accept)
<1>2. Lists(w, 0, t, e)
  <2>1. \A x \in 1 .. Len(w) : Gone(w[x], e) # 1
    BY DEF NoAccepts, Gone
  <2>. QED
    BY <2>1, <1>1, ListsNone
<1>3. Lists(v \o w, 0, s \o t, e) /\ Lists(w \o v, 0, t \o s, e)
  BY <1>2, ListsJoin
<1>4. s \o t = s /\ t \o s = s
  BY <1>1
<1>. QED
  BY <1>3, <1>4

(* What an output asks for lists the accepts of each actor.                 *)
LEMMA ListsAppends ==
  ASSUME NEW v, View(v), NEW r \in [Endpoint -> Seq(Accept)], \A f \in Endpoint : Len(r[f]) <= Len(v.mailbox[f]),
         NEW n \in 0 .. MaxItems, NEW e \in Endpoint
  PROVE  Lists(Appends(v, r, n), 0, Accepts(v, e, r), e)
<1> DEFINE once(ids, u) == IF Chosen(ids) \subseteq dispatched THEN <<>> ELSE <<u>>
           invokes == {x \in DueInvokes(v) : <<"invoke", x>> \notin dispatched}
           batches == {c \in DueBatches(v) : <<"resolve", c>> \notin dispatched}
           fresh(type, es) == {f \in es : <<type, f>> \notin dispatched}
           scope(type, es) == [j \in 1 .. Cardinality(fresh(type, es)) |-> [type |-> type, e |-> InOrder(fresh(type, es))[j]]]
           one == once(DueSpawns(v), [type |-> "spawned", n |-> n])
           two == once(DueAdmissionFailures(v), Failure)
           three == once(Unsupported(v, r), Failure)
           four == FlattenSeq([f \in Endpoint |-> Accepts(v, f, r)])
           five == IF invokes = {} THEN <<>> ELSE <<[type |-> "invoke", group |-> invokes]>>
           six == [j \in 1 .. Cardinality(batches) |-> [type |-> "resolved", call |-> SetToSeq(batches)[j]]]
           closings == scope("closing", DueClosings(v))
           stops == scope("stopped", DueStops(v))
           A == {[type |-> "spawned", n |-> n]}
           B == {Failure}
           C == {[type |-> "invoke", group |-> invokes]}
           D == {[type |-> "resolved", call |-> c] : c \in batches}
           F == {[type |-> "closing", e |-> f] : f \in Endpoint}
           G == {[type |-> "stopped", e |-> f] : f \in Endpoint}
           Q == A \cup B \cup Accept \cup C \cup D \cup F \cup G
<1>1. Appends(v, r, n) = one \o two \o three \o four \o five \o six \o closings \o stops
  BY DEF Appends
<1>2. one \in Seq(A)
  <2>1. PICK u : u = [type |-> "spawned", n |-> n]
    OBVIOUS
  <2>2. <<>> \in Seq({u}) /\ <<u>> \in Seq({u})
    BY AtMostOne
  <2>. QED
    BY <2>1, <2>2
<1>3. two \in Seq(B) /\ three \in Seq(B)
  <2>1. PICK u : u = Failure
    OBVIOUS
  <2>2. <<>> \in Seq({u}) /\ <<u>> \in Seq({u})
    BY AtMostOne
  <2>. QED
    BY <2>1, <2>2
<1>4. four \in Seq(Accept) /\ Lists(four, 0, Accepts(v, e, r), e)
  <2>1. \A f \in Endpoint : Accepts(v, f, r) \in Seq(Accept)
    BY AcceptsFit
  <2>2. PICK ss : ss = [f \in Endpoint |-> Accepts(v, f, r)]
    OBVIOUS
  <2>3. ss \in Seq(Seq(Accept)) /\ Len(ss) = Endpoints /\ e \in 1 .. Len(ss) /\ ss[e] = Accepts(v, e, r)
    <3>1. ss \in Seq(Seq(Accept))
      BY <2>1, <2>2, FanOutAssumption DEF Endpoint
    <3>2. Len(ss) = Endpoints
      BY <2>2, FanOutAssumption DEF Endpoint
    <3>. QED
      BY <3>1, <3>2, <2>2 DEF Endpoint
  <2>4. ASSUME NEW i \in 1 .. Len(ss)
        PROVE  \A x \in 1 .. Len(ss[i]) : ss[i][x].e = i
    <3>1. i \in Endpoint /\ ss[i] = Accepts(v, i, r)
      BY <2>2, <2>3 DEF Endpoint
    <3>2. PICK due : due = DueAccepts(v, i, r)
      OBVIOUS
    <3>3. r[i] \in Seq(Accept) /\ Len(r[i]) <= Len(v.mailbox[i])
      BY <3>1
    <3>4. due \in Seq(Accept) /\ InTurn(v, i, Len(r[i]), due) /\ \A x \in 1 .. Len(ss[i]) : ss[i][x] \in Range(due)
      BY <3>1, <3>2, <3>3, AcceptsFit
    <3>5. \A a \in Range(due) : a.e = i
      BY <3>4 DEF InTurn, Range
    <3>. QED
      BY <3>4, <3>5
  <2>5. Lists(FlattenSeq(ss), 0, ss[e], e)
    BY <2>3, <2>4, ListsFlattened
  <2>. QED
    BY <2>2, <2>3, <2>5, Flattened
<1>5. five \in Seq(C)
  <2>1. PICK u : u = [type |-> "invoke", group |-> invokes]
    OBVIOUS
  <2>2. <<>> \in Seq({u}) /\ <<u>> \in Seq({u})
    BY AtMostOne
  <2>. QED
    BY <2>1, <2>2
<1>6. six \in Seq(D)
  <2>1. IsFiniteSet(v.calls) /\ v.calls \subseteq Calls
    BY DEF View, ActorsOK, Asking
  <2>2. batches \subseteq v.calls
    BY DEF DueBatches
  <2>3. IsFiniteSet(batches)
    BY <2>1, <2>2, FS_Subset
  <2>4. PICK bs : bs = batches
    OBVIOUS
  <2>5. Cardinality(bs) \in Nat /\ \A j \in 1 .. Cardinality(bs) : SetToSeq(bs)[j] \in bs
    BY <2>3, <2>4, SomeOrder
  <2>6. D = {[type |-> "resolved", call |-> c] : c \in bs}
        /\ six = [j \in 1 .. Cardinality(bs) |-> [type |-> "resolved", call |-> SetToSeq(bs)[j]]]
    BY <2>4
  <2> HIDE DEF batches, D, six
  <2>. QED
    BY <2>5, <2>6
<1>7. closings \in Seq(F) /\ stops \in Seq(G)
  <2>1. ASSUME NEW type, NEW es \in SUBSET Endpoint
        PROVE  scope(type, es) \in Seq({[type |-> type, e |-> f] : f \in Endpoint})
    <3>1. PICK P \in SUBSET (1 .. Endpoints) : P = fresh(type, es)
      BY DEF Endpoint
    <3>2. Cardinality(P) \in Nat /\ \A j \in 1 .. Cardinality(P) : InOrder(P)[j] \in Endpoint
      BY <3>1, FanOutAssumption, Ordered DEF Endpoint
    <3>3. PICK X : X = {[type |-> type, e |-> f] : f \in Endpoint}
      OBVIOUS
    <3>4. \A j \in 1 .. Cardinality(P) : [type |-> type, e |-> InOrder(P)[j]] \in X
      BY <3>2, <3>3
    <3>5. [j \in 1 .. Cardinality(P) |-> [type |-> type, e |-> InOrder(P)[j]]] \in Seq(X)
      BY <3>2, <3>4
    <3>. QED
      BY <3>1, <3>3, <3>5
  <2>2. DueClosings(v) \in SUBSET Endpoint /\ DueStops(v) \in SUBSET Endpoint
    BY DEF DueClosings, DueStops
  <2> HIDE DEF scope
  <2>. QED
    BY <2>1, <2>2
<1>8. \A u \in A \cup B \cup C \cup D \cup F \cup G : u.type # "accepted"
  <2>1. (\A u \in A : u.type = "spawned") /\ \A u \in C : u.type = "invoke"
    OBVIOUS
  <2>2. \A u \in D : u.type = "resolved"
    <3> HIDE DEF batches
    <3>. QED
      OBVIOUS
  <2>3. (\A u \in F : u.type = "closing") /\ (\A u \in G : u.type = "stopped") /\ \A u \in B : u.type = "failure"
    BY DEF Failure
  <2> HIDE DEF A, B, C, D, F, G
  <2>. QED
    BY <2>1, <2>2, <2>3
<1> HIDE DEF one, two, three, four, five, six, closings, stops, A, B, C, D, F, G
<1>9. /\ NoAccepts(one) /\ NoAccepts(two) /\ NoAccepts(three) /\ NoAccepts(five) /\ NoAccepts(six)
      /\ NoAccepts(closings) /\ NoAccepts(stops)
  BY <1>2, <1>3, <1>5, <1>6, <1>7, <1>8 DEF NoAccepts
<1>10. /\ one \in Seq(Q) /\ two \in Seq(Q) /\ three \in Seq(Q) /\ four \in Seq(Q) /\ five \in Seq(Q)
       /\ six \in Seq(Q) /\ closings \in Seq(Q) /\ stops \in Seq(Q)
  BY <1>2, <1>3, <1>4, <1>5, <1>6, <1>7
<1> HIDE DEF Q
<1>11. PICK acc \in Seq(Accept) : acc = Accepts(v, e, r)
  BY AcceptsFit
<1>12. PICK front \in Seq(Q) : front = one \o two \o three /\ NoAccepts(front)
  <2>1. PICK f \in Seq(Q) : f = one \o two /\ NoAccepts(f)
    <3>1. one \o two \in Seq(Q)
      BY <1>10
    <3>2. NoAccepts(one \o two)
      BY <1>9, <1>10, NoneJoined
    <3>. QED
      BY <3>1, <3>2
  <2>2. f \o three \in Seq(Q)
    BY <1>10
  <2>3. NoAccepts(f \o three)
    BY <2>1, <1>9, <1>10, NoneJoined
  <2>. QED
    BY <2>1, <2>2, <2>3
<1>13. PICK a \in Seq(Q) : a = front \o four /\ Lists(a, 0, acc, e)
  <2>1. front \o four \in Seq(Q)
    BY <1>10
  <2>2. Lists(front \o four, 0, acc, e)
    BY <1>4, <1>10, <1>11, <1>12, ListsAround
  <2>. QED
    BY <2>1, <2>2
<1>14. ASSUME NEW b \in Seq(Q), Lists(b, 0, acc, e), NEW w \in Seq(Q), NoAccepts(w)
       PROVE  b \o w \in Seq(Q) /\ Lists(b \o w, 0, acc, e)
  BY <1>14, ListsAround
<1>15. PICK b \in Seq(Q) : b = a \o five /\ Lists(b, 0, acc, e)
  BY <1>9, <1>10, <1>13, <1>14
<1>16. PICK c \in Seq(Q) : c = b \o six /\ Lists(c, 0, acc, e)
  BY <1>9, <1>10, <1>15, <1>14
<1>17. PICK d \in Seq(Q) : d = c \o closings /\ Lists(d, 0, acc, e)
  BY <1>9, <1>10, <1>16, <1>14
<1>18. Lists(d \o stops, 0, acc, e)
  BY <1>9, <1>10, <1>17, <1>14
<1>. QED
  BY <1>1, <1>11, <1>12, <1>13, <1>15, <1>16, <1>17, <1>18

-----------------------------------------------------------------------------
(* Actors are created, closed and stopped by the records that say so, and   *)
(* one that closes does not open again.                                     *)
LEMMA GoesStatus ==
  ASSUME NEW v, DOMAIN v = Fields, NEW p, NEW s
  PROVE  Goes(v, p, s).status = v.status
<1>1. CASE IsItem(p)
  <2>1. PICK x : x = [v EXCEPT !.leaves = Append(RemoveAt(@, LeafOf(v, p[2])), [key |-> p[2], at |-> s])]
    OBVIOUS
  <2>2. DOMAIN x = Fields /\ x.status = v.status
    BY <2>1 DEF Fields
  <2>3. PICK w : w = CompleteParallels(x)
    OBVIOUS
  <2>4. Goes(v, p, s) = w
    BY <1>1, <2>1, <2>3 DEF Goes
  <2>. QED
    BY <2>2, <2>3, <2>4, Completes DEF SameActors
<1>2. CASE ~IsItem(p)
  BY <1>2 DEF Goes, Fields
<1>. QED
  BY <1>1, <1>2

LEMMA ResolveStatus ==
  ASSUME NEW v, DOMAIN v = Fields, NEW c
  PROVE  Resolve(v, c).status = v.status
<1>1. PICK y : y = [v EXCEPT !.calls = @ \ {c}, !.settled = @ \ Members(c)]
  OBVIOUS
<1>2. DOMAIN y = Fields /\ y.status = v.status
  BY <1>1 DEF Fields
<1>3. Resolve(v, c) = Goes(y, c.from, Target[c.at])
  BY <1>1 DEF Resolve
<1>4. Goes(y, c.from, Target[c.at]).status = y.status
  BY <1>2, GoesStatus
<1>. QED
  BY <1>2, <1>3, <1>4

StatusOf(u) == CASE u.type = "created" -> "open" [] u.type = "closing" -> "closing" [] u.type = "stopped" -> "stopped"

LEMMA StatusStep ==
  ASSUME NEW v, DOMAIN v = Fields, NEW u, u.type \in UnitType, NEW w, w = Project(v, u)
  PROVE  IF u.type \in {"created", "closing", "stopped"} THEN w.status = [v.status EXCEPT ![u.e] = StatusOf(u)]
         ELSE w.status = v.status
<1>1. CASE u.type \in {"created", "closing"}
  BY <1>1 DEF Project, Fields, StatusOf
<1>2. CASE u.type = "stopped"
  <2>1. PICK x : x = [v EXCEPT !.status[u.e] = "stopped"]
    OBVIOUS
  <2>2. DOMAIN x = Fields /\ x.status = [v.status EXCEPT ![u.e] = "stopped"]
    BY <2>1 DEF Fields
  <2>3. w = CompleteParallels(x)
    BY <1>2, <2>1 DEF Project
  <2>4. w.status = x.status
    BY <2>2, <2>3, Completes DEF SameActors
  <2>. QED
    BY <1>2, <2>2, <2>4 DEF StatusOf
<1>3. CASE u.type = "spawned"
  <2>1. CASE v.chart # "map"
    BY <1>3, <2>1 DEF Project
  <2>2. CASE v.chart = "map"
    <3>1. PICK x : x = [v EXCEPT !.chart = IF u.n = 0 THEN "end" ELSE "each",
                                 !.leaves = [k \in 1 .. u.n |-> [key |-> k, at |-> First]]]
      OBVIOUS
    <3>2. DOMAIN x = Fields /\ x.status = v.status
      BY <3>1 DEF Fields
    <3>3. w = CompleteParallels(x)
      BY <1>3, <2>2, <3>1 DEF Project
    <3>. QED
      BY <1>3, <3>2, <3>3, Completes DEF SameActors
  <2>. QED
    BY <2>1, <2>2
<1>4. CASE u.type = "complete"
  <2>1. CASE At(v, u.p) # u.at
    BY <1>4, <2>1 DEF Project
  <2>2. CASE At(v, u.p) = u.at /\ u.to = "abort"
    <3>1. w = Leave(v)
      BY <1>4, <2>2 DEF Project
    <3>. QED
      BY <1>4, <3>1 DEF Leave, Fields
  <2>3. CASE At(v, u.p) = u.at /\ u.to # "abort"
    <3>1. PICK x : x = [v EXCEPT !.pending[u.p] = 0]
      OBVIOUS
    <3>2. w = Goes(x, u.p, u.to) /\ DOMAIN x = Fields /\ x.status = v.status
      BY <1>4, <2>3, <3>1 DEF Project, Fields
    <3>. QED
      BY <1>4, <3>2, GoesStatus
  <2>. QED
    BY <2>1, <2>2, <2>3
<1>5. CASE u.type = "enqueued"
  <2>1. PICK x : x = [v EXCEPT !.mailbox[To[u.at]] = @ \o Batch(u.p, u.at, u.visit), !.sends[u.p] = u.visit]
    OBVIOUS
  <2>2. DOMAIN x = Fields /\ x.status = v.status
    BY <2>1 DEF Fields
  <2>3. CASE Kind[u.at] = "call"
    <3>1. w = [x EXCEPT !.calls = @ \cup {Call(u.p, u.at, u.visit)}]
      BY <1>5, <2>1, <2>3 DEF Project
    <3>. QED
      BY <1>5, <2>2, <3>1 DEF Fields
  <2>4. CASE Kind[u.at] # "call"
    <3>1. w = Goes(x, u.p, Target[u.at])
      BY <1>5, <2>1, <2>4 DEF Project
    <3>. QED
      BY <1>5, <2>2, <3>1, GoesStatus
  <2>. QED
    BY <2>3, <2>4
<1>6. CASE u.type = "replied"
  <2>1. PICK x : x = [v EXCEPT !.current[u.p[2]][u.p[3]] = NoMessage, !.at[u.p[2]][u.p[3]] = Target[@],
                               !.settled = IF Asks(u.msg) THEN @ \cup {u.msg} ELSE @]
    OBVIOUS
  <2>2. DOMAIN x = Fields /\ x.status = v.status
    BY <2>1 DEF Fields
  <2>3. w = IF u.resolves THEN Resolve(x, CallOf(u.msg)) ELSE x
    <3>1. Project(v, u) =
            LET over == [v EXCEPT !.current[u.p[2]][u.p[3]] = NoMessage, !.at[u.p[2]][u.p[3]] = Target[@],
                                  !.settled = IF Asks(u.msg) THEN @ \cup {u.msg} ELSE @]
            IN IF u.resolves THEN Resolve(over, CallOf(u.msg)) ELSE over
      BY <1>6 DEF Project
    <3>. QED
      BY <3>1, <2>1
  <2>4. PICK c : c = CallOf(u.msg)
    OBVIOUS
  <2>5. Resolve(x, c).status = x.status
    BY <2>2, ResolveStatus
  <2>. QED
    BY <1>6, <2>2, <2>3, <2>4, <2>5
<1>7. CASE u.type = "resolved"
  <2>1. w = Resolve(v, u.call)
    BY <1>7 DEF Project
  <2>. QED
    BY <1>7, <2>1, ResolveStatus
<1>8. CASE u.type = "accepted"
  BY <1>8 DEF Project, Fields
<1>9. CASE u.type \in {"failure", "invoke"}
  BY <1>9 DEF Project, Fields
<1>. QED
  BY <1>1, <1>2, <1>3, <1>4, <1>5, <1>6, <1>7, <1>8, <1>9 DEF UnitType

LEMMA StatusOn ==
  ASSUME NEW v, View(v), NEW u, UnitFits(u), ~Rejects(v, u), NEW w, w = Project(v, u), NEW e \in Endpoint
  PROVE  /\ v.status[e] \in {"closing", "stopped"} => w.status[e] \in {"closing", "stopped"}
         /\ w.status[e] = "stopped" => v.status[e] = "stopped" \/ (u.type = "stopped" /\ u.e = e)
<1>1. DOMAIN v = Fields /\ u.type \in UnitType /\ DOMAIN v.status = Endpoint
  BY DEF View, ActorsOK, UnitFits
<1>2. IF u.type \in {"created", "closing", "stopped"} THEN w.status = [v.status EXCEPT ![u.e] = StatusOf(u)]
      ELSE w.status = v.status
  BY <1>1, StatusStep
<1>3. CASE u.type \notin {"created", "closing", "stopped"}
  BY <1>2, <1>3
<1>4. CASE u.type \in {"created", "closing", "stopped"}
  <2>1. w.status[e] = IF e = u.e THEN StatusOf(u) ELSE v.status[e]
    BY <1>1, <1>2, <1>4
  <2>2. u.type = "created" => v.status[u.e] = "none"
    BY DEF Rejects
  <2>. QED
    BY <1>4, <2>1, <2>2 DEF StatusOf
<1>. QED
  BY <1>3, <1>4

-----------------------------------------------------------------------------
(* What is on its way to the machine: the units that are acknowledged and   *)
(* those of the batch, in this order.                                       *)
UnitOf(event) == IF event.kind = "ack" THEN event.unit ELSE Failure
Acked(q) == [i \in 1 .. Len(q) |-> UnitOf(q[i])]
Coming == Acked(queue) \o batch

(* The machine's reservations are the accepts on their way, each of them    *)
(* can be kept, and an actor has stopped on the log only when the machine   *)
(* has asked for it.                                                        *)
StandsFor(m, d, r, w) ==
  \A e \in Endpoint : /\ Promised(m, r[e], e) /\ Lists(w, 0, r[e], e)
                      /\ d.status[e] = "stopped" => m.status[e] \in {"closing", "stopped"}
Standing == loop = "ready" => StandsFor(machine, durable, reserved, Coming)

LEMMA UnitsOf ==
  ASSUME NEW event \in Happening
  PROVE  UnitOf(event) \in Unit /\ (event.kind # "ack" => UnitOf(event).type # "accepted")
<1>1. Failure \in Unit /\ Failure.type # "accepted"
  BY SomeUnits DEF Due, Failure
<1>2. event.kind = "ack" => event.unit \in Unit
  BY DEF Happening
<1>. QED
  BY <1>1, <1>2 DEF UnitOf

LEMMA SameUnits ==
  ASSUME NEW a \in Seq(Unit), NEW b \in Seq(Unit), Len(a) = Len(b), \A i \in 1 .. Len(a) : a[i] = b[i]
  PROVE  a = b
OBVIOUS

LEMMA AckedFit ==
  ASSUME NEW q \in Seq(Happening)
  PROVE  /\ Acked(q) \in Seq(Unit) /\ Len(Acked(q)) = Len(q) /\ \A i \in 1 .. Len(q) : Acked(q)[i] = UnitOf(q[i])
         /\ q # <<>> => Tail(q) \in Seq(Happening) /\ Acked(Tail(q)) = Tail(Acked(q)) /\ Acked(q) # <<>>
         /\ \A event \in Happening : /\ Append(q, event) \in Seq(Happening)
                                     /\ Acked(Append(q, event)) = Append(Acked(q), UnitOf(event))
<1>1. PICK n \in Nat : n = Len(q)
  OBVIOUS
<1>2. \A i \in 1 .. n : UnitOf(q[i]) \in Unit
  BY <1>1, UnitsOf
<1>3. PICK a : a = Acked(q)
  OBVIOUS
<1>4. a = [i \in 1 .. n |-> UnitOf(q[i])]
  BY <1>1, <1>3 DEF Acked
<1>5. a \in Seq(Unit) /\ Len(a) = n /\ \A i \in 1 .. n : a[i] = UnitOf(q[i])
  BY <1>2, <1>4
<1>6. ASSUME q # <<>>
      PROVE  Tail(q) \in Seq(Happening) /\ Acked(Tail(q)) = Tail(Acked(q)) /\ Acked(q) # <<>>
  <2>1. PICK t \in Seq(Happening) : t = Tail(q)
    <3>1. Tail(q) \in Seq(Happening)
      BY <1>6
    <3>. QED
      BY <3>1
  <2>2. Len(t) = n - 1 /\ n # 0 /\ \A i \in 1 .. n - 1 : t[i] = q[i + 1] /\ i + 1 \in 1 .. n
    BY <1>1, <1>6, <2>1
  <2>3. PICK b : b = Acked(t)
    OBVIOUS
  <2>4. b = [i \in 1 .. n - 1 |-> UnitOf(q[i + 1])]
    BY <2>2, <2>3 DEF Acked
  <2>5. b \in Seq(Unit) /\ Len(b) = n - 1 /\ \A i \in 1 .. n - 1 : b[i] = UnitOf(q[i + 1])
    BY <1>2, <2>2, <2>4
  <2>6. /\ a # <<>> /\ Tail(a) \in Seq(Unit) /\ Len(Tail(a)) = n - 1
        /\ \A i \in 1 .. n - 1 : Tail(a)[i] = a[i + 1] /\ a[i + 1] = UnitOf(q[i + 1])
    BY <1>5, <2>2
  <2>7. Tail(a) = b
    BY <2>5, <2>6, SameUnits
  <2>. QED
    BY <2>1, <2>3, <2>6, <2>7, <1>3
<1>7. ASSUME NEW event \in Happening
      PROVE  Append(q, event) \in Seq(Happening) /\ Acked(Append(q, event)) = Append(Acked(q), UnitOf(event))
  <2>1. PICK t : t = Append(q, event)
    OBVIOUS
  <2>2. t \in Seq(Happening) /\ Len(t) = n + 1 /\ t[n + 1] = event /\ \A i \in 1 .. n : t[i] = q[i]
    BY <1>1, <2>1
  <2>3. PICK u : u = UnitOf(event)
    OBVIOUS
  <2>4. PICK b : b = Acked(t)
    OBVIOUS
  <2>5. b = [i \in 1 .. n + 1 |-> UnitOf(t[i])]
    BY <2>2, <2>4 DEF Acked
  <2>6. PICK c \in Seq(Unit) : c = Append(a, u) /\ Len(c) = n + 1 /\ c[n + 1] = u /\ \A i \in 1 .. n : c[i] = a[i]
    <3>1. u \in Unit
      BY <2>3, UnitsOf
    <3>2. PICK c : c = Append(a, u)
      OBVIOUS
    <3>3. c \in Seq(Unit) /\ Len(c) = n + 1 /\ c[n + 1] = u
      BY <3>1, <3>2, <1>5
    <3>4. \A i \in 1 .. n : c[i] = a[i]
      BY <3>2, <1>5
    <3>. QED
      BY <3>2, <3>3, <3>4
  <2>7. \A i \in 1 .. n + 1 : UnitOf(t[i]) = c[i] /\ c[i] \in Unit
    <3>1. SUFFICES ASSUME NEW i \in 1 .. n + 1 PROVE UnitOf(t[i]) = c[i] /\ c[i] \in Unit
      BY <2>6
    <3>2. CASE i <= n
      <4>1. i \in 1 .. n
        BY <3>2
      <4>. QED
        BY <4>1, <1>5, <2>2, <2>6
    <3>3. CASE ~(i <= n)
      <4>1. i = n + 1
        BY <3>3
      <4>. QED
        BY <4>1, <2>2, <2>3, <2>6
    <3>. QED
      BY <3>2, <3>3
  <2>8. c = b
    <3>1. b \in Seq(Unit) /\ Len(b) = n + 1 /\ \A i \in 1 .. n + 1 : b[i] = c[i]
      BY <2>5, <2>7
    <3>. QED
      BY <3>1, <2>6, SameUnits
  <2>. QED
    BY <2>1, <2>2, <2>3, <2>4, <2>6, <2>8, <1>3
<1>. QED
  BY <1>1, <1>3, <1>5, <1>6, <1>7

-----------------------------------------------------------------------------
(* An output promises what it asks for.                                     *)
LEMMA OutputStands ==
  ASSUME PiecesOK, loop = "ready", batch = <<>>, queue # <<>>,
         NEW v, NEW r, NEW gone, View(v), MailOK(v), Reservations(v, r), Unmarked(v, r),
         StandsFor(v, durable, r, Acked(Tail(queue))),
         NEW response \in Seq(Answer(v)), NEW n \in 0 .. MaxItems, Output(v, r, response, gone, n)
  PROVE  Standing'
<1>1. PICK over \in BOOLEAN : over = (v.failed \/ v.chart = "done")
  OBVIOUS
<1>2. CASE over
  <2>1. loop' \in {"failed", "final"}
    BY <1>1, <1>2 DEF Output
  <2>. QED
    BY <2>1 DEF Standing
<1>3. CASE ~over
  <2>1. /\ machine' = v /\ durable' = durable /\ queue' = Tail(queue) /\ batch' = response \o Appends(v, r, n)
        /\ reserved' = Reserved(v, r)
    BY <1>1, <1>3 DEF Output, Reserved
  <2>2. PICK t \in Seq(Unit) : t = Acked(Tail(queue)) /\ Acked(queue') = t
    <3>1. Acked(Tail(queue)) \in Seq(Unit)
      BY AckedFit DEF PiecesOK
    <3>. QED
      BY <3>1, <2>1
  <2>3. r \in [Endpoint -> Seq(Accept)] /\ \A e \in Endpoint : Len(r[e]) <= Len(v.mailbox[e])
    BY DEF Reservations
  <2>4. PICK a \in Seq(Unit) : a = Appends(v, r, n)
    <3>1. Appends(v, r, n) \in Seq(Due(v, r))
      BY <2>3, AppendsFit
    <3>2. Due(v, r) \subseteq Unit
      BY DEF Due
    <3>3. Appends(v, r, n) \in Seq(Unit)
      BY <3>1, <3>2
    <3>. QED
      BY <3>3
  <2>5. PICK s \in Seq(Unit) : s = response /\ NoAccepts(s)
    <3>1. Answer(v) \subseteq Unit /\ \A u \in Answer(v) : u.type # "accepted"
      BY DEF Answer
    <3>2. response \in Seq(Unit) /\ NoAccepts(response)
      BY <3>1 DEF NoAccepts
    <3>. QED
      BY <3>2
  <2>6. ASSUME NEW e \in Endpoint
        PROVE  /\ Promised(v, Reserved(v, r)[e], e) /\ Lists(t \o (s \o a), 0, Reserved(v, r)[e], e)
               /\ durable.status[e] = "stopped" => v.status[e] \in {"closing", "stopped"}
    <3>1. PICK old \in Seq(Accept) : old = r[e]
      BY <2>3
    <3>2. PICK new \in Seq(Accept) : new = Accepts(v, e, r)
      BY AllAreAsked
    <3>3. Reserved(v, r)[e] = old \o new
      BY <3>1, <3>2 DEF Reserved
    <3>4. Promised(v, old \o new, e)
      BY <3>1, <3>2, PromiseMade DEF StandsFor
    <3>5. Lists(t, 0, old, e)
      BY <3>1, <2>2 DEF StandsFor
    <3>6. Lists(a, 0, new, e)
      BY <2>3, <2>4, <3>2, ListsAppends
    <3>7. Lists(s \o a, 0, new, e) /\ s \o a \in Seq(Unit)
      BY <3>6, <2>5, ListsAround
    <3>8. Lists(t \o (s \o a), 0, old \o new, e)
      BY <3>5, <3>7, ListsJoin
    <3>. QED
      BY <3>3, <3>4, <3>8 DEF StandsFor
  <2>7. StandsFor(v, durable, Reserved(v, r), t \o (s \o a))
    BY <2>6 DEF StandsFor
  <2>8. Coming' = t \o (s \o a)
    BY <2>1, <2>2, <2>4, <2>5 DEF Coming
  <2>. QED
    BY <2>1, <2>7, <2>8 DEF Standing
<1>. QED
  BY <1>2, <1>3

(* Of what is on its way the first is the event that the machine takes.     *)
LEMMA ListsPast ==
  ASSUME PiecesOK, batch = <<>>, queue # <<>>, Standing, loop = "ready", NEW u, u = UnitOf(Head(queue)),
         Reservations(machine, reserved), NEW e \in Endpoint
  PROVE  /\ Gone(u, e) = 1 => /\ reserved[e] # <<>> /\ Head(reserved[e]) = u
                              /\ Lists(Acked(Tail(queue)), 0, Tail(reserved[e]), e)
         /\ Gone(u, e) # 1 => Lists(Acked(Tail(queue)), 0, reserved[e], e)
<1>1. PICK w \in Seq(Unit) : w = Acked(queue) /\ w # <<>> /\ Tail(w) = Acked(Tail(queue)) /\ w[1] = u
  <2>1. Len(queue) \in Nat \ {0} /\ Head(queue) = queue[1]
    BY DEF PiecesOK
  <2>. QED
    BY <2>1, AckedFit DEF PiecesOK
<1>2. Coming = w
  BY <1>1 DEF Coming
<1>3. PICK s \in Seq(Accept) : s = reserved[e]
  BY DEF Reservations
<1>4. Lists(w, 0, s, e)
  BY <1>2, <1>3 DEF Standing, StandsFor
<1>5. 0 \in Nat /\ 0 + 1 <= Len(w) /\ 0 + 1 = 1
  BY <1>1
<1>6. /\ Gone(w[1], e) = 1 => s # <<>> /\ Head(s) = w[1] /\ Lists(w, 1, Tail(s), e)
      /\ Gone(w[1], e) # 1 => Lists(w, 1, s, e)
  BY <1>4, <1>5, ListsNext
<1>7. CASE Gone(u, e) = 1
  <2>1. PICK t \in Seq(Accept) : t = Tail(s)
    <3>1. Tail(s) \in Seq(Accept)
      BY <1>1, <1>6, <1>7
    <3>. QED
      BY <3>1
  <2>2. Lists(w, 1, t, e)
    BY <1>1, <1>6, <1>7, <2>1
  <2>3. Lists(Tail(w), 0, t, e)
    BY <1>1, <2>2, ListsTail
  <2>. QED
    BY <1>1, <1>3, <1>6, <1>7, <2>1, <2>3
<1>8. CASE Gone(u, e) # 1
  <2>1. Lists(w, 1, s, e)
    BY <1>1, <1>6, <1>8
  <2>2. Lists(Tail(w), 0, s, e)
    BY <1>1, <2>1, ListsTail
  <2>. QED
    BY <1>1, <1>3, <1>8, <2>2
<1>. QED
  BY <1>7, <1>8

-----------------------------------------------------------------------------
LEMMA SameAccepts ==
  ASSUME NEW a \in Seq(Accept), NEW b \in Seq(Accept), Len(a) = Len(b), \A i \in 1 .. Len(a) : a[i] = b[i]
  PROVE  a = b
OBVIOUS

(* The events that leave the projection as it is.                           *)
LEMMA StillStands ==
  ASSUME Inv, Standing, loop = "ready", batch = <<>>, queue # <<>>, Head(queue).kind # "ack",
         NEW response \in Seq(Answer(machine)), NEW n \in Sizes[machine.rounds],
         Output(machine, reserved, response, {}, n)
  PROVE  Standing'
<1>1. /\ View(machine) /\ MailOK(machine) /\ machine.rounds <= MaxRounds /\ PiecesOK /\ Reservations(machine, reserved)
  BY DEF Inv, ViewsOK
<1>2. Unmarked(machine, reserved) /\ n \in 0 .. MaxItems
  BY <1>1, ReadyAsBefore, SizesFit DEF Ready
<1>3. PICK u : u = UnitOf(Head(queue))
  OBVIOUS
<1>4. u.type # "accepted"
  <2>1. Head(queue) \in Happening
    BY <1>1 DEF PiecesOK
  <2>. QED
    BY <2>1, <1>3, UnitsOf
<1>5. ASSUME NEW e \in Endpoint
      PROVE  Lists(Acked(Tail(queue)), 0, reserved[e], e)
  <2>1. Gone(u, e) # 1
    BY <1>4 DEF Gone
  <2>. QED
    BY <2>1, <1>1, <1>3, ListsPast
<1>6. StandsFor(machine, durable, reserved, Acked(Tail(queue)))
  BY <1>5 DEF Standing, StandsFor
<1>. QED
  BY <1>1, <1>2, <1>6, OutputStands

LEMMA StartStands ==
  ASSUME Inv, Standing, StepStart
  PROVE  Standing'
<1>1. loop = "ready" /\ batch = <<>> /\ queue # <<>> /\ Head(queue).kind = "start"
  BY DEF StepStart, Awaiting
<1>2. PICK n \in Sizes[machine.rounds] : Output(machine, reserved, <<>>, {}, n)
  BY DEF StepStart
<1>3. PICK response \in Seq(Answer(machine)) : response = <<>>
  BY <<>> \in Seq(Answer(machine))
<1>4. Output(machine, reserved, response, {}, n)
  BY <1>2, <1>3
<1>. QED
  BY <1>1, <1>4, StillStands

LEMMA ActorEffectStands ==
  ASSUME Inv, Standing, StepActorEffect
  PROVE  Standing'
<1>1. loop = "ready" /\ batch = <<>> /\ queue # <<>> /\ Head(queue).kind = "checked"
  BY DEF StepActorEffect, Awaiting
<1>2. PICK id : id = Head(queue).id
  OBVIOUS
<1>3. PICK response : response = IF StillDue(id) THEN <<ActorUnit(id)>> ELSE <<>>
  OBVIOUS
<1>4. PICK n \in Sizes[machine.rounds] : Output(machine, reserved, response, {}, n)
  BY <1>2, <1>3 DEF StepActorEffect
<1>5. id \in CheckId
  <2>1. Head(queue) \in Happening
    BY <1>1 DEF Inv, PiecesOK
  <2>. QED
    BY <2>1, <1>1, <1>2 DEF Happening
<1>6. response \in Seq(Answer(machine))
  <2>1. StillDue(id) => ActorUnit(id) \in Answer(machine)
    BY <1>5, ActorUnitFits DEF Inv, ViewsOK
  <2>. QED
    BY <2>1, <1>3
<1>. QED
  BY <1>1, <1>4, <1>6, StillStands

LEMMA WorkStands ==
  ASSUME Inv, Standing, StepWork
  PROVE  Standing'
<1>1. loop = "ready" /\ batch = <<>> /\ queue # <<>> /\ Head(queue).kind = "worked"
  BY DEF StepWork, Awaiting
<1>2. PICK n \in Sizes[machine.rounds], response \in Seq(Answer(machine)) : Output(machine, reserved, response, {}, n)
  BY <1>1, WorkAnswers
<1>. QED
  BY <1>1, <1>2, StillStands

(* The machine learns of a unit: an accept that it learns of is the first   *)
(* of its reservations.                                                     *)
LEMMA AckStands ==
  ASSUME Inv, Orderly, Standing, StepAck
  PROVE  Standing'
<1>1. loop = "ready" /\ batch = <<>> /\ queue # <<>> /\ Head(queue).kind = "ack" /\ queue \in Seq(Happening)
  BY DEF StepAck, Awaiting, Inv, PiecesOK
<1>2. PICK u : u = Head(queue).unit
  OBVIOUS
<1>3. PICK v : v = Project(machine, u)
  OBVIOUS
<1>4. PICK gone : gone = {t \in tasks : v.pending[t[2]] # t[4]}
  OBVIOUS
<1>5. PICK r : r = Forgotten(u)
  OBVIOUS
<1>6. PICK n \in Sizes[v.rounds] : Output(v, r, <<>>, gone, n)
  BY <1>2, <1>3, <1>4, <1>5 DEF StepAck
<1>7. /\ View(machine) /\ MailOK(machine) /\ LogOK(machine) /\ PiecesOK
      /\ Reservations(machine, reserved) /\ Marked(reserved, dispatched) /\ Spans(machine, durable, queue)
  BY <1>1 DEF Inv, ViewsOK, Orderly
<1>8. UnitFits(u) /\ ~Rejects(machine, u) /\ StepOf(machine, v, u) /\ v.rounds <= MaxRounds
  BY <1>1, <1>2, <1>3, <1>7, ChainAdvances
<1>9. View(v)
  BY <1>8 DEF StepOf
<1>10. MailsOf(machine, v, u) /\ MailOK(v)
  BY <1>3, <1>7, <1>8, MailStep DEF MailsOf
<1>11. u \in Unit /\ Reserving(machine, reserved, u)
  <2>1. Head(queue) \in Happening /\ Head(queue) = queue[1] /\ 1 \in 1 .. Len(queue)
    BY <1>1
  <2>2. EventFits(machine, reserved, queue[1])
    BY <2>1 DEF Inv, OnTheWay
  <2>. QED
    BY <2>1, <2>2, <1>1, <1>2 DEF Happening, EventFits
<1>12. Reservations(v, r) /\ Unmarked(v, r)
  BY <1>5, <1>7, <1>9, <1>10, <1>11, ReservationsMove
<1>13. n \in 0 .. MaxItems
  BY <1>8, <1>9, SizesFit
<1>14. u = UnitOf(Head(queue))
  BY <1>1, <1>2 DEF UnitOf
<1>15. ASSUME NEW e \in Endpoint
       PROVE  /\ Promised(v, r[e], e) /\ Lists(Acked(Tail(queue)), 0, r[e], e)
              /\ durable.status[e] = "stopped" => v.status[e] \in {"closing", "stopped"}
  <2>1. PICK s \in Seq(Accept) : s = reserved[e]
    BY <1>7 DEF Reservations
  <2>2. Promised(machine, s, e) /\ (durable.status[e] = "stopped" => machine.status[e] \in {"closing", "stopped"})
    BY <1>1, <2>1 DEF Standing, StandsFor
  <2>3. durable.status[e] = "stopped" => v.status[e] \in {"closing", "stopped"}
    BY <2>2, <1>3, <1>7, <1>8, StatusOn
  <2>4. PICK l \in Nat : l = Gone(u, e) /\ (l = 0 \/ l = 1)
    BY DEF Gone
  <2>5. PICK t \in Seq(Accept) : t = r[e]
    BY <1>12 DEF Reservations
  <2>6. Len(t) = Len(s) - l /\ \A i \in 1 .. Len(s) - l : t[i] = s[l + i]
    BY <2>1, <2>4, <2>5, <1>5, <1>7, <1>10, <1>11, ForgottenFit
  <2>7. CASE l = 1
    <3>1. s # <<>> /\ Head(s) = u /\ Lists(Acked(Tail(queue)), 0, Tail(s), e)
      BY <2>1, <2>4, <2>7, <1>1, <1>7, <1>14, ListsPast
    <3>2. t = Tail(s)
      <4>1. PICK x \in Seq(Accept) : x = Tail(s) /\ Len(x) = Len(s) - 1 /\ \A i \in 1 .. Len(s) - 1 : x[i] = s[1 + i]
        <5>1. Tail(s) \in Seq(Accept) /\ Len(Tail(s)) = Len(s) - 1
          BY <3>1
        <5>2. \A i \in 1 .. Len(s) - 1 : Tail(s)[i] = s[1 + i]
          BY <3>1
        <5>. QED
          BY <5>1, <5>2
      <4>2. Len(t) = Len(x) /\ \A i \in 1 .. Len(t) : t[i] = x[i]
        BY <4>1, <2>6, <2>7
      <4>. QED
        BY <4>1, <4>2, SameAccepts
    <3>3. Promised(v, t, e)
      BY <3>1, <3>2, <2>2, <1>3, <1>7, <1>8, PromiseKept
    <3>. QED
      BY <3>1, <3>2, <3>3, <2>3, <2>5
  <2>8. CASE l = 0
    <3>1. Len(t) = Len(s) /\ \A i \in 1 .. Len(t) : t[i] = s[i]
      BY <2>6, <2>8
    <3>2. t = s
      BY <3>1, SameAccepts
    <3>3. Gone(u, e) # 1
      BY <2>4, <2>8
    <3>4. Lists(Acked(Tail(queue)), 0, s, e)
      BY <2>1, <3>3, <1>1, <1>7, <1>14, ListsPast
    <3>5. Promised(v, s, e)
      BY <2>2, <3>3, <1>3, <1>7, <1>8, PromiseStays
    <3>. QED
      BY <3>2, <3>4, <3>5, <2>3, <2>5
  <2>. QED
    BY <2>4, <2>7, <2>8
<1>16. StandsFor(v, durable, r, Acked(Tail(queue)))
  BY <1>15 DEF StandsFor
<1>17. PICK response \in Seq(Answer(v)) : response = <<>>
  BY <<>> \in Seq(Answer(v))
<1>18. Output(v, r, response, gone, n)
  BY <1>6, <1>17
<1>. QED
  BY <1>1, <1>7, <1>9, <1>10, <1>12, <1>13, <1>16, <1>17, <1>18, OutputStands

-----------------------------------------------------------------------------
LEMMA EndToEnd ==
  ASSUME NEW S, NEW a \in Seq(S), NEW b \in Seq(S), NEW w, w = a \o b
  PROVE  /\ w \in Seq(S) /\ Len(w) = Len(a) + Len(b)
         /\ \A i \in 1 .. Len(a) : w[i] = a[i]
         /\ \A i \in 1 .. Len(b) : w[Len(a) + i] = b[i]
<1>1. w \in Seq(S)
  OBVIOUS
<1>2. Len(w) = Len(a) + Len(b)
  OBVIOUS
<1>3. \A i \in 1 .. Len(a) : w[i] = a[i]
  OBVIOUS
<1>4. \A i \in 1 .. Len(b) : w[Len(a) + i] = b[i]
  OBVIOUS
<1>. QED
  BY <1>1, <1>2, <1>3, <1>4

(* A unit that is committed comes from the batch into the queue: what is on *)
(* its way stays the same.                                                  *)
LEMMA StillComing ==
  ASSUME NEW q \in Seq(Happening), NEW b \in Seq(Unit), b # <<>>, NEW event \in Happening, UnitOf(event) = Head(b)
  PROVE  Acked(Append(q, event)) \o Tail(b) = Acked(q) \o b
<1>1. PICK a \in Seq(Unit) : a = Acked(q)
  BY AckedFit
<1>2. PICK u \in Unit : u = Head(b)
  BY UnitsOf
<1>3. Acked(Append(q, event)) = Append(a, u)
  BY <1>1, <1>2, AckedFit
<1>4. Append(a, u) \o Tail(b) = a \o b
  <2>1. PICK n \in Nat, m \in Nat : n = Len(a) /\ m + 1 = Len(b)
    <3>1. Len(b) \in Nat \ {0} /\ Len(b) - 1 \in Nat
      OBVIOUS
    <3>. QED
      BY <3>1
  <2>2. PICK c : c = Append(a, u)
    OBVIOUS
  <2>3. c \in Seq(Unit) /\ Len(c) = n + 1 /\ c[n + 1] = u
    BY <2>1, <2>2
  <2>4. \A i \in 1 .. n : c[i] = a[i]
    BY <2>1, <2>2
  <2>5. PICK t : t = Tail(b)
    OBVIOUS
  <2>6. t \in Seq(Unit) /\ Len(t) = m /\ b[1] = u
    BY <1>2, <2>1, <2>5
  <2>7. \A i \in 1 .. m : t[i] = b[i + 1]
    BY <2>1, <2>5
  <2>8. PICK x, y : x = c \o t /\ y = a \o b
    OBVIOUS
  <2>9. x \in Seq(Unit) /\ Len(x) = (n + 1) + m /\ y \in Seq(Unit) /\ Len(y) = n + (m + 1)
    <3>1. x \in Seq(Unit) /\ Len(x) = Len(c) + Len(t)
      <4>1. c \in Seq(Unit) /\ t \in Seq(Unit) /\ x = c \o t
        BY <2>3, <2>6, <2>8
      <4>. QED
        BY <4>1, EndToEnd
    <3>2. y \in Seq(Unit) /\ Len(y) = Len(a) + Len(b)
      BY <2>8, EndToEnd
    <3>. QED
      BY <3>1, <3>2, <2>1, <2>3, <2>6
  <2>10. (\A i \in 1 .. n + 1 : x[i] = c[i]) /\ \A i \in 1 .. m : x[(n + 1) + i] = t[i]
    BY <2>3, <2>6, <2>8
  <2>11. (\A i \in 1 .. n : y[i] = a[i]) /\ \A i \in 1 .. m + 1 : y[n + i] = b[i]
    BY <2>1, <2>8
  <2>12. ASSUME NEW i \in 1 .. n + 1 + m
         PROVE  x[i] = y[i]
    <3>1. CASE i <= n
      <4>1. i \in 1 .. n /\ i \in 1 .. n + 1
        BY <3>1
      <4>. QED
        BY <4>1, <2>4, <2>10, <2>11
    <3>2. CASE i = n + 1
      <4>1. n + 1 \in 1 .. n + 1 /\ 1 \in 1 .. m + 1
        OBVIOUS
      <4>2. x[n + 1] = u /\ y[n + 1] = b[1]
        BY <4>1, <2>3, <2>10, <2>11
      <4>. QED
        BY <3>2, <4>2, <2>6
    <3>3. CASE i > n + 1
      <4>1. PICK j \in 1 .. m : i = (n + 1) + j
        <5>1. i - (n + 1) \in 1 .. m
          BY <3>3
        <5>. QED
          BY <5>1
      <4>2. j + 1 \in 1 .. m + 1 /\ i = n + (j + 1)
        BY <4>1
      <4>3. x[i] = t[j] /\ y[i] = b[j + 1]
        BY <4>1, <4>2, <2>10, <2>11
      <4>. QED
        BY <4>3, <2>7
    <3>. QED
      BY <3>1, <3>2, <3>3
  <2>13. x = y
    BY <2>9, <2>12, SameUnits
  <2>. QED
    BY <2>2, <2>5, <2>8, <2>13
<1>. QED
  BY <1>1, <1>3, <1>4

LEMMA CommitStands ==
  ASSUME Inv, Orderly, Standing, Commit
  PROVE  Standing'
<1>1. /\ loop = "ready" /\ batch # <<>> /\ batch \in Seq(Unit) /\ queue \in Seq(Happening)
      /\ machine' = machine /\ reserved' = reserved /\ View(durable)
  BY DEF Commit, Inv, PiecesOK, ViewsOK
<1>2. PICK u \in Unit : u = Head(batch) /\ u = batch[1] /\ 1 \in 1 .. Len(batch)
  BY <1>1
<1>3. CASE Rejects(durable, u)
  <2>1. loop' = "threw"
    BY <1>2, <1>3 DEF Commit
  <2>. QED
    BY <2>1 DEF Standing
<1>4. CASE ~Rejects(durable, u)
  <2>1. PICK event : event = [kind |-> "ack", unit |-> u]
    OBVIOUS
  <2>2. event \in Happening /\ UnitOf(event) = u
    BY <2>1 DEF Happening, UnitOf
  <2>3. PICK d : d = Project(durable, u)
    OBVIOUS
  <2>4. durable' = d /\ queue' = Append(queue, event) /\ batch' = Tail(batch)
    BY <1>2, <1>4, <2>1, <2>3 DEF Commit
  <2>5. Coming' = Coming
    <3>1. Acked(Append(queue, event)) \o Tail(batch) = Acked(queue) \o batch
      BY <1>1, <1>2, <2>2, StillComing
    <3>. QED
      BY <3>1, <2>4 DEF Coming
  <2>6. ASSUME NEW e \in Endpoint, d.status[e] = "stopped"
        PROVE  machine.status[e] \in {"closing", "stopped"}
    <3>1. durable.status[e] = "stopped" \/ (u.type = "stopped" /\ u.e = e)
      BY <1>1, <1>4, <2>3, <2>6, StatusOn DEF Unit
    <3>2. u.type = "stopped" /\ u.e = e => machine.status[e] = "closing"
      BY <1>2 DEF Orderly, Meant
    <3>3. durable.status[e] = "stopped" => machine.status[e] \in {"closing", "stopped"}
      BY <1>1 DEF Standing, StandsFor
    <3>. QED
      BY <3>1, <3>2, <3>3
  <2>7. StandsFor(machine, d, reserved, Coming)
    BY <1>1, <2>6 DEF Standing, StandsFor
  <2>. QED
    BY <1>1, <2>4, <2>5, <2>7 DEF Standing
<1>. QED
  BY <1>3, <1>4

LEMMA ArrivalStands ==
  ASSUME Inv, Standing, loop = "ready", batch = <<>>, NEW event \in Happening, event.kind # "ack",
         queue' = Append(queue, event), UNCHANGED <<durable, machine, reserved, batch, loop>>
  PROVE  Standing'
<1>1. queue \in Seq(Happening) /\ Reservations(machine, reserved)
  BY DEF Inv, PiecesOK
<1>2. PICK a \in Seq(Unit) : a = Acked(queue)
  BY <1>1, AckedFit
<1>3. PICK u \in Unit : u = UnitOf(event) /\ u.type # "accepted"
  BY UnitsOf
<1>4. PICK w \in Seq(Unit) : w = <<u>> /\ NoAccepts(w)
  <2>1. <<u>> \in Seq(Unit)
    BY AtMostOne
  <2>2. NoAccepts(<<u>>)
    BY <1>3 DEF NoAccepts
  <2>. QED
    BY <2>1, <2>2
<1>5. Acked(queue') = a \o w
  <2>1. Acked(queue') = Append(a, u)
    BY <1>1, <1>2, <1>3, AckedFit
  <2>2. Append(a, u) = a \o <<u>>
    OBVIOUS
  <2>. QED
    BY <2>1, <2>2, <1>4
<1>6. Coming = a
  BY <1>2 DEF Coming
<1>7. a \o w \in Seq(Unit)
  OBVIOUS
<1>8. Coming' = a \o w
  <2>1. batch' = <<>>
    OBVIOUS
  <2>2. Coming' = (a \o w) \o <<>>
    BY <1>5, <2>1 DEF Coming
  <2>. QED
    BY <2>2, <1>7
<1>9. ASSUME NEW e \in Endpoint
      PROVE  Lists(a \o w, 0, reserved[e], e)
  <2>1. PICK s \in Seq(Accept) : s = reserved[e]
    BY <1>1 DEF Reservations
  <2>2. Lists(a, 0, s, e)
    BY <1>6, <2>1 DEF Standing, StandsFor
  <2>. QED
    BY <2>1, <2>2, <1>4, ListsAround
<1>10. StandsFor(machine, durable, reserved, a \o w)
  BY <1>9 DEF Standing, StandsFor
<1>. QED
  BY <1>8, <1>10 DEF Standing

LEMMA BesideStands ==
  ASSUME Inv, Standing, Validates \/ Works
  PROVE  Standing'
<1>1. CASE Validates
  <2>1. PICK id \in checks : Validated(id)
    BY <1>1 DEF Validates
  <2>2. id \in CheckId
    BY DEF Inv, PiecesOK
  <2>3. PICK event : event = [kind |-> "checked", id |-> id]
    OBVIOUS
  <2>4. event \in Happening /\ event.kind = "checked"
    BY <2>2, <2>3 DEF Happening
  <2>5. loop = "ready" /\ batch = <<>> /\ queue' = Append(queue, event)
        /\ UNCHANGED <<durable, machine, reserved, batch, loop>>
    BY <2>1, <2>3 DEF Validated, Sends
  <2>. QED
    BY <2>4, <2>5, ArrivalStands
<1>2. CASE Works
  <2>1. PICK id \in tasks : Worked(id)
    BY <1>2 DEF Works
  <2>2. PICK to : /\ to \in Outcome[id[3]] \cup
                       (IF id[3] \in Aborts /\ IsItem(id[2]) /\ machine.rounds < MaxRounds THEN {"abort"} ELSE {})
                  /\ queue' = Append(queue, [kind |-> "worked", id |-> id, to |-> to])
    BY <2>1 DEF Worked, Sends
  <2>3. PICK event : event = [kind |-> "worked", id |-> id, to |-> to]
    OBVIOUS
  <2>4. id \in TaskId /\ to \in State \cup {"abort"}
    <3>1. id \in TaskId
      BY DEF Inv, PiecesOK
    <3>2. id[3] \in Of({"work"})
      BY <3>1 DEF TaskId
    <3>3. Outcome[id[3]] \subseteq State
      BY <3>2, FanOutAssumption
    <3>. QED
      BY <3>1, <3>3, <2>2
  <2>5. event \in Happening /\ event.kind = "worked"
    BY <2>3, <2>4 DEF Happening
  <2>6. loop = "ready" /\ batch = <<>> /\ queue' = Append(queue, event)
        /\ UNCHANGED <<durable, machine, reserved, batch, loop>>
    BY <2>1, <2>2, <2>3 DEF Worked
  <2>. QED
    BY <2>5, <2>6, ArrivalStands
<1>. QED
  BY <1>1, <1>2

(* An attempt begins with nothing on its way.                               *)
LEMMA AnewStands ==
  ASSUME NEW v, View(v), NEW r, r = [e \in Endpoint |-> <<>>], NEW q, q = <<[kind |-> "start"]>>
  PROVE  StandsFor(v, v, r, Acked(q) \o <<>>)
<1>1. PICK event \in Happening : event = [kind |-> "start"]
  <2>1. [kind |-> "start"] \in Happening
    BY DEF Happening
  <2>. QED
    BY <2>1
<1>2. q \in Seq(Happening) /\ Len(q) = 1 /\ q[1] = event /\ event.kind # "ack"
  BY <1>1
<1>3. PICK w \in Seq(Unit) : w = Acked(q) /\ Len(w) = 1 /\ w[1] = UnitOf(event)
  <2>1. Acked(q) \in Seq(Unit) /\ Len(Acked(q)) = Len(q) /\ 1 \in 1 .. Len(q) /\ Acked(q)[1] = UnitOf(q[1])
    <3>1. Acked(q) \in Seq(Unit) /\ Len(Acked(q)) = Len(q)
      BY <1>2, AckedFit
    <3>2. \A i \in 1 .. Len(q) : Acked(q)[i] = UnitOf(q[i])
      BY <1>2, AckedFit
    <3>3. 1 \in 1 .. Len(q)
      BY <1>2
    <3>. QED
      BY <3>1, <3>2, <3>3
  <2>. QED
    BY <2>1, <1>2
<1>4. w[1].type # "accepted" /\ Acked(q) \o <<>> = w
  BY <1>2, <1>3, UnitsOf
<1>5. ASSUME NEW e \in Endpoint
      PROVE  /\ Promised(v, r[e], e) /\ Lists(w, 0, r[e], e)
             /\ v.status[e] = "stopped" => v.status[e] \in {"closing", "stopped"}
  <2>1. PICK s \in Seq(Accept) : s = <<>> /\ Len(s) = 0 /\ s = r[e]
    <3>1. <<>> \in Seq(Accept) /\ Len(<<>>) = 0 /\ r[e] = <<>>
      OBVIOUS
    <3>. QED
      BY <3>1
  <2>2. \A x \in 1 .. Len(w) : Gone(w[x], e) # 1
    BY <1>3, <1>4 DEF Gone
  <2>3. Lists(w, 0, <<>>, e)
    BY <2>2, ListsNone
  <2>4. Len(v.mailbox[e]) \in Nat
    BY DEF View, ActorsOK
  <2>5. Promised(v, s, e)
    BY <2>1, <2>4 DEF Promised
  <2>. QED
    BY <2>1, <2>3, <2>5
<1>. QED
  BY <1>4, <1>5 DEF StandsFor

LEMMA RestartedStands ==
  ASSUME Inv, Restarted
  PROVE  Standing'
<1>1. PICK v, q, r : v = durable /\ q = <<[kind |-> "start"]>> /\ r = [e \in Endpoint |-> <<>>]
  OBVIOUS
<1>2. durable' = v /\ machine' = v /\ queue' = q /\ reserved' = r /\ batch' = <<>>
  BY <1>1 DEF Restarted
<1>3. View(v)
  BY <1>1 DEF Inv, ViewsOK
<1>4. StandsFor(v, v, r, Acked(q) \o <<>>)
  BY <1>1, <1>3, AnewStands
<1>. QED
  BY <1>2, <1>4 DEF Standing, Coming

LEMMA InitStands ==
  ASSUME Init
  PROVE  Standing
<1>1. PICK v, q, r : v = Empty /\ q = <<[kind |-> "start"]>> /\ r = [e \in Endpoint |-> <<>>]
  OBVIOUS
<1>2. durable = v /\ machine = v /\ queue = q /\ reserved = r /\ batch = <<>>
  BY <1>1 DEF Init
<1>3. View(v)
  BY <1>1, EmptyFits
<1>4. StandsFor(v, v, r, Acked(q) \o <<>>)
  BY <1>1, <1>3, AnewStands
<1>. QED
  BY <1>2, <1>4 DEF Standing, Coming

LEMMA StepStands == Inv /\ Orderly /\ Standing /\ [Next]_vars => Standing'
<1> SUFFICES ASSUME Inv, Orderly, Standing, [Next]_vars PROVE Standing'
  OBVIOUS
<1>1. CASE Loop
  BY <1>1, StartStands, ActorEffectStands, WorkStands, AckStands, CommitStands DEF Loop
<1>2. CASE Validates \/ Works
  BY <1>2, BesideStands
<1>3. CASE Restarted
  BY <1>3, RestartedStands
<1>4. CASE UNCHANGED vars
  <2>1. UNCHANGED <<durable, machine, reserved, queue, batch, loop>>
    BY <1>4 DEF vars
  <2>2. Coming' = Coming
    BY <2>1 DEF Coming
  <2>. QED
    BY <2>1, <2>2 DEF Standing
<1>. QED
  BY <1>1, <1>2, <1>3, <1>4 DEF Next

LEMMA SpecStanding == Spec => [](Inv /\ Orderly /\ Standing)
<1>1. Init => Standing
  BY InitStands
<1>2. Inv /\ Orderly /\ Standing /\ [Next]_vars => Standing'
  BY StepStands
<1>. QED
  BY <1>1, <1>2, SpecOrderly, PTL DEF Spec

-----------------------------------------------------------------------------
(* What is promised of the machine's projection is so, event by event, up   *)
(* to the log's.                                                            *)
Awaits(w, i, v, e) == \E s \in Seq(Accept) : Lists(w, i, s, e) /\ Promised(v, s, e)

LEMMA AwaitsOn ==
  ASSUME NEW v, View(v), MailOK(v), LogOK(v), NEW event \in Happening,
         event.kind = "ack" => UnitFits(event.unit) /\ ~Rejects(v, event.unit),
         NEW w \in Seq(Unit), NEW i \in Nat, i + 1 <= Len(w), w[i + 1] = UnitOf(event),
         NEW e \in Endpoint, Awaits(w, i, v, e)
  PROVE  Awaits(w, i + 1, Led(v, event), e)
<1>1. PICK s \in Seq(Accept) : Lists(w, i, s, e) /\ Promised(v, s, e)
  BY DEF Awaits
<1>2. PICK u : u = UnitOf(event)
  OBVIOUS
<1>3. /\ Gone(u, e) = 1 => s # <<>> /\ Head(s) = u /\ Lists(w, i + 1, Tail(s), e)
      /\ Gone(u, e) # 1 => Lists(w, i + 1, s, e)
  BY <1>1, <1>2, ListsNext
<1>4. CASE event.kind = "ack"
  <2>1. u = event.unit /\ UnitFits(u) /\ ~Rejects(v, u) /\ Led(v, event) = Project(v, u)
    BY <1>2, <1>4 DEF UnitOf, Led
  <2>2. CASE Gone(u, e) = 1
    <3>1. PICK t \in Seq(Accept) : t = Tail(s)
      <4>1. Tail(s) \in Seq(Accept)
        BY <1>3, <2>2
      <4>. QED
        BY <4>1
    <3>2. Promised(Project(v, u), t, e)
      BY <1>1, <1>3, <2>1, <2>2, <3>1, PromiseKept
    <3>. QED
      BY <1>3, <2>1, <2>2, <3>1, <3>2 DEF Awaits
  <2>3. CASE Gone(u, e) # 1
    <3>1. Promised(Project(v, u), s, e)
      BY <1>1, <2>1, <2>3, PromiseStays
    <3>. QED
      BY <1>3, <2>1, <2>3, <3>1 DEF Awaits
  <2>. QED
    BY <2>2, <2>3
<1>5. CASE event.kind # "ack"
  <2>1. Gone(u, e) # 1 /\ Led(v, event) = v
    BY <1>2, <1>5, UnitsOf DEF Gone, Led
  <2>. QED
    BY <1>1, <1>3, <2>1 DEF Awaits
<1>. QED
  BY <1>4, <1>5

LEMMA AcceptStands ==
  ASSUME Inv, Orderly, Standing, loop = "ready", batch # <<>>, Head(batch).type = "accepted"
  PROVE  ~Rejects(durable, Head(batch))
<1>1. /\ queue \in Seq(Happening) /\ batch \in Seq(Unit) /\ MailOK(machine)
      /\ Spans(machine, durable, queue) /\ Climbs(machine, durable, queue) /\ Reservations(machine, reserved)
  BY DEF Inv, PiecesOK, ViewsOK, Orderly
<1>2. PICK u \in Unit : u = Head(batch) /\ u = batch[1] /\ Len(batch) \in Nat \ {0}
  BY <1>1
<1>3. PICK e \in Endpoint : e = u.e /\ Gone(u, e) = 1
  BY <1>2 DEF Unit, UnitFits, UnitOK, Gone
<1>4. PICK n \in Nat : n = Len(queue)
  BY <1>1
<1>5. PICK w \in Seq(Unit) : /\ w = Coming /\ n + 1 <= Len(w) /\ w[n + 1] = u
                             /\ \A i \in 1 .. n : w[i] = UnitOf(queue[i])
  <2>1. PICK a \in Seq(Unit) : a = Acked(queue) /\ Len(a) = n /\ \A i \in 1 .. n : a[i] = UnitOf(queue[i])
    BY <1>1, <1>4, AckedFit
  <2>2. PICK c \in Seq(Unit) : c = batch /\ Len(c) \in Nat \ {0} /\ c[1] = u
    BY <1>1, <1>2
  <2>3. PICK b : b = a \o c
    OBVIOUS
  <2>4. b \in Seq(Unit) /\ Len(b) = n + Len(c)
    <3>1. a \in Seq(Unit) /\ c \in Seq(Unit) /\ b = a \o c
      BY <2>1, <2>2, <2>3
    <3>2. b \in Seq(Unit) /\ Len(b) = Len(a) + Len(c)
      BY <3>1, EndToEnd
    <3>. QED
      BY <3>2, <2>1
  <2>5. (\A i \in 1 .. n : b[i] = a[i]) /\ \A i \in 1 .. Len(c) : b[n + i] = c[i]
    BY <2>1, <2>3, EndToEnd
  <2>6. 1 \in 1 .. Len(c) /\ n + 1 <= Len(b)
    BY <2>2, <2>4
  <2>7. b[n + 1] = u
    BY <2>2, <2>5, <2>6
  <2>8. \A i \in 1 .. n : b[i] = UnitOf(queue[i])
    BY <2>1, <2>5
  <2>9. b = Coming
    BY <2>1, <2>2, <2>3 DEF Coming
  <2>. QED
    BY <2>4, <2>6, <2>7, <2>8, <2>9
<1>6. PICK h : Chain(h, machine, durable, queue)
  BY <1>1 DEF Spans
<1>7. PICK g : Line(g, machine, durable, queue)
  BY <1>1 DEF Climbs
<1>8. \A i \in 0 .. n : View(h[i]) /\ LogOK(g[i])
  BY <1>4, <1>6, <1>7 DEF Chain, Follows, Line
<1>9. ASSUME NEW i \in 1 .. n
      PROVE  /\ i - 1 \in 0 .. n /\ queue[i] \in Happening /\ h[i] = Led(h[i - 1], queue[i])
             /\ g[i] = Led(g[i - 1], queue[i])
             /\ queue[i].kind = "ack" => UnitFits(queue[i].unit) /\ ~Rejects(h[i - 1], queue[i].unit)
  <2>1. queue[i] \in Happening /\ i - 1 \in 0 .. n
    BY <1>1, <1>4
  <2>2. IF queue[i].kind = "ack"
        THEN UnitFits(queue[i].unit) /\ ~Rejects(h[i - 1], queue[i].unit) /\ h[i] = Project(h[i - 1], queue[i].unit)
        ELSE h[i] = h[i - 1]
    BY <1>4, <1>6 DEF Chain, Follows
  <2>3. g[i] = Led(g[i - 1], queue[i])
    BY <1>4, <1>7 DEF Line
  <2>. QED
    BY <2>1, <2>2, <2>3 DEF Led
<1>10. PICK A : A = {i \in 0 .. n : h[i] = g[i] /\ MailOK(h[i]) /\ Awaits(w, i, h[i], e)}
  OBVIOUS
<1>11. 0 \in A
  <2>1. h[0] = machine /\ g[0] = machine
    BY <1>6, <1>7 DEF Chain, Line
  <2>2. Awaits(w, 0, machine, e)
    <3>1. PICK s \in Seq(Accept) : s = reserved[e]
      BY <1>1 DEF Reservations
    <3>2. Lists(w, 0, s, e) /\ Promised(machine, s, e)
      BY <1>5, <3>1 DEF Standing, StandsFor
    <3>. QED
      BY <3>2 DEF Awaits
  <2>. QED
    BY <2>1, <2>2, <1>1, <1>10
<1>12. ASSUME NEW i \in 0 + 1 .. n, i - 1 \in A
       PROVE  i \in A
  <2>1. i \in 1 .. n /\ i \in 0 .. n /\ i - 1 \in 0 .. n /\ i - 1 \in Nat /\ (i - 1) + 1 = i
    OBVIOUS
  <2>2. PICK v : v = h[i - 1] /\ v = g[i - 1] /\ View(v) /\ LogOK(v) /\ MailOK(v) /\ Awaits(w, i - 1, v, e)
    BY <2>1, <1>8, <1>10, <1>12
  <2>3. PICK event \in Happening : event = queue[i] /\ w[(i - 1) + 1] = UnitOf(event)
    BY <2>1, <1>5, <1>9
  <2>4. PICK x : x = Led(v, event) /\ h[i] = x /\ g[i] = x
    BY <2>1, <2>2, <2>3, <1>9
  <2>5. event.kind = "ack" => UnitFits(event.unit) /\ ~Rejects(v, event.unit)
    BY <2>1, <2>2, <2>3, <1>9
  <2>6. (i - 1) + 1 <= Len(w)
    BY <2>1, <1>5
  <2>7. Awaits(w, (i - 1) + 1, x, e)
    BY <2>1, <2>2, <2>3, <2>4, <2>5, <2>6, AwaitsOn
  <2>8. MailOK(x)
    <3>1. CASE event.kind = "ack"
      <4>1. x = Project(v, event.unit)
        BY <2>4, <3>1 DEF Led
      <4>. QED
        BY <4>1, <2>2, <2>5, <3>1, MailStep DEF MailsOf
    <3>2. CASE event.kind # "ack"
      BY <2>2, <2>4, <3>2 DEF Led
    <3>. QED
      BY <3>1, <3>2
  <2>. QED
    BY <2>1, <2>4, <2>7, <2>8, <1>10
<1>13. n \in A
  <2>1. \A i \in 0 .. n : i \in A
    BY <1>11, <1>12, Upward
  <2>. QED
    BY <2>1
<1>14. h[n] = durable /\ View(durable) /\ LogOK(durable)
  BY <1>4, <1>6 DEF Chain, Orderly, Inv, ViewsOK
<1>15. PICK s \in Seq(Accept) : Lists(w, n, s, e) /\ Promised(durable, s, e)
  BY <1>10, <1>13, <1>14 DEF Awaits
<1>16. s # <<>> /\ Head(s) = u
  BY <1>3, <1>5, <1>15, ListsNext
<1>. QED
  BY <1>2, <1>14, <1>15, <1>16, PromiseHolds

LEMMA ClosingStands ==
  ASSUME Inv, Orderly, Standing, loop = "ready", batch # <<>>, Head(batch).type = "closing"
  PROVE  ~Rejects(durable, Head(batch))
<1>1. PICK u \in Unit : u = Head(batch) /\ u = batch[1] /\ 1 \in 1 .. Len(batch)
  BY DEF Inv, PiecesOK
<1>2. PICK e \in Endpoint : e = u.e
  BY <1>1 DEF Unit, UnitFits, UnitOK
<1>3. machine.status[e] = "open"
  BY <1>1, <1>2 DEF Orderly, Meant
<1>4. durable.status[e] # "stopped"
  BY <1>3 DEF Standing, StandsFor
<1>. QED
  BY <1>1, <1>2, <1>4 DEF Rejects

-----------------------------------------------------------------------------
(* The machine gives a message to a worker (actorEndpointAdmission,         *)
(* core/machine.ts) and closes the actors of a scope by its own projection  *)
(* and its reservations; the assertions of core/projection.ts on            *)
(* actor_message_accepted and actor_closing are over the log's, which may   *)
(* be any number of records ahead: neither is ever refused.                 *)
THEOREM SpecDecisionsStand == Spec => []DecisionsStand
<1>1. Inv /\ Orderly /\ Standing => DecisionsStand
  BY AcceptStands, ClosingStands DEF DecisionsStand
<1>. QED
  BY <1>1, SpecStanding, PTL
=============================================================================
