-------------------------- MODULE ChartsSyncProofs --------------------------
(***************************************************************************)
(* Proofs about ChartsSync, for any panels, any number of them and any     *)
(* number of edits, changes and faults: every copy of the grid is sound,   *)
(* an echo keeps the edits made meanwhile, and with nothing out of order   *)
(* the screen shows the server's grid or the error.                        *)
(***************************************************************************)
EXTENDS ChartsSync, FiniteSetTheorems, SequenceTheorems, TLAPS

-----------------------------------------------------------------------------
(* The numbers of the panels. *)

\* A set of numbers with a bound has a largest member: nextPanelId folds the
\* ids with Math.max (useChartsSync.ts 36-43).
LEMMA Largest ==
    ASSUME NEW S, S \subseteq Nat, S # {}, NEW k \in Nat, \A m \in S : m <= k
    PROVE  \E n \in S : \A m \in S : m <= n
<1> DEFINE R == OpToRel(<, Nat)
           T == {n \in Nat : \A m \in S : m <= n}
<1>1. IsWellFoundedOn(R, Nat)
  BY NatLessThanWellFounded
<1>2. \A i, j \in Nat : i < j => <<i, j>> \in R
  BY DEF OpToRel
<1>3. k \in T /\ T \subseteq Nat
  OBVIOUS
<1>4. PICK n \in T : \A y \in T : ~(<<y, n>> \in R)
  <2> HIDE DEF R, T
  <2>1. QED
    BY <1>1, <1>3, WFMin
<1>5. n \in Nat /\ \A m \in S : m \in Nat /\ m <= n
  BY <1>4
<1>6. n \in S
  <2>1. SUFFICES ASSUME n \notin S PROVE FALSE
    OBVIOUS
  <2>2. \A m \in S : m <= n - 1
    BY <1>5, <2>1
  <2>3. n - 1 \in Nat
    <3>1. PICK m \in S : m \in Nat
      OBVIOUS
    <3>2. m <= n /\ m # n
      BY <1>5, <2>1
    <3>3. QED
      BY <1>5, <3>1, <3>2
  <2>4. n - 1 \in T
    BY <2>2, <2>3
  <2>5. <<n - 1, n>> \in R
    <3>1. n - 1 < n
      BY <1>5
    <3> HIDE DEF R
    <3>2. QED
      BY <1>2, <1>5, <2>3, <3>1
  <2>6. QED
    BY <1>4, <2>4, <2>5
<1>7. QED
  BY <1>5, <1>6

\* Panels with different ids up to k.
Distinct(g, k) ==
    /\ g \in Grids
    /\ \A i, j \in 1 .. Len(g) : g[i].id = g[j].id => i = j
    /\ \A i \in 1 .. Len(g) : g[i].id <= k

GridOK(g, k) == Distinct(g, k) /\ Len(g) \in 1 .. MaxPanels

\* What a panel of a grid is (types.ts 69-83).
LEMMA PanelFacts ==
    ASSUME NEW g \in Grids
    PROVE  /\ Len(g) \in Nat
           /\ \A i \in 1 .. Len(g) : /\ g[i] \in Panels /\ g[i].id \in Nat \ {0}
                                     /\ g[i].v \in Configs
<1>1. g \in Seq(Panels)
  BY DEF Grids
<1>2. Len(g) \in Nat /\ \A i \in 1 .. Len(g) : g[i] \in Panels
  BY <1>1, LenProperties, ElementOfSeq
<1>3. \A p \in Panels : p.id \in Nat \ {0} /\ p.v \in Configs
  BY DEF Panels
<1>4. QED
  BY <1>2, <1>3

\* The number of a new panel is one more than the largest (useChartsSync.ts
\* 36-43).
LEMMA NextIdFacts ==
    ASSUME NEW k \in 1 .. MaxEdits, NEW g, GridOK(g, k)
    PROVE  /\ NextPanelId(g) \in Nat \ {0}
           /\ NextPanelId(g) <= k + 1
           /\ \A i \in 1 .. Len(g) : g[i].id < NextPanelId(g)
<1>0. MaxEdits \in Nat /\ MaxPanels \in Nat \ {0} /\ k \in Nat
  BY ChartsAssumption
<1>1. /\ g \in Grids /\ Len(g) \in Nat /\ 1 \in 1 .. Len(g)
      /\ \A i \in 1 .. Len(g) : g[i].id \in Nat \ {0} /\ g[i].id <= k
  BY <1>0, PanelFacts DEF GridOK, Distinct
<1>2. /\ IdsOf(g) \subseteq Nat \ {0} /\ IdsOf(g) # {}
      /\ \A m \in IdsOf(g) : m <= k
  BY <1>1 DEF IdsOf
<1>3. PICK n \in IdsOf(g) : \A m \in IdsOf(g) : m <= n
  BY <1>0, <1>2, Largest
<1>4. \A m \in IdsOf(g) : m \in Nat /\ m < n + 1
  BY <1>2, <1>3
<1>5. n + 1 \in 1 .. 1 + MaxEdits + MaxPanels
  BY <1>0, <1>2, <1>3
<1>6. (n + 1) - 1 \in IdsOf(g) \cup {0}
  BY <1>2, <1>3
<1> DEFINE P(x) == x - 1 \in IdsOf(g) \cup {0} /\ \A m \in IdsOf(g) : m < x
<1>7. /\ NextPanelId(g) \in 1 .. 1 + MaxEdits + MaxPanels
      /\ P(NextPanelId(g))
  <2>1. P(n + 1)
    BY <1>4, <1>6
  <2>2. NextPanelId(g) = CHOOSE x \in 1 .. 1 + MaxEdits + MaxPanels : P(x)
    BY DEF NextPanelId
  <2> HIDE DEF P
  <2>3. QED
    BY <1>5, <2>1, <2>2
<1>8. \A i \in 1 .. Len(g) : g[i].id \in IdsOf(g)
  BY DEF IdsOf
<1>9. QED
  BY <1>0, <1>2, <1>7, <1>8

-----------------------------------------------------------------------------
(* What the reducer does to the grid. *)

\* A larger bound on the ids is a bound.
LEMMA GridGrows ==
    ASSUME NEW k \in Nat, NEW l \in Nat, k <= l, NEW g, GridOK(g, k)
    PROVE  GridOK(g, l)
BY PanelFacts DEF GridOK, Distinct

\* Inserting a panel (useChartsSync.ts 103-110, 115-123).
LEMMA InsertedFacts ==
    ASSUME NEW g \in Grids, NEW i \in 0 .. Len(g), NEW p \in Panels
    PROVE  /\ InsertedAt(g, i, p) \in Grids
           /\ Len(InsertedAt(g, i, p)) = Len(g) + 1
           /\ \A j \in 1 .. Len(g) + 1 :
                InsertedAt(g, i, p)[j] = IF j <= i THEN g[j]
                                         ELSE IF j = i + 1 THEN p ELSE g[j - 1]
<1> DEFINE a == SubSeq(g, 1, i)
           b == <<p>>
           c == SubSeq(g, i + 1, Len(g))
<1>1. Len(g) \in Nat /\ \A j \in 1 .. Len(g) : g[j] \in Panels
  BY PanelFacts
<1>2. a \in Seq(Panels) /\ Len(a) = i /\ \A j \in 1 .. i : a[j] = g[j]
  <2>1. \A j \in 1 .. i : g[j] \in Panels
    BY <1>1
  <2>2. /\ SubSeq(g, 1, i) \in Seq(Panels)
        /\ Len(SubSeq(g, 1, i)) = IF 1 <= i THEN i - 1 + 1 ELSE 0
        /\ \A j \in 1 .. i - 1 + 1 : SubSeq(g, 1, i)[j] = g[1 + j - 1]
    BY <1>1, <2>1, SubSeqProperties
  <2>3. \A j \in 1 .. i : a[j] = g[j]
    <3>1. SUFFICES ASSUME NEW j \in 1 .. i PROVE a[j] = g[j]
      OBVIOUS
    <3>2. 1 + j - 1 = j /\ j \in 1 .. i - 1 + 1
      BY <1>1
    <3>3. QED
      BY <2>2, <3>2
  <2>4. QED
    BY <1>1, <2>2, <2>3
<1>3. b \in Seq(Panels) /\ Len(b) = 1 /\ b[1] = p
  OBVIOUS
<1>4. c \in Seq(Panels) /\ Len(c) = Len(g) - i
      /\ \A j \in 1 .. Len(g) - i : c[j] = g[i + j]
  <2>1. \A j \in i + 1 .. Len(g) : g[j] \in Panels
    BY <1>1
  <2>2. /\ c \in Seq(Panels)
        /\ Len(c) = IF i + 1 <= Len(g) THEN Len(g) - (i + 1) + 1 ELSE 0
        /\ \A j \in 1 .. Len(g) - (i + 1) + 1 : c[j] = g[(i + 1) + j - 1]
    BY <1>1, <2>1, SubSeqProperties
  <2>3. \A j \in 1 .. Len(g) - i : c[j] = g[i + j]
    <3>1. SUFFICES ASSUME NEW j \in 1 .. Len(g) - i PROVE c[j] = g[i + j]
      OBVIOUS
    <3>2. (i + 1) + j - 1 = i + j /\ j \in 1 .. Len(g) - (i + 1) + 1
      BY <1>1
    <3> HIDE DEF c
    <3>3. QED
      BY <2>2, <3>2
  <2>4. QED
    BY <1>1, <2>2, <2>3
<1> HIDE DEF a, b, c
<1>5. /\ a \o b \in Seq(Panels) /\ Len(a \o b) = i + 1
      /\ \A j \in 1 .. i + 1 : (a \o b)[j] = IF j <= i THEN g[j] ELSE p
  BY <1>1, <1>2, <1>3, ConcatProperties
<1>6. /\ (a \o b) \o c \in Seq(Panels)
      /\ Len((a \o b) \o c) = (i + 1) + (Len(g) - i)
      /\ \A j \in 1 .. (i + 1) + (Len(g) - i) :
           ((a \o b) \o c)[j] = IF j <= i + 1 THEN (a \o b)[j] ELSE c[j - (i + 1)]
  BY <1>4, <1>5, ConcatProperties
<1>7. \A j \in 1 .. Len(g) + 1 : j > i + 1 => c[j - (i + 1)] = g[j - 1]
  <2>1. SUFFICES ASSUME NEW j \in 1 .. Len(g) + 1, j > i + 1
                 PROVE  c[j - (i + 1)] = g[j - 1]
    OBVIOUS
  <2>2. j - (i + 1) \in 1 .. Len(g) - i /\ i + (j - (i + 1)) = j - 1
    BY <1>1, <2>1
  <2>3. QED
    BY <1>4, <2>2
<1>8. InsertedAt(g, i, p) = (a \o b) \o c
  BY DEF InsertedAt, a, b, c
<1>9. (i + 1) + (Len(g) - i) = Len(g) + 1
  BY <1>1
<1>10. ASSUME NEW j \in 1 .. Len(g) + 1
       PROVE  ((a \o b) \o c)[j] = IF j <= i THEN g[j]
                                   ELSE IF j = i + 1 THEN p ELSE g[j - 1]
  <2>1. ((a \o b) \o c)[j] = IF j <= i + 1 THEN (a \o b)[j] ELSE c[j - (i + 1)]
    BY <1>6, <1>9
  <2>2. CASE j <= i + 1
    <3>1. j \in 1 .. i + 1
      BY <2>2
    <3>2. QED
      BY <1>5, <2>1, <2>2, <3>1
  <2>3. CASE j > i + 1
    <3>1. ~(j <= i + 1) /\ ~(j <= i) /\ j # i + 1
      BY <2>3
    <3>2. QED
      BY <1>7, <2>1, <2>3, <3>1
  <2>4. j <= i + 1 \/ j > i + 1
    OBVIOUS
  <2>5. QED
    BY <2>2, <2>3, <2>4
<1>11. QED
  BY <1>6, <1>8, <1>9, <1>10 DEF Grids

\* Taking a panel out (useChartsSync.ts 111-123).
LEMMA RemovedFacts ==
    ASSUME NEW g \in Grids, NEW i \in 1 .. Len(g)
    PROVE  /\ RemovedAt(g, i) \in Grids
           /\ Len(RemovedAt(g, i)) = Len(g) - 1
           /\ \A j \in 1 .. Len(g) - 1 :
                RemovedAt(g, i)[j] = IF j < i THEN g[j] ELSE g[j + 1]
<1> DEFINE a == SubSeq(g, 1, i - 1)
           c == SubSeq(g, i + 1, Len(g))
<1>1. Len(g) \in Nat /\ \A j \in 1 .. Len(g) : g[j] \in Panels
  BY PanelFacts
<1>2. a \in Seq(Panels) /\ Len(a) = i - 1 /\ \A j \in 1 .. i - 1 : a[j] = g[j]
  <2>1. \A j \in 1 .. i - 1 : g[j] \in Panels
    BY <1>1
  <2>2. /\ a \in Seq(Panels)
        /\ Len(a) = IF 1 <= i - 1 THEN (i - 1) - 1 + 1 ELSE 0
        /\ \A j \in 1 .. (i - 1) - 1 + 1 : a[j] = g[1 + j - 1]
    BY <1>1, <2>1, SubSeqProperties
  <2>3. \A j \in 1 .. i - 1 : a[j] = g[j]
    <3>1. SUFFICES ASSUME NEW j \in 1 .. i - 1 PROVE a[j] = g[j]
      OBVIOUS
    <3>2. 1 + j - 1 = j /\ j \in 1 .. (i - 1) - 1 + 1
      BY <1>1
    <3> HIDE DEF a
    <3>3. QED
      BY <2>2, <3>2
  <2>4. QED
    BY <1>1, <2>2, <2>3
<1>3. c \in Seq(Panels) /\ Len(c) = Len(g) - i
      /\ \A j \in 1 .. Len(g) - i : c[j] = g[i + j]
  <2>1. \A j \in i + 1 .. Len(g) : g[j] \in Panels
    BY <1>1
  <2>2. /\ c \in Seq(Panels)
        /\ Len(c) = IF i + 1 <= Len(g) THEN Len(g) - (i + 1) + 1 ELSE 0
        /\ \A j \in 1 .. Len(g) - (i + 1) + 1 : c[j] = g[(i + 1) + j - 1]
    BY <1>1, <2>1, SubSeqProperties
  <2>3. \A j \in 1 .. Len(g) - i : c[j] = g[i + j]
    <3>1. SUFFICES ASSUME NEW j \in 1 .. Len(g) - i PROVE c[j] = g[i + j]
      OBVIOUS
    <3>2. (i + 1) + j - 1 = i + j /\ j \in 1 .. Len(g) - (i + 1) + 1
      BY <1>1
    <3> HIDE DEF c
    <3>3. QED
      BY <2>2, <3>2
  <2>4. QED
    BY <1>1, <2>2, <2>3
<1> HIDE DEF a, c
<1>4. /\ a \o c \in Seq(Panels)
      /\ Len(a \o c) = (i - 1) + (Len(g) - i)
      /\ \A j \in 1 .. (i - 1) + (Len(g) - i) :
           (a \o c)[j] = IF j <= i - 1 THEN a[j] ELSE c[j - (i - 1)]
  <2>1. /\ a \o c \in Seq(Panels) /\ Len(a \o c) = Len(a) + Len(c)
        /\ \A j \in 1 .. Len(a) + Len(c) :
             (a \o c)[j] = IF j <= Len(a) THEN a[j] ELSE c[j - Len(a)]
    BY <1>2, <1>3, ConcatProperties
  <2>2. QED
    BY <1>2, <1>3, <2>1
<1>5. (i - 1) + (Len(g) - i) = Len(g) - 1
  BY <1>1
<1>6. ASSUME NEW j \in 1 .. Len(g) - 1
      PROVE  (a \o c)[j] = IF j < i THEN g[j] ELSE g[j + 1]
  <2>1. (a \o c)[j] = IF j <= i - 1 THEN a[j] ELSE c[j - (i - 1)]
    BY <1>4, <1>5
  <2>2. CASE j < i
    <3>1. j \in 1 .. i - 1
      BY <2>2
    <3>2. QED
      BY <1>2, <2>1, <2>2, <3>1
  <2>3. CASE j >= i
    <3>1. j - (i - 1) \in 1 .. Len(g) - i /\ i + (j - (i - 1)) = j + 1
      BY <1>1, <2>3
    <3>2. ~(j <= i - 1) /\ ~(j < i)
      BY <2>3
    <3>3. QED
      BY <1>3, <2>1, <3>1, <3>2
  <2>4. j < i \/ j >= i
    OBVIOUS
  <2>5. QED
    BY <2>2, <2>3, <2>4
<1>7. RemovedAt(g, i) = a \o c
  BY DEF RemovedAt, a, c
<1>8. QED
  BY <1>4, <1>5, <1>6, <1>7 DEF Grids

\* A grid stays one of different panels when a panel with a new id comes in ...
LEMMA InsertedIsDistinct ==
    ASSUME NEW k \in Nat, NEW g, Distinct(g, k), NEW i \in 0 .. Len(g),
           NEW p \in Panels, p.id <= k, \A j \in 1 .. Len(g) : g[j].id # p.id
    PROVE  Distinct(InsertedAt(g, i, p), k) /\ Len(InsertedAt(g, i, p)) = Len(g) + 1
<1>1. g \in Grids /\ Len(g) \in Nat /\ p.id \in Nat
  BY PanelFacts DEF Distinct, Panels
<1>2. PICK h \in Grids : h = InsertedAt(g, i, p)
  BY <1>1, InsertedFacts
<1>3. /\ Len(h) = Len(g) + 1
      /\ \A j \in 1 .. Len(g) + 1 : h[j] = IF j <= i THEN g[j]
                                           ELSE IF j = i + 1 THEN p ELSE g[j - 1]
  BY <1>1, <1>2, InsertedFacts
\* A panel of the new grid is the new one or the one that was in its place.
<1>4. \A j \in 1 .. Len(h) :
         \/ (j = i + 1 /\ h[j] = p)
         \/ (\E x \in 1 .. Len(g) : /\ h[j] = g[x]
                                    /\ (x <= i /\ j = x) \/ (x > i /\ j = x + 1))
  <2>0. SUFFICES ASSUME NEW j \in 1 .. Len(h)
                 PROVE  \/ (j = i + 1 /\ h[j] = p)
                        \/ (\E x \in 1 .. Len(g) :
                               /\ h[j] = g[x]
                               /\ (x <= i /\ j = x) \/ (x > i /\ j = x + 1))
    OBVIOUS
  <2>1. /\ h[j] = IF j <= i THEN g[j] ELSE IF j = i + 1 THEN p ELSE g[j - 1]
        /\ j \in 1 .. Len(g) + 1
    BY <1>3
  <2>2. CASE j <= i
    <3>1. j \in 1 .. Len(g)
      BY <1>1, <2>2
    <3>2. QED
      BY <2>1, <2>2, <3>1
  <2>3. CASE j = i + 1
    <3>1. ~(j <= i)
      BY <2>3
    <3>2. QED
      BY <2>1, <2>3, <3>1
  <2>4. CASE j > i + 1
    <3>1. ~(j <= i) /\ j # i + 1 /\ j - 1 > i /\ j = (j - 1) + 1 /\ j - 1 \in 1 .. Len(g)
      BY <1>1, <2>1, <2>4
    <3>2. h[j] = g[j - 1]
      BY <2>1, <3>1
    <3>3. QED
      BY <3>1, <3>2
  <2>5. j <= i \/ j = i + 1 \/ j > i + 1
    BY <2>1
  <2>6. QED
    BY <2>2, <2>3, <2>4, <2>5
<1>5. ASSUME NEW a \in 1 .. Len(h), NEW b \in 1 .. Len(h), h[a].id = h[b].id
      PROVE  a = b
  <2>1. \A x, y \in 1 .. Len(g) : g[x].id = g[y].id => x = y
    BY DEF Distinct
  <2>2. CASE a = i + 1 /\ h[a] = p
    <3>1. CASE b = i + 1 /\ h[b] = p
      BY <2>2, <3>1
    <3>2. ASSUME NEW x \in 1 .. Len(g), h[b] = g[x] PROVE FALSE
      <4>1. g[x].id = p.id
        BY <1>5, <2>2, <3>2
      <4>2. QED
        BY <4>1
    <3>3. QED
      BY <1>1, <1>3, <1>4, <3>1, <3>2
  <2>3. CASE b = i + 1 /\ h[b] = p
    <3>1. CASE a = i + 1 /\ h[a] = p
      BY <2>3, <3>1
    <3>2. ASSUME NEW x \in 1 .. Len(g), h[a] = g[x] PROVE FALSE
      <4>1. g[x].id = p.id
        BY <1>5, <2>3, <3>2
      <4>2. QED
        BY <4>1
    <3>3. QED
      BY <1>1, <1>3, <1>4, <3>1, <3>2
  <2>4. CASE ~(a = i + 1 /\ h[a] = p) /\ ~(b = i + 1 /\ h[b] = p)
    <3>1. PICK x \in 1 .. Len(g) : /\ h[a] = g[x]
                                   /\ (x <= i /\ a = x) \/ (x > i /\ a = x + 1)
      BY <1>4, <2>4
    <3>2. PICK y \in 1 .. Len(g) : /\ h[b] = g[y]
                                   /\ (y <= i /\ b = y) \/ (y > i /\ b = y + 1)
      BY <1>4, <2>4
    <3>3. x = y
      <4>1. g[x].id = g[y].id
        <5>1. h[a] = g[x] /\ h[b] = g[y]
          BY <3>1, <3>2
        <5>2. h[a].id = h[b].id
          BY <1>5
        <5>3. QED
          BY <5>1, <5>2, Zenon
      <4>2. QED
        BY <2>1, <4>1
    <3>4. QED
      BY <3>1, <3>2, <3>3
  <2>5. QED
    BY <2>2, <2>3, <2>4
<1>7. ASSUME NEW j \in 1 .. Len(h) PROVE h[j].id <= k
  <2>1. \A x \in 1 .. Len(g) : g[x].id <= k
    BY DEF Distinct
  <2>2. QED
    BY <1>1, <1>3, <1>4, <2>1
<1>8. QED
  BY <1>2, <1>3, <1>5, <1>7 DEF Distinct

\* ... and when one leaves, whose id no panel has then.
LEMMA RemovedIsDistinct ==
    ASSUME NEW k \in Nat, NEW g, Distinct(g, k), NEW i \in 1 .. Len(g)
    PROVE  /\ Distinct(RemovedAt(g, i), k) /\ Len(RemovedAt(g, i)) = Len(g) - 1
           /\ \A j \in 1 .. Len(RemovedAt(g, i)) : RemovedAt(g, i)[j].id # g[i].id
<1>1. g \in Grids /\ Len(g) \in Nat
  BY PanelFacts DEF Distinct
<1>2. PICK h \in Grids : h = RemovedAt(g, i)
  BY <1>1, RemovedFacts
<1>3. /\ Len(h) = Len(g) - 1
      /\ \A j \in 1 .. Len(g) - 1 : h[j] = IF j < i THEN g[j] ELSE g[j + 1]
  BY <1>1, <1>2, RemovedFacts
<1>4. \A x, y \in 1 .. Len(g) : g[x].id = g[y].id => x = y
  BY DEF Distinct
<1>5. \A j \in 1 .. Len(h) : j \in 1 .. Len(g) /\ j + 1 \in 1 .. Len(g)
  BY <1>1, <1>3
<1>6. ASSUME NEW j \in 1 .. Len(h) PROVE h[j].id <= k /\ h[j].id # g[i].id
  <2>1. h[j] = IF j < i THEN g[j] ELSE g[j + 1]
    BY <1>3
  <2>2. \A x \in 1 .. Len(g) : g[x].id <= k
    BY DEF Distinct
  <2>3. QED
    BY <1>1, <1>4, <1>5, <2>1, <2>2
<1>7. ASSUME NEW a \in 1 .. Len(h), NEW b \in 1 .. Len(h), h[a].id = h[b].id
      PROVE  a = b
  <2>1. /\ h[a] = IF a < i THEN g[a] ELSE g[a + 1]
        /\ h[b] = IF b < i THEN g[b] ELSE g[b + 1]
    BY <1>3
  <2>2. QED
    BY <1>1, <1>4, <1>5, <1>7, <2>1
<1>8. QED
  BY <1>2, <1>3, <1>6, <1>7 DEF Distinct

\* A grid of different panels has as many ids as panels (useChartsSync.ts 60-61).
LEMMA DistinctIsSound ==
    ASSUME NEW k \in Nat, NEW g, GridOK(g, k)
    PROVE  Sound(g)
<1>1. /\ g \in Grids /\ Len(g) \in Nat /\ Len(g) \in 1 .. MaxPanels
      /\ \A i, j \in 1 .. Len(g) : g[i].id = g[j].id => i = j
  BY PanelFacts DEF GridOK, Distinct
<1> DEFINE f == [i \in 1 .. Len(g) |-> g[i].id]
<1>2. f \in Injection(1 .. Len(g), IdsOf(g))
  <2>1. f \in [1 .. Len(g) -> IdsOf(g)]
    BY DEF IdsOf
  <2>2. \A i, j \in 1 .. Len(g) : f[i] = f[j] => i = j
    BY <1>1
  <2> HIDE DEF f
  <2>3. QED
    BY <2>1, <2>2 DEF Injection, IsInjective
<1>3. f \in Surjection(1 .. Len(g), IdsOf(g))
  <2>1. f \in [1 .. Len(g) -> IdsOf(g)]
    BY DEF IdsOf
  <2>2. \A n \in IdsOf(g) : \E i \in 1 .. Len(g) : f[i] = n
    BY DEF IdsOf
  <2> HIDE DEF f
  <2>3. QED
    BY <2>1, <2>2 DEF Surjection
<1>4. ExistsBijection(1 .. Len(g), IdsOf(g))
  BY <1>2, <1>3 DEF ExistsBijection, Bijection
<1>5. Cardinality(IdsOf(g)) = Len(g)
  BY <1>1, <1>4, FS_CountingElements
<1>6. QED
  BY <1>1, <1>5 DEF Sound

\* A change of what a panel shows keeps the ids (useChartsSync.ts 71-89,
\* metric_lab.py 2260-2327).
LEMMA EditedFacts ==
    ASSUME NEW k \in Nat, NEW g, GridOK(g, k), NEW h \in Edited(g)
    PROVE  GridOK(h, k)
<1>1. /\ g \in Grids /\ Distinct(g, k)
      /\ Len(g) \in Nat /\ Len(g) \in 1 .. MaxPanels
      /\ \A i \in 1 .. Len(g) : g[i] \in Panels
  BY PanelFacts DEF GridOK, Distinct
<1>2. ASSUME NEW i \in 1 .. Len(g), NEW v \in Configs, h = [g EXCEPT ![i].v = v]
      PROVE  GridOK(h, k)
  <2>1. g \in Seq(Panels)
    BY <1>1 DEF Grids
  <2>2. PICK p \in Panels : p = [g[i] EXCEPT !.v = v] /\ p.id = g[i].id
    <3>1. PICK q \in Panels : q = g[i]
      BY <1>1
    <3>2. [q EXCEPT !.v = v] \in Panels /\ [q EXCEPT !.v = v].id = q.id
      BY DEF Panels
    <3>3. QED
      BY <3>1, <3>2
  <2>3. h = [g EXCEPT ![i] = p]
    BY <1>2, <2>1, <2>2
  <2>4. /\ h \in Seq(Panels) /\ Len(h) = Len(g)
        /\ \A j \in 1 .. Len(g) : h[j] = IF j = i THEN p ELSE g[j]
    BY <2>1, <2>3, ExceptSeq
  <2>5. \A j \in 1 .. Len(g) : h[j].id = g[j].id
    BY <2>2, <2>4
  <2>6. QED
    BY <1>1, <2>4, <2>5 DEF GridOK, Distinct, Grids
<1>3. QED
  BY <1>2 DEF Edited

\* An edit of a sound grid makes a sound grid, whose ids are at most one larger
\* (panelsReducer, useChartsSync.ts 62-127).
LEMMA ReducerFacts ==
    ASSUME NEW k \in 1 .. MaxEdits, NEW g, GridOK(g, k), NEW h \in PanelsReducer(g)
    PROVE  GridOK(h, k + 1)
<1>0. /\ MaxEdits \in Nat /\ MaxPanels \in Nat \ {0} /\ k \in Nat /\ k + 1 \in Nat
      /\ k <= k + 1
  BY ChartsAssumption
<1>1. /\ g \in Grids /\ Distinct(g, k) /\ Distinct(g, k + 1)
      /\ Len(g) \in Nat /\ Len(g) \in 1 .. MaxPanels
      /\ \A i \in 1 .. Len(g) : /\ g[i] \in Panels /\ g[i].id \in Nat \ {0}
                                /\ g[i].v \in Configs
  BY <1>0, PanelFacts, GridGrows DEF GridOK, Distinct
<1>n. /\ NextPanelId(g) \in Nat \ {0} /\ NextPanelId(g) <= k + 1
      /\ \A i \in 1 .. Len(g) : g[i].id # NextPanelId(g)
  BY <1>1, NextIdFacts
<1>p. \A v \in Configs : /\ [id |-> NextPanelId(g), v |-> v] \in Panels
                         /\ [id |-> NextPanelId(g), v |-> v].id = NextPanelId(g)
  BY <1>n DEF Panels
<1>e. CASE h \in Edited(g)
  BY <1>0, <1>e, EditedFacts, GridGrows
<1>a. CASE h \in Added(g)
  <2>1. PICK p \in Panels : /\ p = [id |-> NextPanelId(g), v |-> g[Len(g)].v]
                            /\ p.id = NextPanelId(g)
    <3>1. g[Len(g)].v \in Configs
      BY <1>1
    <3>2. QED
      BY <1>p, <3>1
  <2>2. h = Append(g, p) /\ Len(g) < MaxPanels
    BY <1>0, <1>1, <1>a, <2>1 DEF Added
  <2>3. /\ h \in Seq(Panels) /\ Len(h) = Len(g) + 1
        /\ \A j \in 1 .. Len(g) : h[j] = g[j]
        /\ h[Len(g) + 1] = p
    BY <1>1, <2>2, AppendProperties DEF Grids
  <2>4. \A j \in 1 .. Len(h) : j \in 1 .. Len(g) \/ j = Len(g) + 1
    BY <1>1, <2>3
  <2>5. \A i, j \in 1 .. Len(h) : h[i].id = h[j].id => i = j
    BY <1>1, <1>n, <2>1, <2>3, <2>4 DEF Distinct
  <2>6. \A i \in 1 .. Len(h) : h[i].id <= k + 1
    BY <1>1, <1>n, <2>1, <2>3, <2>4 DEF Distinct
  <2>7. Len(h) \in 1 .. MaxPanels
    BY <1>0, <1>1, <2>2, <2>3
  <2>8. QED
    BY <2>3, <2>5, <2>6, <2>7 DEF GridOK, Distinct, Grids
<1>d. CASE h \in Duplicated(g)
  <2>1. PICK i \in 1 .. Len(g) :
           h = InsertedAt(g, i, [id |-> NextPanelId(g), v |-> g[i].v])
    BY <1>d DEF Duplicated
  <2>2. Len(g) < MaxPanels
    BY <1>0, <1>1, <1>d DEF Duplicated
  <2>3. PICK p \in Panels : /\ p = [id |-> NextPanelId(g), v |-> g[i].v]
                            /\ p.id = NextPanelId(g)
    BY <1>1, <1>p
  <2>4. i \in 0 .. Len(g) /\ p.id <= k + 1 /\ \A j \in 1 .. Len(g) : g[j].id # p.id
    BY <1>1, <1>n, <2>3
  <2>5. Distinct(h, k + 1) /\ Len(h) = Len(g) + 1
    BY <1>0, <1>1, <2>1, <2>3, <2>4, InsertedIsDistinct
  <2>6. QED
    BY <1>0, <1>1, <2>2, <2>5 DEF GridOK
<1>r. CASE h \in Removed(g)
  <2>1. PICK i \in 1 .. Len(g) : h = RemovedAt(g, i)
    BY <1>r DEF Removed
  <2>2. Len(g) > 1
    BY <1>1, <1>r DEF Removed
  <2>3. Distinct(h, k + 1) /\ Len(h) = Len(g) - 1
    BY <1>0, <1>1, <2>1, RemovedIsDistinct
  <2>4. QED
    BY <1>0, <1>1, <2>2, <2>3 DEF GridOK
<1>m. CASE h \in Moved(g)
  <2>1. PICK ij \in (1 .. Len(g)) \X (1 .. Len(g)) :
           h = InsertedAt(RemovedAt(g, ij[1]), ij[2] - 1, g[ij[1]])
    BY <1>m DEF Moved
  <2>2. PICK i \in 1 .. Len(g), j \in 1 .. Len(g) :
           h = InsertedAt(RemovedAt(g, i), j - 1, g[i])
    BY <2>1
  <2>3. /\ Distinct(RemovedAt(g, i), k + 1) /\ Len(RemovedAt(g, i)) = Len(g) - 1
        /\ \A l \in 1 .. Len(RemovedAt(g, i)) : RemovedAt(g, i)[l].id # g[i].id
    BY <1>0, <1>1, RemovedIsDistinct
  <2>4. /\ j - 1 \in 0 .. Len(RemovedAt(g, i)) /\ g[i] \in Panels /\ g[i].id <= k + 1
    BY <1>1, <2>3 DEF Distinct
  <2>5. Distinct(h, k + 1) /\ Len(h) = (Len(g) - 1) + 1
    BY <1>0, <2>2, <2>3, <2>4, InsertedIsDistinct
  <2>6. QED
    BY <1>0, <1>1, <2>5 DEF GridOK
<1>q. QED
  BY <1>e, <1>a, <1>d, <1>r, <1>m DEF PanelsReducer

-----------------------------------------------------------------------------
(* Types, and every copy of the grid. *)

Call == [id : Nat, grid : Grids, prev : Grids,
         st : {"sent", "saved", "failed"}, at : Nat]

\* A panel's id is at most one more than the number of edits so far.
Bound == edits + 1

GridInv ==
    /\ GridOK(panels, Bound) /\ GridOK(last, Bound) /\ GridOK(server.grid, Bound)
    /\ agent = NoGrid \/ GridOK(agent, Bound)
    /\ \A c \in calls : GridOK(c.grid, Bound) /\ GridOK(c.prev, Bound)
    /\ \A m \in notes : GridOK(m.grid, Bound)
    /\ \A g \in late : GridOK(g, Bound)
    /\ edits <= MaxEdits

\* The grid of a load has one panel (MetricLabApp.tsx 255-268).
LEMMA FreshIsOK == \A k \in Nat : k >= 1 => GridOK(Fresh, k)
<1>1. [id |-> 1, v |-> FirstConfig] \in Panels
  BY ChartsAssumption DEF Panels
<1>2. Fresh \in Seq(Panels) /\ Len(Fresh) = 1 /\ Fresh[1].id = 1
  BY <1>1 DEF Fresh
<1>3. Len(Fresh) \in 1 .. MaxPanels
  BY <1>2, ChartsAssumption
<1>4. \A i \in 1 .. Len(Fresh) : i = 1
  BY <1>2
<1>5. QED
  BY <1>2, <1>3, <1>4 DEF GridOK, Distinct, Grids

\* No grid is a grid of no panels (metric_lab.py 2203-2260).
LEMMA NoGridType == NoGrid \in Grids
BY DEF NoGrid, Grids

\* The lab opens with one panel and nothing under way (useChartsSync.ts 166-174).
LEMMA InitTypes == Init => TypeOK /\ GridInv
<1> SUFFICES ASSUME Init PROVE TypeOK /\ GridInv
  OBVIOUS
<1>1. edits = 0 /\ Bound \in Nat /\ Bound >= 1 /\ edits <= MaxEdits
  BY ChartsAssumption DEF Init, Bound
<1>2. GridOK(Fresh, Bound) /\ Fresh \in Grids
  BY <1>1, FreshIsOK DEF GridOK, Distinct
<1>3. /\ panels = Fresh /\ last = Fresh /\ agent = NoGrid /\ calls = {} /\ notes = {}
      /\ late = {}
  BY DEF Init
<1>4. server.grid = Fresh
  BY DEF Init
<1>5. GridInv
  BY <1>1, <1>2, <1>3, <1>4 DEF GridInv
<1>6. server \in [grid : Grids, rev : Nat, n : Nat]
  BY <1>2 DEF Init
<1>7. timer \in BOOLEAN /\ err \in BOOLEAN
  BY DEF Init
<1>8. rev \in Nat /\ seen \in Nat /\ edits \in Nat /\ foreign \in Nat /\ faults \in Nat
  BY DEF Init
<1>9. odd \subseteq {"overlap", "reorder"}
  BY DEF Init
<1>10. QED
  BY <1>2, <1>3, <1>5, <1>6, <1>7, <1>8, <1>9, NoGridType DEF TypeOK

\* Every step keeps the types, and every copy of the grid sound
\* (useChartsSync.ts 158-245, metric_lab.py 2203-2368).
LEMMA NextTypes == TypeOK /\ GridInv /\ [Next]_vars => TypeOK' /\ GridInv'
<1> SUFFICES ASSUME TypeOK, GridInv, [Next]_vars PROVE TypeOK' /\ GridInv'
  OBVIOUS
<1>b. /\ edits \in Nat /\ Bound \in Nat /\ Bound >= 1 /\ Bound = edits + 1
      /\ edits <= MaxEdits /\ MaxEdits \in Nat
  BY ChartsAssumption DEF TypeOK, GridInv, Bound
<1>f. GridOK(Fresh, Bound)
  BY <1>b, FreshIsOK
<1>g. \A g, k : GridOK(g, k) => g \in Grids
  BY DEF GridOK, Distinct
<1>c. \A c \in calls : c \in Call
  BY DEF TypeOK, Call
<1>m. \A m \in notes : m \in [grid : Grids, rev : Nat, at : Nat]
  BY DEF TypeOK
\* A step that is no edit: what is new of the grids is sound too.
<1>step. ASSUME UNCHANGED edits,
                GridOK(panels', Bound), GridOK(last', Bound),
                server' \in [grid : Grids, rev : Nat, n : Nat],
                GridOK(server'.grid, Bound),
                agent' = NoGrid \/ GridOK(agent', Bound),
                \A c \in calls' : c \in Call /\ GridOK(c.grid, Bound)
                                             /\ GridOK(c.prev, Bound),
                \A m \in notes' : m \in [grid : Grids, rev : Nat, at : Nat]
                                  /\ GridOK(m.grid, Bound),
                \A g \in late' : GridOK(g, Bound),
                timer' \in BOOLEAN, err' \in BOOLEAN,
                rev' \in Nat, seen' \in Nat, foreign' \in Nat, faults' \in Nat,
                odd' \subseteq {"overlap", "reorder"}
         PROVE  TypeOK' /\ GridInv'
  <2>1. Bound' = Bound
    BY <1>step DEF Bound
  <2>2. GridInv'
    BY <1>step, <2>1, <1>b DEF GridInv
  <2>3. panels' \in Grids /\ last' \in Grids /\ agent' \in Grids
    BY <1>step, <1>g, NoGridType
  <2>6. late' \subseteq Grids
    BY <1>step, <1>g
  <2>4. TypeOK'
    BY <1>step, <2>3, <2>6, <1>b DEF TypeOK, Call
  <2>5. QED
    BY <2>2, <2>4
\* What stays as it is.
<1>s. /\ GridOK(panels, Bound) /\ GridOK(last, Bound)
      /\ server \in [grid : Grids, rev : Nat, n : Nat]
      /\ GridOK(server.grid, Bound)
      /\ agent = NoGrid \/ GridOK(agent, Bound)
      /\ \A c \in calls : c \in Call /\ GridOK(c.grid, Bound) /\ GridOK(c.prev, Bound)
      /\ \A m \in notes : m \in [grid : Grids, rev : Nat, at : Nat]
                          /\ GridOK(m.grid, Bound)
      /\ \A g \in late : GridOK(g, Bound)
  BY <1>c, <1>m DEF GridInv, TypeOK
<1>t. timer \in BOOLEAN /\ err \in BOOLEAN
  BY DEF TypeOK
<1>u. /\ rev \in Nat /\ seen \in Nat /\ foreign \in Nat /\ faults \in Nat
      /\ odd \subseteq {"overlap", "reorder"}
  BY DEF TypeOK
<1>merge. ASSUME NEW g, GridOK(g, Bound), NEW r \in Nat, NEW n \in Nat, Merge(g, r, n)
          PROVE  /\ GridOK(panels', Bound) /\ GridOK(last', Bound)
                 /\ rev' \in Nat /\ seen' \in Nat /\ (timer' \in BOOLEAN)
  <2>1. GridOK(panels', Bound) /\ GridOK(last', Bound)
    BY <1>merge, <1>s DEF Merge
  <2>2. rev' \in Nat /\ seen' \in Nat
    BY <1>merge, <1>u DEF Merge
  <2>3. timer' \in BOOLEAN
    BY <1>merge DEF Merge
  <2>4. QED
    BY <2>1, <2>2, <2>3
<1>0. CASE UNCHANGED vars
  BY <1>0, <1>s, <1>t, <1>u, <1>step DEF vars
<1>1. CASE Edit
  <2>1. /\ edits < MaxEdits /\ edits' = edits + 1
        /\ UNCHANGED <<last, err, rev, calls, notes, server, agent, seen, odd,
                       foreign, faults, late>>
    BY <1>1 DEF Edit
  <2>2. PICK g \in PanelsReducer(panels) : panels' = g /\ timer' = (g # last)
    BY <1>1 DEF Edit
  <2>3. Bound \in 1 .. MaxEdits /\ Bound' = Bound + 1 /\ Bound' \in Nat /\ Bound <= Bound'
    BY <1>b, <2>1 DEF Bound
  <2>4. GridOK(panels', Bound')
    BY <1>s, <2>2, <2>3, ReducerFacts
  <2>5. \A h : GridOK(h, Bound) => GridOK(h, Bound')
    BY <1>b, <2>3, GridGrows
  <2>6. GridInv'
    BY <1>s, <1>b, <2>1, <2>4, <2>5 DEF GridInv
  <2>7. panels' \in Grids /\ (timer' \in BOOLEAN) /\ edits' \in Nat
    BY <1>b, <1>g, <2>1, <2>2, <2>4
  <2>8. TypeOK'
    BY <2>1, <2>7 DEF TypeOK
  <2>9. QED
    BY <2>6, <2>8
<1>2. CASE Send
  <2> DEFINE d == [id |-> edits, grid |-> panels, prev |-> last, st |-> "sent", at |-> 0]
  <2>1. /\ last' = panels /\ calls' = calls \cup {d} /\ timer' = FALSE
        /\ UNCHANGED <<panels, err, rev, notes, server, agent, seen, edits,
                       foreign, faults, late>>
    BY <1>2 DEF Send
  <2>2. odd' \subseteq {"overlap", "reorder"}
    BY <1>2, <1>u DEF Send
  <2>3. d \in Call /\ d.grid = panels /\ d.prev = last
    BY <1>b, <1>s, <1>g DEF Call
  <2>4. timer' \in BOOLEAN
    BY <2>1
  <2> HIDE DEF d
  <2>5. QED
    BY <2>1, <2>2, <2>3, <2>4, <1>s, <1>t, <1>u, <1>step
<1>3. CASE Retry
  <2>1. /\ timer' \in BOOLEAN
        /\ UNCHANGED <<panels, last, err, rev, calls, notes, server, agent, seen,
                       odd, edits, foreign, faults, late>>
    BY <1>3 DEF Retry
  <2>2. QED
    BY <2>1, <1>s, <1>t, <1>u, <1>step
<1>4. ASSUME NEW c \in calls, Saved(c) PROVE TypeOK' /\ GridInv'
  <2>1. /\ Merge(c.grid, rev, c.at) /\ calls' \subseteq calls /\ (err' \in BOOLEAN)
        /\ odd' = odd \cup Disordered(c.at)
        /\ UNCHANGED <<notes, server, agent, edits, foreign, faults, late>>
    BY <1>4 DEF Saved
  <2>2. c.at \in Nat
    BY <1>c DEF Call
  <2>3. odd' \subseteq {"overlap", "reorder"}
    BY <2>1, <1>u DEF Disordered
  <2>4. QED
    BY <2>1, <2>2, <2>3, <1>s, <1>u, <1>merge, <1>step
<1>5. ASSUME NEW c \in calls, SaveFails(c) PROVE TypeOK' /\ GridInv'
  <2>1. /\ last' = c.prev /\ calls' \subseteq calls /\ (err' \in BOOLEAN)
        /\ UNCHANGED <<panels, timer, rev, notes, server, agent, seen, odd, edits,
                       foreign, faults, late>>
    BY <1>5 DEF SaveFails
  <2>2. QED
    BY <2>1, <1>s, <1>t, <1>u, <1>step
<1>6. ASSUME NEW c \in calls, ServerSaves(c) PROVE TypeOK' /\ GridInv'
  <2>1. PICK d : d = [c EXCEPT !.st = "saved", !.at = server.n + 1]
    OBVIOUS
  <2>2. /\ server' = [server EXCEPT !.grid = c.grid, !.n = @ + 1]
        /\ calls' = (calls \ {c}) \cup {d}
        /\ UNCHANGED <<panels, last, timer, err, rev, notes, agent, seen, edits,
                       foreign, faults, late>>
    BY <1>6, <2>1 DEF ServerSaves
  <2>3. odd' \subseteq {"overlap", "reorder"}
    BY <1>6, <1>u DEF ServerSaves
  <2>0. server.n + 1 \in Nat /\ c \in Call
    BY <1>c, <1>s
  <2>4. d \in Call /\ d.grid = c.grid /\ d.prev = c.prev
    BY <2>0, <2>1 DEF Call
  <2>5. c.grid \in Grids
    BY <1>c DEF Call
  <2>6. server' \in [grid : Grids, rev : Nat, n : Nat] /\ server'.grid = c.grid
    <3>1. server' = [server EXCEPT !.grid = c.grid, !.n = server.n + 1]
      BY <2>2
    <3>2. QED
      BY <2>0, <2>5, <3>1, <1>s
  <2>7. QED
    BY <2>2, <2>3, <2>4, <2>6, <1>s, <1>t, <1>u, <1>step
<1>7. ASSUME NEW c \in calls, CallFails(c) PROVE TypeOK' /\ GridInv'
  <2>1. PICK d : d = [c EXCEPT !.st = "failed"]
    OBVIOUS
  <2>2. /\ calls' = (calls \ {c}) \cup {d} /\ faults' = faults + 1
        /\ UNCHANGED <<panels, last, timer, err, rev, notes, server, agent, seen,
                       odd, edits, foreign>>
        /\ \A g \in late' : g \in late \/ g = c.grid
    BY <1>7, <2>1 DEF CallFails
  <2>3. d \in Call /\ d.grid = c.grid /\ d.prev = c.prev
    BY <2>1, <1>c DEF Call
  <2>4. faults' \in Nat
    BY <2>2, <1>u
  <2>5. QED
    BY <2>2, <2>3, <2>4, <1>s, <1>t, <1>u, <1>step
<1>8. ASSUME NEW m \in notes, Notified(m) PROVE TypeOK' /\ GridInv'
  <2>1. /\ Merge(m.grid, m.rev, m.at) /\ notes' \subseteq notes
        /\ odd' = odd \cup Disordered(m.at)
                      \cup (IF calls = {} THEN {} ELSE {"overlap"})
        /\ UNCHANGED <<calls, server, agent, edits, foreign, faults, late>>
    BY <1>8 DEF Notified
  <2>2. err' \in BOOLEAN
    BY <1>8 DEF Notified
  <2>3. m.at \in Nat /\ m.rev \in Nat
    BY <1>m
  <2>4. odd' \subseteq {"overlap", "reorder"}
    BY <2>1, <1>u DEF Disordered
  <2>5. QED
    BY <2>1, <2>2, <2>3, <2>4, <1>s, <1>u, <1>merge, <1>step
<1>9. CASE AgentReads
  <2>1. /\ agent' = server.grid /\ foreign' = foreign + 1
        /\ UNCHANGED <<panels, last, timer, err, rev, calls, notes, server, seen,
                       odd, edits, faults, late>>
    BY <1>9 DEF AgentReads
  <2>2. foreign' \in Nat
    BY <2>1, <1>u
  <2>3. QED
    BY <2>1, <2>2, <1>s, <1>t, <1>u, <1>step
<1>10. CASE AgentWrites
  <2>1. PICK g \in Edited(agent) :
          /\ server' = [server EXCEPT !.grid = g, !.n = @ + 1]
          /\ notes' = notes \cup {Note(g, server.rev, server.n + 1)}
    BY <1>10 DEF AgentWrites
  <2>2. /\ agent' = NoGrid /\ GridOK(agent, Bound)
        /\ UNCHANGED <<panels, last, timer, err, rev, calls, seen, odd, edits,
                       foreign, faults, late>>
    BY <1>10, <1>s DEF AgentWrites
  <2>3. GridOK(g, Bound)
    BY <1>b, <2>1, <2>2, EditedFacts
  <2>4. server.rev \in Nat /\ server.n + 1 \in Nat /\ g \in Grids
    BY <1>s, <1>g, <2>3
  <2>5. server' \in [grid : Grids, rev : Nat, n : Nat] /\ server'.grid = g
    BY <1>s, <2>1, <2>4
  <2>6. \A m \in notes' : m \in [grid : Grids, rev : Nat, at : Nat]
                          /\ GridOK(m.grid, Bound)
    <3>1. \A m \in notes' : m \in notes \/ m = [grid |-> g, rev |-> server.rev,
                                                at |-> server.n + 1]
      BY <2>1 DEF Note
    <3>2. QED
      BY <3>1, <2>3, <2>4, <1>s
  <2>7. QED
    BY <2>2, <2>3, <2>5, <2>6, <1>s, <1>t, <1>u, <1>step
<1>11. CASE Reload
  <2>1. /\ server' = [grid |-> Fresh, rev |-> server.rev + 1, n |-> server.n + 1]
        /\ notes' = notes \cup {Note(Fresh, server.rev + 1, server.n + 1)}
        /\ foreign' = foreign + 1
        /\ UNCHANGED <<panels, last, timer, err, rev, calls, agent, seen, odd,
                       edits, faults, late>>
    BY <1>11 DEF Reload
  <2>2. server.rev + 1 \in Nat /\ server.n + 1 \in Nat /\ Fresh \in Grids
        /\ foreign' \in Nat
    BY <1>s, <1>f, <1>g, <1>u, <2>1
  <2>3. server' \in [grid : Grids, rev : Nat, n : Nat] /\ server'.grid = Fresh
    BY <2>1, <2>2
  <2>4. \A m \in notes' : m \in [grid : Grids, rev : Nat, at : Nat]
                          /\ GridOK(m.grid, Bound)
    <3>1. \A m \in notes' : m \in notes \/ m = [grid |-> Fresh, rev |-> server.rev + 1,
                                                at |-> server.n + 1]
      BY <2>1 DEF Note
    <3>2. QED
      BY <3>1, <2>2, <1>s, <1>f
  <2>5. QED
    BY <2>1, <2>2, <2>3, <2>4, <1>s, <1>t, <1>u, <1>f, <1>step
<1>12. ASSUME NEW g \in late, SavesLate(g) PROVE TypeOK' /\ GridInv'
  <2>1. /\ late' \subseteq late /\ server' = [server EXCEPT !.grid = g, !.n = @ + 1]
        /\ UNCHANGED <<panels, last, timer, err, rev, calls, notes, agent, seen,
                       edits, foreign, faults>>
    BY <1>12 DEF SavesLate
  <2>2. odd' \subseteq {"overlap", "reorder"}
    BY <1>12, <1>u DEF SavesLate
  <2>3. GridOK(g, Bound) /\ g \in Grids /\ server.n + 1 \in Nat
    BY <1>g, <1>s
  <2>4. server' \in [grid : Grids, rev : Nat, n : Nat] /\ server'.grid = g
    BY <2>1, <2>3, <1>s
  <2>5. QED
    BY <2>1, <2>2, <2>3, <2>4, <1>s, <1>t, <1>u, <1>step
<1>13. QED
  BY <1>0, <1>1, <1>2, <1>3, <1>4, <1>5, <1>6, <1>7, <1>8, <1>9, <1>10, <1>11, <1>12
     DEF Next

-----------------------------------------------------------------------------
(* What the screen knows of the server. *)

\* A payload that carries the number of the newest write carries the server's
\* grid; a save that was not made has no number, one that was answered has one.
Numbered ==
    /\ \A m \in notes : m.at <= server.n /\ (m.at = server.n => m.grid = server.grid)
    /\ \A c \in calls : /\ c.at <= server.n
                        /\ c.at = server.n /\ c.at # 0 => c.grid = server.grid
                        /\ c.st = "sent" => c.at = 0
                        /\ c.st = "saved" => c.at # 0

\* With nothing out of order at most one save is under way, and the server is
\* believed to hold the grid it was sent.
OneSave ==
    /\ \A c, d \in calls : c = d
    /\ \A c \in calls : last = c.grid
    /\ ~timer /\ (~err \/ calls # {}) => panels = last

\* The newest write has been heard of, or it will be, or its echo was lost and
\* the error is shown.
SeenAll    == seen = server.n /\ (calls = {} /\ ~err => last = server.grid)
NoteToCome == \E m \in notes : m.at = server.n
EchoToCome == notes = {} /\ \E c \in calls : c.at = server.n /\ c.at # 0
EchoLost   == err /\ notes = {} /\ \A c \in calls : c.at = 0

Informed == SeenAll \/ NoteToCome \/ EchoToCome \/ EchoLost

SyncInv == Numbered /\ (odd = {} => OneSave /\ Informed)

\* The lab opens with the server's grid on screen (useChartsSync.ts 166-174).
LEMMA InitSync == Init => SyncInv
<1> SUFFICES ASSUME Init PROVE SyncInv
  OBVIOUS
<1>1. Numbered /\ OneSave
  BY DEF Init, Numbered, OneSave
<1>2. SeenAll
  BY DEF Init, SeenAll
<1>3. QED
  BY <1>1, <1>2 DEF SyncInv, Informed

\* Every step keeps what the screen knows (useChartsSync.ts 158-245,
\* metric_lab.py 2203-2368).
LEMMA NextSync == TypeOK /\ SyncInv /\ [Next]_vars => SyncInv'
<1> SUFFICES ASSUME TypeOK, SyncInv, [Next]_vars PROVE SyncInv'
  OBVIOUS
<1>t. /\ server.n \in Nat /\ seen \in Nat /\ rev \in Nat
      /\ server \in [grid : Grids, rev : Nat, n : Nat]
      /\ \A c \in calls : c.at \in Nat /\ c \in Call
      /\ \A m \in notes : m.at \in Nat
  BY DEF TypeOK, Call
<1>n. Numbered
  BY DEF SyncInv
<1>o. ASSUME odd = {} PROVE OneSave /\ Informed
  BY <1>o DEF SyncInv
\* Only the order of later events can mend what is out of order now.
<1>k. ASSUME odd \subseteq odd', odd' = {} PROVE OneSave /\ Informed
  BY <1>k, <1>o
<1>0. CASE UNCHANGED vars
  BY <1>0 DEF vars, SyncInv, Numbered, OneSave, Informed, SeenAll, NoteToCome,
              EchoToCome, EchoLost
<1>1. CASE Edit
  <2>1. /\ timer' = (panels' # last)
        /\ UNCHANGED <<last, err, rev, calls, notes, server, agent, seen, odd>>
    BY <1>1 DEF Edit
  <2>2. Numbered'
    BY <2>1, <1>n DEF Numbered
  <2>3. ASSUME odd' = {} PROVE OneSave' /\ Informed'
    <3>1. OneSave /\ Informed
      BY <2>1, <2>3, <1>k
    <3>2. OneSave'
      BY <2>1, <3>1 DEF OneSave
    <3>3. Informed'
      BY <2>1, <3>1 DEF Informed, SeenAll, NoteToCome, EchoToCome, EchoLost
    <3>4. QED
      BY <3>2, <3>3
  <2>4. QED
    BY <2>2, <2>3 DEF SyncInv
<1>2. CASE Send
  <2>1. PICK d : d = [id |-> edits, grid |-> panels, prev |-> last, st |-> "sent",
                      at |-> 0]
    OBVIOUS
  <2>2. /\ last' = panels /\ timer' = FALSE /\ calls' = calls \cup {d}
        /\ odd' = IF calls = {} THEN odd ELSE odd \cup {"overlap"}
        /\ UNCHANGED <<panels, err, rev, notes, server, agent, seen>>
    BY <1>2, <2>1 DEF Send
  <2>3. d.st = "sent" /\ d.at = 0 /\ d.grid = panels
    BY <2>1
  <2>4. Numbered'
    <3>1. \A c \in calls' : c \in calls \/ c = d
      BY <2>2
    <3>2. QED
      BY <2>2, <2>3, <3>1, <1>n, <1>t DEF Numbered
  <2>5. ASSUME odd' = {} PROVE OneSave' /\ Informed'
    <3>1. calls = {} /\ odd = {}
      BY <2>2, <2>5
    <3>2. Informed
      BY <3>1, <1>o
    <3>3. calls' = {d}
      BY <2>2, <3>1
    <3>4. OneSave'
      BY <2>2, <2>3, <3>3 DEF OneSave
    <3>5. Informed'
      BY <2>2, <2>3, <3>1, <3>2, <3>3
         DEF Informed, SeenAll, NoteToCome, EchoToCome, EchoLost
    <3>6. QED
      BY <3>4, <3>5
  <2>6. QED
    BY <2>4, <2>5 DEF SyncInv
<1>3. CASE Retry
  <2>1. /\ timer' = TRUE
        /\ UNCHANGED <<panels, last, err, rev, calls, notes, server, agent, seen, odd>>
    BY <1>3 DEF Retry
  <2>2. Numbered'
    BY <2>1, <1>n DEF Numbered
  <2>3. ASSUME odd' = {} PROVE OneSave' /\ Informed'
    <3>1. OneSave /\ Informed
      BY <2>1, <2>3, <1>k
    <3>2. OneSave'
      BY <2>1, <3>1 DEF OneSave
    <3>3. Informed'
      BY <2>1, <3>1 DEF Informed, SeenAll, NoteToCome, EchoToCome, EchoLost
    <3>4. QED
      BY <3>2, <3>3
  <2>4. QED
    BY <2>2, <2>3 DEF SyncInv
\* An echo with nothing out of order is the server's grid and the one sent.
<1>4. ASSUME NEW c \in calls, Saved(c) PROVE SyncInv'
  <2>1. /\ c.st = "saved" /\ calls' = calls \ {c} /\ err' = FALSE
        /\ odd' = odd \cup Disordered(c.at)
        /\ rev' = rev /\ seen' = (IF c.at > seen THEN c.at ELSE seen)
        /\ UNCHANGED <<notes, server>>
    BY <1>4 DEF Saved, Merge
  <2>2. Numbered'
    BY <2>1, <1>n DEF Numbered
  <2>3. ASSUME odd' = {} PROVE OneSave' /\ Informed'
    <3>1. OneSave /\ Informed
      BY <2>1, <2>3, <1>k
    <3>2. c.at >= seen /\ c.at \in Nat /\ c.at # 0 /\ c.at <= server.n
      BY <2>1, <2>3, <1>t, <1>n DEF Disordered, Numbered
    <3>3. last = c.grid /\ calls' = {}
      BY <2>1, <3>1 DEF OneSave
    <3>4. UNCHANGED <<panels, last, timer>>
      <4>1. ~Adopts(c.grid, rev)
        BY <3>3 DEF Adopts
      <4>2. /\ panels' = panels /\ last' = last /\ timer' = (timer /\ TRUE)
        BY <1>4, <4>1 DEF Saved, Merge
      <4>3. timer \in BOOLEAN
        BY DEF TypeOK
      <4>4. QED
        BY <4>2, <4>3
    <3>5. OneSave'
      <4>1. ~timer => panels = last
        BY <3>1 DEF OneSave
      <4>2. QED
        BY <3>3, <3>4, <4>1 DEF OneSave
    <3>6. CASE NoteToCome
      BY <2>1, <3>5, <3>6 DEF Informed, NoteToCome
    <3>7. CASE c.at = server.n
      <4>1. seen' = server.n
        BY <2>1, <3>2, <3>7, <1>t
      <4>2. c.grid = server.grid
        BY <3>2, <3>7, <1>n DEF Numbered
      <4>3. SeenAll'
        BY <2>1, <3>3, <3>4, <4>1, <4>2 DEF SeenAll
      <4>4. QED
        BY <3>5, <4>3 DEF Informed
    <3>8. CASE SeenAll
      <4>1. c.at = server.n
        BY <3>2, <3>8, <1>t DEF SeenAll
      <4>2. QED
        BY <3>7, <4>1
    <3>9. CASE EchoToCome
      <4>1. c.at = server.n
        BY <3>1, <3>9 DEF EchoToCome, OneSave
      <4>2. QED
        BY <3>7, <4>1
    <3>10. CASE EchoLost
      BY <3>2, <3>10 DEF EchoLost
    <3>11. QED
      BY <3>1, <3>5, <3>6, <3>8, <3>9, <3>10 DEF Informed
  <2>4. QED
    BY <2>2, <2>3 DEF SyncInv
<1>5. ASSUME NEW c \in calls, SaveFails(c) PROVE SyncInv'
  <2>1. /\ err' = TRUE /\ calls' = calls \ {c}
        /\ UNCHANGED <<panels, timer, rev, notes, server, agent, seen, odd>>
    BY <1>5 DEF SaveFails
  <2>2. Numbered'
    BY <2>1, <1>n DEF Numbered
  <2>3. ASSUME odd' = {} PROVE OneSave' /\ Informed'
    <3>1. OneSave /\ Informed
      BY <2>1, <2>3, <1>k
    <3>2. calls' = {}
      BY <2>1, <3>1 DEF OneSave
    <3>3. OneSave'
      BY <2>1, <3>2 DEF OneSave
    <3>4. Informed'
      BY <2>1, <3>1, <3>2 DEF Informed, SeenAll, NoteToCome, EchoToCome, EchoLost
    <3>5. QED
      BY <3>3, <3>4
  <2>4. QED
    BY <2>2, <2>3 DEF SyncInv
<1>6. ASSUME NEW c \in calls, ServerSaves(c) PROVE SyncInv'
  <2>1. PICK d : d = [c EXCEPT !.st = "saved", !.at = server.n + 1]
    OBVIOUS
  <2>2. /\ c.st = "sent" /\ calls' = (calls \ {c}) \cup {d}
        /\ odd' = IF notes = {} THEN odd ELSE odd \cup {"overlap"}
        /\ UNCHANGED <<panels, last, timer, err, rev, notes, agent, seen>>
    BY <1>6, <2>1 DEF ServerSaves
  <2>3. /\ d.st = "saved" /\ d.at = server.n + 1 /\ d.grid = c.grid
    BY <2>1, <1>t DEF Call
  <2>4. server'.n = server.n + 1 /\ server'.grid = c.grid
    BY <1>6, <1>t DEF ServerSaves
  <2>5. Numbered'
    <3>1. \A x \in calls' : x \in calls \/ x = d
      BY <2>2
    <3>2. \A x \in calls : x.at # server.n + 1 /\ x.at <= server.n + 1
      BY <1>t, <1>n DEF Numbered
    <3>3. \A m \in notes : m.at # server.n + 1 /\ m.at <= server.n + 1
      BY <1>t, <1>n DEF Numbered
    <3>4. \A x \in calls' : /\ x.at <= server'.n
                            /\ x.at = server'.n /\ x.at # 0 => x.grid = server'.grid
                            /\ x.st = "sent" => x.at = 0
                            /\ x.st = "saved" => x.at # 0
      BY <2>3, <2>4, <3>1, <3>2, <1>t, <1>n DEF Numbered
    <3>5. QED
      BY <2>2, <2>4, <3>3, <3>4 DEF Numbered
  <2>6. ASSUME odd' = {} PROVE OneSave' /\ Informed'
    <3>1. notes = {} /\ odd = {}
      BY <2>2, <2>6
    <3>2. OneSave
      BY <3>1, <1>o
    <3>3. calls' = {d}
      BY <2>2, <3>2 DEF OneSave
    <3>4. OneSave'
      BY <2>2, <2>3, <3>2, <3>3 DEF OneSave
    <3>5. EchoToCome'
      BY <2>2, <2>3, <2>4, <3>1, <3>3, <1>t DEF EchoToCome
    <3>6. QED
      BY <3>4, <3>5 DEF Informed
  <2>7. QED
    BY <2>5, <2>6 DEF SyncInv
<1>7. ASSUME NEW c \in calls, CallFails(c) PROVE SyncInv'
  <2>1. PICK d : d = [c EXCEPT !.st = "failed"]
    OBVIOUS
  <2>2. /\ calls' = (calls \ {c}) \cup {d}
        /\ UNCHANGED <<panels, last, timer, err, rev, notes, server, agent, seen, odd>>
    BY <1>7, <2>1 DEF CallFails
  <2>3. d.st = "failed" /\ d.at = c.at /\ d.grid = c.grid
    BY <2>1, <1>t DEF Call
  <2>4. \A x \in calls' : x \in calls \/ x = d
    BY <2>2
  <2>5. Numbered'
    BY <2>2, <2>3, <2>4, <1>n DEF Numbered
  <2>6. ASSUME odd' = {} PROVE OneSave' /\ Informed'
    <3>1. OneSave /\ Informed
      BY <2>2, <2>6, <1>k
    <3>2. calls = {c} /\ calls' = {d}
      BY <2>2, <3>1 DEF OneSave
    <3>3. OneSave'
      BY <2>2, <2>3, <3>1, <3>2 DEF OneSave
    <3>4. Informed'
      BY <2>2, <2>3, <3>1, <3>2 DEF Informed, SeenAll, NoteToCome, EchoToCome, EchoLost
    <3>5. QED
      BY <3>3, <3>4
  <2>7. QED
    BY <2>5, <2>6 DEF SyncInv
\* A payload that is merged in order is the newest or older than one to come.
<1>8. ASSUME NEW m \in notes, Notified(m) PROVE SyncInv'
  <2>1. /\ notes' = notes \ {m}
        /\ seen' = (IF m.at > seen THEN m.at ELSE seen)
        /\ odd' = odd \cup Disordered(m.at)
                      \cup (IF calls = {} THEN {} ELSE {"overlap"})
        /\ UNCHANGED <<calls, server>>
    BY <1>8 DEF Notified, Merge
  <2>2. Numbered'
    BY <2>1, <1>n DEF Numbered
  <2>3. ASSUME odd' = {} PROVE OneSave' /\ Informed'
    <3>1. calls = {} /\ odd = {}
      BY <2>1, <2>3
    <3>2. OneSave /\ Informed
      BY <3>1, <1>o
    <3>3. m.at >= seen /\ m.at \in Nat /\ m.at <= server.n
      BY <2>1, <2>3, <1>t, <1>n DEF Disordered, Numbered
    <3>4. last' = m.grid
      BY <1>8 DEF Notified, Merge, Adopts
    <3>5. OneSave'
      <4>1. CASE Adopts(m.grid, m.rev)
        <5>1. panels' = last'
          BY <1>8, <4>1 DEF Notified, Merge
        <5>2. QED
          BY <2>1, <3>1, <5>1 DEF OneSave
      <4>2. CASE ~Adopts(m.grid, m.rev)
        <5>1. panels' = panels /\ last' = last /\ timer' = (timer /\ TRUE)
          BY <1>8, <4>2 DEF Notified, Merge
        <5>2. m.rev = rev
          BY <4>2 DEF Adopts
        <5>3. err' = (err /\ TRUE)
          BY <1>8, <5>2 DEF Notified
        <5>4. QED
          BY <2>1, <3>1, <3>2, <5>1, <5>3 DEF OneSave
      <4>3. QED
        BY <4>1, <4>2
    <3>6. CASE m.at = server.n
      <4>1. seen' = server.n
        BY <2>1, <3>3, <3>6, <1>t
      <4>2. m.grid = server.grid
        BY <3>6, <1>n DEF Numbered
      <4>3. SeenAll'
        BY <2>1, <3>4, <4>1, <4>2 DEF SeenAll
      <4>4. QED
        BY <3>5, <4>3 DEF Informed
    <3>7. CASE SeenAll
      <4>1. m.at = server.n
        BY <3>3, <3>7, <1>t DEF SeenAll
      <4>2. QED
        BY <3>6, <4>1
    <3>8. CASE NoteToCome
      <4>1. PICK x \in notes : x.at = server.n
        BY <3>8 DEF NoteToCome
      <4>2. CASE x = m
        BY <3>6, <4>1, <4>2
      <4>3. CASE x # m
        <5>1. NoteToCome'
          BY <2>1, <4>1, <4>3 DEF NoteToCome
        <5>2. QED
          BY <3>5, <5>1 DEF Informed
      <4>4. QED
        BY <4>2, <4>3
    <3>9. CASE EchoToCome \/ EchoLost
      BY <3>9 DEF EchoToCome, EchoLost
    <3>10. QED
      BY <3>2, <3>7, <3>8, <3>9 DEF Informed
  <2>4. QED
    BY <2>2, <2>3 DEF SyncInv
<1>9. CASE AgentReads
  <2>1. UNCHANGED <<panels, last, timer, err, rev, calls, notes, server, seen, odd>>
    BY <1>9 DEF AgentReads
  <2>2. QED
    BY <2>1 DEF SyncInv, Numbered, OneSave, Informed, SeenAll, NoteToCome,
                EchoToCome, EchoLost
\* A write of somebody else: its payload is on its way.
<1>w. ASSUME NEW g, NEW r,
             server'.n = server.n + 1, server'.grid = g,
             notes' = notes \cup {Note(g, r, server.n + 1)},
             UNCHANGED <<panels, last, timer, err, rev, calls, seen, odd>>
      PROVE  SyncInv'
  <2>1. PICK x : x = Note(g, r, server.n + 1)
    OBVIOUS
  <2>2. x.at = server.n + 1 /\ x.grid = g
    BY <2>1 DEF Note
  <2>3. notes' = notes \cup {x}
    BY <2>1, <1>w
  <2>4. \A m \in notes' : m \in notes \/ m = x
    BY <2>3
  <2>5. \A m \in notes : m.at # server.n + 1 /\ m.at <= server.n + 1
    BY <1>t, <1>n DEF Numbered
  <2>6. \A c \in calls : c.at # server.n + 1 /\ c.at <= server.n + 1
    BY <1>t, <1>n DEF Numbered
  <2>7. \A m \in notes' : m.at <= server'.n /\ (m.at = server'.n => m.grid = server'.grid)
    BY <2>2, <2>4, <2>5, <1>t, <1>w
  <2>8. Numbered'
    BY <2>6, <2>7, <1>n, <1>w DEF Numbered
  <2>9. NoteToCome'
    BY <2>2, <2>3, <1>w DEF NoteToCome
  <2>10. odd' = {} => OneSave'
    BY <1>o, <1>w DEF OneSave
  <2>11. QED
    BY <2>8, <2>9, <2>10 DEF SyncInv, Informed
<1>10. CASE AgentWrites
  <2>1. PICK g \in Edited(agent) :
          /\ server' = [server EXCEPT !.grid = g, !.n = @ + 1]
          /\ notes' = notes \cup {Note(g, server.rev, server.n + 1)}
    BY <1>10 DEF AgentWrites
  <2>2. UNCHANGED <<panels, last, timer, err, rev, calls, seen, odd>>
    BY <1>10 DEF AgentWrites
  <2>3. server'.n = server.n + 1 /\ server'.grid = g
    BY <2>1, <1>t
  <2>4. QED
    BY <2>1, <2>2, <2>3, <1>w
<1>11. CASE Reload
  <2>1. /\ server' = [grid |-> Fresh, rev |-> server.rev + 1, n |-> server.n + 1]
        /\ notes' = notes \cup {Note(Fresh, server.rev + 1, server.n + 1)}
        /\ UNCHANGED <<panels, last, timer, err, rev, calls, seen, odd>>
    BY <1>11 DEF Reload
  <2>2. server'.n = server.n + 1 /\ server'.grid = Fresh
    BY <2>1
  <2>3. QED
    BY <2>1, <2>2, <1>w
\* A save that was given up on is made: the error is still shown.
<1>12. ASSUME NEW g \in late, SavesLate(g) PROVE SyncInv'
  <2>1. /\ odd' = IF err /\ calls = {} /\ notes = {} THEN odd
                  ELSE odd \cup {"overlap"}
        /\ UNCHANGED <<panels, last, timer, err, rev, calls, notes, seen>>
    BY <1>12 DEF SavesLate
  <2>2. server'.n = server.n + 1
    BY <1>12, <1>t DEF SavesLate
  <2>3. \A x \in calls : x.at # server.n + 1 /\ x.at <= server.n + 1
    BY <1>t, <1>n DEF Numbered
  <2>4. \A m \in notes : m.at # server.n + 1 /\ m.at <= server.n + 1
    BY <1>t, <1>n DEF Numbered
  <2>5. Numbered'
    BY <2>1, <2>2, <2>3, <2>4, <1>n DEF Numbered
  <2>6. ASSUME odd' = {} PROVE OneSave' /\ Informed'
    <3>1. odd = {} /\ err /\ calls = {} /\ notes = {}
      BY <2>1, <2>6
    <3>2. OneSave
      BY <3>1, <1>o
    <3>3. OneSave'
      BY <2>1, <3>2 DEF OneSave
    <3>4. EchoLost'
      BY <2>1, <3>1 DEF EchoLost
    <3>5. QED
      BY <3>3, <3>4 DEF Informed
  <2>7. QED
    BY <2>5, <2>6 DEF SyncInv
<1>13. QED
  BY <1>0, <1>1, <1>2, <1>3, <1>4, <1>5, <1>6, <1>7, <1>8, <1>9, <1>10, <1>11, <1>12
     DEF Next

-----------------------------------------------------------------------------
(* The invariant, and what follows from it. *)

IInv == TypeOK /\ GridInv /\ SyncInv

\* Every reachable state of the lab satisfies the invariant (useChartsSync.ts
\* 158-245, metric_lab.py 2203-2368).
THEOREM Inductive == Spec => []IInv
<1>1. Init => IInv
  BY InitTypes, InitSync DEF IInv
<1>2. IInv /\ [Next]_vars => IInv'
  BY NextTypes, NextSync DEF IInv
<1>3. QED
  BY <1>1, <1>2, PTL DEF Spec

\* Every copy of the grid and what travels keep their types (types.ts 69-83).
THEOREM TypeCorrect == Spec => []TypeOK
<1>1. IInv => TypeOK
  BY DEF IInv
<1>2. QED
  BY <1>1, Inductive, PTL

\* Whatever the user, the agent and the network do, every copy of the grid has
\* one to MaxPanels panels with different ids (useChartsSync.ts 36-61).
THEOREM GridIsSoundCorrect == Spec => []GridIsSound
<1>1. ASSUME IInv PROVE GridIsSound
  <2>1. Bound \in Nat /\ GridInv
    BY <1>1 DEF IInv, TypeOK, Bound
  <2>2. QED
    BY <2>1, DistinctIsSound DEF GridInv, GridIsSound
<1>2. QED
  BY <1>1, Inductive, PTL

\* "Persistence failures are NOT silent": with nothing out of order, whatever
\* is refused or lost, the screen at rest shows the server's grid or the error
\* (useChartsSync.ts 8, 225-233).
THEOREM NotSilentInOrderCorrect == Spec => []NotSilentInOrder
<1>1. ASSUME IInv PROVE NotSilentInOrder
  <2>1. SUFFICES ASSUME odd = {}, AtRest, ~err PROVE panels = server.grid
    BY DEF NotSilentInOrder, NeverSilent
  <2>2. OneSave /\ Informed
    BY <1>1, <2>1 DEF IInv, SyncInv
  <2>3. calls = {} /\ notes = {} /\ panels = last
    BY <2>1, <2>2 DEF AtRest, OneSave
  <2>4. SeenAll
    BY <2>1, <2>2, <2>3 DEF Informed, NoteToCome, EchoToCome, EchoLost
  <2>5. QED
    BY <2>1, <2>3, <2>4 DEF SeenAll
<1>2. QED
  BY <1>1, Inductive, PTL

\* The answer to a save never takes an edit off the screen that was made while
\* it was under way (useChartsSync.ts 213-233).
THEOREM EchoKeepsEditsCorrect == Spec => EchoKeepsEdits
<1> DEFINE Keeps == \A c \in calls :
              (c \notin calls' /\ odd' = {}) => panels' = panels /\ timer' = timer
<1>1. ASSUME IInv, [Next]_vars PROVE [Keeps]_vars
  <2>1. CASE UNCHANGED vars
    BY <2>1
  <2>2. ASSUME NEW c \in calls, c \notin calls', odd' = {}, Next
        PROVE  panels' = panels /\ timer' = timer
    <3>1. CASE \E d \in calls : Saved(d)
      <4>1. PICK d \in calls : Saved(d)
        BY <3>1
      <4>2. odd = {}
        BY <2>2, <4>1 DEF Saved
      <4>3. last = d.grid
        BY <1>1, <4>2 DEF IInv, SyncInv, OneSave
      <4>4. ~Adopts(d.grid, rev)
        BY <4>3 DEF Adopts
      <4>5. panels' = panels /\ timer' = (timer /\ TRUE)
        BY <4>1, <4>4 DEF Saved, Merge
      <4>6. timer \in BOOLEAN
        BY <1>1 DEF IInv, TypeOK
      <4>7. QED
        BY <4>5, <4>6
    <3>2. CASE \E d \in calls : SaveFails(d) \/ ServerSaves(d) \/ CallFails(d)
      BY <3>2 DEF SaveFails, ServerSaves, CallFails
    <3>3. CASE Edit \/ Send \/ Retry \/ AgentReads \/ AgentWrites \/ Reload
      BY <2>2, <3>3 DEF Edit, Send, Retry, AgentReads, AgentWrites, Reload
    <3>4. CASE \E m \in notes : Notified(m)
      BY <2>2, <3>4 DEF Notified
    <3>5. CASE \E g \in late : SavesLate(g)
      BY <3>5 DEF SavesLate
    <3>6. QED
      BY <2>2, <3>1, <3>2, <3>3, <3>4, <3>5 DEF Next
  <2>3. QED
    BY <1>1, <2>1, <2>2
<1>2. QED
  BY <1>1, Inductive, PTL DEF Spec, EchoKeepsEdits
=============================================================================
