------------------------ MODULE AddressDiscoveryProofs ------------------------
(* Proofs about AddressDiscovery: that no page of a search skips a           *)
(* transaction, and that a search reported as complete lists them all, for   *)
(* any addresses, histories, slots, page sizes and tiles.  The first half    *)
(* is about one page, the second about the protocol that asks for them.      *)
EXTENDS AddressDiscovery, FiniteSetTheorems, NaturalsInduction, TLAPS

---------------------------------------------------------------------------
(* Numbers and slots *)

\* A set of numbers with a bound has a largest member (the page is cut from
\* candidates sorted newest first, transactions.py 2909-2930).
LEMMA Largest ==
    ASSUME NEW S, S \subseteq Nat, S # {}, NEW k \in Nat, \A m \in S : m <= k
    PROVE  \E n \in S : \A m \in S : m <= n
<1> DEFINE R == OpToRel(<, Nat)
           T == {n \in Nat : \A m \in S : m <= n}
<1>1. IsWellFoundedOn(R, Nat)
  BY NatLessThanWellFounded
<1>2. \A i, j \in Nat : i < j => <<i, j>> \in R
  BY DEF OpToRel
<1>3. k \in T /\ T \subseteq Nat
  OBVIOUS
<1>4. PICK n \in T : \A y \in T : ~(<<y, n>> \in R)
  <2> HIDE DEF R, T
  <2>1. QED
    BY <1>1, <1>3, WFMin
<1>5. n \in Nat /\ \A m \in S : m \in Nat /\ m <= n
  BY <1>4
<1>6. n \in S
  <2>1. SUFFICES ASSUME n \notin S PROVE FALSE
    OBVIOUS
  <2>2. \A m \in S : m <= n - 1
    BY <1>5, <2>1
  <2>3. n - 1 \in Nat
    <3>1. PICK m \in S : m \in Nat
      OBVIOUS
    <3>2. m <= n /\ m # n
      BY <1>5, <2>1
    <3>3. QED
      BY <1>5, <3>1, <3>2
  <2>4. n - 1 \in T
    BY <2>2, <2>3
  <2>5. <<n - 1, n>> \in R
    <3>1. n - 1 < n
      BY <1>5
    <3> HIDE DEF R
    <3>2. QED
      BY <1>2, <1>5, <2>3, <3>1
  <2>6. QED
    BY <1>4, <2>4, <2>5
<1>7. QED
  BY <1>5, <1>6

\* A set of numbers has a smallest member (transactions.py 2938-2960: the
\* next page continues below the last row of this one).
LEMMA Smallest ==
    ASSUME NEW S, S \subseteq Nat, S # {}
    PROVE  \E n \in S : \A m \in S : n <= m
<1> DEFINE R == OpToRel(<, Nat)
<1>1. IsWellFoundedOn(R, Nat)
  BY NatLessThanWellFounded
<1>2. \A i, j \in Nat : i < j => <<i, j>> \in R
  BY DEF OpToRel
<1>3. PICK n \in S : \A y \in S : ~(<<y, n>> \in R)
  <2> HIDE DEF R
  <2>1. QED
    BY <1>1, WFMin
<1>4. \A m \in S : ~(m < n)
  <2> HIDE DEF R
  <2>1. QED
    BY <1>2, <1>3
<1>5. QED
  BY <1>4

\* Max chooses the largest member.
LEMMA MaxOf ==
    ASSUME NEW S, S \subseteq Nat, S # {}, NEW k \in Nat, \A m \in S : m <= k
    PROVE  Max(S) \in S /\ \A m \in S : m <= Max(S)
<1>1. PICK n \in S : \A m \in S : m <= n
  BY Largest
<1>2. \A m \in S : n >= m
  BY <1>1
<1>3. QED
  BY <1>2 DEF Max

\* Min chooses the smallest member.
LEMMA MinOf ==
    ASSUME NEW S, S \subseteq Nat, S # {}
    PROVE  Min(S) \in S /\ \A m \in S : Min(S) <= m
<1>1. PICK n \in S : \A m \in S : n <= m
  BY Smallest
<1>2. QED
  BY <1>1 DEF Min

\* A transaction is a positive number in one of the slots up to Last.
LEMMA SlotOf ==
    ASSUME NEW p \in Txs
    PROVE  p \in Nat /\ Slot(p) \in Nat /\ Slot(p) >= 1 /\ Slot(p) <= Last
<1>1. Last * PerSlot \in Nat
  BY DiscoveryAssumption
<1>2. p \in Nat /\ p >= 1 /\ p <= Last * PerSlot
  BY <1>1 DEF Txs
<1> DEFINE q == (p - 1) \div PerSlot
<1>3. q \in Nat /\ q * PerSlot <= p - 1 /\ q * PerSlot \in Nat
  BY <1>2, DiscoveryAssumption
<1>4. Slot(p) = q + 1
  BY DEF Slot
<1> HIDE DEF q
<1>5. q < Last
  <2>1. SUFFICES ASSUME q >= Last PROVE FALSE
    BY <1>3, DiscoveryAssumption
  <2>2. q * PerSlot >= Last * PerSlot
    BY <1>3, <2>1, DiscoveryAssumption
  <2>3. QED
    BY <1>1, <1>2, <1>3, <2>2
<1>6. QED
  BY <1>2, <1>3, <1>4, <1>5, DiscoveryAssumption

\* Slots are in the order of their transactions.
LEMMA SlotsInOrder ==
    ASSUME NEW p \in Txs, NEW q \in Txs, p <= q
    PROVE  Slot(p) <= Slot(q)
<1>1. p \in Nat /\ p >= 1 /\ q \in Nat /\ q >= 1
  BY DiscoveryAssumption DEF Txs
<1>2. QED
  BY <1>1, DiscoveryAssumption DEF Slot

\* There are finitely many transactions.
LEMMA TxsFinite ==
    ASSUME NEW S, S \subseteq Txs
    PROVE  IsFiniteSet(S) /\ Cardinality(S) \in Nat /\ S \subseteq Nat
<1>1. Last * PerSlot \in Nat
  BY DiscoveryAssumption
<1>2. IsFiniteSet(1 .. Last * PerSlot)
  BY <1>1, FS_Interval
<1>3. IsFiniteSet(Txs)
  BY <1>2 DEF Txs
<1>4. IsFiniteSet(S)
  BY <1>3, FS_Subset
<1>5. QED
  BY <1>4, FS_CardinalityType, SlotOf

\* A part of a set of transactions is no larger than the set.
LEMMA PartIsSmaller ==
    ASSUME NEW S, S \subseteq Txs, NEW T, T \subseteq S
    PROVE  Cardinality(T) <= Cardinality(S)
  BY TxsFinite, FS_Subset

---------------------------------------------------------------------------
(* The newest n of a set *)

\* Those left out are older than those taken (all_rows[:limit_txs] cuts a list
\* sorted newest first, transactions.py 2909-2930).
LEMMA NewestAreNewer ==
    ASSUME NEW S, S \subseteq Txs, NEW n \in Nat,
           NEW p \in S \ Newest(S, n), NEW q \in Newest(S, n)
    PROVE  p < q
<1>1. p \in Nat /\ q \in Nat /\ q \in S
  BY SlotOf DEF Newest
<1>2. SUFFICES ASSUME p >= q PROVE FALSE
  BY <1>1
<1> DEFINE P == {x \in S : x > p}
           Q == {x \in S : x > q}
<1>3. P \subseteq Q
  <2>1. SUFFICES ASSUME NEW x \in S, x > p PROVE x > q
    OBVIOUS
  <2>2. x \in Nat
    BY TxsFinite
  <2>3. QED
    BY <1>1, <1>2, <2>1, <2>2
<1>4. Cardinality(P) \in Nat /\ Cardinality(Q) \in Nat
  BY TxsFinite
<1>5. Cardinality(P) <= Cardinality(Q)
  BY <1>3, PartIsSmaller
<1>6. ~(Cardinality(P) < n) /\ Cardinality(Q) < n
  BY DEF Newest
<1>7. QED
  BY <1>4, <1>5, <1>6

\* If any is left out, n are taken.
LEMMA NewestAreMany ==
    ASSUME NEW S, S \subseteq Txs, NEW n \in Nat, Newest(S, n) # S
    PROVE  Cardinality(Newest(S, n)) >= n
<1> DEFINE N == Newest(S, n)
           Rest == S \ N
<1>1. N \subseteq S
  BY DEF Newest
<1>2. Rest \subseteq Txs /\ Rest # {}
  BY <1>1
<1>3. Last * PerSlot \in Nat
  BY DiscoveryAssumption
<1>4. Rest \subseteq Nat /\ \A m \in Rest : m <= Last * PerSlot
  <2>1. \A m \in Txs : m \in Nat /\ m <= Last * PerSlot
    BY <1>3 DEF Txs
  <2>2. QED
    BY <1>2, <2>1
<1>5. PICK p \in Rest : \A m \in Rest : m <= p
  <2> HIDE DEF Rest
  <2>1. QED
    BY <1>2, <1>3, <1>4, Largest
<1> DEFINE P == {x \in S : x > p}
<1>6. P \subseteq N
  <2>1. SUFFICES ASSUME NEW x \in S, x > p, x \notin N PROVE FALSE
    OBVIOUS
  <2>2. x <= p /\ x \in Nat /\ p \in Nat
    BY <1>4, <1>5, <2>1
  <2>3. QED
    BY <2>1, <2>2
<1>7. ~(Cardinality(P) < n)
  BY <1>5 DEF Newest
<1>8. Cardinality(P) \in Nat /\ Cardinality(N) \in Nat
  BY <1>1, TxsFinite
<1>9. Cardinality(P) <= Cardinality(N)
  <2> HIDE DEF N, P
  <2>1. N \subseteq Txs
    BY <1>1
  <2>2. QED
    BY <1>6, <2>1, PartIsSmaller
<1>10. QED
  BY <1>7, <1>8, <1>9

\* If there are no more than n, all are taken.
LEMMA NewestOfFew ==
    ASSUME NEW S, S \subseteq Txs, NEW n \in Nat, Cardinality(S) <= n
    PROVE  Newest(S, n) = S
<1>1. SUFFICES ASSUME NEW p \in S PROVE Cardinality({x \in S : x > p}) < n
  BY DEF Newest
<1> DEFINE P == {x \in S : x > p}
<1>2. P \subseteq S \ {p}
  BY TxsFinite
<1>3. Cardinality(S \ {p}) = Cardinality(S) - 1
  BY TxsFinite, FS_RemoveElement
<1>4. Cardinality(P) <= Cardinality(S \ {p})
  <2>1. S \ {p} \subseteq Txs
    OBVIOUS
  <2> HIDE DEF P
  <2>2. QED
    BY <1>2, <2>1, PartIsSmaller
<1>5. Cardinality(P) \in Nat /\ Cardinality(S) \in Nat
  BY TxsFinite
<1>6. QED
  BY <1>3, <1>4, <1>5

\* The newest ones are among the set, and there is one if the set has any.
LEMMA NewestExist ==
    ASSUME NEW S, S \subseteq Txs, NEW n \in Nat \ {0}, S # {}
    PROVE  Newest(S, n) \subseteq S /\ Newest(S, n) # {}
<1>1. Newest(S, n) \subseteq S
  BY DEF Newest
<1>2. CASE Newest(S, n) = S
  BY <1>2
<1>3. CASE Newest(S, n) # S
  <2>1. Cardinality(Newest(S, n)) >= n
    BY <1>3, NewestAreMany
  <2>2. Cardinality({}) = 0
    BY FS_EmptySet
  <2>3. QED
    BY <1>1, <2>1, <2>2
<1>4. QED
  BY <1>2, <1>3

---------------------------------------------------------------------------
(* One page *)

(* The cursors the server makes: a row cursor names a transaction, a         *)
(* coverage cursor leaves at least one stored slot, and one that retries     *)
(* slots retries at least one.                                               *)
GoodCursors ==
    {c \in Cursors : /\ c.kind = "row" => c.at \in Txs
                     /\ c.kind = "coverage" => /\ c.at \in 2 .. Stored + 1
                                               /\ c.from < c.at
                     /\ c.kind # "coverage" => c.from = 0}

\* The fields of such a cursor (_decode_discovery_cursor, transactions.py
\* 300-368, refuses any other).
LEMMA CursorFields ==
    ASSUME NEW c \in GoodCursors
    PROVE  /\ c.kind \in {"none", "row", "coverage"}
           /\ c.at \in Nat /\ c.from \in Nat /\ c.tile \in 1 .. MaxTile
           /\ c.kind = "row" => c.at \in Txs
           /\ c.kind = "coverage" => c.at >= 2 /\ c.at <= Stored + 1 /\ c.from < c.at
           /\ c.kind # "coverage" => c.from = 0
<1>1. c \in Cursors
  BY DEF GoodCursors
<1>2. c.at \in Nat /\ c.from \in Nat /\ c.tile \in 1 .. MaxTile
      /\ c.kind \in {"none", "row", "coverage"}
  BY <1>1 DEF Cursors
<1>3. c.kind = "coverage" => c.at \in 2 .. Stored + 1 /\ c.from < c.at
  BY DEF GoodCursors
<1>4. QED
  BY <1>2, <1>3, DiscoveryAssumption DEF GoodCursors

\* Without a cursor the search is at its start (transactions.py 241-268).
LEMMA NoCursorGood == NoCursor \in GoodCursors
  BY DiscoveryAssumption DEF NoCursor, GoodCursors, Cursors

\* A row cursor at a transaction is one of them.
LEMMA RowCursorGood ==
    ASSUME NEW p \in Txs
    PROVE  RowCursor(p) \in GoodCursors
<1>1. p \in Nat
  BY SlotOf
<1>2. MaxTile \in 1 .. MaxTile
  BY DiscoveryAssumption
<1>3. QED
  BY <1>1, <1>2 DEF RowCursor, GoodCursors, Cursors

\* A coverage cursor below a slot that is not the oldest is one of them.
LEMMA CoverageCursorGood ==
    ASSUME NEW at \in 2 .. Stored + 1, NEW from \in Nat, from < at,
           NEW tile \in 1 .. MaxTile
    PROVE  CoverageCursor(at, from, tile) \in GoodCursors
<1>1. at \in Nat
  BY DiscoveryAssumption
<1>2. QED
  BY <1>1 DEF CoverageCursor, GoodCursors, Cursors

\* The range of a scan has at least one slot (transactions.py 2593-2624).
LEMMA RangeOf ==
    ASSUME NEW c \in GoodCursors
    PROVE  /\ Floor(c) \in Nat /\ Floor(c) >= 1
           /\ Ceiling(c) \in Nat /\ Ceiling(c) <= Stored
           /\ Floor(c) <= Ceiling(c)
<1>1. CASE c.kind = "coverage"
  BY <1>1, CursorFields, DiscoveryAssumption DEF Floor, Ceiling
<1>2. CASE c.kind # "coverage"
  BY <1>2, CursorFields, DiscoveryAssumption DEF Floor, Ceiling
<1>3. QED
  BY <1>1, <1>2

\* Reading stops below the range, or below a slot of it that is not the newest
\* (transactions.py 1287-1299).
LEMMA StopOf ==
    ASSUME NEW c \in GoodCursors, NEW h
    PROVE  /\ StopSlot(h, c) \in Nat
           /\ Floor(c) - 1 <= StopSlot(h, c) /\ StopSlot(h, c) < Ceiling(c)
<1> DEFINE tiles == {Floor(c) + k * c.tile - 1 : k \in 1 .. Stored}
                       \cap (Floor(c) .. Ceiling(c) - 1)
           full == {b \in tiles :
                      Cardinality(Within(h, c, b + 1, Ceiling(c))) > Limit}
<1>1. /\ Floor(c) \in Nat /\ Floor(c) >= 1 /\ Ceiling(c) \in Nat
      /\ Floor(c) <= Ceiling(c)
  BY RangeOf
<1>2. StopSlot(h, c) = IF full = {} THEN Floor(c) - 1 ELSE Max(full)
  BY DEF StopSlot
<1>3. full \subseteq Floor(c) .. Ceiling(c) - 1
  OBVIOUS
<1> HIDE DEF full, tiles
<1>4. CASE full = {}
  BY <1>1, <1>2, <1>4
<1>5. CASE full # {}
  <2>1. full \subseteq Nat /\ \A m \in full : m <= Ceiling(c)
    BY <1>1, <1>3
  <2>2. Max(full) \in full
    BY <1>1, <1>5, <2>1, MaxOf
  <2>3. StopSlot(h, c) \in Floor(c) .. Ceiling(c) - 1
    BY <1>2, <1>3, <1>5, <2>2
  <2>4. QED
    BY <1>1, <2>3
<1>6. QED
  BY <1>4, <1>5

\* Where a scan may end: one that read its range stops below its newest slot,
\* one that was cut short stops at a slot of the range (transactions.py
\* 1338-1487).
LEMMA ScanOf ==
    ASSUME NEW c \in GoodCursors, NEW h, NEW scan \in Scans(h, c)
    PROVE  /\ scan.stop \in Nat /\ scan.stop <= Ceiling(c)
           /\ Floor(c) - 1 <= scan.stop
           /\ scan.why \in {"read", "budget", "memory"}
           /\ scan.why = "read" => scan.stop < Ceiling(c)
           /\ scan.why # "read" => scan.stop >= Floor(c)
<1>1. /\ StopSlot(h, c) \in Nat
      /\ Floor(c) - 1 <= StopSlot(h, c) /\ StopSlot(h, c) < Ceiling(c)
  BY StopOf
<1>2. /\ Floor(c) \in Nat /\ Floor(c) >= 1 /\ Ceiling(c) \in Nat
  BY RangeOf
<1>3. CASE scan \in {[stop |-> StopSlot(h, c), why |-> "read"]}
  <2>1. scan.stop = StopSlot(h, c) /\ scan.why = "read"
    BY <1>3
  <2>2. QED
    BY <1>1, <1>2, <2>1
<1>4. CASE scan \in [stop : StopSlot(h, c) + 1 .. Ceiling(c), why : {"budget", "memory"}]
  <2>1. scan.stop \in StopSlot(h, c) + 1 .. Ceiling(c) /\ scan.why \in {"budget", "memory"}
    BY <1>4
  <2>2. QED
    BY <1>1, <1>2, <2>1
<1>5. QED
  BY <1>3, <1>4 DEF Scans

\* The slices left unread are slots (transactions.py 1422-1487).
LEMMA UncoveredOf ==
    ASSUME NEW c \in GoodCursors, NEW h, NEW scan \in Scans(h, c)
    PROVE  Uncovered(c, scan) \subseteq 1 .. Last
<1>1. /\ scan.stop \in Nat /\ scan.stop <= Ceiling(c)
      /\ Floor(c) \in Nat /\ Floor(c) >= 1
      /\ Ceiling(c) \in Nat /\ Ceiling(c) <= Stored
  BY ScanOf, RangeOf
<1>2. Floor(c) .. scan.stop \subseteq 1 .. Last
  BY <1>1, DiscoveryAssumption
<1>3. QED
  BY <1>2 DEF Uncovered

\* A slice that is retried is again a good one (_newest_uncovered_retry_slice,
\* transactions.py 420-480, and the halved tile, 2957-2964).
LEMMA RetryGood ==
    ASSUME NEW c \in GoodCursors, NEW h, NEW scan \in Scans(h, c),
           scan.why # "read"
    PROVE  /\ RetrySlice(c, scan) \in GoodCursors
           /\ RetrySlice(c, scan).kind = "coverage"
           /\ RetrySlice(c, scan).at = scan.stop + 1
<1>1. /\ scan.stop \in Nat /\ scan.stop <= Ceiling(c)
      /\ Floor(c) \in Nat /\ Floor(c) >= 1 /\ Floor(c) <= scan.stop
      /\ Ceiling(c) \in Nat /\ Ceiling(c) <= Stored
  BY ScanOf, RangeOf
<1>2. c.tile \in Nat /\ c.tile >= 1 /\ c.tile <= MaxTile
  BY CursorFields, DiscoveryAssumption
<1>3. scan.stop + 1 \in 2 .. Stored + 1
  BY <1>1, DiscoveryAssumption
<1>4. CASE scan.why = "memory"
  <2> DEFINE half == c.tile \div 2
             t == Max({1, half})
  <2>1. half \in Nat /\ half <= c.tile
    BY <1>2
  <2>2. t \in 1 .. MaxTile
    <3> HIDE DEF half
    <3>1. {1, half} \subseteq Nat /\ \A m \in {1, half} : m <= c.tile
      BY <1>2, <2>1
    <3>2. t \in {1, half} /\ \A m \in {1, half} : m <= t
      <4>1. {1, half} # {}
        OBVIOUS
      <4>2. QED
        BY <1>2, <3>1, <4>1, MaxOf
    <3> HIDE DEF t
    <3>3. QED
      BY <1>2, <3>1, <3>2, DiscoveryAssumption
  <2>3. RetrySlice(c, scan) = CoverageCursor(scan.stop + 1, scan.stop, t)
    BY <1>4 DEF RetrySlice
  <2> HIDE DEF t
  <2>4. CoverageCursor(scan.stop + 1, scan.stop, t) \in GoodCursors
    BY <1>1, <1>3, <2>2, CoverageCursorGood
  <2>5. QED
    BY <2>3, <2>4 DEF CoverageCursor
<1>5. CASE scan.why # "memory"
  <2> DEFINE back == (scan.stop + 1) - Least(c.tile, scan.stop)
             from == Max({Floor(c), back})
  <2>1. back \in Nat /\ back <= scan.stop
    BY <1>1, <1>2 DEF Least
  <2>2. from \in Nat /\ from <= scan.stop
    <3> HIDE DEF back
    <3>1. {Floor(c), back} \subseteq Nat /\ \A m \in {Floor(c), back} : m <= scan.stop
      BY <1>1, <2>1
    <3>2. from \in {Floor(c), back}
      <4>1. {Floor(c), back} # {}
        OBVIOUS
      <4>2. QED
        BY <1>1, <3>1, <4>1, MaxOf
    <3> HIDE DEF from
    <3>3. QED
      BY <3>1, <3>2
  <2>3. RetrySlice(c, scan) = CoverageCursor(scan.stop + 1, from, c.tile)
    BY <1>5 DEF RetrySlice
  <2> HIDE DEF from
  <2>4. from < scan.stop + 1
    BY <1>1, <2>2
  <2>5. CoverageCursor(scan.stop + 1, from, c.tile) \in GoodCursors
    BY <1>3, <2>2, <2>4, CursorFields, CoverageCursorGood
  <2>6. QED
    BY <2>3, <2>5 DEF CoverageCursor
<1>6. QED
  BY <1>4, <1>5

\* The cursor of the next page is a good one.
LEMMA NextCursorGood ==
    ASSUME NEW c \in GoodCursors, NEW h, NEW scan \in Scans(h, c),
           NEW cand, cand \subseteq Txs, NEW done \in BOOLEAN
    PROVE  NextCursor(c, scan, cand, done) \in GoodCursors
<1>1. /\ scan.stop \in Nat /\ scan.stop <= Ceiling(c)
      /\ Ceiling(c) \in Nat /\ Ceiling(c) <= Stored
      /\ scan.why \in {"read", "budget", "memory"}
  BY ScanOf, RangeOf
<1>2. CASE Cardinality(cand) > Limit
  <2>1. cand # {}
    <3>1. Cardinality({}) = 0
      BY FS_EmptySet
    <3>2. QED
      BY <1>2, <3>1, DiscoveryAssumption
  <2>2. Newest(cand, Limit) \subseteq cand /\ Newest(cand, Limit) # {}
    BY <2>1, NewestExist, DiscoveryAssumption
  <2>3. Newest(cand, Limit) \subseteq Nat
    BY <2>2, TxsFinite
  <2>4. Min(Newest(cand, Limit)) \in Newest(cand, Limit)
    BY <2>2, <2>3, MinOf
  <2>5. RowCursor(Min(Newest(cand, Limit))) \in GoodCursors
    BY <2>2, <2>4, RowCursorGood
  <2>6. QED
    BY <1>2, <2>5 DEF NextCursor
<1>3. CASE ~(Cardinality(cand) > Limit) /\ ~done
           /\ scan.why # "memory" /\ scan.stop \in 1 .. Ceiling(c) - 1
  <2>1. scan.stop + 1 \in 2 .. Stored + 1 /\ 0 < scan.stop + 1
    BY <1>1, <1>3, DiscoveryAssumption
  <2>2. CoverageCursor(scan.stop + 1, 0, c.tile) \in GoodCursors
    BY <2>1, CursorFields, CoverageCursorGood
  <2>3. QED
    BY <1>3, <2>2 DEF NextCursor
<1>4. CASE ~(Cardinality(cand) > Limit) /\ ~done /\ scan.why # "read"
           /\ ~(scan.why # "memory" /\ scan.stop \in 1 .. Ceiling(c) - 1)
  <2>1. RetrySlice(c, scan) \in GoodCursors
    BY <1>4, RetryGood
  <2>2. QED
    BY <1>4, <2>1 DEF NextCursor
<1>5. CASE ~(Cardinality(cand) > Limit)
           /\ (done \/ (scan.why = "read" /\ ~(scan.stop \in 1 .. Ceiling(c) - 1)))
  BY <1>5, NoCursorGood DEF NextCursor
<1>6. QED
  BY <1>2, <1>3, <1>4, <1>5

\* What was read lies above the stop slot; a stored transaction that the cursor
\* left for this page and that was not read lies at or below it.
LEMMA NotFoundIsBelow ==
    ASSUME NEW c \in GoodCursors, NEW h, h \subseteq Txs,
           NEW scan \in Scans(h, c), NEW p \in h, p \notin Found(h, c, scan),
           c.kind = "none" \/ Ahead(c, p), Slot(p) <= Stored
    PROVE  Slot(p) <= scan.stop
<1>1. /\ scan.stop \in Nat /\ Ceiling(c) \in Nat
      /\ Slot(p) \in Nat
  BY ScanOf, RangeOf, SlotOf
<1>2. c.kind \in {"none", "row", "coverage"} /\ c.at \in Nat
  BY CursorFields
<1>3. c.kind = "row" => p < c.at
  BY DEF Ahead
<1>4. c.kind = "coverage" => Slot(p) < c.at
  BY DEF Ahead
<1>5. Slot(p) <= Ceiling(c)
  BY <1>1, <1>2, <1>4, DiscoveryAssumption DEF Ceiling
<1>6. ~(Slot(p) \in scan.stop + 1 .. Ceiling(c))
  BY <1>3 DEF Found, Within
<1>7. QED
  BY <1>1, <1>5, <1>6

\* What is found, and what the tail brings, are transactions of the address.
LEMMA CandidatesAreThere ==
    ASSUME NEW c, NEW h, h \subseteq Txs, NEW scan, NEW tailOk
    PROVE  /\ Found(h, c, scan) \subseteq h
           /\ Candidates(h, c, scan, tailOk) \subseteq h
<1>1. \A m, n : Within(h, c, m, n) \subseteq h
  BY DEF Within
<1>2. LiveTail(h, c, tailOk) \subseteq h
  BY <1>1 DEF LiveTail
<1>3. Found(h, c, scan) \subseteq h
  BY <1>1 DEF Found
<1>4. Newest(Found(h, c, scan), Limit + 1) \subseteq h
  BY <1>3 DEF Newest
<1>5. QED
  BY <1>2, <1>3, <1>4 DEF Candidates

\* If more was found than the page and one row, the oldest of it is left out
\* of the candidates only when the page is full with newer ones.
LEMMA LeftOutIsOlder ==
    ASSUME NEW c \in GoodCursors, NEW h, h \subseteq Txs,
           NEW scan \in Scans(h, c), NEW tailOk \in BOOLEAN,
           NEW p \in Found(h, c, scan),
           p \notin Newest(Found(h, c, scan), Limit + 1)
    PROVE  /\ Cardinality(Candidates(h, c, scan, tailOk)) > Limit
           /\ \A m \in Newest(Candidates(h, c, scan, tailOk), Limit) : p < m
<1> DEFINE F == Found(h, c, scan)
           C == Candidates(h, c, scan, tailOk)
           N == Newest(F, Limit + 1)
<1>1. F \subseteq Txs /\ C \subseteq Txs
  BY CandidatesAreThere
<1>2. Limit \in Nat /\ Limit >= 1 /\ Limit + 1 \in Nat
  BY DiscoveryAssumption
<1>3. N \subseteq F /\ N \subseteq C /\ N \subseteq Txs
  BY <1>1 DEF Newest, Candidates
<1>4. p \in F /\ p \notin N
  OBVIOUS
<1>5. Cardinality(N) >= Limit + 1
  <2> HIDE DEF F, C
  <2>1. Newest(F, Limit + 1) # F
    BY <1>4
  <2>2. QED
    BY <1>1, <1>2, <2>1, NewestAreMany
<1>6. \A q \in N : p < q
  <2> HIDE DEF F, C
  <2>1. QED
    BY <1>1, <1>2, <1>4, NewestAreNewer
<1> HIDE DEF F, C, N
<1>7. Cardinality(N) \in Nat /\ Cardinality(C) \in Nat /\ Cardinality(N) <= Cardinality(C)
  BY <1>1, <1>3, TxsFinite, PartIsSmaller
<1>8. Cardinality(C) > Limit
  BY <1>2, <1>5, <1>7
<1>9. ASSUME NEW m \in Newest(C, Limit) PROVE p < m
  <2> DEFINE Q == {x \in C : x > m}
  <2>1. m \in Nat /\ p \in Nat
    BY <1>1, <1>4, SlotOf DEF Newest
  <2>2. Cardinality(Q) < Limit
    BY DEF Newest
  <2>3. SUFFICES ASSUME m <= p PROVE FALSE
    BY <2>1
  <2>4. N \subseteq Q
    <3>1. SUFFICES ASSUME NEW x \in N PROVE x > m
      BY <1>3
    <3>2. x \in Nat /\ p < x
      BY <1>3, <1>6, SlotOf
    <3>3. QED
      BY <2>1, <2>3, <3>2
  <2>5. Cardinality(Q) \in Nat /\ Cardinality(N) <= Cardinality(Q)
    <3>1. Q \subseteq Txs
      BY <1>1
    <3> HIDE DEF Q
    <3>2. QED
      BY <2>4, <3>1, TxsFinite, PartIsSmaller
  <2>6. QED
    BY <1>2, <1>5, <1>7, <2>2, <2>5
<1>10. QED
  BY <1>8, <1>9 DEF C

\* A transaction of the tail that the page leaves out was not asked for.
LEMMA TailIsRead ==
    ASSUME NEW c \in GoodCursors, NEW h, h \subseteq Txs, NEW scan,
           NEW tailOk \in BOOLEAN, NEW p \in h,
           c.kind = "none" \/ Ahead(c, p), Slot(p) > Stored,
           p \notin Candidates(h, c, scan, tailOk)
    PROVE  ~tailOk /\ c.kind # "coverage"
<1>1. Slot(p) \in Nat /\ Slot(p) <= Last
  BY SlotOf
<1>2. c.kind # "coverage"
  <2>1. SUFFICES ASSUME c.kind = "coverage" PROVE FALSE
    OBVIOUS
  <2>2. Slot(p) < c.at
    BY <2>1 DEF Ahead
  <2>3. c.at \in Nat /\ c.at <= Stored + 1
    BY <2>1, CursorFields
  <2>4. QED
    BY <1>1, <2>2, <2>3, DiscoveryAssumption
<1>3. c.kind = "row" => p < c.at
  BY DEF Ahead
<1>4. Slot(p) \in Stored + 1 .. Last
  BY <1>1, DiscoveryAssumption
<1>5. p \in Within(h, c, Stored + 1, Last)
  BY <1>3, <1>4 DEF Within
<1>6. p \notin LiveTail(h, c, tailOk)
  BY DEF Candidates
<1>7. QED
  BY <1>2, <1>5, <1>6 DEF LiveTail

\* Every candidate lies above the slots that were not read.
LEMMA CandidatesAreRead ==
    ASSUME NEW c \in GoodCursors, NEW h, h \subseteq Txs,
           NEW scan \in Scans(h, c), NEW tailOk,
           NEW q \in Candidates(h, c, scan, tailOk)
    PROVE  Slot(q) > scan.stop
<1>1. /\ scan.stop \in Nat /\ scan.stop <= Ceiling(c)
      /\ Ceiling(c) \in Nat /\ Ceiling(c) <= Stored
  BY ScanOf, RangeOf
<1>2. q \in Txs
  BY CandidatesAreThere
<1>3. Slot(q) \in Nat
  BY <1>2, SlotOf
<1>4. CASE q \in Newest(Found(h, c, scan), Limit + 1)
  <2>1. q \in Found(h, c, scan)
    BY <1>4 DEF Newest
  <2>2. Slot(q) \in scan.stop + 1 .. Ceiling(c)
    BY <2>1 DEF Found, Within
  <2>3. QED
    BY <1>1, <1>3, <2>2
<1>5. CASE q \in LiveTail(h, c, tailOk)
  <2>1. q \in Within(h, c, Stored + 1, Last)
    BY <1>5 DEF LiveTail
  <2>2. Slot(q) \in Stored + 1 .. Last
    BY <2>1 DEF Within
  <2>3. QED
    BY <1>1, <1>3, <2>2, DiscoveryAssumption
<1>6. QED
  BY <1>4, <1>5 DEF Candidates

\* One page skips nothing: a transaction that the cursor left for it is on the
\* page, or ahead of the next cursor, or in the part of the tail that could
\* not be read (transactions.py 251-258: "without skipping a gap").
THEOREM PageSkipsNothing ==
    ASSUME NEW c \in GoodCursors, NEW h, h \subseteq Txs,
           NEW scan \in Scans(h, c), NEW tailOk \in BOOLEAN,
           NEW p \in h, c.kind = "none" \/ Ahead(c, p),
           p \notin Newest(Candidates(h, c, scan, tailOk), Limit)
    PROVE  \/ Ahead(NextCursor(c, scan, Candidates(h, c, scan, tailOk),
                               ExecutionComplete(h, c, scan)), p)
           \/ Slot(p) > Stored /\ ~tailOk /\ c.kind # "coverage"
<1> DEFINE C == Candidates(h, c, scan, tailOk)
           N == Newest(C, Limit)
           done == ExecutionComplete(h, c, scan)
           next == NextCursor(c, scan, C, done)
<1>1. C \subseteq h /\ C \subseteq Txs /\ N \subseteq C
  BY CandidatesAreThere DEF Newest
<1>2. /\ scan.stop \in Nat /\ scan.stop <= Ceiling(c) /\ Floor(c) - 1 <= scan.stop
      /\ scan.why \in {"read", "budget", "memory"}
      /\ scan.why = "read" => scan.stop < Ceiling(c)
      /\ Ceiling(c) \in Nat /\ Ceiling(c) <= Stored
  BY ScanOf, RangeOf
<1>3. p \in Nat /\ Slot(p) \in Nat /\ Slot(p) >= 1
  BY SlotOf
<1>4. Limit \in Nat /\ Limit >= 1 /\ Stored \in Nat
  BY DiscoveryAssumption
<1>5. p \notin N
  OBVIOUS
<1>6. CASE p \notin C /\ Slot(p) > Stored
  <2>1. ~tailOk /\ c.kind # "coverage"
    BY <1>6, TailIsRead
  <2>2. QED
    BY <1>6, <2>1
<1>7. CASE Cardinality(C) > Limit /\ (p \in C \/ Slot(p) <= Stored)
  <2>1. C # {}
    <3>1. Cardinality({}) = 0
      BY FS_EmptySet
    <3> HIDE DEF C
    <3>2. QED
      BY <1>4, <1>7, <3>1
  <2>2. N # {} /\ N \subseteq Nat
    <3> HIDE DEF C
    <3>1. N # {}
      BY <1>1, <1>4, <2>1, NewestExist
    <3>2. QED
      BY <1>1, <3>1, TxsFinite
  <2>3. Min(N) \in N
    <3> HIDE DEF N
    <3>1. QED
      BY <2>2, MinOf
  <2>4. next = RowCursor(Min(N))
    BY <1>7 DEF NextCursor
  <2>5. p < Min(N)
    <3>1. CASE p \in C
      <4> HIDE DEF C
      <4>1. QED
        BY <1>1, <1>4, <1>5, <2>3, <3>1, NewestAreNewer
    <3>2. CASE p \notin C /\ p \in Found(h, c, scan)
      <4>1. p \notin Newest(Found(h, c, scan), Limit + 1)
        BY <3>2 DEF Candidates
      <4>2. QED
        BY <2>3, <3>2, <4>1, LeftOutIsOlder
    <3>3. CASE p \notin C /\ p \notin Found(h, c, scan)
      <4>1. Slot(p) <= scan.stop
        BY <1>7, <3>3, NotFoundIsBelow
      <4>2. Min(N) \in C
        BY <1>1, <2>3
      <4>3. Slot(Min(N)) > scan.stop
        BY <4>2, CandidatesAreRead
      <4> HIDE DEF N, C
      <4>4. Min(N) \in Txs
        BY <1>1, <4>2
      <4>5. Min(N) \in Nat /\ Slot(Min(N)) \in Nat
        BY <4>4, SlotOf
      <4>6. Min(N) <= p => Slot(Min(N)) <= Slot(p)
        BY <4>4, SlotsInOrder
      <4>7. QED
        BY <1>2, <1>3, <4>1, <4>3, <4>5, <4>6
    <3>4. QED
      BY <3>1, <3>2, <3>3
  <2>6. Ahead(RowCursor(Min(N)), p)
    BY <2>5 DEF Ahead, RowCursor
  <2>7. QED
    BY <2>4, <2>6
<1>8. CASE ~(Cardinality(C) > Limit) /\ Slot(p) <= Stored
  <2>1. p \notin C
    <3>1. Cardinality(C) \in Nat
      BY <1>1, TxsFinite
    <3> HIDE DEF C
    <3>2. Cardinality(C) <= Limit
      BY <1>4, <1>8, <3>1
    <3>3. N = C
      BY <1>1, <1>4, <3>2, NewestOfFew
    <3>4. QED
      BY <1>5, <3>3
  <2>2. p \notin Found(h, c, scan)
    <3>1. p \notin Newest(Found(h, c, scan), Limit + 1)
      BY <2>1 DEF Candidates
    <3>2. QED
      BY <1>8, <3>1, LeftOutIsOlder
  <2>3. Slot(p) <= scan.stop
    BY <1>8, <2>2, NotFoundIsBelow
  <2>4. ~done
    <3>1. SUFFICES ASSUME done PROVE FALSE
      OBVIOUS
    <3>2. scan.stop = Floor(c) - 1 /\ c.from <= 1
      BY <3>1 DEF ExecutionComplete
    <3>3. Floor(c) = 1
      <4>1. c.from \in Nat
        BY CursorFields
      <4>2. QED
        BY <3>2, <4>1 DEF Floor
    <3>4. QED
      BY <1>2, <1>3, <2>3, <3>2, <3>3
  <2> HIDE DEF done, C
  <2>5. CASE scan.why # "memory" /\ scan.stop \in 1 .. Ceiling(c) - 1
    <3>1. next = CoverageCursor(scan.stop + 1, 0, c.tile)
      BY <1>8, <2>4, <2>5 DEF NextCursor
    <3>2. Ahead(CoverageCursor(scan.stop + 1, 0, c.tile), p)
      BY <1>2, <1>3, <2>3 DEF Ahead, CoverageCursor
    <3>3. QED
      BY <3>1, <3>2 DEF done, C
  <2>6. CASE scan.why # "read" /\ ~(scan.why # "memory" /\ scan.stop \in 1 .. Ceiling(c) - 1)
    <3>1. next = RetrySlice(c, scan)
      BY <1>8, <2>4, <2>6 DEF NextCursor
    <3>2. RetrySlice(c, scan).kind = "coverage" /\ RetrySlice(c, scan).at = scan.stop + 1
      BY <2>6, RetryGood
    <3>3. Ahead(RetrySlice(c, scan), p)
      BY <1>2, <1>3, <2>3, <3>2 DEF Ahead
    <3>4. QED
      BY <3>1, <3>3 DEF done, C
  <2>7. CASE scan.why = "read" /\ ~(scan.stop \in 1 .. Ceiling(c) - 1)
    BY <1>2, <1>3, <2>3, <2>7
  <2>8. QED
    BY <2>5, <2>6, <2>7
<1>9. QED
  <2>1. Slot(p) <= Stored \/ Slot(p) > Stored
    BY <1>3, <1>4
  <2>2. Cardinality(C) > Limit \/ ~(Cardinality(C) > Limit)
    OBVIOUS
  <2>3. p \in C => Cardinality(C) > Limit
    <3>1. SUFFICES ASSUME p \in C, ~(Cardinality(C) > Limit) PROVE FALSE
      OBVIOUS
    <3>2. Cardinality(C) \in Nat
      BY <1>1, TxsFinite
    <3> HIDE DEF C
    <3>3. Cardinality(C) <= Limit
      BY <1>4, <3>1, <3>2
    <3>4. N = C
      BY <1>1, <1>4, <3>3, NewestOfFew
    <3>5. QED
      BY <1>5, <3>1, <3>4
  <2> HIDE DEF C, done
  <2>4. QED
    BY <1>6, <1>7, <1>8, <2>1, <2>3

---------------------------------------------------------------------------
(* The inductive invariant *)

GoodRequests == [op : {"discover"}, addr : Addrs, cur : GoodCursors]
                    \cup [op : {"receipt"}, tx : Txs]

Views == [addr : Addrs \cup {None}, list : SUBSET Txs, cur : GoodCursors,
          complete : BOOLEAN, gaps : SUBSET (1 .. Last), legs : SUBSET Txs,
          failed : {"discover", "receipt", None}, scoped : BOOLEAN]

Autos == [on : BOOLEAN, addr : Addrs \cup {None}, fresh : BOOLEAN,
          seen : SUBSET GoodCursors]

Walks == [asof : SUBSET Txs, handed : SUBSET GoodCursors, ours : BOOLEAN,
          turn : BOOLEAN]

ServerTyped == hist \in [Addrs -> SUBSET Txs] /\ srv \in Views /\ walk \in Walks

LoaderTyped ==
    /\ tasks \in Seq(GoodRequests)
    /\ fl \in GoodRequests \cup {None}
    /\ queue \in GoodRequests \cup {None}
    /\ pend \in GoodRequests \cup {None}
    /\ err \in BOOLEAN

ViewTyped ==
    /\ cl \in Views
    /\ auto \in Autos
    /\ auto.on => auto.addr \in Addrs
    /\ sub \in {"activity", "receipt"}

(* The request in flight is the last one sent, another one waits only behind *)
(* it, and what is in flight was asked for.                                  *)
InFlight ==
    /\ fl # None => /\ Len(tasks) > 0 /\ tasks[Len(tasks)] = fl
                    /\ ~err
                    /\ pend # None
    /\ queue # None => fl # None

(* Before the first view has arrived only a search can have been asked for,  *)
(* and its failure is shown.                                                 *)
FirstView ==
    /\ ~cl.scoped => /\ cl.addr = None /\ cl.failed = None
                     /\ pend # None => pend.op = "discover" /\ sub = "activity"
    /\ err => pend # None \/ cl.scoped

(* What cursor c leaves for later pages, and what the tail could not bring.  *)
LeavesOut(c, p, gaps) == \/ Ahead(c, p)
                         \/ Slot(p) > Stored /\ Slot(p) \in gaps

(* Every cursor the search has handed out still leaves everything that is    *)
(* not listed, not only the last one: the browser may come back to any.      *)
Walked ==
    /\ \A p \in walk.asof : srv.addr \in Addrs /\ p \in hist[srv.addr]
    /\ ~srv.scoped => walk.asof = {}
    /\ srv.complete => srv.gaps = {}
    /\ walk.ours => \A c \in walk.handed \cup {srv.cur} :
                       \A p \in walk.asof \ srv.list : LeavesOut(c, p, srv.gaps)

IInv == ServerTyped /\ LoaderTyped /\ ViewTyped /\ InFlight /\ FirstView /\ Walked

---------------------------------------------------------------------------
(* Requests and views *)

\* A request is a search or a receipt, and not None.
LEMMA RequestFields ==
    ASSUME NEW r \in GoodRequests
    PROVE  /\ r.op \in {"discover", "receipt"}
           /\ r.op = "discover" => r.addr \in Addrs /\ r.cur \in GoodCursors
           /\ r.op = "receipt" => r.tx \in Txs
           /\ r # None
           /\ r \in Requests
<1>1. GoodCursors \subseteq Cursors
  BY DEF GoodCursors
<1>2. r \in Requests
  BY <1>1 DEF GoodRequests, Requests
<1>3. QED
  BY <1>2, NoneAssumption DEF GoodRequests

\* A request for a page is one (transactionRequest.ts 19-125).
LEMMA DiscoverGood ==
    ASSUME NEW a \in Addrs, NEW c \in GoodCursors
    PROVE  /\ Discover(a, c) \in GoodRequests
           /\ Discover(a, c).op = "discover"
           /\ Discover(a, c) # None
<1>1. Discover(a, c) \in GoodRequests /\ Discover(a, c).op = "discover"
  BY DEF Discover, GoodRequests
<1>2. QED
  BY <1>1, RequestFields

\* So is a request for a receipt.
LEMMA ReceiptGood ==
    ASSUME NEW p \in Txs
    PROVE  Receipt(p) \in GoodRequests
  BY DEF Receipt, GoodRequests

\* The namespace before the first answer is a view (transactions.py 1851-1880).
LEMMA NobodyGood == NobodyYet \in Views
  BY NoCursorGood DEF NobodyYet, Views

\* A committed page is a view with a search in it.
LEMMA PageGood ==
    ASSUME ServerTyped, NEW r \in GoodRequests, r.op = "discover",
           NEW scan \in Scans(hist[r.addr], r.cur), NEW tailOk \in BOOLEAN
    PROVE  /\ PageOf(r, scan, tailOk) \in Views
           /\ PageOf(r, scan, tailOk).scoped
<1> DEFINE h == hist[r.addr]
           c == r.cur
           gaps == Uncovered(c, scan) \cup
                     (IF tailOk \/ c.kind = "coverage" THEN {} ELSE Stored + 1 .. Last)
           all == IF c.kind # "none" THEN srv.gaps \cup gaps ELSE gaps
           cand == Candidates(h, c, scan, tailOk)
           done == ExecutionComplete(h, c, scan)
           list == (IF c.kind # "none" THEN srv.list ELSE {}) \cup Newest(cand, Limit)
           complete == done /\ (tailOk \/ c.kind = "coverage")
                       /\ (c.kind # "none" => all = {})
           legs == IF c.kind # "none" THEN srv.legs ELSE {}
           s == PageOf(r, scan, tailOk)
<1>1. r.addr \in Addrs /\ c \in GoodCursors /\ h \subseteq Txs
  BY RequestFields DEF ServerTyped
<1>2. srv.list \subseteq Txs /\ srv.gaps \subseteq 1 .. Last /\ srv.legs \subseteq Txs
  BY DEF ServerTyped, Views
<1>3. cand \subseteq Txs
  BY <1>1, CandidatesAreThere
<1>4. gaps \subseteq 1 .. Last
  <2>1. Uncovered(c, scan) \subseteq 1 .. Last
    BY <1>1, UncoveredOf
  <2>2. Stored + 1 .. Last \subseteq 1 .. Last
    BY DiscoveryAssumption
  <2>3. QED
    BY <2>1, <2>2
<1>5. list \subseteq Txs
  BY <1>2, <1>3 DEF Newest
<1>6. done \in BOOLEAN
  BY DEF ExecutionComplete
<1>7. NextCursor(c, scan, cand, done) \in GoodCursors
  <2> HIDE DEF cand, done
  <2>1. QED
    BY <1>1, <1>3, <1>6, NextCursorGood
<1>8. s = [addr |-> r.addr, list |-> list, cur |-> NextCursor(c, scan, cand, done),
           complete |-> complete, gaps |-> all, legs |-> legs, failed |-> None,
           scoped |-> TRUE]
  BY DEF PageOf
<1>9. all \subseteq 1 .. Last /\ legs \subseteq Txs /\ complete \in BOOLEAN
  BY <1>2, <1>4
<1>10. QED
  <2> HIDE DEF list, complete, all, legs, cand, done, s
  <2>1. s \in Views /\ s.scoped
    BY <1>1, <1>5, <1>7, <1>8, <1>9 DEF Views
  <2>2. QED
    BY <2>1 DEF s

\* A receipt adds legs to the view and no more (transactions.py 4392-4408).
LEMMA ReceiptView ==
    ASSUME srv \in Views, NEW p \in Txs
    PROVE  /\ WithReceipt(p) \in Views
           /\ WithReceipt(p).scoped
           /\ WithReceipt(p).addr = srv.addr
           /\ WithReceipt(p).list = srv.list
           /\ WithReceipt(p).cur = srv.cur
           /\ WithReceipt(p).gaps = srv.gaps
           /\ WithReceipt(p).complete = srv.complete
  BY DEF WithReceipt, Views

\* A failure is recorded beside the evidence, or takes the place of a view
\* that no search has filled (transactions.py 1851-1927).
LEMMA FailureView ==
    ASSUME srv \in Views, NEW r \in GoodRequests
    PROVE  /\ WithFailure(r) \in Views
           /\ WithFailure(r).scoped
           /\ \/ /\ WithFailure(r).addr = srv.addr
                 /\ WithFailure(r).list = srv.list
                 /\ WithFailure(r).cur = srv.cur
                 /\ WithFailure(r).gaps = srv.gaps
                 /\ WithFailure(r).complete = srv.complete
              \/ ~srv.scoped /\ ~WithFailure(r).complete
<1>1. r.op \in {"discover", "receipt"} /\ (r.op = "discover" => r.addr \in Addrs)
  BY RequestFields
<1>2. CASE srv.scoped
  BY <1>1, <1>2 DEF WithFailure, Views
<1>3. CASE ~srv.scoped
  <2>1. NobodyYet.complete = FALSE
    BY DEF NobodyYet
  <2> DEFINE a == IF r.op = "discover" THEN r.addr ELSE None
             w == [NobodyYet EXCEPT !.addr = a, !.failed = r.op, !.scoped = TRUE]
  <2>2. a \in Addrs \cup {None}
    BY <1>1
  <2>3. WithFailure(r) = w
    BY <1>3 DEF WithFailure
  <2>4. w \in Views /\ w.scoped /\ w.complete = NobodyYet.complete
    <3> HIDE DEF a
    <3>1. QED
      BY <1>1, <2>2, NobodyGood DEF Views
  <2>5. QED
    BY <1>3, <2>1, <2>3, <2>4
<1>4. QED
  BY <1>2, <1>3

---------------------------------------------------------------------------
(* What the steps have in common *)

\* A step that leaves the search alone disturbs nothing of it; new
\* transactions are newer than the search.
LEMMA SearchUntouched ==
    ASSUME ServerTyped, Walked, walk' = walk,
           hist' \in [Addrs -> SUBSET Txs], \A a \in Addrs : hist[a] \subseteq hist'[a],
           srv' \in Views, srv'.scoped \/ srv' = srv,
           \/ /\ srv'.addr = srv.addr /\ srv'.list = srv.list /\ srv'.cur = srv.cur
              /\ srv'.gaps = srv.gaps /\ srv'.complete = srv.complete
           \/ walk.asof = {} /\ ~srv'.complete
    PROVE  ServerTyped' /\ Walked'
<1>1. ServerTyped'
  BY DEF ServerTyped
<1>2. CASE /\ srv'.addr = srv.addr /\ srv'.list = srv.list /\ srv'.cur = srv.cur
           /\ srv'.gaps = srv.gaps /\ srv'.complete = srv.complete
  <2>1. \A p \in walk'.asof : srv'.addr \in Addrs /\ p \in hist'[srv'.addr]
    BY <1>2 DEF Walked
  <2>2. srv'.complete => srv'.gaps = {}
    BY <1>2 DEF Walked
  <2>4. walk'.ours => \A c \in walk'.handed \cup {srv'.cur} :
                         \A p \in walk'.asof \ srv'.list : LeavesOut(c, p, srv'.gaps)
    BY <1>2 DEF Walked
  <2>5. QED
    BY <1>1, <2>1, <2>2, <2>4 DEF Walked
<1>3. CASE walk.asof = {} /\ ~srv'.complete
  BY <1>1, <1>3 DEF Walked
<1>4. QED
  BY <1>1, <1>2, <1>3

\* A page keeps the account of its search (transactions.py 2356-2378 and the
\* coverage of a page, 3278-3341).
LEMMA PageKeepsWalked ==
    ASSUME ServerTyped, Walked,
           NEW r \in GoodRequests, r.op = "discover", ~Foreign(r),
           NEW scan \in Scans(hist[r.addr], r.cur), NEW tailOk \in BOOLEAN,
           hist' = hist, srv' = PageOf(r, scan, tailOk), walk' = WalkOf(r, srv')
    PROVE  ServerTyped' /\ Walked'
<1> DEFINE h == hist[r.addr]
           c == r.cur
           gaps == Uncovered(c, scan) \cup
                     (IF tailOk \/ c.kind = "coverage" THEN {} ELSE Stored + 1 .. Last)
           cand == Candidates(h, c, scan, tailOk)
           done == ExecutionComplete(h, c, scan)
<1>1. r.addr \in Addrs /\ c \in GoodCursors /\ h \subseteq Txs
  BY RequestFields DEF ServerTyped
<1>2. /\ srv'.addr = r.addr
      /\ srv'.list = (IF c.kind # "none" THEN srv.list ELSE {}) \cup Newest(cand, Limit)
      /\ srv'.cur = NextCursor(c, scan, cand, done)
      /\ srv'.gaps = IF c.kind # "none" THEN srv.gaps \cup gaps ELSE gaps
      /\ srv'.complete = (/\ done
                          /\ tailOk \/ c.kind = "coverage"
                          /\ c.kind # "none" => srv'.gaps = {})
  BY DEF PageOf
<1>3. srv' \in Views /\ srv'.scoped
  BY PageGood
<1>4. c.kind # "none" => r.addr = srv.addr
  BY DEF Foreign
<1>5. srv'.complete => srv'.gaps = {}
  <2>1. done => Uncovered(c, scan) = {}
    BY DEF ExecutionComplete, Uncovered
  <2> HIDE DEF done
  <2>2. QED
    BY <1>2, <2>1
<1>6. ASSUME NEW p \in h, p \notin srv'.list, c.kind = "none" \/ Ahead(c, p)
      PROVE  LeavesOut(srv'.cur, p, srv'.gaps)
  <2>1. p \notin Newest(cand, Limit)
    BY <1>2, <1>6
  <2>2. \/ Ahead(srv'.cur, p)
        \/ Slot(p) > Stored /\ ~tailOk /\ c.kind # "coverage"
    BY <1>1, <1>2, <1>6, <2>1, PageSkipsNothing
  <2>3. Slot(p) > Stored /\ ~tailOk /\ c.kind # "coverage" => Slot(p) \in srv'.gaps
    <3>1. Slot(p) \in Nat /\ Slot(p) <= Last
      BY <1>1, SlotOf
    <3>2. Slot(p) > Stored => Slot(p) \in Stored + 1 .. Last
      BY <3>1, DiscoveryAssumption
    <3>3. QED
      BY <1>2, <3>2
  <2>4. QED
    BY <2>2, <2>3 DEF LeavesOut
<1> HIDE DEF cand, done, gaps
<1>7. CASE c.kind = "none"
  <2>1. /\ walk'.asof = h /\ walk'.handed = {srv'.cur} /\ walk'.ours = TRUE
        /\ walk'.turn \in BOOLEAN
        /\ walk' = [asof |-> h, handed |-> {srv'.cur}, ours |-> TRUE, turn |-> ~walk.turn]
    BY <1>7 DEF WalkOf
  <2>2. walk' \in Walks
    <3>1. srv'.cur \in GoodCursors
      BY <1>3 DEF Views
    <3>2. QED
      BY <1>1, <2>1, <3>1 DEF Walks
  <2>3. \A p \in walk'.asof : srv'.addr \in Addrs /\ p \in hist'[srv'.addr]
    BY <1>1, <1>2, <2>1
  <2>4. ASSUME NEW d \in walk'.handed \cup {srv'.cur}, NEW p \in walk'.asof \ srv'.list
        PROVE  LeavesOut(d, p, srv'.gaps)
    BY <1>6, <1>7, <2>1
  <2>5. Walked'
    BY <1>3, <1>5, <2>3, <2>4 DEF Walked
  <2>6. QED
    BY <1>3, <2>2, <2>5 DEF ServerTyped
<1>8. CASE c.kind # "none"
  <2>1. walk' = [walk EXCEPT !.handed = @ \cup {srv'.cur},
                             !.ours = @ /\ r.cur \in walk.handed, !.turn = ~@]
    BY <1>8 DEF WalkOf
  <2>2. walk \in Walks
    BY DEF ServerTyped
  <2>3. /\ walk'.asof = walk.asof /\ walk'.handed = walk.handed \cup {srv'.cur}
        /\ walk'.ours = (walk.ours /\ c \in walk.handed)
    BY <2>1, <2>2 DEF Walks
  <2>4. walk' \in Walks
    <3>1. srv'.cur \in GoodCursors
      BY <1>3 DEF Views
    <3> DEFINE H == walk.handed \cup {srv'.cur}
               o == walk.ours /\ r.cur \in walk.handed
               t == ~walk.turn
    <3>2. H \subseteq GoodCursors /\ o \in BOOLEAN /\ t \in BOOLEAN
      BY <2>2, <3>1 DEF Walks
    <3>3. walk' = [walk EXCEPT !.handed = H, !.ours = o, !.turn = t]
      BY <2>1
    <3> HIDE DEF H, o, t
    <3>4. QED
      BY <2>2, <3>2, <3>3 DEF Walks
  <2>5. \A p \in walk'.asof : srv'.addr \in Addrs /\ p \in hist'[srv'.addr]
    BY <1>2, <1>4, <1>8, <2>3 DEF Walked
  <2>6. srv.list \subseteq srv'.list /\ srv.gaps \subseteq srv'.gaps
    BY <1>2, <1>8
  <2>7. ASSUME walk'.ours, NEW d \in walk'.handed \cup {srv'.cur},
               NEW p \in walk'.asof \ srv'.list
        PROVE  LeavesOut(d, p, srv'.gaps)
    <3>1. p \in walk.asof \ srv.list /\ walk.ours /\ c \in walk.handed
      BY <2>3, <2>6, <2>7
    <3>2. \A x \in walk.handed : LeavesOut(x, p, srv.gaps)
      BY <3>1 DEF Walked
    <3>3. \A x \in walk.handed : LeavesOut(x, p, srv'.gaps)
      BY <2>6, <3>2 DEF LeavesOut
    <3>4. LeavesOut(srv'.cur, p, srv'.gaps)
      <4>1. CASE Ahead(c, p)
        <5>1. p \in h
          BY <1>4, <1>8, <3>1 DEF Walked
        <5>2. QED
          BY <1>6, <2>7, <4>1, <5>1
      <4>2. CASE ~Ahead(c, p)
        BY <2>6, <3>1, <3>2, <4>2 DEF LeavesOut
      <4>3. QED
        BY <4>1, <4>2
    <3>5. QED
      BY <2>3, <3>3, <3>4
  <2>8. Walked'
    BY <1>3, <1>5, <2>5, <2>7 DEF Walked
  <2>9. QED
    BY <1>3, <2>4, <2>8 DEF ServerTyped
<1>9. QED
  BY <1>7, <1>8

\* A request that is issued is in flight, or waits behind the one that is
\* (useSerializedLoader.ts 77-84).
LEMMA IssueKeeps ==
    ASSUME LoaderTyped, InFlight, NEW r \in GoodRequests, Issue(r)
    PROVE  /\ LoaderTyped' /\ InFlight'
           /\ pend' = r
<1>1. r # None
  BY RequestFields
<1>2. pend' = r /\ Enqueue(r)
  BY DEF Issue
<1>3. CASE fl = None
  <2>1. fl' = r /\ tasks' = Append(tasks, r) /\ err' = FALSE /\ queue' = queue
    BY <1>2, <1>3 DEF Enqueue
  <2>2. tasks' \in Seq(GoodRequests) /\ Len(tasks') > 0 /\ tasks'[Len(tasks')] = r
    BY <2>1 DEF LoaderTyped
  <2>3. LoaderTyped'
    BY <1>2, <2>1, <2>2 DEF LoaderTyped
  <2>4. InFlight'
    BY <1>1, <1>2, <1>3, <2>1, <2>2 DEF InFlight
  <2>5. QED
    BY <1>2, <2>3, <2>4
<1>4. CASE fl # None
  <2>1. queue' = r /\ fl' = fl /\ tasks' = tasks /\ err' = err
    BY <1>2, <1>4 DEF Enqueue
  <2>2. LoaderTyped'
    BY <1>2, <2>1 DEF LoaderTyped
  <2>3. InFlight'
    BY <1>1, <1>2, <1>4, <2>1 DEF InFlight
  <2>4. QED
    BY <1>2, <2>2, <2>3
<1>5. QED
  BY <1>3, <1>4

\* When the request in flight settles, what follows it was asked for, and a
\* failure that nobody sees is one of a view that has arrived
\* (TransactionsView.tsx 1380-1439, useSerializedLoader.ts 64-74).
LEMMA SettleKeeps ==
    ASSUME LoaderTyped, ViewTyped, InFlight, FirstView,
           fl # None, NEW rest \in Seq(GoodRequests), NEW c \in Views,
           NEW e \in BOOLEAN, NEW news \in BOOLEAN,
           c.scoped \/ c = cl, sub' = sub, Settle(rest, c, e, news)
    PROVE  LoaderTyped' /\ ViewTyped' /\ InFlight' /\ FirstView'
<1> DEFINE failed == FailureShown(c, e, pend)
           acked == auto.on /\ (auto.fresh \/ news)
           goes == acked /\ ~Ends(c, failed)
           next == Discover(auto.addr, c.cur)
<1>1. cl' = c /\ queue' = None
  BY DEF Settle
<1>2. pend # None /\ pend \in GoodRequests
  BY DEF InFlight, LoaderTyped
<1>3. acked \in BOOLEAN
  BY DEF ViewTyped, Autos
<1>4. ASSUME ~c.scoped
      PROVE  /\ c = cl /\ c.addr = None /\ c.failed = None
             /\ pend.op = "discover" /\ sub = "activity"
  BY <1>2, <1>4 DEF FirstView
<1>5. c.cur \in GoodCursors
  BY DEF Views
<1>6. CASE queue # None
  <2>1. /\ fl' = queue /\ tasks' = Append(rest, queue) /\ err' = FALSE
        /\ auto' = [auto EXCEPT !.fresh = acked] /\ pend' = pend
    BY <1>6 DEF Settle
  <2>2. queue \in GoodRequests
    BY <1>6 DEF LoaderTyped
  <2>3. tasks' \in Seq(GoodRequests) /\ Len(tasks') > 0 /\ tasks'[Len(tasks')] = fl'
    BY <2>1, <2>2
  <2>4. LoaderTyped'
    BY <1>1, <1>2, <2>1, <2>2, <2>3 DEF LoaderTyped
  <2>5. InFlight'
    BY <1>1, <1>2, <2>1, <2>3 DEF InFlight
  <2>6. ViewTyped'
    <3> HIDE DEF acked
    <3>1. auto' \in Autos /\ auto'.on = auto.on /\ auto'.addr = auto.addr
      BY <1>3, <2>1 DEF ViewTyped, Autos
    <3>2. QED
      BY <1>1, <3>1 DEF ViewTyped
  <2>7. FirstView'
    BY <1>1, <1>2, <1>4, <2>1 DEF FirstView
  <2>8. QED
    BY <2>4, <2>5, <2>6, <2>7
<1>7. CASE queue = None /\ goes
  <2>1. /\ fl' = next /\ tasks' = Append(rest, next) /\ err' = FALSE
        /\ auto' = [auto EXCEPT !.fresh = FALSE, !.seen = @ \cup {c.cur}]
        /\ pend' = next
    BY <1>7 DEF Settle
  <2>2. auto.on /\ auto.addr \in Addrs
    BY <1>7 DEF ViewTyped
  <2>3. next \in GoodRequests /\ next.op = "discover" /\ next # None
    BY <1>5, <2>2, DiscoverGood
  <2>4. sub = "activity"
    BY <1>7 DEF Ends
  <2> HIDE DEF next
  <2>5. tasks' \in Seq(GoodRequests) /\ Len(tasks') > 0 /\ tasks'[Len(tasks')] = fl'
    BY <2>1, <2>3
  <2>6. LoaderTyped'
    BY <1>1, <2>1, <2>3, <2>5 DEF LoaderTyped
  <2>7. InFlight'
    BY <1>1, <2>1, <2>3, <2>5 DEF InFlight
  <2>8. ViewTyped'
    <3>1. auto' \in Autos /\ auto'.on = auto.on /\ auto'.addr = auto.addr
      BY <1>5, <2>1 DEF ViewTyped, Autos
    <3>2. QED
      BY <1>1, <3>1 DEF ViewTyped
  <2>9. FirstView'
    BY <1>1, <1>4, <2>1, <2>3, <2>4 DEF FirstView
  <2>10. QED
    BY <2>6, <2>7, <2>8, <2>9
<1>8. CASE queue = None /\ ~goes
  <2>1. /\ fl' = None /\ tasks' = rest /\ err' = e
        /\ auto' = IF acked THEN Off ELSE auto
        /\ pend' = IF failed \/ auto'.on THEN pend ELSE None
    BY <1>8 DEF Settle
  <2>2. LoaderTyped'
    BY <1>1, <1>2, <2>1 DEF LoaderTyped
  <2>3. InFlight'
    BY <1>1, <2>1 DEF InFlight
  <2>4. ViewTyped'
    <3>1. Off \in Autos /\ Off.on = FALSE
      BY DEF Off, Autos
    <3> HIDE DEF acked
    <3>2. auto' \in Autos /\ (auto'.on => auto'.addr \in Addrs)
      BY <2>1, <3>1 DEF ViewTyped
    <3>3. QED
      BY <1>1, <3>2 DEF ViewTyped
  <2>5. FirstView'
    <3>1. e /\ ~c.scoped => failed
      BY <1>2, <1>4 DEF FailureShown, KindOfFailure, Shows
    <3> HIDE DEF failed
    <3>2. pend' # None => pend' = pend
      BY <2>1
    <3>3. e /\ ~c.scoped => pend' # None
      BY <1>2, <2>1, <3>1
    <3>4. QED
      BY <1>1, <1>4, <2>1, <3>2, <3>3 DEF FirstView
  <2>6. QED
    BY <2>2, <2>3, <2>4, <2>5
<1>9. QED
  BY <1>6, <1>7, <1>8

\* A request nobody waits for is handled, and with it the older ones are stale
\* (reserve_view_request, transactions.py 2159-2182).
LEMMA StaleKeeps ==
    ASSUME LoaderTyped, ViewTyped, InFlight, FirstView,
           NEW i \in DOMAIN tasks, ~Waited(i), tasks' = Younger(i), sub' = sub,
           UNCHANGED <<cl, fl, queue, err, auto, pend>>
    PROVE  LoaderTyped' /\ ViewTyped' /\ InFlight' /\ FirstView'
<1>1. tasks \in Seq(GoodRequests) /\ i \in 1 .. Len(tasks) /\ Len(tasks) \in Nat
  BY DEF LoaderTyped
<1>2. /\ tasks' \in Seq(GoodRequests)
      /\ Len(tasks') = Len(tasks) - i
      /\ \A k \in 1 .. Len(tasks) - i : tasks'[k] = tasks[k + i]
  <2>1. tasks' = SubSeq(tasks, i + 1, Len(tasks))
    BY DEF Younger
  <2>2. \A k \in i + 1 .. Len(tasks) : tasks[k] \in GoodRequests
    BY <1>1
  <2>3. QED
    BY <1>1, <2>1, <2>2
<1>3. ASSUME fl # None
      PROVE  Len(tasks') > 0 /\ tasks'[Len(tasks')] = fl
  <2>1. i # Len(tasks) /\ tasks[Len(tasks)] = fl
    BY <1>3 DEF Waited, InFlight
  <2>2. i < Len(tasks) /\ Len(tasks) - i \in 1 .. Len(tasks) - i
    BY <1>1, <2>1
  <2>3. tasks'[Len(tasks) - i] = tasks[(Len(tasks) - i) + i]
    BY <1>2, <2>2
  <2>4. (Len(tasks) - i) + i = Len(tasks)
    BY <1>1
  <2>5. QED
    BY <1>1, <1>2, <2>1, <2>2, <2>3, <2>4
<1>4. QED
  BY <1>2, <1>3 DEF LoaderTyped, ViewTyped, InFlight, FirstView

\* An answer reaches the browser if it still waits for it.
LEMMA AnswerKeeps ==
    ASSUME LoaderTyped, ViewTyped, InFlight, FirstView,
           NEW i \in DOMAIN tasks, NEW s \in Views, s.scoped,
           NEW news \in BOOLEAN, sub' = sub, Answer(i, s, news)
    PROVE  /\ LoaderTyped' /\ ViewTyped' /\ InFlight' /\ FirstView'
           /\ srv' = s
<1>1. srv' = s
  BY DEF Answer
<1>2. CASE Waited(i)
  <2>1. Settle(<<>>, s, FALSE, news)
    BY <1>2 DEF Answer
  <2>2. fl # None /\ <<>> \in Seq(GoodRequests)
    BY <1>2 DEF Waited
  <2>3. QED
    BY <1>1, <2>1, <2>2, SettleKeeps
<1>3. CASE ~Waited(i)
  BY <1>1, <1>3, StaleKeeps DEF Answer
<1>4. QED
  BY <1>2, <1>3

\* Every step of the server keeps the invariant.
LEMMA HandleKeeps ==
    ASSUME IInv, NEW i \in DOMAIN tasks, Handle(i)
    PROVE  IInv'
<1>1. hist' = hist /\ sub' = sub
  BY DEF Handle
<1>2. LoaderTyped /\ ViewTyped /\ InFlight /\ FirstView /\ ServerTyped /\ Walked
  BY DEF IInv
<1>3. tasks[i] \in GoodRequests
  BY <1>2 DEF LoaderTyped
<1>4. srv \in Views /\ cl \in Views /\ hist \in [Addrs -> SUBSET Txs]
  BY <1>2 DEF ServerTyped, ViewTyped
<1>5. CASE LoadPage(i)
  <2>1. tasks[i].op = "discover" /\ ~Foreign(tasks[i])
    BY <1>5 DEF LoadPage
  <2>2. PICK scan \in Scans(hist[tasks[i].addr], tasks[i].cur), tailOk \in BOOLEAN :
           /\ Answer(i, PageOf(tasks[i], scan, tailOk), TRUE)
           /\ walk' = WalkOf(tasks[i], PageOf(tasks[i], scan, tailOk))
    BY <1>5 DEF LoadPage
  <2>3. PageOf(tasks[i], scan, tailOk) \in Views /\ PageOf(tasks[i], scan, tailOk).scoped
    BY <1>2, <1>3, <2>1, PageGood
  <2>4. /\ LoaderTyped' /\ ViewTyped' /\ InFlight' /\ FirstView'
        /\ srv' = PageOf(tasks[i], scan, tailOk)
    BY <1>1, <1>2, <2>2, <2>3, AnswerKeeps
  <2>5. walk' = WalkOf(tasks[i], srv')
    BY <2>2, <2>4
  <2>6. ServerTyped' /\ Walked'
    BY <1>1, <1>2, <1>3, <2>1, <2>4, <2>5, PageKeepsWalked
  <2>7. QED
    BY <2>4, <2>6 DEF IInv
<1>6. CASE LoadReceipt(i)
  <2>1. /\ tasks[i].op = "receipt" /\ walk' = walk
        /\ Answer(i, WithReceipt(tasks[i].tx), FALSE)
    BY <1>6 DEF LoadReceipt
  <2>2. tasks[i].tx \in Txs
    BY <1>3, <2>1, RequestFields
  <2> DEFINE s == WithReceipt(tasks[i].tx)
  <2>3. /\ s \in Views /\ s.scoped
        /\ s.addr = srv.addr /\ s.list = srv.list /\ s.cur = srv.cur
        /\ s.gaps = srv.gaps /\ s.complete = srv.complete
    BY <1>4, <2>2, ReceiptView
  <2> HIDE DEF s
  <2>4. LoaderTyped' /\ ViewTyped' /\ InFlight' /\ FirstView' /\ srv' = s
    BY <1>1, <1>2, <2>1, <2>3, AnswerKeeps DEF s
  <2>5. ServerTyped' /\ Walked'
    BY <1>1, <1>2, <1>4, <2>1, <2>3, <2>4, SearchUntouched
  <2>6. QED
    BY <2>4, <2>5 DEF IInv
<1>7. CASE FailLoad(i)
  <2>1. walk' = walk /\ Answer(i, WithFailure(tasks[i]), ~srv.scoped)
    BY <1>7 DEF FailLoad
  <2> DEFINE s == WithFailure(tasks[i])
  <2>2. /\ s \in Views /\ s.scoped
        /\ \/ /\ s.addr = srv.addr /\ s.list = srv.list /\ s.cur = srv.cur
              /\ s.gaps = srv.gaps /\ s.complete = srv.complete
           \/ ~srv.scoped /\ ~s.complete
    BY <1>3, <1>4, FailureView
  <2> DEFINE news == ~srv.scoped
  <2>4. news \in BOOLEAN
    OBVIOUS
  <2> HIDE DEF s, news
  <2>5. LoaderTyped' /\ ViewTyped' /\ InFlight' /\ FirstView' /\ srv' = s
    BY <1>1, <1>2, <2>1, <2>2, <2>4, AnswerKeeps DEF s, news
  <2>6. ~srv.scoped => walk.asof = {}
    BY <1>2 DEF Walked
  <2>7. ServerTyped' /\ Walked'
    BY <1>1, <1>2, <1>4, <2>1, <2>2, <2>5, <2>6, SearchUntouched
  <2>8. QED
    BY <2>5, <2>7 DEF IInv
<1>8. CASE Reject(i)
  <2>1. srv' = srv /\ walk' = walk
    BY <1>8 DEF Reject
  <2>2. ServerTyped' /\ Walked'
    BY <1>1, <1>2, <1>4, <2>1, SearchUntouched
  <2>3. LoaderTyped' /\ ViewTyped' /\ InFlight' /\ FirstView'
    <3>1. CASE Waited(i)
      <4>1. Settle(<<>>, cl, TRUE, FALSE)
        BY <1>8, <3>1 DEF Reject
      <4>2. fl # None /\ <<>> \in Seq(GoodRequests)
        BY <3>1 DEF Waited
      <4>3. QED
        BY <1>1, <1>2, <1>4, <4>1, <4>2, SettleKeeps
    <3>2. CASE ~Waited(i)
      BY <1>1, <1>2, <1>8, <3>2, StaleKeeps DEF Reject
    <3>3. QED
      BY <3>1, <3>2
  <2>4. QED
    BY <2>2, <2>3 DEF IInv
<1>9. QED
  BY <1>5, <1>6, <1>7, <1>8 DEF Handle

---------------------------------------------------------------------------
(* The invariant *)

\* Before anything was asked the invariant holds (TransactionsView.tsx 700-767).
LEMMA InitHolds == Init => IInv
<1> SUFFICES ASSUME Init PROVE IInv
  OBVIOUS
<1>1. hist \in [Addrs -> SUBSET Txs] /\ srv = NobodyYet /\ cl = NobodyYet
  BY DiscoveryAssumption DEF Init
<1>2. NobodyYet \in Views /\ NobodyYet.addr = None /\ NobodyYet.failed = None
      /\ NobodyYet.complete = FALSE
  BY NobodyGood DEF NobodyYet
<1>3. walk \in Walks /\ walk.asof = {}
  BY DEF Init, Walks
<1>4. ServerTyped
  BY <1>1, <1>2, <1>3 DEF ServerTyped
<1>5. LoaderTyped
  <2>1. <<>> \in Seq(GoodRequests)
    OBVIOUS
  <2>2. QED
    BY <2>1 DEF Init, LoaderTyped
<1>6. ViewTyped
  BY <1>1, <1>2 DEF Init, ViewTyped, Off, Autos
<1>7. InFlight /\ FirstView
  BY <1>1, <1>2 DEF Init, InFlight, FirstView
<1>8. Walked
  BY <1>1, <1>2, <1>3 DEF Walked
<1>9. QED
  BY <1>4, <1>5, <1>6, <1>7, <1>8 DEF IInv

\* What the invariant says is kept by every step of the analyst, the browser,
\* the server and the chain.
LEMMA NextKeeps == IInv /\ [Next]_vars => IInv'
<1> SUFFICES ASSUME IInv, [Next]_vars PROVE IInv'
  OBVIOUS
<1>1. LoaderTyped /\ ViewTyped /\ InFlight /\ FirstView /\ ServerTyped /\ Walked
  BY DEF IInv
<1>2. srv \in Views /\ cl \in Views /\ hist \in [Addrs -> SUBSET Txs] /\ auto \in Autos
  BY <1>1 DEF ServerTyped, ViewTyped
<1>3. UNCHANGED <<hist, srv, walk>> => ServerTyped' /\ Walked'
  BY <1>1, <1>2, SearchUntouched
<1>4. /\ cl.list \subseteq Txs /\ cl.cur \in GoodCursors
      /\ cl.addr # None => cl.addr \in Addrs /\ cl.scoped
  BY <1>1, <1>2 DEF Views, FirstView
<1>5. \A a \in Addrs : On(a) \in Autos /\ On(a).addr \in Addrs
  BY DEF On, Autos
<1>6. Off \in Autos /\ Off.on = FALSE
  BY DEF Off, Autos
<1>7. ASSUME NEW a \in Addrs, Search(a) PROVE IInv'
  <2>0. PICK unseen \in BOOLEAN : auto' = [On(a) EXCEPT !.fresh = unseen]
    BY <1>7 DEF Search
  <2>1. /\ auto' \in Autos /\ auto'.addr \in Addrs
        /\ sub' = "activity" /\ Issue(Discover(a, NoCursor))
        /\ UNCHANGED <<hist, srv, cl, walk>>
    BY <1>5, <1>7, <2>0 DEF Search, Autos
  <2>2. Discover(a, NoCursor) \in GoodRequests /\ Discover(a, NoCursor).op = "discover"
        /\ Discover(a, NoCursor) # None
    BY NoCursorGood, DiscoverGood
  <2>3. LoaderTyped' /\ InFlight' /\ pend' = Discover(a, NoCursor)
    BY <1>1, <2>1, <2>2, IssueKeeps
  <2>4. ViewTyped'
    BY <1>2, <2>1 DEF ViewTyped
  <2>5. FirstView'
    BY <1>1, <2>1, <2>2, <2>3 DEF FirstView
  <2>6. QED
    BY <1>3, <2>1, <2>3, <2>4, <2>5 DEF IInv
<1>8. ASSUME NEW a \in Addrs, Arrive(a) PROVE IInv'
  <2>1. PICK p \in Txs : hist' = [hist EXCEPT ![a] = @ \cup {p}]
    BY <1>8 DEF Arrive
  <2>2. UNCHANGED <<srv, tasks, cl, fl, queue, err, auto, pend, sub, walk>>
    BY <1>8 DEF Arrive
  <2>3. hist' \in [Addrs -> SUBSET Txs] /\ \A b \in Addrs : hist[b] \subseteq hist'[b]
    BY <1>2, <2>1
  <2>4. ServerTyped' /\ Walked'
    BY <1>1, <1>2, <2>2, <2>3, SearchUntouched
  <2>5. LoaderTyped' /\ ViewTyped' /\ InFlight' /\ FirstView'
    BY <1>1, <2>2 DEF LoaderTyped, ViewTyped, InFlight, FirstView
  <2>6. QED
    BY <2>4, <2>5 DEF IInv
<1>9. ASSUME NEW p \in Txs, Choose(p) PROVE IInv'
  <2>1. /\ Listed /\ auto' = Off /\ sub' = "receipt"
        /\ UNCHANGED <<hist, srv, cl, walk>>
    BY <1>9 DEF Choose
  <2>2. cl.scoped
    BY <1>4, <2>1 DEF Listed
  <2>3. LoaderTyped' /\ InFlight'
    <3>1. CASE p \in cl.legs
      <4>1. UNCHANGED <<fl, tasks, err, queue, pend>>
        BY <1>9, <3>1 DEF Choose
      <4>2. QED
        BY <1>1, <4>1 DEF LoaderTyped, InFlight
    <3>2. CASE p \notin cl.legs
      <4>1. Issue(Receipt(p))
        BY <1>9, <3>2 DEF Choose
      <4>2. QED
        BY <1>1, <4>1, ReceiptGood, IssueKeeps
    <3>3. QED
      BY <3>1, <3>2
  <2>4. ViewTyped'
    BY <1>2, <1>6, <2>1 DEF ViewTyped
  <2>5. FirstView'
    BY <2>1, <2>2 DEF FirstView
  <2>6. QED
    BY <1>3, <2>1, <2>3, <2>4, <2>5 DEF IInv
<1>10. CASE LoadMore
  <2>1. /\ Listed /\ auto' = On(cl.addr) /\ Issue(Discover(cl.addr, cl.cur))
        /\ UNCHANGED <<hist, srv, cl, sub, walk>>
    BY <1>10 DEF LoadMore
  <2>2. cl.addr \in Addrs /\ cl.scoped
    BY <1>4, <2>1 DEF Listed
  <2>3. Discover(cl.addr, cl.cur) \in GoodRequests
    BY <1>4, <2>2, DiscoverGood
  <2>4. LoaderTyped' /\ InFlight'
    BY <1>1, <2>1, <2>3, IssueKeeps
  <2>5. ViewTyped'
    BY <1>1, <1>2, <1>5, <2>1, <2>2 DEF ViewTyped
  <2>6. FirstView'
    BY <2>1, <2>2 DEF FirstView
  <2>7. QED
    BY <1>3, <2>1, <2>4, <2>5, <2>6 DEF IInv
<1>11. CASE Back
  <2>1. /\ sub = "receipt" /\ sub' = "activity"
        /\ pend' = IF Idle /\ Failing THEN None ELSE pend
        /\ UNCHANGED <<hist, srv, tasks, cl, fl, queue, err, auto, walk>>
    BY <1>11 DEF Back
  <2>2. LoaderTyped' /\ ViewTyped' /\ InFlight'
    BY <1>1, <2>1 DEF LoaderTyped, ViewTyped, InFlight, Idle
  <2>3. ~cl.scoped => pend = None /\ ~err
    BY <1>1, <2>1 DEF FirstView
  <2>4. FirstView'
    BY <1>1, <2>1, <2>3 DEF FirstView
  <2>5. QED
    BY <1>3, <2>1, <2>2, <2>4 DEF IInv
<1>12. CASE Stop
  <2>1. auto' = Off
        /\ UNCHANGED <<hist, srv, tasks, cl, fl, queue, err, pend, sub, walk>>
    BY <1>12 DEF Stop
  <2>2. LoaderTyped' /\ ViewTyped' /\ InFlight' /\ FirstView'
    BY <1>1, <1>6, <2>1 DEF LoaderTyped, ViewTyped, InFlight, FirstView
  <2>3. QED
    BY <1>3, <2>1, <2>2 DEF IInv
<1>13. CASE Retry
  <2>1. /\ pend # None \/ cl.addr # None
        /\ Issue(Again)
        /\ UNCHANGED <<hist, srv, cl, auto, sub, walk>>
    BY <1>13 DEF Retry
  <2>2. /\ Again \in GoodRequests
        /\ ~cl.scoped => Again.op = "discover" /\ sub = "activity"
    <3>1. CASE pend # None
      BY <1>1, <3>1 DEF Again, LoaderTyped, FirstView
    <3>2. CASE pend = None
      <4>1. cl.addr \in Addrs /\ cl.scoped
        BY <1>4, <2>1, <3>2
      <4>2. Again = Discover(cl.addr, NoCursor)
        BY <3>2 DEF Again
      <4>3. QED
        BY <4>1, <4>2, NoCursorGood, DiscoverGood
    <3>3. QED
      BY <3>1, <3>2
  <2>3. Again # None
    BY <2>2, RequestFields
  <2>4. LoaderTyped' /\ InFlight' /\ pend' = Again
    BY <1>1, <2>1, <2>2, IssueKeeps
  <2>5. ViewTyped'
    BY <1>1, <2>1 DEF ViewTyped
  <2>6. FirstView'
    BY <1>1, <2>1, <2>2, <2>3, <2>4 DEF FirstView
  <2>7. QED
    BY <1>3, <2>1, <2>4, <2>5, <2>6 DEF IInv
<1>14. ASSUME NEW i \in DOMAIN tasks, Handle(i) PROVE IInv'
  BY <1>14, HandleKeeps
<1>15. CASE GiveUp
  <2>1. fl # None /\ Settle(tasks, cl, TRUE, FALSE)
        /\ UNCHANGED <<hist, srv, sub, walk>>
    BY <1>15 DEF GiveUp
  <2>2. tasks \in Seq(GoodRequests)
    BY <1>1 DEF LoaderTyped
  <2>3. LoaderTyped' /\ ViewTyped' /\ InFlight' /\ FirstView'
    BY <1>1, <1>2, <2>1, <2>2, SettleKeeps
  <2>4. QED
    BY <1>3, <2>1, <2>3 DEF IInv
<1>16. CASE UNCHANGED vars
  <2>1. UNCHANGED <<hist, srv, tasks, cl, fl, queue, err, auto, pend, sub, walk>>
    BY <1>16 DEF vars
  <2>2. LoaderTyped' /\ ViewTyped' /\ InFlight' /\ FirstView'
    BY <1>1, <2>1 DEF LoaderTyped, ViewTyped, InFlight, FirstView
  <2>3. QED
    BY <1>3, <2>1, <2>2 DEF IInv
<1>17. QED
  BY <1>7, <1>8, <1>9, <1>10, <1>11, <1>12, <1>13, <1>14, <1>15, <1>16 DEF Next

\* The invariant holds of every reachable state.
THEOREM Inductive == Spec => []IInv
<1>1. Init => IInv
  BY InitHolds
<1>2. IInv /\ [Next]_vars => IInv'
  BY NextKeeps
<1>3. QED
  BY <1>1, <1>2, PTL DEF Spec

\* Types, and the protocol of the loader: one request in flight, the last one
\* the server was sent, and at most one behind it (useSerializedLoader.ts 35-84).
THEOREM TypeCorrect == Spec => []TypeOK
<1>1. IInv => TypeOK
  <2> SUFFICES ASSUME IInv PROVE TypeOK
    OBVIOUS
  <2>1. LoaderTyped /\ ViewTyped /\ InFlight /\ FirstView /\ ServerTyped
    BY DEF IInv
  <2>2. GoodCursors \subseteq Cursors
    BY DEF GoodCursors
  <2>3. GoodRequests \subseteq Requests
    BY RequestFields
  <2>4. Views \subseteq SrvType
    BY <2>2 DEF Views, SrvType
  <2>5. walk.asof \subseteq Txs /\ walk.handed \subseteq Cursors
    BY <2>1, <2>2 DEF ServerTyped, Walks
  <2>6. auto.on \in BOOLEAN /\ auto.seen \subseteq Cursors
    BY <2>1, <2>2 DEF ViewTyped, Autos
  <2>7. /\ fl \in Requests \cup {None} /\ queue \in Requests \cup {None}
        /\ pend \in Requests \cup {None} /\ err \in BOOLEAN
    BY <2>1, <2>3 DEF LoaderTyped
  <2>8. hist \in [Addrs -> SUBSET Txs] /\ srv \in SrvType /\ cl \in SrvType
        /\ sub \in {"activity", "receipt"}
    BY <2>1, <2>4 DEF ServerTyped, ViewTyped
  <2>9. QED
    BY <2>1, <2>5, <2>6, <2>7, <2>8 DEF TypeOK, InFlight, FirstView
<1>2. QED
  BY <1>1, Inductive, PTL

\* What the walk says of the last cursor, and of a history that is complete.
LEMMA WalkedShows == IInv => NoSkip /\ CompleteIsExact
<1> SUFFICES ASSUME IInv PROVE NoSkip /\ CompleteIsExact
  OBVIOUS
<1>1. Walked
  BY DEF IInv
<1>2. ASSUME walk.ours, NEW p \in walk.asof \ srv.list
      PROVE  LeavesOut(srv.cur, p, srv.gaps)
  BY <1>1, <1>2 DEF Walked
<1>3. NoSkip
  BY <1>2 DEF NoSkip, SkipsNothing, LeavesOut
<1>4. CompleteIsExact
  <2>1. SUFFICES ASSUME walk.ours, srv.complete, srv.cur.kind = "none",
                        NEW p \in walk.asof, p \notin srv.list
                 PROVE  FALSE
    BY DEF CompleteIsExact
  <2>2. srv.gaps = {}
    BY <1>1, <2>1 DEF Walked
  <2>3. ~Ahead(srv.cur, p)
    BY <2>1 DEF Ahead
  <2>4. QED
    BY <1>2, <2>1, <2>2, <2>3 DEF LeavesOut
<1>5. QED
  BY <1>3, <1>4

\* A search skips nothing, however often the database refuses a slice, the
\* budget runs out or an earlier page is asked for again, as long as it is
\* asked with its own cursors (transactions.py 251-258).
THEOREM NoSkipCorrect == Spec => []NoSkip
  BY Inductive, WalkedShows, PTL

\* A search reported as complete lists every transaction there was when it
\* began (transactions.py 2641-2666, 3278-3341).
THEOREM CompleteIsExactCorrect == Spec => []CompleteIsExact
  BY Inductive, WalkedShows, PTL

=============================================================================
