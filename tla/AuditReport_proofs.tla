------------------------- MODULE AuditReport_proofs -------------------------
(***************************************************************************)
(* For any services' events, page size, cap and windows, and however many  *)
(* rows commit while a handler reads: reports miss nothing that was there  *)
(* when it started, are exact when nothing came, find the anomalies, and   *)
(* the verdict on the chains is right.                                     *)
(***************************************************************************)
EXTENDS AuditReport, SequenceTheorems, FiniteSetTheorems, TLAPS

-----------------------------------------------------------------------------
(* Ranks.  below[x] is what precedes x in a total order of a finite set:   *)
(* counting it numbers the elements from 0 without a gap.                  *)
LEMMA Ranked ==
  ASSUME NEW S, IsFiniteSet(S), NEW below \in [S -> SUBSET S],
         \A x \in S : x \notin below[x],
         \A x, y \in S : x # y => x \in below[y] \/ y \in below[x],
         \A x, y \in S : x \in below[y] => below[x] \subseteq below[y]
  PROVE  /\ \A x \in S : Cardinality(below[x]) \in 0..(Cardinality(S) - 1)
         /\ \A x, y \in S : Cardinality(below[x]) = Cardinality(below[y]) => x = y
         /\ \A k \in 0..(Cardinality(S) - 1) :
               \E x \in S : Cardinality(below[x]) = k
<1> DEFINE n == Cardinality(S)
           r == [x \in S |-> Cardinality(below[x])]
<1>1. n \in Nat
  BY FS_CardinalityType
<1>2. ASSUME NEW x \in S
      PROVE  /\ IsFiniteSet(below[x])
             /\ Cardinality(below[x]) \in 0..(n - 1)
  <2>1. /\ IsFiniteSet(below[x])
        /\ Cardinality(below[x]) <= n
        /\ n = Cardinality(below[x]) => S = below[x]
    BY FS_Subset
  <2>2. Cardinality(below[x]) \in Nat
    BY <2>1, FS_CardinalityType
  <2>3. S # below[x]
    OBVIOUS
  <2> QED
    BY <1>1, <2>1, <2>2, <2>3
<1>3. ASSUME NEW x \in S, NEW y \in S, x \in below[y]
      PROVE  Cardinality(below[x]) # Cardinality(below[y])
  <2>1. IsFiniteSet(below[y])
    BY <1>2
  <2>2. below[x] \in SUBSET below[y]
    BY <1>3
  <2>3. Cardinality(below[y]) = Cardinality(below[x]) => below[y] = below[x]
    BY <2>1, <2>2, FS_Subset
  <2> QED
    BY <1>3, <2>3
<1>4. ASSUME NEW x \in S, NEW y \in S, Cardinality(below[x]) = Cardinality(below[y])
      PROVE  x = y
  BY <1>3, <1>4
<1>5. r \in Injection(S, 0..(n - 1))
  <2>1. r \in [S -> 0..(n - 1)]
    BY <1>2
  <2> QED
    BY <1>4, <2>1 DEF Injection, IsInjective
<1>6. IsFiniteSet(0..(n - 1)) /\ Cardinality(0..(n - 1)) = n
  BY <1>1, FS_Interval
<1>7. r \in Surjection(S, 0..(n - 1))
  BY <1>5, <1>6, FS_Injection
<1>8. ASSUME NEW k \in 0..(n - 1)
      PROVE  \E x \in S : Cardinality(below[x]) = k
  <2>1. \E x \in S : r[x] = k
    BY <1>7 DEF Surjection
  <2> QED
    BY <2>1
<1> QED
  BY <1>2, <1>4, <1>8

(* Rows with times, no two of them the same.                               *)
Timed(rows) ==
    /\ \A e \in rows : e.at \in Nat
    /\ \A e, f \in rows : e.at = f.at => e = f

Rank(rows, e) == Cardinality(Newer(rows, e))

(* The rows of a table are numbered from the newest to the oldest.         *)
LEMMA RowsRanked ==
  ASSUME NEW rows, IsFiniteSet(rows), Timed(rows)
  PROVE  /\ \A e \in rows : Rank(rows, e) \in 0..(Cardinality(rows) - 1)
         /\ \A e, f \in rows : Rank(rows, e) = Rank(rows, f) => e = f
         /\ \A k \in 0..(Cardinality(rows) - 1) : \E e \in rows : Rank(rows, e) = k
<1> DEFINE below == [e \in rows |-> Newer(rows, e)]
<1>1. below \in [rows -> SUBSET rows]
  BY DEF Newer
<1>2. /\ \A x \in rows : x \notin below[x]
      /\ \A x, y \in rows : x # y => x \in below[y] \/ y \in below[x]
      /\ \A x, y \in rows : x \in below[y] => below[x] \subseteq below[y]
  BY DEF Newer, Timed
<1>3. \A e \in rows : Rank(rows, e) = Cardinality(below[e])
  BY DEF Rank
<1> HIDE DEF below
<1>4. /\ \A x \in rows : Cardinality(below[x]) \in 0..(Cardinality(rows) - 1)
      /\ \A x, y \in rows : Cardinality(below[x]) = Cardinality(below[y]) => x = y
      /\ \A k \in 0..(Cardinality(rows) - 1) :
            \E x \in rows : Cardinality(below[x]) = k
  BY <1>1, <1>2, Ranked
<1> QED
  BY <1>3, <1>4

(* A row that commits pushes others down and never up.                     *)
LEMMA RankGrows ==
  ASSUME NEW rows, NEW more, IsFiniteSet(more), rows \subseteq more, NEW e
  PROVE  /\ Rank(rows, e) \in Nat /\ Rank(more, e) \in Nat
         /\ Rank(rows, e) <= Rank(more, e)
<1>1. /\ Newer(more, e) \in SUBSET more
      /\ Newer(rows, e) \in SUBSET Newer(more, e)
  BY DEF Newer
<1>2. IsFiniteSet(Newer(more, e))
  BY <1>1, FS_Subset
<1>3. IsFiniteSet(Newer(rows, e)) /\ Rank(rows, e) <= Rank(more, e)
  BY <1>1, <1>2, FS_Subset DEF Rank
<1> QED
  BY <1>2, <1>3, FS_CardinalityType DEF Rank

(* A page holds the rows of its ranks, each once, and is short only at the *)
(* end of the table.                                                       *)
LEMMA PageRows ==
  ASSUME NEW rows, IsFiniteSet(rows), Timed(rows), NEW offset \in Nat
  PROVE  LET page == Page(rows, offset)
         IN  /\ page \in Seq(rows)
             /\ IsInjective(page)
             /\ Len(page) <= PAGE
             /\ \A e \in rows : e \in ToSet(page)
                                  <=> Rank(rows, e) \in offset..(offset + PAGE - 1)
             /\ Len(page) < PAGE => \A e \in rows : Rank(rows, e) < offset + PAGE
             /\ Cardinality(rows) <= PAGE => \A e \in rows : Rank(rows, e) < PAGE
<1> DEFINE n == Cardinality(rows)
           left == n - offset
           size == IF PAGE < left THEN PAGE ELSE left
           page == Page(rows, offset)
<1>0. PAGE \in Nat \ {0} /\ n \in Nat
  BY ReportAssumption, FS_CardinalityType
<1>1. DOMAIN page = 1..size
  BY DEF Page
<1>2. ASSUME NEW i \in 1..size
      PROVE  page[i] \in rows /\ Rank(rows, page[i]) = offset + i - 1
  <2>1. offset + i - 1 \in 0..(n - 1)
    BY <1>0
  <2>2. \E e \in rows : Rank(rows, e) = offset + i - 1
    BY <2>1, RowsRanked
  <2>3. page[i] = CHOOSE e \in rows : Rank(rows, e) = offset + i - 1
    BY DEF Page, Rank
  <2> QED
    BY <2>2, <2>3
<1> HIDE DEF page
<1>3. \E m \in Nat : 1..size = 1..m /\ m = (IF size < 0 THEN 0 ELSE size)
  BY <1>0
<1>4. PICK m \in Nat : 1..size = 1..m /\ m = (IF size < 0 THEN 0 ELSE size)
  BY <1>3
<1>5. page \in [1..m -> rows]
  <2>1. page = [i \in 1..size |-> page[i]]
    BY DEF page, Page
  <2> QED
    BY <2>1, <1>2, <1>4
<1>6. page \in Seq(rows) /\ Len(page) = m
  BY <1>5
<1>7. IsInjective(page)
  BY <1>0, <1>1, <1>2 DEF IsInjective
<1>8. Len(page) <= PAGE
  BY <1>0, <1>4, <1>6
<1>9. ASSUME NEW e \in rows
      PROVE  /\ Rank(rows, e) \in 0..(n - 1)
             /\ e \in ToSet(page) <=> Rank(rows, e) \in offset..(offset + PAGE - 1)
  <2>1. Rank(rows, e) \in 0..(n - 1)
    BY RowsRanked
  <2>2. ASSUME e \in ToSet(page)
        PROVE  Rank(rows, e) \in offset..(offset + PAGE - 1)
    <3>1. PICK i \in 1..size : page[i] = e
      BY <1>1, <2>2 DEF ToSet
    <3> QED
      BY <1>0, <1>2, <3>1
  <2>3. ASSUME Rank(rows, e) \in offset..(offset + PAGE - 1)
        PROVE  e \in ToSet(page)
    <3> DEFINE i == Rank(rows, e) - offset + 1
    <3>1. i \in 1..size /\ offset + i - 1 = Rank(rows, e)
      BY <1>0, <2>1, <2>3
    <3> HIDE DEF i
    <3>2. page[i] \in rows /\ Rank(rows, page[i]) = Rank(rows, e)
      BY <1>2, <3>1
    <3>3. page[i] = e
      BY <3>2, RowsRanked
    <3> QED
      BY <1>1, <3>1, <3>3 DEF ToSet
  <2> QED
    BY <2>1, <2>2, <2>3
<1>10. Len(page) < PAGE => n <= offset + PAGE
  BY <1>0, <1>4, <1>6
<1> QED
  BY <1>0, <1>6, <1>7, <1>8, <1>9, <1>10 DEF page
-----------------------------------------------------------------------------
(* Sorting permutes: same length, same events, and no event twice that was *)
(* there once.                                                             *)
LEMMA Sorted ==
  ASSUME NEW items \in Seq(Event)
  PROVE  LET sorted == SortByTs(items)
         IN  /\ sorted \in Seq(Event) /\ Len(sorted) = Len(items)
             /\ ToSet(sorted) = ToSet(items)
             /\ IsInjective(items) => IsInjective(sorted)
<1> DEFINE n == Len(items)
           D == 1..n
           below == [i \in D |-> Ahead(items, i)]
           at(p) == CHOOSE i \in D : Cardinality(Ahead(items, i)) = p - 1
           sorted == SortByTs(items)
<1>1. n \in Nat /\ DOMAIN items = D /\ \A i \in D : items[i] \in Event
  OBVIOUS
<1>2. \A i \in D : Unix(items[i].at) \in Int
  <2>1. Second \in Nat \ {0}
    BY ReportAssumption
  <2> QED
    BY <1>1, <2>1 DEF Unix, Event
<1>3. IsFiniteSet(D) /\ Cardinality(D) = n
  <2>1. ASSUME NEW k \in Nat
        PROVE  IsFiniteSet(1..k) /\ Cardinality(1..k) = k
    BY FS_Interval
  <2> QED
    BY <1>1, <2>1
<1>4. below \in [D -> SUBSET D]
  BY <1>1 DEF Ahead
<1>5. \A x \in D : x \notin below[x]
  BY <1>1, <1>2 DEF Ahead
<1>6. \A x, y \in D : x # y => x \in below[y] \/ y \in below[x]
  BY <1>1, <1>2 DEF Ahead
<1>7. \A x, y \in D : x \in below[y] => below[x] \subseteq below[y]
  BY <1>1, <1>2 DEF Ahead
<1>8. \A i \in D : Cardinality(Ahead(items, i)) = Cardinality(below[i])
  OBVIOUS
<1>9. /\ \A x \in D : Cardinality(below[x]) \in 0..(n - 1)
      /\ \A x, y \in D : Cardinality(below[x]) = Cardinality(below[y]) => x = y
      /\ \A k \in 0..(n - 1) : \E x \in D : Cardinality(below[x]) = k
  <2> HIDE DEF below, D
  <2> QED
    BY <1>3, <1>4, <1>5, <1>6, <1>7, Ranked
<1>10. ASSUME NEW p \in D
       PROVE  at(p) \in D /\ Cardinality(below[at(p)]) = p - 1
  <2>1. p - 1 \in 0..(n - 1)
    BY <1>1
  <2>2. \E i \in D : Cardinality(Ahead(items, i)) = p - 1
    BY <1>8, <1>9, <2>1
  <2>3. at(p) \in D /\ Cardinality(Ahead(items, at(p))) = p - 1
    BY <2>2
  <2> QED
    BY <1>8, <2>3
<1>11. sorted = [p \in D |-> items[at(p)]]
  BY <1>1 DEF SortByTs
<1> HIDE DEF at, below, sorted
<1>12. sorted \in [D -> Event]
  BY <1>1, <1>10, <1>11
<1>13. sorted \in Seq(Event) /\ Len(sorted) = n /\ DOMAIN sorted = D
  BY <1>1, <1>12
<1>14. ASSUME NEW i \in D
       PROVE  \E p \in D : at(p) = i
  <2> DEFINE p == Cardinality(below[i]) + 1
  <2>1. p \in D /\ p - 1 = Cardinality(below[i])
    BY <1>1, <1>9
  <2> HIDE DEF p
  <2>2. at(p) \in D /\ Cardinality(below[at(p)]) = Cardinality(below[i])
    BY <1>10, <2>1
  <2> QED
    BY <1>9, <2>1, <2>2
<1>15. ToSet(sorted) = ToSet(items)
  <2>1. ToSet(sorted) = {items[at(p)] : p \in D}
    BY <1>11, <1>13 DEF ToSet
  <2>2. ToSet(items) = {items[i] : i \in D}
    BY <1>1 DEF ToSet
  <2> QED
    BY <1>10, <1>14, <2>1, <2>2
<1>16. ASSUME IsInjective(items)
       PROVE  IsInjective(sorted)
  <2>1. ASSUME NEW p \in D, NEW q \in D, sorted[p] = sorted[q]
        PROVE  p = q
    <3>1. at(p) = at(q)
      BY <1>1, <1>10, <1>11, <1>16, <2>1 DEF IsInjective
    <3>2. p - 1 = q - 1
      BY <1>10, <3>1
    <3> QED
      BY <1>1, <3>2
  <2> QED
    BY <1>13, <2>1 DEF IsInjective
<1> QED
  BY <1>13, <1>15, <1>16 DEF sorted

(* Cutting at the cap keeps a beginning, all of it if it is short enough.  *)
LEMMA Sliced ==
  ASSUME NEW items \in Seq(Event)
  PROVE  LET cut == Slice(items)
         IN  /\ cut \in Seq(Event)
             /\ Len(cut) = IF Cap < Len(items) THEN Cap ELSE Len(items)
             /\ Len(cut) < Cap => cut = items
             /\ ToSet(cut) \subseteq ToSet(items)
             /\ IsInjective(items) => IsInjective(cut)
<1> DEFINE m == IF Cap < Len(items) THEN Cap ELSE Len(items)
           cut == Slice(items)
<1>1. Cap \in Nat /\ Len(items) \in Nat /\ DOMAIN items = 1..Len(items)
  BY ReportAssumption
<1>2. m \in 0..Len(items)
  BY <1>1
<1> HIDE DEF m
<1>3. cut = SubSeq(items, 1, m)
  BY DEF Slice, m
<1> HIDE DEF cut
<1>4. /\ cut \in Seq(Event) /\ Len(cut) = m /\ DOMAIN cut = 1..m
      /\ \A i \in 1..m : cut[i] = items[i]
  BY <1>1, <1>2, <1>3
<1>5. \A i \in 1..m : i \in 1..Len(items)
  BY <1>1, <1>2
<1>6. ToSet(cut) \subseteq ToSet(items)
  BY <1>1, <1>4, <1>5 DEF ToSet
<1>7. IsInjective(items) => IsInjective(cut)
  BY <1>1, <1>4, <1>5 DEF IsInjective
<1>8. Len(cut) < Cap => cut = items
  <2>1. ASSUME Len(cut) < Cap PROVE m = Len(items)
    BY <1>1, <1>4, <2>1 DEF m
  <2> QED
    BY <1>1, <1>4, <2>1, SeqEqual
<1> QED
  BY <1>4, <1>6, <1>7, <1>8 DEF cut, m

(* Joining two sequences.                                                  *)
LEMMA Joined ==
  ASSUME NEW s \in Seq(Event), NEW t \in Seq(Event)
  PROVE  /\ s \o t \in Seq(Event) /\ Len(s \o t) = Len(s) + Len(t)
         /\ ToSet(s \o t) = ToSet(s) \union ToSet(t)
         /\ ToSet(s) \intersect ToSet(t) = {} =>
               /\ IsInjective(s) /\ IsInjective(t) => IsInjective(s \o t)
               /\ \A src : OnceEach(s, src) /\ OnceEach(t, src)
                             => OnceEach(s \o t, src)
<1>1. /\ Len(s) \in Nat /\ Len(t) \in Nat
      /\ DOMAIN s = 1..Len(s) /\ DOMAIN t = 1..Len(t)
  OBVIOUS
<1>2. /\ s \o t \in Seq(Event) /\ Len(s \o t) = Len(s) + Len(t)
      /\ DOMAIN (s \o t) = 1..(Len(s) + Len(t))
      /\ \A i \in 1..(Len(s) + Len(t)) :
            (s \o t)[i] = IF i <= Len(s) THEN s[i] ELSE t[i - Len(s)]
  OBVIOUS
<1>3. \A i \in 1..Len(s) : i \in 1..(Len(s) + Len(t)) /\ (s \o t)[i] = s[i]
  BY <1>1, <1>2
<1>4. \A i \in 1..Len(t) :
         Len(s) + i \in 1..(Len(s) + Len(t)) /\ (s \o t)[Len(s) + i] = t[i]
  BY <1>1, <1>2
<1>5. ASSUME NEW i \in 1..(Len(s) + Len(t))
      PROVE  \/ i \in 1..Len(s) /\ (s \o t)[i] = s[i]
             \/ i - Len(s) \in 1..Len(t) /\ (s \o t)[i] = t[i - Len(s)]
  BY <1>1, <1>2
<1>6. ToSet(s \o t) = ToSet(s) \union ToSet(t)
  <2>1. ASSUME NEW e \in ToSet(s \o t)
        PROVE  e \in ToSet(s) \union ToSet(t)
    <3>1. PICK i \in 1..(Len(s) + Len(t)) : (s \o t)[i] = e
      BY <1>2, <2>1 DEF ToSet
    <3> QED
      BY <1>1, <1>5, <3>1 DEF ToSet
  <2>2. ASSUME NEW e \in ToSet(s)
        PROVE  e \in ToSet(s \o t)
    BY <1>1, <1>2, <1>3, <2>2 DEF ToSet
  <2>3. ASSUME NEW e \in ToSet(t)
        PROVE  e \in ToSet(s \o t)
    <3>1. PICK i \in 1..Len(t) : t[i] = e
      BY <1>1, <2>3 DEF ToSet
    <3> QED
      BY <1>2, <1>4, <3>1 DEF ToSet
  <2> QED
    BY <2>1, <2>2, <2>3
<1>7. ASSUME NEW i \in 1..(Len(s) + Len(t)), NEW j \in 1..(Len(s) + Len(t)),
             (s \o t)[i] = (s \o t)[j], ToSet(s) \intersect ToSet(t) = {}
      PROVE  \/ i \in 1..Len(s) /\ j \in 1..Len(s)
             \/ i - Len(s) \in 1..Len(t) /\ j - Len(s) \in 1..Len(t)
  <2>1. \A a \in 1..Len(s), b \in 1..Len(t) : s[a] # t[b]
    BY <1>1, <1>7 DEF ToSet
  <2> QED
    BY <1>1, <1>5, <1>7, <2>1
<1>8. ASSUME ToSet(s) \intersect ToSet(t) = {}, IsInjective(s), IsInjective(t)
      PROVE  IsInjective(s \o t)
  <2>1. ASSUME NEW i \in 1..(Len(s) + Len(t)), NEW j \in 1..(Len(s) + Len(t)),
               (s \o t)[i] = (s \o t)[j]
        PROVE  i = j
    <3>1. CASE i \in 1..Len(s) /\ j \in 1..Len(s)
      BY <1>1, <1>3, <1>8, <2>1, <3>1 DEF IsInjective
    <3>2. CASE i - Len(s) \in 1..Len(t) /\ j - Len(s) \in 1..Len(t)
      <4>1. t[i - Len(s)] = t[j - Len(s)]
        BY <1>1, <1>2, <2>1, <3>2
      <4>2. i - Len(s) = j - Len(s)
        BY <1>1, <1>8, <3>2, <4>1 DEF IsInjective
      <4> QED
        BY <1>1, <4>2
    <3> QED
      BY <1>7, <1>8, <2>1, <3>1, <3>2
  <2> QED
    BY <1>2, <2>1 DEF IsInjective
<1>9. ASSUME ToSet(s) \intersect ToSet(t) = {},
             NEW src, OnceEach(s, src), OnceEach(t, src)
      PROVE  OnceEach(s \o t, src)
  <2>1. ASSUME NEW i \in 1..(Len(s) + Len(t)), NEW j \in 1..(Len(s) + Len(t)),
               (s \o t)[i].src = src, (s \o t)[i] = (s \o t)[j]
        PROVE  i = j
    <3>1. CASE i \in 1..Len(s) /\ j \in 1..Len(s)
      BY <1>1, <1>3, <1>9, <2>1, <3>1 DEF OnceEach
    <3>2. CASE i - Len(s) \in 1..Len(t) /\ j - Len(s) \in 1..Len(t)
      <4>1. t[i - Len(s)] = t[j - Len(s)] /\ t[i - Len(s)].src = src
        BY <1>1, <1>2, <2>1, <3>2
      <4>2. i - Len(s) = j - Len(s)
        BY <1>1, <1>9, <3>2, <4>1 DEF OnceEach
      <4> QED
        BY <1>1, <4>2
    <3> QED
      BY <1>7, <1>9, <2>1, <3>1, <3>2
  <2> QED
    BY <1>2, <2>1 DEF OnceEach
<1> QED
  BY <1>2, <1>6, <1>8, <1>9
-----------------------------------------------------------------------------
(* Nothing is logged and no handler runs in the initial states.            *)
LEMMA ReportInit == Init => ReportInv
<1> SUFFICES ASSUME Init PROVE ReportInv
  OBVIOUS
<1>1. NoHandler \in Handler /\ NoHandler.pc = "idle"
  BY DEF NoHandler, Handler
<1>2. TypeOK
  BY <1>1, ReportAssumption DEF Init, TypeOK, NoReport, Event
<1>3. TablesGrow
  BY FS_EmptySet DEF Init, TablesGrow
<1>4. PagesAreKept /\ ItemsAreWhole
  BY <1>1 DEF Init, PagesAreKept, ItemsAreWhole, Busy
<1>5. StatusIsTrue
  BY <1>1 DEF Init, StatusIsTrue
<1> QED
  BY <1>2, <1>3, <1>4, <1>5 DEF ReportInv

(* What a handler reads of a table is finite and timed.                    *)
LEMMA RowsAreTimed ==
  ASSUME TypeOK, TablesGrow, NEW src \in Sources
  PROVE  /\ IsFiniteSet(Rows(src)) /\ Timed(Rows(src))
         /\ Rows(src) \subseteq Event
         /\ \A e \in Rows(src) : e.src = src
         /\ RowsBefore(src) \subseteq Rows(src)
<1>1. Rows(src) \in SUBSET log[src]
  BY DEF Rows
<1>2. IsFiniteSet(Rows(src))
  BY <1>1, FS_Subset DEF TablesGrow
<1>3. Timed(Rows(src))
  BY <1>1 DEF Timed, TypeOK, TablesGrow, Event
<1>4. RowsBefore(src) \subseteq Rows(src)
  BY DEF TablesGrow, Rows, RowsBefore
<1> QED
  BY <1>1, <1>2, <1>3, <1>4 DEF TypeOK, TablesGrow

LEMMA NextRowsAreTimed ==
  ASSUME TypeOK', TablesGrow', NEW src \in Sources
  PROVE  /\ IsFiniteSet(Rows(src)') /\ Timed(Rows(src)')
         /\ Rows(src)' \subseteq Event
         /\ \A e \in Rows(src)' : e.src = src
         /\ RowsBefore(src)' \subseteq Rows(src)'
<1>1. Rows(src)' \in SUBSET log'[src]
  BY DEF Rows
<1>2. IsFiniteSet(Rows(src)')
  BY <1>1, FS_Subset DEF TablesGrow
<1>3. Timed(Rows(src)')
  BY <1>1 DEF Timed, TypeOK, TablesGrow, Event
<1>4. RowsBefore(src)' \subseteq Rows(src)'
  BY DEF TablesGrow, Rows, RowsBefore
<1> QED
  BY <1>1, <1>2, <1>3, <1>4 DEF TypeOK, TablesGrow

(* The window is fixed once the handler runs.                              *)
SameWindow == h'.kind = h.kind /\ h'.from = h.from /\ h'.to = h.to

LEMMA WindowKept ==
  ASSUME SameWindow, before' = before, NEW src
  PROVE  /\ \A e : InWindow(e)' <=> InWindow(e)
         /\ RowsBefore(src)' = RowsBefore(src)
         /\ log'[src] = log[src] => Rows(src)' = Rows(src)
         /\ log[src] \subseteq log'[src] => Rows(src) \subseteq Rows(src)'
<1>1. \A e : InWindow(e)' <=> InWindow(e)
  BY DEF SameWindow, InWindow
<1> QED
  BY <1>1 DEF Rows, RowsBefore

-----------------------------------------------------------------------------
(* Whatever the services do while a handler runs, tables only grow, and    *)
(* what the handler has read stays good.                                   *)
LEMMA TablesStep ==
  ASSUME ReportInv, TypeOK', TablesGrow', h' = h, status' = status, before' = before,
         tampered \subseteq tampered',
         \A src \in Sources : log[src] \subseteq log'[src]
  PROVE  ReportInv'
<1>1. SameWindow
  BY DEF SameWindow
<1>2. ASSUME NEW src \in Sources
      PROVE  /\ RowsBefore(src)' = RowsBefore(src)
             /\ Rows(src) \subseteq Rows(src)'
             /\ IsFiniteSet(Rows(src)')
             /\ Rows(src)' = RowsBefore(src)' =>
                   Rows(src)' = Rows(src) /\ Rows(src) = RowsBefore(src)
  <2>1. RowsBefore(src)' = RowsBefore(src) /\ Rows(src) \subseteq Rows(src)'
    BY <1>1, WindowKept
  <2>2. RowsBefore(src) \subseteq Rows(src)
    BY RowsAreTimed DEF ReportInv
  <2>3. IsFiniteSet(Rows(src)')
    BY NextRowsAreTimed
  <2> QED
    BY <2>1, <2>2, <2>3
<1>3. PagesAreKept'
  <2> SUFFICES ASSUME Busy'
               PROVE  PagesAreKept'
    BY DEF PagesAreKept
  <2>1. Busy /\ Src' = Src /\ Src \in Sources /\ h.offset \in Nat
    BY DEF Busy, Src, ReportInv, TypeOK, Handler, Sources
  <2>2. PICK s \in Sources : s = Src
    BY <2>1
  <2> DEFINE R == Rows(s)
             Q == Rows(s)'
             B == RowsBefore(s)
  <2>3. /\ RowsBefore(s)' = B /\ R \subseteq Q /\ IsFiniteSet(Q)
        /\ Q = B => Q = R /\ R = B
    BY <1>2
  <2>4. /\ ToSet(h.out) \subseteq R
        /\ \A e \in B : e \in ToSet(h.out) \/ Rank(R, e) >= h.offset
        /\ R = B => /\ IsInjective(h.out)
                    /\ \A e \in ToSet(h.out) : Rank(R, e) < h.offset
    BY <2>1, <2>2 DEF ReportInv, PagesAreKept, Rank
  <2>5. /\ (ToSet(h.out) \subseteq Rows(Src))' <=> ToSet(h.out) \subseteq Q
        /\ Rows(Src)' = Q /\ RowsBefore(Src)' = B
    <3>1. Src' = s
      BY <2>1, <2>2
    <3> QED
      BY <2>3, <3>1 DEF Rows, RowsBefore
  <2> HIDE DEF R, Q, B
  <2>6. ToSet(h.out) \subseteq Q
    BY <2>3, <2>4
  <2>7. \A e \in B : e \in ToSet(h.out) \/ Rank(Q, e) >= h.offset
    <3>1. \A e : Rank(R, e) \in Nat /\ Rank(Q, e) \in Nat /\ Rank(R, e) <= Rank(Q, e)
      BY <2>3, RankGrows
    <3> QED
      BY <2>1, <2>4, <3>1
  <2>8. Q = B => /\ IsInjective(h.out)
                 /\ \A e \in ToSet(h.out) : Rank(Q, e) < h.offset
    BY <2>3, <2>4
  <2> QED
    BY <2>5, <2>6, <2>7, <2>8 DEF PagesAreKept, Rank
<1>4. ItemsAreWhole'
  <2> SUFFICES ASSUME h.pc = "run"
               PROVE  ItemsAreWhole'
    BY DEF ItemsAreWhole
  <2>1. ASSUME NEW e \in ToSet(h.items)
        PROVE  status[e.src] = "included" /\ e \in Rows(e.src)'
    <3>1. e \in Event /\ status[e.src] = "included" /\ e \in Rows(e.src)
      BY DEF ReportInv, ItemsAreWhole, TypeOK, Handler, ToSet
    <3> QED
      BY <1>2, <3>1 DEF Event
  <2>2. ASSUME NEW src \in Sources, status[src] = "included"
        PROVE  /\ RowsBefore(src)' \subseteq ToSet(h.items) \/ Cut(src)'
               /\ Rows(src)' = RowsBefore(src)' => OnceEach(h.items, src)
    <3>1. /\ RowsBefore(src) \subseteq ToSet(h.items) \/ Cut(src)
          /\ Rows(src) = RowsBefore(src) => OnceEach(h.items, src)
      BY <2>2 DEF ReportInv, ItemsAreWhole
    <3>2. Rows(src) \in SUBSET Rows(src)' /\ IsFiniteSet(Rows(src)')
      BY <1>2
    <3>3. /\ IsFiniteSet(Rows(src))
          /\ Cardinality(Rows(src)) <= Cardinality(Rows(src)')
      BY <3>2, FS_Subset
    <3>4. Cardinality(Rows(src)) \in Nat /\ Cardinality(Rows(src)') \in Nat
      BY <3>2, <3>3, FS_CardinalityType
    <3>5. Cut(src) => Cut(src)'
      BY <3>3, <3>4, ReportAssumption DEF Cut
    <3> QED
      BY <1>2, <3>1, <3>5
  <2> QED
    BY <2>1, <2>2 DEF ItemsAreWhole
<1>5. StatusIsTrue'
  BY DEF ReportInv, StatusIsTrue
<1> QED
  BY <1>3, <1>4, <1>5 DEF ReportInv
(* The services' own steps: events are made and commit, rows are changed.  *)
LEMMA EnvironmentStep == ReportInv /\ Environment => ReportInv'
<1> SUFFICES ASSUME ReportInv, Environment PROVE ReportInv'
  OBVIOUS
<1>1. ASSUME NEW src \in Sources, MakeEvent(src)
      PROVE  ReportInv'
  <2>1. PICK n \in Entries[src] :
           pending' = pending \union
               {[src |-> src, at |-> now, action |-> n.action, actor |-> n.actor,
                 traced |-> n.traced]}
    BY <1>1 DEF MakeEvent
  <2> DEFINE e == [src |-> src, at |-> now, action |-> n.action, actor |-> n.actor,
                   traced |-> n.traced]
  <2>2. n \in AllEntries
    BY DEF AllEntries
  <2>3. e \in Event /\ e.at = now
    BY <2>2 DEF Event, ReportInv, TypeOK
  <2>4. pending' = pending \union {e}
    BY <2>1
  <2> HIDE DEF e
  <2>5. TypeOK'
    BY <1>1, <2>3, <2>4 DEF MakeEvent, ReportInv, TypeOK
  <2>6. \A f \in pending : f.at \in Nat /\ f.at < now
    BY DEF ReportInv, TypeOK, TablesGrow, Event
  <2>7. \A s \in Sources : \A f \in log[s] : f.at \in Nat /\ f.at < now
    BY DEF ReportInv, TypeOK, TablesGrow, Event
  <2>8. TablesGrow'
    BY <1>1, <2>3, <2>4, <2>6, <2>7 DEF MakeEvent, ReportInv, TypeOK, TablesGrow
  <2> QED
    BY <1>1, <2>5, <2>8, TablesStep DEF MakeEvent
<1>2. ASSUME NEW src \in Sources, Tamper(src)
      PROVE  ReportInv'
  <2>1. TypeOK' /\ TablesGrow'
    BY <1>2 DEF Tamper, ReportInv, TypeOK, TablesGrow
  <2> QED
    BY <1>2, <2>1, TablesStep DEF Tamper
<1>3. ASSUME CommitEvent
      PROVE  ReportInv'
  <2>1. PICK e \in pending :
           /\ pending' = pending \ {e}
           /\ log' = [log EXCEPT ![e.src] = @ \union {e}]
           /\ UNCHANGED <<now, tampered, h, status, report, before>>
    BY <1>3 DEF CommitEvent
  <2>2. /\ e \in Event /\ e.src \in Sources /\ e.at < now
        /\ \A f \in pending : e.at = f.at => e = f
        /\ \A s \in Sources : \A f \in log[s] : f.at = e.at => f = e
    BY DEF ReportInv, TypeOK, TablesGrow, Event
  <2>3. /\ \A s \in Sources : log'[s] = IF s = e.src THEN log[s] \union {e} ELSE log[s]
        /\ log' \in [Sources -> SUBSET Event]
    <3>1. log \in [Sources -> SUBSET Event]
      BY DEF ReportInv, TypeOK
    <3> QED
      BY <2>1, <2>2, <3>1
  <2>4. TypeOK'
    BY <2>1, <2>3 DEF ReportInv, TypeOK
  <2>5. TablesGrow'
    <3>1. \A s \in Sources : IsFiniteSet(log'[s])
      <4>1. \A s \in Sources : IsFiniteSet(log[s])
        BY DEF ReportInv, TablesGrow
      <4>2. ASSUME NEW s \in Sources
            PROVE  IsFiniteSet(log[s] \union {e})
        BY <4>1, FS_AddElement
      <4> QED
        BY <2>3, <4>1, <4>2
    <3>2. ASSUME NEW s \in Sources
          PROVE  /\ \A f \in log'[s] : f.src = s /\ f.at < now
                 /\ before.log[s] \subseteq log'[s]
      <4>1. /\ \A f \in log[s] : f.src = s /\ f.at < now
            /\ before.log[s] \subseteq log[s]
        BY DEF ReportInv, TablesGrow
      <4> QED
        BY <2>2, <2>3, <4>1
    <3>3. ASSUME NEW s \in Sources, NEW f \in log'[s], NEW g \in log'[s] \union pending',
                 f.at = g.at
          PROVE  f = g
      <4>1. \A x \in log[s], y \in log[s] \union pending : x.at = y.at => x = y
        BY DEF ReportInv, TablesGrow
      <4>2. /\ f \in log[s] \union {e}
            /\ g \in log[s] \union {e} \union pending
        BY <2>1, <2>3
      <4> QED
        BY <2>2, <3>3, <4>1, <4>2
    <3> QED
      BY <2>1, <3>1, <3>2, <3>3 DEF ReportInv, TablesGrow
  <2> QED
    BY <2>1, <2>3, <2>4, <2>5, TablesStep
<1> QED
  BY <1>1, <1>2, <1>3 DEF Environment

(* A handler starts from nothing.                                          *)
LEMMA BeginStep ==
  ASSUME ReportInv, NEW kind \in {"timeline", "verify", "summary", "export"},
         NEW from \in Int, NEW to \in Int, NEW wanted \in SUBSET Sources,
         kind = "verify" => wanted = Sources, Begin(kind, from, to, wanted)
  PROVE  ReportInv'
<1>1. PICK cookie \in BOOLEAN :
         h' = [pc |-> "run", kind |-> kind, from |-> from, to |-> to, cookie |-> cookie,
               todo |-> wanted, offset |-> 0, out |-> <<>>, items |-> <<>>]
  BY DEF Begin
<1>2. /\ h' \in Handler /\ h'.pc = "run" /\ h'.kind = kind /\ h'.todo = wanted
      /\ h'.offset = 0 /\ h'.out = <<>> /\ h'.items = <<>>
  BY <1>1 DEF Handler
<1>3. TypeOK'
  BY <1>2 DEF Begin, logVars, ReportInv, TypeOK
<1>4. TablesGrow'
  BY DEF Begin, logVars, ReportInv, TypeOK, TablesGrow
<1>5. PagesAreKept'
  <2> SUFFICES ASSUME Busy' PROVE PagesAreKept'
    BY DEF PagesAreKept
  <2>1. Src' \in Sources
    BY <1>2 DEF Src, Sources
  <2>2. PICK s \in Sources : s = Src'
    BY <2>1
  <2>3. ToSet(h'.out) = {} /\ IsInjective(h'.out)
    BY <1>2 DEF ToSet, IsInjective
  <2>4. \A e : Rank(Rows(s)', e) \in Nat
    BY <1>3, <1>4, NextRowsAreTimed, RankGrows
  <2>5. Rows(Src)' = Rows(s)' /\ RowsBefore(Src)' = RowsBefore(s)'
    BY <2>2 DEF Rows, RowsBefore
  <2> QED
    BY <1>2, <2>3, <2>4, <2>5 DEF PagesAreKept, Rank
<1>6. \A src \in Sources : status'[src] = "none"
  BY DEF Begin, ReportInv, StatusIsTrue
<1>7. ItemsAreWhole'
  BY <1>2, <1>6 DEF ItemsAreWhole, ToSet
<1>8. StatusIsTrue'
  BY <1>2, <1>6 DEF StatusIsTrue
<1> QED
  BY <1>3, <1>4, <1>5, <1>7, <1>8 DEF ReportInv
-----------------------------------------------------------------------------
(* One more page: rows that were there at the start are read or still      *)
(* ahead, and after a short page none is ahead.                            *)
LEMMA PageRead ==
  ASSUME NEW rows \in SUBSET Event, IsFiniteSet(rows), Timed(rows),
         NEW first \in SUBSET rows, NEW offset \in Nat, NEW out \in Seq(Event),
         ToSet(out) \subseteq rows,
         \A e \in first : e \in ToSet(out) \/ Rank(rows, e) >= offset,
         rows = first => IsInjective(out) /\ \A e \in ToSet(out) : Rank(rows, e) < offset
  PROVE  LET page == Page(rows, offset)
             read == out \o page
         IN  /\ page \in Seq(Event) /\ read \in Seq(Event)
             /\ Len(page) \in 0..PAGE
             /\ ToSet(read) \subseteq rows
             /\ \A e \in first : e \in ToSet(read) \/ Rank(rows, e) >= offset + PAGE
             /\ rows = first => /\ IsInjective(read)
                                /\ \A e \in ToSet(read) : Rank(rows, e) < offset + PAGE
             /\ Len(page) < PAGE \/ Cardinality(rows) <= PAGE => first \subseteq ToSet(read)
<1> DEFINE page == Page(rows, offset)
           read == out \o page
<1>0. PAGE \in Nat \ {0}
  BY ReportAssumption
<1>1. /\ page \in Seq(rows) /\ IsInjective(page) /\ Len(page) <= PAGE
      /\ \A e \in rows : e \in ToSet(page) <=> Rank(rows, e) \in offset..(offset + PAGE - 1)
      /\ Len(page) < PAGE => \A e \in rows : Rank(rows, e) < offset + PAGE
      /\ Cardinality(rows) <= PAGE => \A e \in rows : Rank(rows, e) < PAGE
  BY PageRows
<1>2. \A e \in rows : Rank(rows, e) \in Nat
  BY RankGrows
<1> HIDE DEF page
<1>3. page \in Seq(Event) /\ Len(page) \in 0..PAGE /\ ToSet(page) \subseteq rows
  BY <1>0, <1>1 DEF ToSet
<1>4. /\ read \in Seq(Event) /\ ToSet(read) = ToSet(out) \union ToSet(page)
      /\ ToSet(out) \intersect ToSet(page) = {} =>
            (IsInjective(out) /\ IsInjective(page) => IsInjective(read))
  BY <1>3, Joined
<1> HIDE DEF read
<1>5. \A e \in first : e \in ToSet(read) \/ Rank(rows, e) >= offset + PAGE
  BY <1>0, <1>1, <1>2, <1>4
<1>6. ASSUME rows = first
      PROVE  /\ IsInjective(read)
             /\ \A e \in ToSet(read) : Rank(rows, e) < offset + PAGE
  <2>1. \A e \in ToSet(page) : Rank(rows, e) \in offset..(offset + PAGE - 1)
    BY <1>1, <1>3
  <2>2. ToSet(out) \intersect ToSet(page) = {}
    BY <1>2, <1>6, <2>1
  <2> QED
    BY <1>0, <1>1, <1>2, <1>4, <1>6, <2>1, <2>2
<1>7. ASSUME Len(page) < PAGE \/ Cardinality(rows) <= PAGE
      PROVE  first \subseteq ToSet(read)
  BY <1>0, <1>1, <1>2, <1>5, <1>7
<1> QED
  BY <1>3, <1>4, <1>5, <1>6, <1>7 DEF page, read

(* The events of a sequence have their sources.                            *)
LEMMA Elements ==
  ASSUME NEW items \in Seq(Event)
  PROVE  /\ ToSet(items) \subseteq Event
         /\ \A e \in ToSet(items) : e.src \in Sources
<1>1. \A i \in DOMAIN items : items[i] \in Event
  OBVIOUS
<1>2. ToSet(items) \subseteq Event
  BY <1>1 DEF ToSet
<1> QED
  BY <1>2 DEF Event

(* What going on to the next source does, whatever the one before gave.    *)
LEMMA SourceDone ==
  ASSUME ReportInv, Busy, NEW items \in Seq(Event),
         NEW st \in {"included", "intact", "broken", "failed"},
         NextSource(items, st), UNCHANGED <<logVars, report, before>>
  PROVE  /\ h'.pc = "run" /\ h'.kind = h.kind /\ h'.items = items
         /\ Src \in Sources /\ Src \in h.todo /\ h'.todo = h.todo \ {Src}
         /\ \A s \in Sources : status'[s] = IF s = Src THEN st ELSE status[s]
         /\ \A s \in Sources : Rows(s)' = Rows(s) /\ RowsBefore(s)' = RowsBefore(s)
         /\ TypeOK' /\ TablesGrow' /\ PagesAreKept'
<1>1. h \in Handler /\ h.todo \in SUBSET Sources
  BY DEF ReportInv, TypeOK, Handler
<1>2. Src \in Sources /\ Src \in h.todo
  BY <1>1 DEF Busy, Src, Sources
<1>3. h' = [h EXCEPT !.todo = @ \ {Src}, !.offset = 0, !.out = <<>>, !.items = items]
  BY DEF NextSource
<1>4. PICK s \in Sources : s = Src
  BY <1>2
<1>5. /\ h' \in Handler /\ h'.pc = "run" /\ SameWindow /\ h'.items = items
      /\ h'.todo = h.todo \ {s} /\ h'.offset = 0 /\ h'.out = <<>>
  <2>1. h'.todo = h.todo \ {s} /\ h'.offset = 0 /\ h'.out = <<>> /\ h'.items = items
    BY <1>1, <1>3, <1>4 DEF Handler
  <2>2. h'.pc = h.pc /\ SameWindow /\ h'.cookie = h.cookie
    BY <1>1, <1>3 DEF Handler, SameWindow
  <2>3. h' = [pc |-> h'.pc, kind |-> h'.kind, from |-> h'.from, to |-> h'.to,
              cookie |-> h'.cookie, todo |-> h'.todo, offset |-> h'.offset,
              out |-> h'.out, items |-> h'.items]
    BY <1>1, <1>3 DEF Handler
  <2>4. /\ h'.todo \in SUBSET Sources /\ h'.offset \in Nat
        /\ h'.out \in Seq(Event) /\ h'.items \in Seq(Event)
    BY <1>1, <2>1
  <2>5. /\ h'.pc \in {"idle", "run", "done"}
        /\ h'.kind \in {"none", "timeline", "verify", "summary", "export"}
        /\ h'.from \in Int /\ h'.to \in Int /\ h'.cookie \in BOOLEAN
    BY <1>1, <2>2 DEF Handler, SameWindow
  <2>6. h' \in Handler
    BY <2>3, <2>4, <2>5 DEF Handler
  <2> QED
    BY <2>1, <2>2, <2>6 DEF Busy
<1>6. /\ status' \in [Sources -> {"none", "included", "intact", "broken", "failed"}]
      /\ \A x \in Sources : status'[x] = IF x = Src THEN st ELSE status[x]
  BY <1>2 DEF NextSource, ReportInv, TypeOK
<1>7. \A x \in Sources : Rows(x)' = Rows(x) /\ RowsBefore(x)' = RowsBefore(x)
  BY <1>5, WindowKept DEF logVars
<1>8. TypeOK' /\ TablesGrow'
  BY <1>5, <1>6 DEF ReportInv, TypeOK, TablesGrow, logVars
<1>9. PagesAreKept'
  <2> SUFFICES ASSUME Busy' PROVE PagesAreKept'
    BY DEF PagesAreKept
  <2>1. Src' \in Sources
    BY <1>1, <1>5 DEF Src, Sources
  <2>2. PICK x \in Sources : x = Src'
    BY <2>1
  <2>3. ToSet(h'.out) = {} /\ IsInjective(h'.out)
    BY <1>5 DEF ToSet, IsInjective
  <2>4. \A e : Rank(Rows(x)', e) \in Nat
    BY <1>8, NextRowsAreTimed, RankGrows
  <2>5. Rows(Src)' = Rows(x)' /\ RowsBefore(Src)' = RowsBefore(x)'
    BY <2>2 DEF Rows, RowsBefore
  <2> QED
    BY <1>5, <2>3, <2>4, <2>5 DEF PagesAreKept, Rank
<1> QED
  BY <1>2, <1>4, <1>5, <1>6, <1>7, <1>8, <1>9 DEF SameWindow

(* What is noted about a source that is done with stays true.              *)
LEMMA StatusStep ==
  ASSUME ReportInv, Busy, NEW st \in {"included", "intact", "broken", "failed"},
         h'.pc = "run", h'.kind = h.kind, h'.todo = h.todo \ {Src},
         \A s \in Sources : status'[s] = IF s = Src THEN st ELSE status[s],
         UNCHANGED <<logVars, before>>,
         st = "broken" => Src \in tampered, st = "intact" => Src \notin before.tampered,
         h.kind = "verify" => st # "included"
  PROVE  StatusIsTrue'
BY DEF ReportInv, StatusIsTrue, Busy, logVars

(* A source fails, or is not asked: it gives nothing.                      *)
LEMMA FailStep == ReportInv /\ (SourceFails \/ SkipBank) => ReportInv'
<1> SUFFICES ASSUME ReportInv, SourceFails \/ SkipBank PROVE ReportInv'
  OBVIOUS
<1>1. /\ Busy /\ NextSource(h.items, "failed")
      /\ UNCHANGED <<logVars, report, before>>
  BY DEF SourceFails, SkipBank, Reachable
<1>2. h.items \in Seq(Event)
  BY DEF ReportInv, TypeOK, Handler
<1>3. /\ h'.pc = "run" /\ h'.kind = h.kind /\ h'.items = h.items
      /\ Src \in Sources /\ Src \in h.todo /\ h'.todo = h.todo \ {Src}
      /\ \A s \in Sources : status'[s] = IF s = Src THEN "failed" ELSE status[s]
      /\ \A s \in Sources : Rows(s)' = Rows(s) /\ RowsBefore(s)' = RowsBefore(s)
      /\ TypeOK' /\ TablesGrow' /\ PagesAreKept'
  <2>1. "failed" \in {"included", "intact", "broken", "failed"}
    OBVIOUS
  <2> QED
    BY <1>1, <1>2, <2>1, SourceDone
<1>4. h.pc = "run" /\ status[Src] = "none"
  BY <1>1, <1>3 DEF Busy, ReportInv, StatusIsTrue
<1>5. \A e \in ToSet(h.items) : e.src \in Sources
  BY <1>2, Elements
<1>6. \A s \in Sources : Cut(s)' <=> Cut(s)
  BY <1>3 DEF Cut
<1>7. ItemsAreWhole'
  <2>1. ASSUME NEW e \in ToSet(h.items)
        PROVE  status'[e.src] = "included" /\ e \in Rows(e.src)'
    BY <1>3, <1>4, <1>5 DEF ReportInv, ItemsAreWhole
  <2>2. ASSUME NEW s \in Sources, status'[s] = "included"
        PROVE  /\ RowsBefore(s)' \subseteq ToSet(h.items) \/ Cut(s)'
               /\ Rows(s)' = RowsBefore(s)' => OnceEach(h.items, s)
    BY <1>3, <1>4, <1>6, <2>2 DEF ReportInv, ItemsAreWhole
  <2> QED
    BY <1>3, <2>1, <2>2 DEF ItemsAreWhole
<1>8. StatusIsTrue'
  BY <1>1, <1>3, StatusStep
<1> QED
  BY <1>3, <1>7, <1>8 DEF ReportInv

(* A chain is checked.                                                     *)
LEMMA CheckStep == ReportInv /\ CheckChain => ReportInv'
<1> SUFFICES ASSUME ReportInv, CheckChain PROVE ReportInv'
  OBVIOUS
<1> DEFINE st == IF Src \in tampered THEN "broken" ELSE "intact"
<1>1. /\ Busy /\ h.kind = "verify" /\ NextSource(<<>>, st)
      /\ UNCHANGED <<logVars, report, before>>
  BY DEF CheckChain, Reachable
<1>2. <<>> \in Seq(Event) /\ st \in {"included", "intact", "broken", "failed"}
  OBVIOUS
<1>3. /\ st = "broken" => Src \in tampered
      /\ st = "intact" => Src \notin before.tampered
      /\ st # "included"
  BY DEF ReportInv, TablesGrow
<1> HIDE DEF st
<1>4. /\ h'.pc = "run" /\ h'.kind = h.kind /\ h'.items = <<>>
      /\ Src \in Sources /\ Src \in h.todo /\ h'.todo = h.todo \ {Src}
      /\ \A s \in Sources : status'[s] = IF s = Src THEN st ELSE status[s]
      /\ TypeOK' /\ TablesGrow' /\ PagesAreKept'
  BY <1>1, <1>2, SourceDone
<1>5. \A s \in Sources : status[s] # "included"
  BY <1>1 DEF Busy, ReportInv, StatusIsTrue
<1>6. ItemsAreWhole'
  BY <1>3, <1>4, <1>5 DEF ItemsAreWhole, ToSet
<1>7. StatusIsTrue'
  BY <1>1, <1>2, <1>3, <1>4, StatusStep
<1> QED
  BY <1>4, <1>6, <1>7 DEF ReportInv
(* A page is read: there are more, or the source is included.              *)
LEMMA FetchStep == ReportInv /\ FetchPage => ReportInv'
<1> SUFFICES ASSUME ReportInv, FetchPage PROVE ReportInv'
  OBVIOUS
<1>1. /\ Busy /\ h.pc = "run" /\ h.kind # "verify"
      /\ UNCHANGED <<logVars, report, before>>
  BY DEF FetchPage, Reachable, Busy
<1>2. /\ h \in Handler /\ h.todo \in SUBSET Sources /\ h.offset \in Nat
      /\ h.out \in Seq(Event) /\ h.items \in Seq(Event)
  BY DEF ReportInv, TypeOK, Handler
<1>3. Src \in Sources /\ Src \in h.todo
  BY <1>1, <1>2 DEF Busy, Src, Sources
<1>4. PICK s \in Sources : s = Src
  BY <1>3
<1> DEFINE rows == Rows(s)
           first == RowsBefore(s)
           page == Page(rows, h.offset)
           read == h.out \o page
<1>5. /\ rows \in SUBSET Event /\ IsFiniteSet(rows) /\ Timed(rows)
      /\ first \in SUBSET rows /\ \A e \in rows : e.src = s
  BY RowsAreTimed DEF ReportInv
<1>6. /\ ToSet(h.out) \subseteq rows
      /\ \A e \in first : e \in ToSet(h.out) \/ Rank(rows, e) >= h.offset
      /\ rows = first => /\ IsInjective(h.out)
                         /\ \A e \in ToSet(h.out) : Rank(rows, e) < h.offset
  BY <1>1, <1>4 DEF ReportInv, PagesAreKept, Rank
<1>7. /\ page \in Seq(Event) /\ read \in Seq(Event)
      /\ Len(page) \in 0..PAGE
      /\ ToSet(read) \subseteq rows
      /\ \A e \in first : e \in ToSet(read) \/ Rank(rows, e) >= h.offset + PAGE
      /\ rows = first => /\ IsInjective(read)
                         /\ \A e \in ToSet(read) : Rank(rows, e) < h.offset + PAGE
      /\ Len(page) < PAGE \/ Cardinality(rows) <= PAGE => first \subseteq ToSet(read)
  <2> HIDE DEF rows, first
  <2> QED
    BY <1>2, <1>5, <1>6, PageRead
<1>8. PAGE \in Nat \ {0} /\ Cap \in Nat \ {0} /\ Cardinality(rows) \in Nat
  BY <1>5, ReportAssumption, FS_CardinalityType
<1>9. status[s] = "none"
  BY <1>1, <1>3, <1>4 DEF ReportInv, StatusIsTrue
<1> DEFINE more == h.kind # "timeline" /\ Len(page) = PAGE /\ Len(read) < Cap
           kept == IF h.kind = "timeline" THEN read ELSE Slice(read)
<1>10. IF more
       THEN /\ h' = [h EXCEPT !.offset = @ + PAGE, !.out = read]
            /\ status' = status
       ELSE NextSource(h.items \o kept, "included")
  BY <1>4 DEF FetchPage
<1> HIDE DEF rows, first, page, read
<1>11. ASSUME more PROVE ReportInv'
  <2>1. /\ h' = [h EXCEPT !.offset = @ + PAGE, !.out = read]
        /\ status' = status
    BY <1>10, <1>11
  <2>2. /\ h'.offset = h.offset + PAGE /\ h'.out = read
        /\ h'.pc = h.pc /\ SameWindow /\ h'.cookie = h.cookie
        /\ h'.todo = h.todo /\ h'.items = h.items
    BY <1>2, <2>1 DEF Handler, SameWindow
  <2>3. h' \in Handler
    <3>1. h.offset + PAGE \in Nat
      BY <1>2, <1>8
    <3> QED
      BY <1>2, <1>7, <2>1, <3>1 DEF Handler
  <2>4. TypeOK' /\ TablesGrow'
    BY <1>1, <2>1, <2>3 DEF ReportInv, TypeOK, TablesGrow, logVars
  <2>5. \A x \in Sources : Rows(x)' = Rows(x) /\ RowsBefore(x)' = RowsBefore(x)
    BY <1>1, <2>2, WindowKept DEF logVars
  <2>6. Src' = s
    BY <1>4, <2>2 DEF Src
  <2>7. Rows(Src)' = rows /\ RowsBefore(Src)' = first
    <3>1. Rows(Src)' = Rows(s)' /\ RowsBefore(Src)' = RowsBefore(s)'
      BY <2>6 DEF Rows, RowsBefore
    <3> QED
      BY <2>5, <3>1 DEF rows, first
  <2>8. PagesAreKept'
    BY <1>7, <2>2, <2>7 DEF PagesAreKept, Rank
  <2>9. ItemsAreWhole'
    <3>1. \A x \in Sources : Cut(x)' <=> Cut(x)
      BY <2>2, <2>5 DEF Cut, SameWindow
    <3>2. \A e \in ToSet(h.items) : e.src \in Sources
      BY <1>2, Elements
    <3> QED
      BY <1>1, <2>1, <2>2, <2>5, <3>1, <3>2 DEF ReportInv, ItemsAreWhole
  <2>10. StatusIsTrue'
    BY <1>1, <2>1, <2>2 DEF ReportInv, StatusIsTrue, SameWindow, logVars
  <2> QED
    BY <2>4, <2>8, <2>9, <2>10 DEF ReportInv
<1>12. ASSUME ~more PROVE ReportInv'
  <2> DEFINE items == h.items \o kept
  <2>1. /\ kept \in Seq(Event) /\ ToSet(kept) \subseteq rows
        /\ Len(kept) = IF h.kind = "timeline" \/ Len(read) <= Cap THEN Len(read) ELSE Cap
        /\ rows = first => IsInjective(kept)
        /\ h.kind = "timeline" \/ Len(kept) < Cap => kept = read
    <3>1. CASE h.kind = "timeline"
      BY <1>7, <3>1
    <3>2. CASE h.kind # "timeline"
      <4>1. kept = Slice(read)
        BY <3>2
      <4>2. /\ Slice(read) \in Seq(Event)
            /\ Len(Slice(read)) = IF Cap < Len(read) THEN Cap ELSE Len(read)
            /\ Len(Slice(read)) < Cap => Slice(read) = read
            /\ ToSet(Slice(read)) \subseteq ToSet(read)
            /\ IsInjective(read) => IsInjective(Slice(read))
        BY <1>7, Sliced
      <4> HIDE DEF kept
      <4>3. Len(read) \in Nat
        BY <1>7
      <4> QED
        BY <1>7, <1>8, <3>2, <4>1, <4>2, <4>3
    <3> QED
      BY <3>1, <3>2
  <2> HIDE DEF kept
  <2>2. \A e \in ToSet(h.items) : e.src # s /\ e.src \in Sources
    BY <1>1, <1>2, <1>9, Elements DEF ReportInv, ItemsAreWhole
  <2>3. \A e \in ToSet(kept) : e.src = s
    BY <1>5, <2>1
  <2>4. ToSet(h.items) \intersect ToSet(kept) = {}
    BY <2>2, <2>3
  <2>5. /\ items \in Seq(Event) /\ Len(items) = Len(h.items) + Len(kept)
        /\ ToSet(items) = ToSet(h.items) \union ToSet(kept)
        /\ \A x : OnceEach(h.items, x) /\ OnceEach(kept, x) => OnceEach(items, x)
    BY <1>2, <2>1, <2>4, Joined
  <2>6. Len(h.items) \in Nat /\ Len(kept) \in Nat /\ Len(read) \in Nat
    BY <1>2, <1>7, <2>1
  <2> HIDE DEF items
  <2>7. NextSource(items, "included")
    BY <1>10, <1>12 DEF items
  <2>8. "included" \in {"included", "intact", "broken", "failed"}
    OBVIOUS
  <2>9. /\ h'.pc = "run" /\ h'.kind = h.kind /\ h'.items = items
        /\ h'.todo = h.todo \ {Src}
        /\ \A x \in Sources : status'[x] = IF x = Src THEN "included" ELSE status[x]
        /\ \A x \in Sources : Rows(x)' = Rows(x) /\ RowsBefore(x)' = RowsBefore(x)
        /\ TypeOK' /\ TablesGrow' /\ PagesAreKept'
    BY <1>1, <2>5, <2>7, <2>8, SourceDone
  <2>10. StatusIsTrue'
    BY <1>1, <2>8, <2>9, StatusStep
  <2>11. ASSUME NEW e \in ToSet(items)
         PROVE  status'[e.src] = "included" /\ e \in Rows(e.src)'
    <3>1. CASE e \in ToSet(h.items)
      BY <1>1, <1>4, <2>2, <2>9, <3>1 DEF ReportInv, ItemsAreWhole
    <3>2. CASE e \in ToSet(kept)
      BY <1>4, <2>1, <2>3, <2>9, <3>2 DEF rows
    <3> QED
      BY <2>5, <3>1, <3>2
  <2>12. ASSUME NEW x \in Sources, x # s, status'[x] = "included"
         PROVE  /\ RowsBefore(x)' \subseteq ToSet(items) \/ Cut(x)'
                /\ Rows(x)' = RowsBefore(x)' => OnceEach(items, x)
    <3>1. /\ RowsBefore(x) \subseteq ToSet(h.items) \/ Cut(x)
          /\ Rows(x) = RowsBefore(x) => OnceEach(h.items, x)
      BY <1>1, <1>4, <2>9, <2>12 DEF ReportInv, ItemsAreWhole
    <3>2. Cut(x) => Cut(x)'
      BY <1>8, <2>5, <2>6, <2>9 DEF Cut
    <3>3. OnceEach(kept, x)
      BY <2>3, <2>12 DEF OnceEach, ToSet
    <3> QED
      BY <2>5, <2>9, <3>1, <3>2, <3>3
  <2>13. first \subseteq ToSet(items) \/ Cut(s)'
    <3>1. CASE h.kind = "timeline"
      <4>1. Cut(s)' <=> Cardinality(rows) > PAGE
        BY <2>9, <3>1 DEF Cut, rows
      <4> QED
        BY <1>7, <1>8, <2>1, <2>5, <3>1, <4>1
    <3>2. CASE h.kind # "timeline" /\ Len(kept) >= Cap
      BY <1>8, <2>5, <2>6, <2>9, <3>2 DEF Cut
    <3>3. CASE h.kind # "timeline" /\ Len(kept) < Cap
      <4>1. kept = read /\ Len(read) < Cap
        BY <2>1, <3>3
      <4>2. Len(page) < PAGE
        BY <1>7, <1>8, <1>12, <3>3, <4>1
      <4> QED
        BY <1>7, <2>5, <4>1, <4>2
    <3> QED
      BY <1>8, <2>6, <3>1, <3>2, <3>3
  <2>14. rows = first => OnceEach(items, s)
    <3>1. OnceEach(h.items, s)
      BY <2>2 DEF OnceEach, ToSet
    <3>2. IsInjective(kept) => OnceEach(kept, s)
      BY DEF OnceEach, IsInjective
    <3> QED
      BY <2>1, <2>5, <3>1, <3>2
  <2>15. Rows(s)' = rows /\ RowsBefore(s)' = first
    BY <2>9 DEF rows, first
  <2>16. ItemsAreWhole'
    <3>1. ASSUME NEW x \in Sources, status'[x] = "included"
          PROVE  /\ RowsBefore(x)' \subseteq ToSet(items) \/ Cut(x)'
                 /\ Rows(x)' = RowsBefore(x)' => OnceEach(items, x)
      <4>1. CASE x = s
        BY <2>13, <2>14, <2>15, <4>1
      <4> QED
        BY <2>12, <3>1, <4>1
    <3> QED
      BY <2>9, <2>11, <3>1 DEF ItemsAreWhole
  <2> QED
    BY <2>9, <2>10, <2>16 DEF ReportInv
<1> QED
  BY <1>11, <1>12
(* The answer, and the end of a request.                                   *)
LEMMA OtherSteps ==
  ASSUME ReportInv,
         Answer \/ Dismiss \/ (h' = [NoHandler EXCEPT !.pc = "done"]
                                 /\ report' = [NoReport EXCEPT !.code = 400]
                                 /\ UNCHANGED <<logVars, status, before>>)
  PROVE  ReportInv'
<1>1. h \in Handler
  BY DEF ReportInv, TypeOK
<1>2. NoHandler \in Handler /\ NoHandler.pc = "idle"
  BY DEF NoHandler, Handler
<1>3. CASE Dismiss
  <2>1. h'.pc = "idle" /\ h' \in Handler
    BY <1>2, <1>3 DEF Dismiss
  <2>2. TypeOK' /\ StatusIsTrue'
    BY <1>3, <2>1 DEF Dismiss, logVars, NoReport, ReportInv, TypeOK, StatusIsTrue
  <2>3. TablesGrow'
    BY <1>3 DEF Dismiss, logVars, ReportInv, TablesGrow
  <2> QED
    BY <2>1, <2>2, <2>3 DEF ReportInv, PagesAreKept, ItemsAreWhole, Busy
<1>4. CASE ~Dismiss
  <2>1. h'.pc = "done" /\ h' \in Handler
    <3>1. CASE Answer
      <4>1. h' = [h EXCEPT !.pc = "done"]
        BY <3>1 DEF Answer
      <4> QED
        BY <1>1, <4>1 DEF Handler
    <3>2. CASE h' = [NoHandler EXCEPT !.pc = "done"]
      BY <1>2, <3>2 DEF Handler
    <3> QED
      BY <1>4, <3>1, <3>2
  <2>2. report'.code \in {0, 200, 400} /\ UNCHANGED <<logVars, status, before>>
    BY <1>4 DEF Answer, NoReport
  <2>3. TypeOK' /\ TablesGrow'
    BY <2>1, <2>2 DEF ReportInv, TypeOK, TablesGrow, logVars
  <2> QED
    BY <2>1, <2>3 DEF ReportInv, PagesAreKept, ItemsAreWhole, StatusIsTrue, Busy
<1> QED
  BY <1>3, <1>4

(* Every step preserves the invariant.                                     *)
LEMMA ReportStep == ReportInv /\ [Next]_vars => ReportInv'
<1> SUFFICES ASSUME ReportInv, [Next]_vars PROVE ReportInv'
  OBVIOUS
<1>1. CASE Environment
  BY <1>1, EnvironmentStep
<1>2. CASE handleAuditTimeline
  <2>1. "timeline" \in {"timeline", "verify", "summary", "export"} /\ 0 \in Int
    OBVIOUS
  <2>2. Begin("timeline", 0, 0, Sources) /\ Sources \in SUBSET Sources
    BY <1>2 DEF handleAuditTimeline
  <2> QED
    BY <2>1, <2>2, BeginStep
<1>3. CASE handleAuditVerify
  <2>1. "verify" \in {"timeline", "verify", "summary", "export"} /\ 0 \in Int
    OBVIOUS
  <2>2. Begin("verify", 0, 0, Sources) /\ Sources \in SUBSET Sources
    BY <1>3 DEF handleAuditVerify
  <2> QED
    BY <2>1, <2>2, BeginStep
<1>4. CASE handleAuditSummary
  <2>1. "summary" \in {"timeline", "verify", "summary", "export"}
    OBVIOUS
  <2>2. PICK w \in Windows : Begin("summary", Unix(now) - w, Unix(now), Sources)
    BY <1>4 DEF handleAuditSummary
  <2>3. Unix(now) \in Int /\ w \in Nat
    BY ReportAssumption DEF Unix, ReportInv, TypeOK
  <2>4. Unix(now) - w \in Int
    BY <2>3
  <2>5. Sources \in SUBSET Sources
    OBVIOUS
  <2> QED
    BY <2>1, <2>2, <2>3, <2>4, <2>5, BeginStep
<1>5. CASE handleAuditExport
  <2>1. PICK wanted \in Selections, range \in Ranges :
            IF range[1] > 0 /\ range[2] > 0 /\ range[2] < range[1]
            THEN /\ h.pc = "idle"
                 /\ h' = [NoHandler EXCEPT !.pc = "done"]
                 /\ report' = [NoReport EXCEPT !.code = 400]
                 /\ UNCHANGED <<logVars, status, before>>
            ELSE Begin("export", range[1], range[2], wanted)
    BY <1>5 DEF handleAuditExport
  <2>2. wanted \in SUBSET Sources /\ range[1] \in Int /\ range[2] \in Int
    BY ReportAssumption
  <2>3. CASE range[1] > 0 /\ range[2] > 0 /\ range[2] < range[1]
    BY <2>1, <2>3, OtherSteps
  <2>4. CASE Begin("export", range[1], range[2], wanted)
    <3>1. "export" \in {"timeline", "verify", "summary", "export"} /\ "export" # "verify"
      OBVIOUS
    <3> QED
      BY <2>2, <2>4, <3>1, BeginStep
  <2> QED
    BY <2>1, <2>3, <2>4
<1>6. CASE Handle
  BY <1>6, FetchStep, CheckStep, FailStep, OtherSteps DEF Handle
<1>7. CASE Dismiss
  BY <1>7, OtherSteps
<1>8. CASE UNCHANGED vars
  <2>1. TypeOK' /\ TablesGrow'
    BY <1>8 DEF vars, ReportInv, TypeOK, TablesGrow
  <2> QED
    BY <1>8, <2>1, TablesStep DEF vars
<1> QED
  BY <1>1, <1>2, <1>3, <1>4, <1>5, <1>6, <1>7, <1>8 DEF Next

(* The invariant holds in every state, whatever commits between two pages  *)
(* of the loops in fetchCaWindow, fetchKdcWindow and fetchBankWindow.      *)
THEOREM ReportInvHolds == Spec => []ReportInv
BY ReportInit, ReportStep, PTL DEF Spec
-----------------------------------------------------------------------------
(* What Answer puts into the report, in terms of what was collected.       *)
LEMMA Answered ==
  ASSUME ReportInv, Answer
  PROVE  /\ h.pc = "run" /\ h.todo = {} /\ h'.kind = h.kind /\ status' = status
         /\ \A src \in Sources : Rows(src)' = Rows(src) /\ RowsBefore(src)' = RowsBefore(src)
         /\ Events' \in Seq(Event) /\ ToSet(Events') \subseteq ToSet(h.items)
         /\ IsInjective(h.items) => IsInjective(Events')
         /\ h.kind = "summary" => report'.anomalies = Anomalies(Events')
         /\ Whole' => /\ ToSet(Events') = ToSet(h.items)
                      /\ \A src \in Sources : ~Cut(src)
<1> DEFINE sorted == SortByTs(h.items)
           items == IF h.kind = "timeline" THEN sorted ELSE Slice(sorted)
<1>1. /\ h.pc = "run" /\ h.todo = {} /\ status' = status /\ before' = before /\ log' = log
      /\ report' = [code |-> 200,
                    items |-> [i \in DOMAIN items |-> enrichAudit(items[i])],
                    capped |-> h.kind # "timeline" /\ Len(items) >= Cap,
                    anomalies |-> IF h.kind = "summary" THEN Anomalies(items) ELSE {},
                    ok |-> allOk]
      /\ h' = [h EXCEPT !.pc = "done"]
  BY DEF Answer, logVars
<1>2. /\ h \in Handler /\ h.items \in Seq(Event)
  BY DEF ReportInv, TypeOK, Handler
<1>3. SameWindow
  BY <1>1, <1>2 DEF SameWindow, Handler
<1>4. \A src \in Sources : Rows(src)' = Rows(src) /\ RowsBefore(src)' = RowsBefore(src)
  BY <1>1, <1>3, WindowKept
<1>5. /\ sorted \in Seq(Event) /\ Len(sorted) = Len(h.items)
      /\ ToSet(sorted) = ToSet(h.items)
      /\ IsInjective(h.items) => IsInjective(sorted)
  BY <1>2, Sorted
<1> HIDE DEF sorted
<1>6. /\ Slice(sorted) \in Seq(Event)
      /\ Len(Slice(sorted)) < Cap => Slice(sorted) = sorted
      /\ ToSet(Slice(sorted)) \subseteq ToSet(sorted)
      /\ IsInjective(sorted) => IsInjective(Slice(sorted))
  BY <1>5, Sliced
<1>7. /\ items \in Seq(Event) /\ ToSet(items) \subseteq ToSet(h.items)
      /\ IsInjective(h.items) => IsInjective(items)
      /\ h.kind = "timeline" \/ Len(items) < Cap =>
            items = sorted /\ ToSet(items) = ToSet(h.items) /\ Len(items) = Len(h.items)
  BY <1>5, <1>6
<1> HIDE DEF items
<1>8. Events' = items
  <2>1. /\ DOMAIN report'.items = DOMAIN items
        /\ \A i \in DOMAIN items : report'.items[i].event = items[i]
    BY <1>1 DEF enrichAudit
  <2>2. Events' = [i \in DOMAIN items |-> items[i]]
    BY <2>1 DEF Events
  <2>3. items = [i \in DOMAIN items |-> items[i]]
    BY <1>7
  <2> QED
    BY <2>2, <2>3
<1>9. h.kind = "summary" => report'.anomalies = Anomalies(items)
  BY <1>1
<1>10. ASSUME Whole'
       PROVE  /\ ToSet(items) = ToSet(h.items)
              /\ \A src \in Sources : ~Cut(src)
  <2>0. Cap \in Nat /\ PAGE \in Nat /\ Len(items) \in Nat /\ Len(h.items) \in Nat
    BY <1>2, <1>7, ReportAssumption
  <2>1. CASE h.kind = "timeline"
    <3>1. \A src \in Sources : Cardinality(Rows(src)) <= PAGE
      BY <1>3, <1>4, <1>10, <2>1 DEF Whole, SameWindow
    <3>2. \A src \in Sources : Cardinality(Rows(src)) \in Nat
      BY RowsAreTimed, FS_CardinalityType DEF ReportInv
    <3> QED
      BY <1>7, <2>0, <2>1, <3>1, <3>2 DEF Cut
  <2>2. CASE h.kind # "timeline"
    <3>1. ~report'.capped
      BY <1>3, <1>10, <2>2 DEF Whole, SameWindow
    <3>2. ~(Len(items) >= Cap)
      BY <1>1, <2>2, <3>1
    <3> QED
      BY <1>7, <2>0, <2>2, <3>2 DEF Cut
  <2> QED
    BY <2>1, <2>2
<1> QED
  BY <1>1, <1>3, <1>4, <1>7, <1>8, <1>9, <1>10 DEF SameWindow

(* A report with code 200 is there only by Answer.                         *)
LEMMA DoneByAnswer ==
  ASSUME ReportInv, Next, h'.pc = "done", report'.code = 200
  PROVE  Answer
<1>1. h \in Handler
  BY DEF ReportInv, TypeOK
<1>2. NoHandler.pc = "idle"
  BY DEF NoHandler
<1>3. ~Environment
  BY DEF Environment, MakeEvent, Tamper, CommitEvent
<1>4. \A kind, from, to, wanted : ~Begin(kind, from, to, wanted)
  BY DEF Begin
<1>5. ~handleAuditExport
  BY <1>4 DEF handleAuditExport, NoReport
<1>6. ~handleAuditTimeline /\ ~handleAuditVerify /\ ~handleAuditSummary
  BY <1>4 DEF handleAuditTimeline, handleAuditVerify, handleAuditSummary
<1>7. ASSUME NEW items, NEW st, NextSource(items, st), Busy
      PROVE  FALSE
  BY <1>1, <1>7 DEF NextSource, Busy, Handler
<1>8. ~FetchPage
  <2> SUFFICES ASSUME FetchPage PROVE FALSE
    OBVIOUS
  <2>1. Busy
    BY DEF FetchPage, Reachable
  <2>2. h' = [h EXCEPT !.offset = @ + PAGE, !.out = h.out \o Page(Rows(Src), h.offset)]
    BY <1>7, <2>1 DEF FetchPage
  <2> QED
    BY <1>1, <2>1, <2>2 DEF Busy, Handler
<1>9. ~CheckChain /\ ~SourceFails /\ ~SkipBank
  BY <1>7 DEF CheckChain, SourceFails, SkipBank, Reachable
<1>10. ~Dismiss
  BY <1>2 DEF Dismiss
<1> QED
  BY <1>3, <1>5, <1>6, <1>8, <1>9, <1>10 DEF Next, Handle
(***************************************************************************)
(* The report has only events of the sources it lists as included, and if  *)
(* nothing was cut off all that these had committed when the handler       *)
(* started, whatever was inserted between two pages.                       *)
(***************************************************************************)
THEOREM ReportMatchesLogsHolds == Spec => []ReportMatchesLogs
<1>1. Init => ReportMatchesLogs
  BY DEF Init, NoHandler, ReportMatchesLogs, Done
<1>2. ReportInv /\ ReportMatchesLogs /\ [Next]_vars => ReportMatchesLogs'
  <2> SUFFICES ASSUME ReportInv, ReportMatchesLogs, [Next]_vars
               PROVE  ReportMatchesLogs'
    OBVIOUS
  <2>1. CASE UNCHANGED vars
    BY <2>1 DEF vars, ReportMatchesLogs, Done, Events, Whole, Rows, RowsBefore, InWindow
  <2>2. CASE Next
    <3> SUFFICES ASSUME Done({"timeline", "summary", "export"})'
                 PROVE  ReportMatchesLogs'
      BY DEF ReportMatchesLogs
    <3>1. Answer
      BY <2>2, DoneByAnswer DEF Done
    <3>2. /\ h.pc = "run" /\ status' = status
          /\ \A src \in Sources : Rows(src)' = Rows(src) /\ RowsBefore(src)' = RowsBefore(src)
          /\ ToSet(Events') \subseteq ToSet(h.items)
          /\ Whole' => /\ ToSet(Events') = ToSet(h.items)
                       /\ \A src \in Sources : ~Cut(src)
      BY <3>1, Answered
    <3>3. h.items \in Seq(Event)
      BY DEF ReportInv, TypeOK, Handler
    <3>4. ASSUME NEW e \in ToSet(Events')
          PROVE  status'[e.src] = "included" /\ e \in Rows(e.src)'
      BY <3>2, <3>3, Elements DEF ReportInv, ItemsAreWhole
    <3>5. ASSUME Whole', NEW src \in Sources, status'[src] = "included"
          PROVE  RowsBefore(src)' \subseteq ToSet(Events')
      BY <3>2, <3>5 DEF ReportInv, ItemsAreWhole
    <3>6. ToSet(Events)' = ToSet(Events')
      BY DEF ToSet
    <3> QED
      BY <3>4, <3>5, <3>6 DEF ReportMatchesLogs
  <2> QED
    BY <2>1, <2>2
<1> QED
  BY <1>1, <1>2, ReportInvHolds, PTL DEF Spec

(***************************************************************************)
(* When no row came into the window while the handler read, a report that  *)
(* was not cut has each row of its sources exactly once.                   *)
(***************************************************************************)
THEOREM QuietWindowExactHolds == Spec => []QuietWindowExact
<1>1. Init => QuietWindowExact
  BY DEF Init, NoHandler, QuietWindowExact, Done
<1>2. ReportInv /\ QuietWindowExact /\ [Next]_vars => QuietWindowExact'
  <2> SUFFICES ASSUME ReportInv, QuietWindowExact, [Next]_vars
               PROVE  QuietWindowExact'
    OBVIOUS
  <2>1. CASE UNCHANGED vars
    BY <2>1 DEF vars, QuietWindowExact, Done, Events, Whole, Rows, RowsBefore, InWindow
  <2>2. CASE Next
    <3> DEFINE included == {src \in Sources : status[src] = "included"}
    <3> SUFFICES ASSUME Done({"timeline", "summary", "export"})', Whole',
                        \A src \in {s \in Sources : status'[s] = "included"} :
                            Rows(src)' = RowsBefore(src)'
                 PROVE  /\ IsInjective(Events')
                        /\ ToSet(Events') = UNION {Rows(src)' :
                              src \in {s \in Sources : status'[s] = "included"}}
      BY DEF QuietWindowExact, ToSet, IsInjective
    <3>1. Answer
      BY <2>2, DoneByAnswer DEF Done
    <3>2. /\ h.pc = "run" /\ status' = status
          /\ \A src \in Sources : Rows(src)' = Rows(src) /\ RowsBefore(src)' = RowsBefore(src)
          /\ IsInjective(h.items) => IsInjective(Events')
          /\ Whole' => /\ ToSet(Events') = ToSet(h.items)
                       /\ \A src \in Sources : ~Cut(src)
      BY <3>1, Answered
    <3>3. h.items \in Seq(Event)
      BY DEF ReportInv, TypeOK, Handler
    <3>4. \A src \in included : Rows(src) = RowsBefore(src)
      BY <3>2
    <3>5. \A e \in ToSet(h.items) : e.src \in included /\ e \in Rows(e.src)
      BY <3>2, <3>3, Elements DEF ReportInv, ItemsAreWhole
    <3>6. \A src \in included : /\ OnceEach(h.items, src)
                                /\ Rows(src) \subseteq ToSet(h.items)
      BY <3>2, <3>4 DEF ReportInv, ItemsAreWhole
    <3>7. IsInjective(h.items)
      <4>1. ASSUME NEW i \in DOMAIN h.items, NEW j \in DOMAIN h.items,
                   h.items[i] = h.items[j]
            PROVE  i = j
        <5>1. h.items[i].src \in included
          BY <3>5 DEF ToSet
        <5> QED
          BY <3>6, <4>1, <5>1 DEF OnceEach
      <4> QED
        BY <4>1 DEF IsInjective
    <3>8. ToSet(h.items) = UNION {Rows(src) : src \in included}
      BY <3>5, <3>6
    <3>9. {s \in Sources : status'[s] = "included"} = included
      BY <3>2
    <3>10. {Rows(src)' : src \in included} = {Rows(src) : src \in included}
      BY <3>2
    <3> QED
      BY <3>2, <3>7, <3>8, <3>9, <3>10
  <2> QED
    BY <2>1, <2>2
<1> QED
  BY <1>1, <1>2, ReportInvHolds, PTL DEF Spec

(***************************************************************************)
(* An identity with ANOMALY_THRESHOLD refused operations at the CA or the  *)
(* KDC when the summary was asked for is among its anomalies.              *)
(***************************************************************************)
THEOREM AnomaliesFoundHolds == Spec => []AnomaliesFound
<1>1. Init => AnomaliesFound
  BY DEF Init, NoHandler, AnomaliesFound, Done
<1>2. ReportInv /\ AnomaliesFound /\ [Next]_vars => AnomaliesFound'
  <2> SUFFICES ASSUME ReportInv, AnomaliesFound, [Next]_vars
               PROVE  AnomaliesFound'
    OBVIOUS
  <2>1. CASE UNCHANGED vars
    BY <2>1 DEF vars, AnomaliesFound, Done, RowsBefore, InWindow
  <2>2. CASE Next
    <3> SUFFICES ASSUME Done({"summary"})', ~report'.capped,
                        NEW src \in {"ca", "kdc"}, status'[src] = "included",
                        NEW e \in RowsBefore(src)',
                        Cardinality({f \in RowsBefore(src)' :
                                        /\ f.actor = e.actor
                                        /\ f.action \in EndsRefused}) >= ANOMALY_THRESHOLD
                 PROVE  <<src, e.actor>> \in report'.anomalies
      BY DEF AnomaliesFound
    <3>1. Answer
      BY <2>2, DoneByAnswer DEF Done
    <3>2. src \in Sources
      BY DEF Sources
    <3>3. /\ h.pc = "run" /\ status' = status /\ h'.kind = h.kind
          /\ Rows(src)' = Rows(src) /\ RowsBefore(src)' = RowsBefore(src)
          /\ Events' \in Seq(Event)
          /\ h.kind = "summary" => report'.anomalies = Anomalies(Events')
          /\ Whole' => ToSet(Events') = ToSet(h.items) /\ ~Cut(src)
      BY <3>1, <3>2, Answered
    <3>4. h.kind = "summary" /\ Whole'
      BY <3>3 DEF Done, Whole
    <3>5. RowsBefore(src) \subseteq ToSet(Events')
      BY <3>2, <3>3, <3>4 DEF ReportInv, ItemsAreWhole
    <3>6. \A f \in RowsBefore(src) : f.src = src
      BY <3>2, RowsAreTimed DEF ReportInv
    <3>7. PICK items \in Seq(Event) : items = Events'
      BY <3>3
    <3> DEFINE refused == {f \in RowsBefore(src) :
                              f.actor = e.actor /\ f.action \in EndsRefused}
               denied == {i \in DOMAIN items :
                              /\ isDenied(ActionText(items[i]))
                              /\ items[i].src = src /\ items[i].actor = e.actor}
               D == {i \in denied : items[i] \in refused}
               g == [i \in D |-> items[i]]
    <3>8. IsFiniteSet(denied) /\ IsFiniteSet(D) /\ Cardinality(D) <= Cardinality(denied)
      <4>1. Len(items) \in Nat /\ DOMAIN items = 1..Len(items)
        OBVIOUS
      <4>2. IsFiniteSet(1..Len(items))
        BY <4>1, FS_Interval
      <4>3. denied \in SUBSET (1..Len(items)) /\ D \in SUBSET denied
        BY <4>1
      <4>4. IsFiniteSet(denied)
        BY <4>2, <4>3, FS_Subset
      <4> HIDE DEF denied, D
      <4> QED
        BY <4>3, <4>4, FS_Subset
    <3>9. ASSUME NEW f \in refused
          PROVE  \E i \in D : items[i] = f
      <4>1. PICK i \in DOMAIN items : items[i] = f
        BY <3>5, <3>7, <3>9 DEF ToSet
      <4>2. f.src = src /\ f.actor = e.actor /\ f.action \in EndsRefused
        BY <3>6, <3>9
      <4>3. isDenied(ActionText(f))
        BY <4>2 DEF isDenied, ActionText
      <4> QED
        BY <3>9, <4>1, <4>2, <4>3
    <3>10. g \in Surjection(D, refused)
      <4>1. g \in [D -> refused]
        OBVIOUS
      <4> HIDE DEF D, refused
      <4> QED
        BY <3>9, <4>1 DEF Surjection
    <3>11. Cardinality(refused) <= Cardinality(D) /\ IsFiniteSet(refused)
      <4> HIDE DEF D, refused, g
      <4> QED
        BY <3>8, <3>10, FS_Surjection
    <3>12. Cardinality(refused) >= ANOMALY_THRESHOLD
      BY <3>3
    <3>13. Cardinality(denied) >= ANOMALY_THRESHOLD
      <4>1. /\ Cardinality(refused) \in Nat /\ Cardinality(D) \in Nat
            /\ Cardinality(denied) \in Nat
        <5> HIDE DEF D, refused, denied
        <5> QED
          BY <3>8, <3>11, FS_CardinalityType
      <4>2. ANOMALY_THRESHOLD \in Nat
        BY ReportAssumption
      <4> HIDE DEF D, refused, denied
      <4> QED
        BY <3>8, <3>11, <3>12, <4>1, <4>2
    <3>14. e \in ToSet(items) /\ e.src = src
      BY <3>3, <3>5, <3>6, <3>7
    <3>15. <<src, e.actor>> \in Anomalies(items)
      <4>1. <<e.src, e.actor>> \in
               {<<x.src, x.actor>> : x \in {f \in ToSet(items) :
                   Cardinality({i \in DOMAIN items :
                                   /\ isDenied(ActionText(items[i]))
                                   /\ items[i].src = f.src /\ items[i].actor = f.actor})
                       >= ANOMALY_THRESHOLD}}
        BY <3>13, <3>14
      <4> QED
        BY <3>14, <4>1 DEF Anomalies
    <3> QED
      BY <3>3, <3>4, <3>7, <3>15
  <2> QED
    BY <2>1, <2>2
<1> QED
  BY <1>1, <1>2, ReportInvHolds, PTL DEF Spec

(***************************************************************************)
(* handleAuditVerify says ok only if every chain that was broken at the    *)
(* start could not be read, and not ok only if a chain is broken.          *)
(***************************************************************************)
THEOREM VerdictSoundHolds == Spec => []VerdictSound
<1>1. Init => VerdictSound
  BY DEF Init, NoHandler, VerdictSound, Done
<1>2. ReportInv /\ VerdictSound /\ [Next]_vars => VerdictSound'
  <2> SUFFICES ASSUME ReportInv, VerdictSound, [Next]_vars
               PROVE  VerdictSound'
    OBVIOUS
  <2>1. CASE UNCHANGED vars
    BY <2>1 DEF vars, VerdictSound, Done
  <2>2. CASE Next
    <3> SUFFICES ASSUME Done({"verify"})' PROVE VerdictSound'
      BY DEF VerdictSound
    <3>1. Answer
      BY <2>2, DoneByAnswer DEF Done
    <3>2. h.pc = "run" /\ h.todo = {} /\ h.kind = "verify"
      BY <3>1, Answered DEF Done
    <3>3. /\ status' = status /\ before' = before /\ tampered' = tampered
          /\ report'.ok <=> allOk
      BY <3>1 DEF Answer, logVars
    <3>4. before.tampered \subseteq Sources
      BY DEF ReportInv, TypeOK
    <3>5. ASSUME NEW src \in Sources
          PROVE  /\ status[src] = "broken" => src \in tampered
                 /\ status[src] = "intact" => src \notin before.tampered
                 /\ status[src] \in {"intact", "broken", "failed"}
      BY <3>2 DEF ReportInv, StatusIsTrue
    <3> QED
      BY <3>3, <3>4, <3>5 DEF VerdictSound, allOk
  <2> QED
    BY <2>1, <2>2
<1> QED
  BY <1>1, <1>2, ReportInvHolds, PTL DEF Spec
=============================================================================
