------------------------ MODULE HistoryPagingProofs ------------------------
(***************************************************************************)
(* The log a client shows is a gapless piece of its room's history, for    *)
(* any rooms, rows, time stamps, page and frame sizes, whatever is written *)
(* and rolled back meanwhile and however often the connection breaks.      *)
(*                                                                         *)
(* A page in transit was cut from a table that may have changed since, for *)
(* a room the client may have left.  What carries the proof is that frames *)
(* arrive in order: a page is read for the room in which the frames before *)
(* it leave the client (LeadsTo), so that whoever shows it is still there, *)
(* and between a request and its page nothing is shown, so that the page   *)
(* leads up to the oldest row shown (AskedAbove, SentAbove).               *)
(***************************************************************************)
EXTENDS HistoryPaging, FiniteSetTheorems, FunctionTheorems, SequenceTheorems, TLAPS

LEMMA Constants ==
  /\ Inbox \notin Rooms /\ NoRoom \notin Rooms /\ NoRoom # Inbox
  /\ Written \subseteq Rooms \cup {Inbox}
  /\ PageSize \in Nat /\ PageSize > 0 /\ FrameSize \in Nat /\ MaxTs \in Nat
  BY HistoryPagingAssumption DEF Inbox, NoRoom

-----------------------------------------------------------------------------
(* Rows in the order of time.                                              *)

Keyed(r) == r.ts \in Nat /\ r.id \in Nat

Rows == [ts : Nat, id : Nat, place : Rooms \cup {Inbox}, size : Nat]
Keys == [ts : Nat, id : Nat]

\* No two rows of a set have an id in common.
IdsDiffer(S) == \A r, s \in S : r.id = s.id => r = s

LEMMA OrderIsStrict ==
  \A r, s, t : Keyed(r) /\ Keyed(s) /\ Keyed(t) =>
    /\ ~Before(r, r)
    /\ Before(r, s) /\ Before(s, t) => Before(r, t)
    /\ Before(r, s) \/ Before(s, r) \/ r.id = s.id
    /\ Before(r, s) => ~Before(s, r)
    /\ ~Before(r, s) /\ Before(t, s) => Before(t, r)
  BY DEF Keyed, Before

LEMMA OlderIsBefore == \A r, s : Older(r, s) <=> Before(r, s)
  BY DEF Older, Before

LEMMA KeyOrders ==
  \A r, s : Keyed(r) /\ Keyed(s) =>
    /\ Keyed(Key(r))
    /\ Before(Key(r), s) <=> Before(r, s)
    /\ Before(s, Key(r)) <=> Before(s, r)
  BY DEF Keyed, Key, Before

\* The number of newer rows tells the rows of a set apart, from none up.
LEMMA EveryRankIsTaken ==
  ASSUME NEW S, IsFiniteSet(S), \A r \in S : Keyed(r), IdsDiffer(S)
  PROVE  LET Newer(r) == {s \in S : Before(r, s)}
         IN /\ Cardinality(S) \in Nat
            /\ \A r \in S : Cardinality(Newer(r)) \in 0 .. Cardinality(S) - 1
            /\ \A r, s \in S : Before(r, s) => Cardinality(Newer(s)) < Cardinality(Newer(r))
            /\ \A k \in 0 .. Cardinality(S) - 1 : \E r \in S : Cardinality(Newer(r)) = k
  <1> DEFINE Newer(r) == {s \in S : Before(r, s)}
             n == Cardinality(S)
  <1>1. n \in Nat
    BY FS_CardinalityType
  <1>2. \A r \in S : IsFiniteSet(Newer(r)) /\ Cardinality(Newer(r)) \in Nat
    <2> TAKE r \in S
    <2>1. Newer(r) \in SUBSET S
      OBVIOUS
    <2> HIDE DEF Newer
    <2> QED
      BY <2>1, FS_Subset, FS_CardinalityType
  <1>3. ASSUME NEW r \in S PROVE Cardinality(Newer(r)) \in 0 .. n - 1
    <2>1. Newer(r) \in SUBSET S /\ r \notin Newer(r)
      BY OrderIsStrict
    <2>2. Cardinality(Newer(r)) <= n /\ (Cardinality(Newer(r)) = n => Newer(r) = S)
      <3> HIDE DEF Newer
      <3> QED
        BY <2>1, FS_Subset
    <2>3. Cardinality(Newer(r)) # n
      BY <2>1, <2>2
    <2> HIDE DEF Newer, n
    <2> QED
      BY <1>1, <1>2, <2>2, <2>3
  <1>4. ASSUME NEW r \in S, NEW s \in S, Before(r, s)
        PROVE  Cardinality(Newer(s)) < Cardinality(Newer(r))
    <2>1. Newer(s) \in SUBSET Newer(r)
      <3> SUFFICES ASSUME NEW t \in S, Before(s, t) PROVE Before(r, t)
        OBVIOUS
      <3> QED
        BY <1>4, OrderIsStrict
    <2>2. s \in Newer(r) /\ s \notin Newer(s)
      BY <1>4, OrderIsStrict
    <2> HIDE DEF Newer
    <2>3. /\ Cardinality(Newer(s)) <= Cardinality(Newer(r))
          /\ Cardinality(Newer(s)) = Cardinality(Newer(r)) => Newer(s) = Newer(r)
      BY <1>2, <2>1, FS_Subset
    <2> QED
      BY <1>2, <2>2, <2>3
  <1>5. \A k \in 0 .. n - 1 : \E r \in S : Cardinality(Newer(r)) = k
    <2> DEFINE f == [r \in S |-> Cardinality(Newer(r))]
               T == 0 .. n - 1
    <2>1. f \in [S -> T]
      BY <1>3
    <2>2. \A r, s \in S : f[r] = f[s] => r = s
      <3> SUFFICES ASSUME NEW r \in S, NEW s \in S, f[r] = f[s] PROVE r = s
        OBVIOUS
      <3>1. Cardinality(Newer(r)) = Cardinality(Newer(s))
        OBVIOUS
      <3> HIDE DEF Newer, f
      <3>2. ~Before(r, s) /\ ~Before(s, r)
        BY <1>2, <1>4, <3>1
      <3> QED
        BY <3>2, OrderIsStrict DEF IdsDiffer
    <2>3. IsFiniteSet(T) /\ Cardinality(T) = n
      <3>1. 0 \in Int /\ n - 1 \in Int
        BY <1>1
      <3>2. Cardinality(T) = IF 0 > n - 1 THEN 0 ELSE n - 1 - 0 + 1
        BY <3>1, FS_Interval
      <3>3. IsFiniteSet(T)
        BY <3>1, FS_Interval
      <3> HIDE DEF n, T
      <3> QED
        BY <1>1, <3>2, <3>3
    <2> HIDE DEF f, T
    <2>4. f \in Injection(S, T)
      BY <2>1, <2>2, Fun_IsInj
    <2>5. f \in Surjection(S, T)
      <3> HIDE DEF n
      <3>1. Cardinality(S) = Cardinality(T)
        BY <2>3 DEF n
      <3> QED
        BY <2>3, <2>4, <3>1, FS_Injection
    <2>6. \A k \in T : \E r \in S : f[r] = k
      BY <2>5, Fun_IsSurj DEF Surjection
    <2> QED
      BY <2>6 DEF f, T
  <1> QED
    BY <1>1, <1>3, <1>4, <1>5

\* All rows of a set, newest first.
LEMMA NewestFirstSorts ==
  ASSUME NEW S, IsFiniteSet(S), \A r \in S : Keyed(r), IdsDiffer(S)
  PROVE  LET q == NewestFirst(S)
         IN /\ q \in Seq(S) /\ Len(q) = Cardinality(S) /\ Len(q) \in Nat
            /\ \A i, j \in 1..Len(q) : i < j => Before(q[j], q[i])
            /\ \A r \in S : \E i \in 1..Len(q) : q[i] = r
  <1> DEFINE Newer(r) == {s \in S : Before(r, s)}
             n == Cardinality(S)
             q == NewestFirst(S)
             Rank(r) == Cardinality(Newer(r))
  <1>1. /\ n \in Nat
        /\ \A r \in S : Rank(r) \in 0 .. n - 1
        /\ \A r, s \in S : Before(r, s) => Rank(s) < Rank(r)
        /\ \A k \in 0 .. n - 1 : \E r \in S : Rank(r) = k
    BY EveryRankIsTaken
  <1>2. q = [i \in 1..n |-> CHOOSE r \in S : Rank(r) = i - 1]
    BY DEF NewestFirst
  <1> HIDE DEF n, q, Rank, Newer
  <1>3. ASSUME NEW i \in 1..n PROVE q[i] \in S /\ Rank(q[i]) = i - 1
    <2>1. i - 1 \in 0 .. n - 1
      BY <1>1
    <2>2. \E r \in S : Rank(r) = i - 1
      BY <1>1, <2>1
    <2>3. q[i] = CHOOSE r \in S : Rank(r) = i - 1
      BY <1>2
    <2> QED
      BY <2>2, <2>3
  <1>4. q \in [1..n -> S]
    BY <1>2, <1>3
  <1>5. q \in Seq(S) /\ Len(q) = n
    BY <1>1, <1>4
  <1>6. ASSUME NEW i \in 1..n, NEW j \in 1..n, i < j
        PROVE  Before(q[j], q[i])
    <2>1. /\ q[i] \in S /\ Rank(q[i]) = i - 1
          /\ q[j] \in S /\ Rank(q[j]) = j - 1
      BY <1>3
    <2>2. ~(Rank(q[j]) < Rank(q[i])) /\ q[i] # q[j]
      BY <1>1, <1>6, <2>1
    <2>3. ~Before(q[i], q[j])
      BY <1>1, <2>1, <2>2
    <2>4. q[i].id # q[j].id
      BY <2>1, <2>2 DEF IdsDiffer
    <2> QED
      BY <2>1, <2>3, <2>4, OrderIsStrict
  <1>7. ASSUME NEW r \in S PROVE \E i \in 1..n : q[i] = r
    <2> DEFINE i == Rank(r) + 1
    <2>1. i \in 1..n /\ i - 1 = Rank(r)
      BY <1>1
    <2> HIDE DEF i
    <2>2. q[i] \in S /\ Rank(q[i]) = Rank(r)
      BY <1>3, <2>1
    <2>3. ~Before(q[i], r) /\ ~Before(r, q[i])
      <3>1. Rank(r) \in Int /\ ~(Rank(r) < Rank(r))
        BY <1>1
      <3> QED
        BY <1>1, <2>2, <3>1
    <2>4. q[i] = r
      BY <2>2, <2>3, OrderIsStrict DEF IdsDiffer
    <2> QED
      BY <2>1, <2>4
  <1> QED
    BY <1>1, <1>5, <1>6, <1>7 DEF q, n

\* The rows of the table, as far as they matter here.
GoodTable(t) ==
  t \in Seq([place : Rooms \cup {Inbox}, ts : Nat, size : Nat])

LEMMA RowsAreRows ==
  ASSUME GoodTable(table), NEW place
  PROVE  /\ RowsOf(place) \subseteq Rows /\ IsFiniteSet(RowsOf(place))
         /\ IdsDiffer(RowsOf(place))
         /\ \A r \in RowsOf(place) : Keyed(r) /\ r.place = place
  <1> DEFINE D == DOMAIN table
             P == {i \in D : table[i].place = place}
  <1>1. D = 1..Len(table) /\ Len(table) \in Nat
    BY LenProperties DEF GoodTable
  <1>2. \A i \in D : /\ i \in Nat /\ table[i].place \in Rooms \cup {Inbox}
                     /\ table[i].ts \in Nat /\ table[i].size \in Nat
    <2>1. \A i \in D : i \in 1..Len(table)
      BY <1>1
    <2>2. \A i \in 1..Len(table) : i \in Nat
      BY <1>1
    <2>3. \A i \in D : table[i] \in [place : Rooms \cup {Inbox}, ts : Nat, size : Nat]
      BY <2>1, ElementOfSeq DEF GoodTable
    <2> QED
      BY <2>1, <2>2, <2>3
  <1>3. RowsOf(place) = {Row(i) : i \in P}
    BY DEF RowsOf
  <1> HIDE DEF D
  <1>4. \A i \in P : /\ Row(i) \in Rows /\ Row(i).id = i /\ Row(i).place = place
                     /\ Keyed(Row(i))
    BY <1>2 DEF Row, Rows, Keyed
  <1>5. IsFiniteSet(P)
    <2>1. IsFiniteSet(D)
      <3>1. 1 \in Int /\ Len(table) \in Int
        BY <1>1
      <3> QED
        BY <1>1, <3>1, FS_Interval
    <2>2. P \in SUBSET D
      OBVIOUS
    <2> HIDE DEF P
    <2> QED
      BY <2>1, <2>2, FS_Subset
  <1> HIDE DEF P
  <1>6. IsFiniteSet(RowsOf(place))
    <2> DEFINE R == RowsOf(place)
               f == [i \in P |-> Row(i)]
    <2>1. f \in [P -> R] /\ \A r \in R : \E i \in P : f[i] = r
      BY <1>3
    <2> HIDE DEF f, R
    <2>2. f \in Surjection(P, R)
      BY <2>1, Fun_IsSurj
    <2>3. IsFiniteSet(R)
      BY <1>5, <2>2, FS_Surjection
    <2> QED
      BY <2>3 DEF R
  <1> QED
    BY <1>3, <1>4, <1>6 DEF IdsDiffer

\* A query returns the newest rows before the cursor, and one too many if there
\* are more than fit.
LEMMA QueryIsNewest ==
  ASSUME GoodTable(table), NEW place, NEW c
  PROVE  LET q == Query(place, c)
         IN /\ q \in Seq(RowsOf(place)) /\ Len(q) \in Nat /\ Len(q) <= PageSize + 1
            /\ \A i, j \in 1..Len(q) : i < j => Before(q[j], q[i])
            /\ \A i \in 1..Len(q) : c = First \/ Before(q[i], c)
            /\ \A r \in RowsOf(place) : c = First \/ Before(r, c) =>
                 \/ \E i \in 1..Len(q) : q[i] = r
                 \/ Len(q) = PageSize + 1 /\ Before(r, q[Len(q)])
  <1> DEFINE S == {r \in RowsOf(place) : c = First \/ Before(r, c)}
             d == NewestFirst(S)
             n == IF Len(d) > PageSize + 1 THEN PageSize + 1 ELSE Len(d)
             q == Query(place, c)
  <1>1. /\ S \subseteq RowsOf(place) /\ IsFiniteSet(S) /\ IdsDiffer(S)
        /\ \A r \in S : Keyed(r)
    <2>1. /\ IsFiniteSet(RowsOf(place)) /\ IdsDiffer(RowsOf(place))
          /\ \A r \in RowsOf(place) : Keyed(r)
      BY RowsAreRows
    <2>2. S \in SUBSET RowsOf(place)
      OBVIOUS
    <2> HIDE DEF S
    <2>3. IsFiniteSet(S)
      BY <2>1, <2>2, FS_Subset
    <2> QED
      BY <2>1, <2>2, <2>3 DEF IdsDiffer
  <1>2. /\ \A r \in S : c = First \/ Before(r, c)
        /\ \A r \in RowsOf(place) : c = First \/ Before(r, c) => r \in S
    OBVIOUS
  <1>3. q = SubSeq(d, 1, n)
    BY DEF Query
  <1> HIDE DEF S
  <1>4. /\ d \in Seq(S) /\ Len(d) \in Nat
        /\ \A i, j \in 1..Len(d) : i < j => Before(d[j], d[i])
        /\ \A r \in S : \E i \in 1..Len(d) : d[i] = r
    BY <1>1, NewestFirstSorts
  <1>5. n \in Nat /\ n <= Len(d) /\ n <= PageSize + 1 /\ (n < Len(d) => n = PageSize + 1)
    BY <1>4, Constants
  <1> HIDE DEF d, n, q
  <1>6. /\ q \in Seq(S) /\ Len(q) = n
        /\ \A i \in 1..n : q[i] = d[i] /\ d[i] \in S
    <2>1. \A i \in 1..n : d[i] \in S
      <3>1. \A i \in 1..n : i \in 1..Len(d)
        BY <1>4, <1>5
      <3> QED
        BY <1>4, <3>1, ElementOfSeq
    <2>2. 1 \in Int /\ n \in Int
      BY <1>5
    <2>3. /\ SubSeq(d, 1, n) \in Seq(S)
          /\ Len(SubSeq(d, 1, n)) = IF 1 <= n THEN n - 1 + 1 ELSE 0
          /\ \A i \in 1 .. (n - 1 + 1) : SubSeq(d, 1, n)[i] = d[1 + i - 1]
      BY <2>1, <2>2, SubSeqProperties
    <2>4. n - 1 + 1 = n /\ \A i \in 1..n : 1 + i - 1 = i
      BY <1>5
    <2>5. Len(q) = n
      BY <1>3, <1>5, <2>3
    <2> QED
      BY <1>3, <2>1, <2>3, <2>4, <2>5
  <1>7. q \in Seq(RowsOf(place))
    BY <1>1, <1>6, SeqMonotonic
  <1>8. \A i, j \in 1..n : i < j => Before(q[j], q[i])
    <2>1. \A i \in 1..n : i \in 1..Len(d)
      BY <1>4, <1>5
    <2> QED
      BY <1>4, <1>6, <2>1
  <1>9. \A r \in S : \/ \E i \in 1..n : q[i] = r
                     \/ n = PageSize + 1 /\ Before(r, q[n])
    <2> TAKE r \in S
    <2>1. PICK i \in 1..Len(d) : d[i] = r
      BY <1>4
    <2>2. CASE i <= n
      <3>1. i \in 1..n
        BY <1>5, <2>2
      <3> QED
        BY <1>6, <2>1, <3>1
    <2>3. CASE ~(i <= n)
      <3>1. n = PageSize + 1 /\ n < i /\ n \in 1..n /\ n \in 1..Len(d)
        BY <1>4, <1>5, <2>3, Constants
      <3> QED
        BY <1>4, <1>6, <2>1, <3>1
    <2> QED
      BY <2>2, <2>3
  <1> QED
    BY <1>2, <1>5, <1>6, <1>7, <1>8, <1>9 DEF q

-----------------------------------------------------------------------------
(* Pages.                                                                  *)

Shows(rows, r) == \E i \in 1..Len(rows) : rows[i] = r

\* A page is oldest first, and all of the room's rows of its time that are not
\* older than it, when there are more, or newer.
GoodPage(p) ==
  /\ p.rows \in Seq(Rows) /\ Len(p.rows) \in Nat /\ Len(p.rows) <= PageSize
  /\ \A i, j \in 1..Len(p.rows) : i < j => Before(p.rows[i], p.rows[j])
  /\ p.more \in BOOLEAN /\ (p.more => Len(p.rows) > 0)
  /\ p.cursor = IF Len(p.rows) = 0 THEN First ELSE Key(p.rows[1])
  /\ \A i \in 1..Len(p.rows) : p.rows[i] \in p.there /\ p.rows[i].place = p.room
  /\ p.there \subseteq Rows /\ IdsDiffer(p.there)
  /\ Len(p.rows) > 0 =>
       \A r \in p.there : \/ Shows(p.rows, r)
                          \/ p.more /\ Before(r, p.rows[1])
                          \/ Before(p.rows[Len(p.rows)], r)

\* A page ends where the cursor is, and misses nothing before it.
EndsAt(p, c) ==
  /\ \A i \in 1..Len(p.rows) : Before(p.rows[i], c)
  /\ \A r \in p.there : Before(r, c) =>
       Shows(p.rows, r) \/ (p.more /\ Before(r, p.rows[1]))

LEMMA PageIsGood ==
  ASSUME GoodTable(table), NEW kind, NEW place, NEW c, Keyed(c)
  PROVE  LET p == Page(kind, place, c)
         IN /\ GoodPage(p) /\ p.there = RowsOf(place) /\ p.room = place /\ p.type = kind
            /\ p.first = (c = First)
            /\ c # First => EndsAt(p, c)
  <1> DEFINE q == Query(place, c)
             S == RowsOf(place)
             k == Cut(q)
             m == IF Len(q) > PageSize THEN PageSize ELSE Len(q)
             p == Page(kind, place, c)
             w == p.rows
  <1>1. /\ q \in Seq(S) /\ Len(q) \in Nat /\ Len(q) <= PageSize + 1
        /\ \A i, j \in 1..Len(q) : i < j => Before(q[j], q[i])
        /\ \A i \in 1..Len(q) : c = First \/ Before(q[i], c)
        /\ \A r \in S : c = First \/ Before(r, c) =>
             \/ \E i \in 1..Len(q) : q[i] = r
             \/ Len(q) = PageSize + 1 /\ Before(r, q[Len(q)])
    BY QueryIsNewest
  <1>2. /\ S \subseteq Rows /\ IdsDiffer(S) /\ \A r \in S : Keyed(r) /\ r.place = place
    BY RowsAreRows
  <1>3. /\ p.rows = Reverse(k) /\ p.more = (Len(q) > PageSize)
        /\ p.cursor = IF q = <<>> THEN First ELSE Key(k[Len(k)])
        /\ p.there = S /\ p.room = place /\ p.type = kind /\ p.first = (c = First)
    BY DEF Page, Last
  <1>4. k = IF Len(q) > PageSize THEN SubSeq(q, 1, PageSize) ELSE q
    BY DEF Cut
  <1> HIDE DEF q, S, k, p
  <1>5. /\ m \in Nat /\ m <= Len(q) /\ m <= PageSize /\ (m = 0 <=> Len(q) = 0)
        /\ m < Len(q) => m = PageSize /\ Len(q) = m + 1
    BY <1>1, Constants
  <1>6. Len(k) = m /\ \A i \in 1..m : k[i] = q[i]
    <2>1. CASE Len(q) > PageSize
      <3>1. \A i \in 1..PageSize : q[i] \in S
        <4>1. \A i \in 1..PageSize : i \in 1..Len(q)
          BY <1>1, <2>1, Constants
        <4> QED
          BY <1>1, <4>1, ElementOfSeq
      <3>2. 1 \in Int /\ PageSize \in Int
        BY Constants
      <3>3. /\ Len(SubSeq(q, 1, PageSize)) = IF 1 <= PageSize THEN PageSize - 1 + 1 ELSE 0
            /\ \A i \in 1 .. (PageSize - 1 + 1) : SubSeq(q, 1, PageSize)[i] = q[1 + i - 1]
        BY <3>1, <3>2, SubSeqProperties
      <3>4. m = PageSize /\ PageSize - 1 + 1 = PageSize /\ 1 <= PageSize
            /\ \A i \in 1..PageSize : 1 + i - 1 = i
        BY <2>1, Constants
      <3>5. k = SubSeq(q, 1, PageSize)
        BY <1>4, <2>1
      <3> QED
        BY <3>3, <3>4, <3>5
    <2>2. CASE ~(Len(q) > PageSize)
      BY <1>4, <2>2
    <2> QED
      BY <2>1, <2>2
  <1> HIDE DEF m
  <1>7. /\ w = [i \in 1..m |-> k[(m - i) + 1]]
        /\ \A i \in 1..m : m - i + 1 \in 1..m /\ m - i + 1 \in 1..Len(q)
    BY <1>1, <1>3, <1>5, <1>6 DEF Reverse
  <1>8. \A i \in 1..m : w[i] = q[m - i + 1] /\ w[i] \in S
    <2>1. \A i \in 1..m : w[i] = q[m - i + 1]
      BY <1>6, <1>7
    <2>2. \A i \in 1..m : q[m - i + 1] \in S
      BY <1>1, <1>7, ElementOfSeq
    <2> QED
      BY <2>1, <2>2
  <1>9. w \in Seq(Rows) /\ Len(w) = m
    <2>1. w \in [1..m -> Rows]
      BY <1>2, <1>7, <1>8
    <2> QED
      BY <1>5, <2>1
  <1> HIDE DEF w
  <1>10. \A i, j \in 1..m : i < j => Before(w[i], w[j])
    <2>1. \A i, j \in 1..m : i < j => m - j + 1 < m - i + 1
      BY <1>5
    <2> QED
      BY <1>1, <1>7, <1>8, <2>1
  <1>11. m > 0 => /\ 1 \in 1..m /\ m \in 1..m /\ w[1] = q[m] /\ w[m] = q[1] /\ k[m] = q[m]
    <2>1. m > 0 => 1 \in 1..m /\ m \in 1..m /\ m - 1 + 1 = m /\ m - m + 1 = 1
      BY <1>5
    <2> QED
      BY <1>6, <1>8, <2>1
  <1>12. q = <<>> <=> m = 0
    BY <1>1, <1>5, EmptySeq
  <1>13. p.more => m = PageSize /\ Len(q) = m + 1
    <2>1. p.more => Len(q) > PageSize
      BY <1>3
    <2> QED
      BY <1>1, <1>5, <2>1, Constants
  \* A row that was found is on the page, or older than it and cut off.
  <1>14. \A r \in S : c = First \/ Before(r, c) =>
           \/ Shows(w, r)
           \/ p.more /\ Before(r, w[1])
    <2> SUFFICES ASSUME NEW r \in S, c = First \/ Before(r, c), ~Shows(w, r)
                 PROVE  p.more /\ Before(r, w[1])
      OBVIOUS
    <2>1. ASSUME NEW i \in 1..Len(q), q[i] = r
          PROVE  i = m + 1 /\ Len(q) = m + 1
      <3>1. CASE i <= m
        <4> DEFINE j == m - i + 1
        <4>1. j \in 1..m /\ m - j + 1 = i
          BY <1>5, <3>1
        <4> HIDE DEF j
        <4>2. w[j] = r
          BY <1>8, <2>1, <4>1
        <4> QED
          BY <1>9, <4>1, <4>2 DEF Shows
      <3>2. CASE ~(i <= m)
        BY <1>1, <1>5, <3>2
      <3> QED
        BY <3>1, <3>2
    <2>2. CASE \E i \in 1..Len(q) : q[i] = r
      <3>1. Len(q) = m + 1 /\ q[m + 1] = r
        BY <2>1, <2>2
      <3>2. m = PageSize /\ m > 0 /\ m \in 1..Len(q) /\ m + 1 \in 1..Len(q) /\ m < m + 1
            /\ Len(q) > PageSize
        BY <1>1, <1>5, <3>1, Constants
      <3>3. p.more
        BY <1>3, <3>2
      <3>4. Before(q[m + 1], q[m])
        BY <1>1, <3>2
      <3> QED
        BY <1>11, <3>1, <3>2, <3>3, <3>4
    <2>3. CASE Len(q) = PageSize + 1 /\ Before(r, q[Len(q)])
      <3>1. m = PageSize /\ m > 0 /\ m \in 1..Len(q) /\ Len(q) \in 1..Len(q) /\ m < Len(q)
            /\ Len(q) > PageSize
        BY <1>5, <2>3, Constants
      <3>2. Before(q[Len(q)], q[m])
        BY <1>1, <3>1
      <3>3. q[m] \in S /\ q[Len(q)] \in S
        BY <1>1, <3>1, ElementOfSeq
      <3>4. Before(r, q[m])
        BY <1>2, <2>3, <3>2, <3>3, OrderIsStrict
      <3> QED
        BY <1>3, <1>11, <3>1, <3>4
    <2> QED
      BY <1>1, <2>2, <2>3
  <1>15. ASSUME m > 0, NEW r \in S
         PROVE  Shows(w, r) \/ (p.more /\ Before(r, w[1])) \/ Before(w[m], r)
    <2>1. CASE c = First \/ Before(r, c)
      BY <1>14, <2>1
    <2>2. CASE c # First /\ ~Before(r, c)
      <3>1. Before(w[m], c) /\ w[m] \in S
        <4>1. 1 \in 1..Len(q)
          BY <1>1, <1>5, <1>15
        <4> QED
          BY <1>1, <1>8, <1>11, <1>15, <2>2, <4>1
      <3> QED
        BY <1>2, <2>2, <3>1, OrderIsStrict
    <2> QED
      BY <2>1, <2>2
  <1>16. ASSUME c # First PROVE EndsAt(p, c)
    <2>1. \A i \in 1..m : Before(w[i], c)
      BY <1>1, <1>7, <1>8, <1>16
    <2>2. p.rows = w /\ Len(p.rows) = m
      BY <1>9 DEF w
    <2>3. \A i \in 1..Len(p.rows) : Before(p.rows[i], c)
      BY <2>1, <2>2
    <2>4. \A r \in p.there : Before(r, c) =>
            Shows(p.rows, r) \/ (p.more /\ Before(r, p.rows[1]))
      BY <1>3, <1>14, <2>2
    <2> QED
      BY <2>3, <2>4 DEF EndsAt
  <1>17. GoodPage(p)
    <2>1. p.rows = w
      BY DEF w
    <2>2. p.cursor = IF m = 0 THEN First ELSE Key(w[1])
      BY <1>3, <1>5, <1>6, <1>11, <1>12
    <2>3. p.more \in BOOLEAN /\ (p.more => m > 0)
      <3>1. p.more \in BOOLEAN
        BY <1>3
      <3> QED
        BY <1>5, <1>13, <3>1, Constants
    <2>4. \A i \in 1..m : w[i] \in p.there /\ w[i].place = p.room
      BY <1>2, <1>3, <1>8
    <2> QED
      BY <1>2, <1>3, <1>5, <1>9, <1>10, <1>15, <2>1, <2>2, <2>3, <2>4 DEF GoodPage
  <1> QED
    BY <1>3, <1>16, <1>17 DEF p, S


-----------------------------------------------------------------------------
(* What the client and the server know of each other.                      *)

\* The frames of each direction.
Asks == [type : {"JOIN"}, room : Rooms] \cup [type : {"LEAVE", "INBOX"}]
          \cup [type : {"HIST"}, cursor : Keys]
Pages == [type : {"HISTORY", "INBOX"}, rows : Seq(Rows), more : BOOLEAN, cursor : Keys,
          first : BOOLEAN, there : SUBSET Rows, room : Rooms \cup {Inbox}]
Answers == [type : {"JOIN_OK"}, room : Rooms] \cup [type : {"LEAVE_OK", "ERR"}] \cup Pages

\* What is answered by a page, what is one, and what takes the client elsewhere.
IsQuery(f) == f.type \in {"HIST", "INBOX"}
IsPage(f)  == f.type \in {"HISTORY", "INBOX"}
IsMove(f)  == f.type \in {"JOIN_OK", "LEAVE_OK"}
Target(f)  == IF f.type = "JOIN_OK" THEN f.room ELSE NoRoom

\* Someone in room c who is told the first n frames of d will be in room r.
LeadsTo(d, n, c, r) ==
  \/ r = c /\ \A i \in 1..n : ~IsMove(d[i])
  \/ \E m \in 1..n : /\ IsMove(d[m]) /\ r = Target(d[m])
                     /\ \A i \in 1..n : i > m => ~IsMove(d[i])

\* A page of rows that lead up to the oldest one shown.
GoesAbove(p) ==
  /\ pos = "prepend"
  /\ \A i \in 1..Len(p.rows) : Before(p.rows[i], view[1])
  /\ \A i \in 1..Len(p.rows), r \in base : p.rows[i].id = r.id => p.rows[i] = r
  /\ \A r \in base : Before(r, view[1]) =>
       Shows(p.rows, r) \/ (p.more /\ Before(r, p.rows[1]))

PagingTypes ==
  /\ GoodTable(table) /\ dirty \in 0..Len(table)
  /\ room \in Rooms \cup {NoRoom} /\ cur \in Rooms \cup {NoRoom} /\ cursor \in Keys
  /\ up \in Seq(Asks) /\ down \in Seq(Answers) /\ view \in Seq(Rows)
  /\ busy \in BOOLEAN /\ pos \in {"append", "prepend"} /\ connected \in BOOLEAN

\* At most one query or page is on its way, and only while the client awaits one.
OneAtATime ==
  /\ \A i, j \in 1..Len(up) : IsQuery(up[i]) /\ IsQuery(up[j]) => i = j
  /\ \A i, j \in 1..Len(down) : IsPage(down[i]) /\ IsPage(down[j]) => i = j
  /\ \A i \in 1..Len(up), j \in 1..Len(down) : ~(IsQuery(up[i]) /\ IsPage(down[j]))
  /\ \A i \in 1..Len(up) : IsQuery(up[i]) => busy
  /\ \A i \in 1..Len(down) : IsPage(down[i]) => busy

\* The client will be where the server has it, and was where a page is from.
RoomsAgree ==
  /\ connected => LeadsTo(down, Len(down), cur, room)
  /\ ~connected => up = <<>> /\ down = <<>> /\ cur = NoRoom /\ view = <<>>
  /\ \A n \in 1..Len(down) : down[n].type = "HISTORY" => LeadsTo(down, n, cur, down[n].room)

PagesAreGood == \A n \in 1..Len(down) : IsPage(down[n]) => GoodPage(down[n])

BaseIsThere ==
  /\ base \subseteq RowsOf(cur)
  /\ \A i \in 1..Len(view), r \in base : view[i].id = r.id => view[i] = r

CursorIsOnTop == Len(view) > 0 /\ cursor # First => cursor = Key(view[1])

\* Unless the client goes elsewhere first, what it asks for leads up to what it
\* shows, and what it is sent does.
AskedAbove ==
  \A n \in 1..Len(up) :
    /\ up[n].type = "HIST" /\ Len(view) > 0
    /\ \A i \in 1..n : up[i].type \notin {"JOIN", "LEAVE"}
    /\ \A i \in 1..Len(down) : ~IsMove(down[i])
    => pos = "prepend" /\ up[n].cursor # First /\ up[n].cursor = Key(view[1])
SentAbove ==
  \A n \in 1..Len(down) :
    /\ down[n].type = "HISTORY" /\ Len(view) > 0
    /\ \A i \in 1..n : ~IsMove(down[i])
    => GoesAbove(down[n])

\* The log, oldest first and of one room; what it leaves out is not in its span.
LogIsExact ==
  /\ \A i, j \in 1..Len(view) : i < j => Before(view[i], view[j])
  /\ \A i \in 1..Len(view) : view[i].place = cur
  /\ Len(view) > 0 =>
       \A r \in base : \/ Shows(view, r)
                       \/ ~ended /\ Before(r, view[1])
                       \/ Before(view[Len(view)], r)

PagingInv ==
  /\ PagingTypes /\ OneAtATime /\ RoomsAgree /\ PagesAreGood /\ BaseIsThere
  /\ CursorIsOnTop /\ AskedAbove /\ SentAbove /\ LogIsExact

-----------------------------------------------------------------------------
(* Frames that come and go.                                                *)

LEMMA AskKinds ==
  /\ \A f \in Asks : /\ f.type \in {"JOIN", "LEAVE", "HIST", "INBOX"}
                     /\ f.type = "JOIN" => f.room \in Rooms
                     /\ f.type = "HIST" => f.cursor \in Keys
  /\ \A r \in Rooms : [type |-> "JOIN", room |-> r] \in Asks
  /\ \A c \in Keys : [type |-> "HIST", cursor |-> c] \in Asks
  /\ [type |-> "LEAVE"] \in Asks /\ [type |-> "INBOX"] \in Asks
  BY DEF Asks

LEMMA AnswerKinds ==
  /\ \A f \in Answers : /\ f.type \in {"JOIN_OK", "LEAVE_OK", "ERR", "HISTORY", "INBOX"}
                        /\ f.type = "JOIN_OK" => f.room \in Rooms
                        /\ IsPage(f) => f \in Pages
  /\ \A r \in Rooms : [type |-> "JOIN_OK", room |-> r] \in Answers
  /\ [type |-> "LEAVE_OK"] \in Answers /\ [type |-> "ERR"] \in Answers
  /\ Pages \subseteq Answers
  <1>1. \A f \in Answers : /\ f.type \in {"JOIN_OK", "LEAVE_OK", "ERR", "HISTORY", "INBOX"}
                           /\ f.type = "JOIN_OK" => f.room \in Rooms
    BY DEF Answers, Pages
  <1>2. \A f \in Answers : IsPage(f) => f \in Pages
    BY DEF Answers, IsPage
  <1>3. /\ \A r \in Rooms : [type |-> "JOIN_OK", room |-> r] \in Answers
        /\ [type |-> "LEAVE_OK"] \in Answers /\ [type |-> "ERR"] \in Answers
    BY DEF Answers
  <1>4. Pages \subseteq Answers
    BY DEF Answers
  <1> QED
    BY <1>1, <1>2, <1>3, <1>4

LEMMA PageFields ==
  \A p \in Pages : /\ p.type \in {"HISTORY", "INBOX"} /\ p.rows \in Seq(Rows)
                   /\ p.more \in BOOLEAN /\ p.cursor \in Keys /\ p.there \subseteq Rows
  BY DEF Pages

LEMMA AppendIs ==
  ASSUME NEW S, NEW d \in Seq(S), NEW f \in S
  PROVE  LET a == Append(d, f)
         IN /\ a \in Seq(S) /\ Len(d) \in Nat /\ Len(a) = Len(d) + 1
            /\ a[Len(d) + 1] = f
            /\ \A i \in 1..Len(d) : a[i] = d[i]
            /\ \A i \in 1..Len(a) : i \in 1..Len(d) \/ i = Len(d) + 1
            /\ \A i \in 1..Len(d) : i \in 1..Len(a) /\ i < Len(d) + 1
            /\ Len(d) + 1 \in 1..Len(a)
  <1> DEFINE a == Append(d, f)
  <1>1. /\ a \in Seq(S) /\ Len(d) \in Nat /\ Len(a) = Len(d) + 1
        /\ a[Len(d) + 1] = f /\ \A i \in 1..Len(d) : a[i] = d[i]
    BY AppendProperties, LenProperties
  <1> HIDE DEF a
  <1>2. /\ \A i \in 1..Len(a) : i \in 1..Len(d) \/ i = Len(d) + 1
        /\ \A i \in 1..Len(d) : i \in 1..Len(a) /\ i < Len(d) + 1
        /\ Len(d) + 1 \in 1..Len(a)
    BY <1>1
  <1> QED
    BY <1>1, <1>2 DEF a

LEMMA TailIs ==
  ASSUME NEW S, NEW d \in Seq(S), d # <<>>
  PROVE  LET t == Tail(d)
         IN /\ t \in Seq(S) /\ Len(t) \in Nat /\ Len(d) = Len(t) + 1
            /\ Head(d) = d[1] /\ Head(d) \in S /\ 1 \in 1..Len(d)
            /\ \A i \in 1..Len(t) : t[i] = d[i + 1]
            /\ \A i \in 1..Len(t) : i + 1 \in 1..Len(d)
            /\ \A i \in 1..Len(d) : i = 1 \/ i - 1 \in 1..Len(t)
  <1> DEFINE t == Tail(d)
  <1>1. /\ t \in Seq(S) /\ Len(t) = Len(d) - 1 /\ Len(d) \in Nat /\ Len(d) # 0
        /\ Head(d) = d[1] /\ Head(d) \in S /\ \A i \in 1..Len(t) : t[i] = d[i + 1]
    BY HeadTailProperties, LenProperties, EmptySeq
  <1> HIDE DEF t
  <1>2. /\ Len(t) \in Nat /\ Len(d) = Len(t) + 1 /\ 1 \in 1..Len(d)
        /\ \A i \in 1..Len(t) : i + 1 \in 1..Len(d)
        /\ \A i \in 1..Len(d) : i = 1 \/ i - 1 \in 1..Len(t)
    BY <1>1
  <1> QED
    BY <1>1, <1>2 DEF t

\* A frame more: what came before leads where it did, and the frame goes on.
LEMMA AppendLeads ==
  ASSUME NEW S, NEW d \in Seq(S), NEW f \in S, NEW c, NEW r
  PROVE  /\ \A n \in 1..Len(d) : LeadsTo(d, n, c, r) => LeadsTo(Append(d, f), n, c, r)
         /\ LeadsTo(d, Len(d), c, r) =>
              LeadsTo(Append(d, f), Len(d) + 1, c, IF IsMove(f) THEN Target(f) ELSE r)
  <1> DEFINE a == Append(d, f)
  <1>1. /\ Len(d) \in Nat /\ Len(a) = Len(d) + 1 /\ a[Len(d) + 1] = f
        /\ \A i \in 1..Len(d) : a[i] = d[i]
        /\ \A i \in 1..Len(a) : i \in 1..Len(d) \/ i = Len(d) + 1
        /\ \A i \in 1..Len(d) : i \in 1..Len(a) /\ i < Len(d) + 1
        /\ Len(d) + 1 \in 1..Len(a)
    BY AppendIs
  <1> HIDE DEF a
  <1>2. ASSUME NEW n \in 1..Len(d), LeadsTo(d, n, c, r) PROVE LeadsTo(a, n, c, r)
    <2>1. \A i \in 1..n : a[i] = d[i]
      BY <1>1
    <2> QED
      BY <1>2, <2>1 DEF LeadsTo
  <1>3. ASSUME LeadsTo(d, Len(d), c, r), IsMove(f)
        PROVE  LeadsTo(a, Len(d) + 1, c, Target(f))
    <2>1. \A i \in 1..Len(d) + 1 : ~(i > Len(d) + 1)
      BY <1>1
    <2> QED
      BY <1>1, <1>3, <2>1 DEF LeadsTo
  <1>4. ASSUME LeadsTo(d, Len(d), c, r), ~IsMove(f)
        PROVE  LeadsTo(a, Len(d) + 1, c, r)
    <2>1. \A i \in 1..Len(d) + 1 : IsMove(a[i]) => i \in 1..Len(d) /\ IsMove(d[i])
      BY <1>1, <1>4
    <2>2. CASE r = c /\ \A i \in 1..Len(d) : ~IsMove(d[i])
      BY <2>1, <2>2 DEF LeadsTo
    <2>3. CASE \E m \in 1..Len(d) : /\ IsMove(d[m]) /\ r = Target(d[m])
                                    /\ \A i \in 1..Len(d) : i > m => ~IsMove(d[i])
      <3>1. PICK m \in 1..Len(d) : /\ IsMove(d[m]) /\ r = Target(d[m])
                                   /\ \A i \in 1..Len(d) : i > m => ~IsMove(d[i])
        BY <2>3
      <3>2. m \in 1..Len(d) + 1 /\ a[m] = d[m]
        BY <1>1
      <3>3. \A i \in 1..Len(d) + 1 : i > m => ~IsMove(a[i])
        BY <2>1, <3>1
      <3> QED
        BY <3>1, <3>2, <3>3 DEF LeadsTo
    <2> QED
      BY <1>4, <2>2, <2>3 DEF LeadsTo
  <1> QED
    BY <1>2, <1>3, <1>4 DEF a

\* A frame less: what is left leads on from where that frame led.
LEMMA TailLeads ==
  ASSUME NEW S, NEW d \in Seq(S), d # <<>>, NEW c, NEW r, NEW n \in 1..Len(d),
         LeadsTo(d, n, c, r)
  PROVE  LeadsTo(Tail(d), n - 1, IF IsMove(Head(d)) THEN Target(Head(d)) ELSE c, r)
  <1> DEFINE t == Tail(d)
             h == IF IsMove(Head(d)) THEN Target(Head(d)) ELSE c
  <1>1. /\ Len(t) \in Nat /\ Len(d) = Len(t) + 1 /\ Head(d) = d[1] /\ 1 \in 1..Len(d)
        /\ \A i \in 1..Len(t) : t[i] = d[i + 1]
    BY TailIs
  <1> HIDE DEF t
  <1>2. \A i \in 1..n - 1 : t[i] = d[i + 1] /\ i + 1 \in 1..n /\ i + 1 > 1
    <2>1. \A i \in 1..n - 1 : i \in 1..Len(t) /\ i + 1 \in 1..n /\ i + 1 > 1
      BY <1>1
    <2> QED
      BY <1>1, <2>1
  <1>3. 1 \in 1..n
    BY <1>1
  <1>4. ASSUME r = c, \A i \in 1..n : ~IsMove(d[i])
        PROVE  LeadsTo(t, n - 1, h, r)
    BY <1>1, <1>2, <1>3, <1>4 DEF LeadsTo
  <1>5. ASSUME NEW m \in 1..n, IsMove(d[m]), r = Target(d[m]),
               \A i \in 1..n : i > m => ~IsMove(d[i])
        PROVE  LeadsTo(t, n - 1, h, r)
    <2>1. CASE m = 1
      <3>1. r = h
        BY <1>1, <1>5, <2>1
      <3>2. \A i \in 1..n - 1 : ~IsMove(t[i])
        BY <1>2, <1>5, <2>1
      <3> QED
        BY <3>1, <3>2 DEF LeadsTo
    <2>2. CASE m # 1
      <3> DEFINE j == m - 1
      <3>1. j \in 1..n - 1 /\ j + 1 = m
        BY <2>2
      <3>2. \A i \in 1..n - 1 : i > j => i + 1 > m
        BY <3>1
      <3> HIDE DEF j
      <3>3. IsMove(t[j]) /\ r = Target(t[j])
        BY <1>2, <1>5, <3>1
      <3>4. \A i \in 1..n - 1 : i > j => ~IsMove(t[i])
        BY <1>2, <1>5, <3>2
      <3>5. \E k \in 1..n - 1 : /\ IsMove(t[k]) /\ r = Target(t[k])
                               /\ \A i \in 1..n - 1 : i > k => ~IsMove(t[i])
        BY <3>1, <3>3, <3>4
      <3> QED
        BY <3>5 DEF LeadsTo
    <2> QED
      BY <2>1, <2>2
  <1>6. LeadsTo(t, n - 1, h, r)
    BY <1>4, <1>5 DEF LeadsTo
  <1> QED
    BY <1>6 DEF t

-----------------------------------------------------------------------------
(* The steps.                                                              *)

\* The client asks for something.
LEMMA Asking ==
  ASSUME PagingInv, NEW f \in Asks, connected, up' = Append(up, f),
         UNCHANGED <<serverVars, down, cur, connected, historyVars>>,
         cursor' \in {cursor, First},
         IF IsQuery(f) THEN ~busy /\ busy' = TRUE /\ pos' \in {"append", "prepend"}
                       ELSE UNCHANGED <<busy, pos>>,
         f.type = "HIST" /\ Len(view) > 0 =>
           pos' = "prepend" /\ f.cursor # First /\ f.cursor = Key(view[1])
  PROVE  PagingInv'
  <1>1. /\ UNCHANGED <<table, dirty, room, down, cur, connected, view, base, ended>>
        /\ busy' \in BOOLEAN /\ (busy => busy') /\ pos' \in {"append", "prepend"}
    BY DEF PagingInv, PagingTypes, serverVars, historyVars
  <1>2. /\ up' \in Seq(Asks) /\ Len(up) \in Nat
        /\ up'[Len(up) + 1] = f /\ \A i \in 1..Len(up) : up'[i] = up[i]
        /\ \A i \in 1..Len(up') : i \in 1..Len(up) \/ i = Len(up) + 1
        /\ \A i \in 1..Len(up) : i < Len(up) + 1
    BY AppendIs DEF PagingInv, PagingTypes
  <1>3. First \in Keys
    BY DEF First, Keys
  <1>4. /\ \A i \in 1..Len(up) : IsQuery(up[i]) => ~IsQuery(f) /\ pos' = pos
        /\ \A i \in 1..Len(down) : IsPage(down[i]) => ~IsQuery(f) /\ pos' = pos
    BY DEF PagingInv, OneAtATime
  <1>5. PagingTypes'
    BY <1>1, <1>2, <1>3 DEF PagingInv, PagingTypes, GoodTable
  <1>6. OneAtATime'
    <2>1. /\ \A i, j \in 1..Len(up') : IsQuery(up'[i]) /\ IsQuery(up'[j]) => i = j
          /\ \A i \in 1..Len(up') : IsQuery(up'[i]) => busy'
      BY <1>1, <1>2, <1>4 DEF PagingInv, OneAtATime
    <2>2. \A i \in 1..Len(up'), j \in 1..Len(down) : ~(IsQuery(up'[i]) /\ IsPage(down[j]))
      BY <1>2, <1>4 DEF PagingInv, OneAtATime
    <2> QED
      BY <1>1, <2>1, <2>2 DEF PagingInv, OneAtATime, IsPage, IsQuery
  <1>7. RoomsAgree'
    BY <1>1, SMTT(60) DEF PagingInv, RoomsAgree, LeadsTo, IsMove, Target
  <1>8. PagesAreGood' /\ BaseIsThere' /\ LogIsExact' /\ CursorIsOnTop'
    <2>1. PagesAreGood'
      BY <1>1, SMTT(60) DEF PagingInv, PagesAreGood, IsPage, GoodPage, Shows, IdsDiffer
    <2>2. BaseIsThere'
      BY <1>1 DEF PagingInv, BaseIsThere, RowsOf, Row
    <2>3. LogIsExact'
      BY <1>1 DEF PagingInv, LogIsExact, Shows
    <2>4. CursorIsOnTop'
      BY <1>1 DEF PagingInv, CursorIsOnTop
    <2> QED
      BY <2>1, <2>2, <2>3, <2>4
  <1>9. AskedAbove'
    <2> SUFFICES ASSUME NEW n \in 1..Len(up'), up'[n].type = "HIST", Len(view) > 0,
                        \A i \in 1..n : up'[i].type \notin {"JOIN", "LEAVE"},
                        \A i \in 1..Len(down) : ~IsMove(down[i])
                 PROVE  pos' = "prepend" /\ up'[n].cursor # First /\ up'[n].cursor = Key(view[1])
      BY <1>1 DEF AskedAbove, IsMove
    <2>1. CASE n \in 1..Len(up)
      <3>1. \A i \in 1..n : i \in 1..Len(up)
        BY <1>2, <2>1
      <3>2. up[n].type = "HIST" /\ \A i \in 1..n : up[i].type \notin {"JOIN", "LEAVE"}
        BY <1>2, <2>1, <3>1
      <3>3. pos = "prepend" /\ up[n].cursor # First /\ up[n].cursor = Key(view[1])
        BY <2>1, <3>2 DEF PagingInv, AskedAbove
      <3> QED
        BY <1>2, <1>4, <2>1, <3>2, <3>3 DEF IsQuery
    <2>2. CASE n = Len(up) + 1
      BY <1>2, <2>2
    <2> QED
      BY <1>2, <2>1, <2>2
  <1>10. SentAbove'
    BY <1>1, <1>4, SMTT(60) DEF PagingInv, SentAbove, IsMove, IsPage, GoesAbove, Shows
  <1> QED
    BY <1>5, <1>6, <1>7, <1>8, <1>9, <1>10 DEF PagingInv

\* Where nothing is on its way that moves the client, it is where the server has
\* it; and a client that shows something is in a room.
LEMMA StandsStill ==
  ASSUME PagingInv, connected, \A i \in 1..Len(down) : ~IsMove(down[i])
  PROVE  cur = room /\ (Len(view) > 0 => room # NoRoom)
  <1>1. cur = room
    BY SMTT(60) DEF PagingInv, RoomsAgree, LeadsTo
  <1>2. ASSUME Len(view) > 0 PROVE room # NoRoom
    <2>1. 1 \in 1..Len(view)
      BY <1>2, LenProperties DEF PagingInv, PagingTypes
    <2>2. view[1] \in Rows /\ view[1].place = cur
      BY <2>1, ElementOfSeq DEF PagingInv, PagingTypes, LogIsExact
    <2> QED
      BY <1>1, <2>2, Constants DEF Rows
  <1> QED
    BY <1>1, <1>2

LEMMA AskedIsConnected ==
  ASSUME PagingInv, up # <<>> \/ down # <<>>
  PROVE  connected
  BY DEF PagingInv, RoomsAgree, PagingTypes

\* The server says nothing to a query.
LEMMA Ignoring ==
  ASSUME PagingInv, up # <<>>, up' = Tail(up), IsQuery(Head(up)),
         UNCHANGED <<table, dirty, room, down, clientVars, connected, historyVars>>
  PROVE  PagingInv'
  <1>1. UNCHANGED <<table, dirty, room, down, cur, cursor, busy, pos, connected, view, base,
                    ended>>
    BY DEF clientVars, historyVars
  <1>2. /\ up' \in Seq(Asks) /\ Head(up) = up[1] /\ 1 \in 1..Len(up) /\ Len(up') \in Nat
        /\ \A i \in 1..Len(up') : up'[i] = up[i + 1] /\ i + 1 \in 1..Len(up) /\ i + 1 # 1
    BY TailIs DEF PagingInv, PagingTypes
  <1>3. \A i \in 1..Len(up') : ~IsQuery(up'[i])
    BY <1>2 DEF PagingInv, OneAtATime
  <1>4. PagingTypes'
    BY <1>1, <1>2 DEF PagingInv, PagingTypes, GoodTable
  <1>5. OneAtATime'
    BY <1>1, <1>3 DEF PagingInv, OneAtATime, IsQuery, IsPage
  <1>6. RoomsAgree'
    <2>1. connected
      BY AskedIsConnected
    <2> QED
      BY <1>1, <2>1, SMTT(60) DEF PagingInv, RoomsAgree, LeadsTo, IsMove, Target
  <1>7. PagesAreGood' /\ BaseIsThere' /\ LogIsExact' /\ CursorIsOnTop'
    <2>1. PagesAreGood'
      BY <1>1, SMTT(60) DEF PagingInv, PagesAreGood, IsPage, GoodPage, Shows, IdsDiffer
    <2>2. BaseIsThere'
      BY <1>1 DEF PagingInv, BaseIsThere, RowsOf, Row
    <2>3. LogIsExact'
      BY <1>1 DEF PagingInv, LogIsExact, Shows
    <2>4. CursorIsOnTop'
      BY <1>1 DEF PagingInv, CursorIsOnTop
    <2> QED
      BY <2>1, <2>2, <2>3, <2>4
  <1>8. AskedAbove'
    BY <1>3 DEF AskedAbove, IsQuery
  <1>9. SentAbove'
    BY <1>1, SMTT(60) DEF PagingInv, SentAbove, IsMove, GoesAbove, Shows
  <1> QED
    BY <1>4, <1>5, <1>6, <1>7, <1>8, <1>9 DEF PagingInv

\* The server answers.
LEMMA Answering ==
  ASSUME PagingInv, up # <<>>, up' = Tail(up), NEW g \in Answers, down' = Append(down, g),
         UNCHANGED <<table, dirty, clientVars, connected, historyVars>>,
         room' = IF IsMove(g) THEN Target(g) ELSE room,
         Head(up).type \in {"JOIN", "LEAVE"} => IsMove(g) \/ room = NoRoom,
         IsPage(g) => IsQuery(Head(up)) /\ GoodPage(g),
         g.type = "HISTORY" =>
           /\ g.room = room
           /\ Len(view) > 0 /\ (\A i \in 1..Len(down) : ~IsMove(down[i])) => GoesAbove(g)
  PROVE  PagingInv'
  <1>1. UNCHANGED <<table, dirty, cur, cursor, busy, pos, connected, view, base, ended>>
    BY DEF clientVars, historyVars
  <1>2. /\ up' \in Seq(Asks) /\ Head(up) = up[1] /\ 1 \in 1..Len(up) /\ Len(up') \in Nat
        /\ \A i \in 1..Len(up') : up'[i] = up[i + 1] /\ i + 1 \in 1..Len(up) /\ i + 1 # 1
    BY TailIs DEF PagingInv, PagingTypes
  <1>3. /\ down' \in Seq(Answers) /\ Len(down) \in Nat /\ Len(down') = Len(down) + 1
        /\ down'[Len(down) + 1] = g /\ \A i \in 1..Len(down) : down'[i] = down[i]
        /\ \A i \in 1..Len(down') : i \in 1..Len(down) \/ i = Len(down) + 1
        /\ \A i \in 1..Len(down) : i \in 1..Len(down') /\ i < Len(down) + 1
        /\ Len(down) + 1 \in 1..Len(down')
    BY AppendIs DEF PagingInv, PagingTypes
  <1>4. connected
    BY AskedIsConnected
  <1>5. room' \in Rooms \cup {NoRoom}
    BY AnswerKinds DEF PagingInv, PagingTypes, IsMove, Target
  <1>6. PagingTypes'
    BY <1>1, <1>2, <1>3, <1>5 DEF PagingInv, PagingTypes, GoodTable
  <1>7. OneAtATime'
    <2>1. /\ \A i, j \in 1..Len(up') : IsQuery(up'[i]) /\ IsQuery(up'[j]) => i = j
          /\ \A i \in 1..Len(up') : IsQuery(up'[i]) => busy
      BY <1>2 DEF PagingInv, OneAtATime
    <2>2. IsPage(g) => /\ \A i \in 1..Len(down) : ~IsPage(down[i])
                       /\ \A i \in 1..Len(up') : ~IsQuery(up'[i])
                       /\ busy
      BY <1>2 DEF PagingInv, OneAtATime
    <2>3. /\ \A i, j \in 1..Len(down') : IsPage(down'[i]) /\ IsPage(down'[j]) => i = j
          /\ \A i \in 1..Len(down') : IsPage(down'[i]) => busy
      BY <1>3, <2>2 DEF PagingInv, OneAtATime
    <2>4. \A i \in 1..Len(up'), j \in 1..Len(down') : ~(IsQuery(up'[i]) /\ IsPage(down'[j]))
      BY <1>2, <1>3, <2>2 DEF PagingInv, OneAtATime
    <2> QED
      BY <1>1, <2>1, <2>3, <2>4 DEF OneAtATime, IsQuery, IsPage
  <1>8. RoomsAgree'
    <2>1. LeadsTo(down', Len(down'), cur, room')
      BY <1>3, <1>4, AppendLeads DEF PagingInv, PagingTypes, RoomsAgree
    <2>2. ASSUME NEW n \in 1..Len(down'), down'[n].type = "HISTORY"
          PROVE  LeadsTo(down', n, cur, down'[n].room)
      <3>1. CASE n \in 1..Len(down)
        <4>1. LeadsTo(down, n, cur, down[n].room)
          BY <1>3, <2>2, <3>1 DEF PagingInv, RoomsAgree
        <4> QED
          BY <1>3, <3>1, <4>1, AppendLeads DEF PagingInv, PagingTypes
      <3>2. CASE n = Len(down) + 1
        <4>1. ~IsMove(g) /\ g.room = room'
          BY <1>3, <2>2, <3>2 DEF IsMove
        <4> QED
          BY <1>3, <2>1, <3>2, <4>1
      <3> QED
        BY <1>3, <3>1, <3>2
    <2> QED
      BY <1>1, <1>4, <2>1, <2>2, ZenonT(60) DEF RoomsAgree, LeadsTo, IsMove, Target
  <1>9. PagesAreGood'
    <2>1. \A n \in 1..Len(down') : IsPage(down'[n]) => GoodPage(down'[n])
      BY <1>3 DEF PagingInv, PagesAreGood
    <2> QED
      BY <2>1, SMTT(60) DEF PagesAreGood, IsPage, GoodPage, Shows, IdsDiffer
  <1>10. BaseIsThere' /\ LogIsExact' /\ CursorIsOnTop'
    <2>1. BaseIsThere'
      BY <1>1 DEF PagingInv, BaseIsThere, RowsOf, Row
    <2>2. LogIsExact'
      BY <1>1 DEF PagingInv, LogIsExact, Shows
    <2>3. CursorIsOnTop'
      BY <1>1 DEF PagingInv, CursorIsOnTop
    <2> QED
      BY <2>1, <2>2, <2>3
  <1>11. AskedAbove'
    <2> SUFFICES ASSUME NEW n \in 1..Len(up'), up'[n].type = "HIST", Len(view) > 0,
                        \A i \in 1..n : up'[i].type \notin {"JOIN", "LEAVE"},
                        \A i \in 1..Len(down') : ~IsMove(down'[i])
                 PROVE  pos = "prepend" /\ up'[n].cursor # First /\ up'[n].cursor = Key(view[1])
      BY <1>1 DEF AskedAbove, IsMove
    <2>1. ~IsMove(g) /\ \A i \in 1..Len(down) : ~IsMove(down[i])
      BY <1>3
    <2>2. Head(up).type \notin {"JOIN", "LEAVE"}
      BY <1>4, <2>1, StandsStill
    <2>3. \A i \in 1..n + 1 : up[i].type \notin {"JOIN", "LEAVE"}
      <3> TAKE i \in 1..n + 1
      <3>1. CASE i = 1
        BY <1>2, <2>2, <3>1
      <3>2. CASE i # 1
        <4> DEFINE j == i - 1
        <4>1. j \in 1..n /\ j \in 1..Len(up') /\ j + 1 = i
          BY <1>2, <3>2
        <4> HIDE DEF j
        <4> QED
          BY <1>2, <4>1
      <3> QED
        BY <3>1, <3>2
    <2> QED
      BY <1>2, <2>1, <2>3 DEF PagingInv, AskedAbove
  <1>12. SentAbove'
    <2>1. ASSUME NEW n \in 1..Len(down'), down'[n].type = "HISTORY", Len(view) > 0,
                 \A i \in 1..n : ~IsMove(down'[i])
          PROVE  GoesAbove(down'[n])
      <3>1. CASE n \in 1..Len(down)
        <4>1. \A i \in 1..n : i \in 1..Len(down)
          BY <1>3, <3>1
        <4> QED
          BY <1>3, <2>1, <3>1, <4>1 DEF PagingInv, SentAbove
      <3>2. CASE n = Len(down) + 1
        <4>1. \A i \in 1..Len(down) : i \in 1..n
          BY <1>3, <3>2
        <4> QED
          BY <1>3, <2>1, <3>2, <4>1
      <3> QED
        BY <1>3, <3>1, <3>2
    <2> QED
      BY <1>1, <2>1, SMTT(60) DEF SentAbove, IsMove, GoesAbove, Shows
  <1> QED
    BY <1>6, <1>7, <1>8, <1>9, <1>10, <1>11, <1>12 DEF PagingInv

LEMMA RowsAreKeyed ==
  /\ \A r \in Rows : Keyed(r) /\ Key(r) \in Keys
  /\ \A c \in Keys : Keyed(c)
  /\ First \in Keys
  BY DEF Rows, Keys, Keyed, Key, First

LEMMA PageIsAnswer ==
  ASSUME GoodTable(table), NEW kind \in {"HISTORY", "INBOX"},
         NEW place \in Rooms \cup {Inbox}, NEW c \in Keys
  PROVE  LET p == Page(kind, place, c)
         IN p \in Pages /\ p \in Answers /\ IsPage(p) /\ ~IsMove(p)
  <1> DEFINE p == Page(kind, place, c)
  <1>1. GoodPage(p) /\ p.there = RowsOf(place) /\ p.room = place /\ p.type = kind
    BY RowsAreKeyed, PageIsGood
  <1>2. p.first \in BOOLEAN
    <2>1. p.first = (c = First)
      BY DEF Page
    <2> HIDE DEF p
    <2> QED
      BY <2>1
  <1>3. p = [type |-> p.type, rows |-> p.rows, more |-> p.more, cursor |-> p.cursor,
             first |-> p.first, there |-> p.there, room |-> p.room]
    BY DEF Page
  <1> HIDE DEF p
  <1>4. p.cursor \in Keys
    <2>1. CASE Len(p.rows) = 0
      BY <1>1, <2>1, RowsAreKeyed DEF GoodPage
    <2>2. CASE Len(p.rows) # 0
      <3>1. 1 \in 1..Len(p.rows)
        BY <1>1, <2>2 DEF GoodPage
      <3>2. p.rows[1] \in Rows
        BY <1>1, <3>1, ElementOfSeq DEF GoodPage
      <3> QED
        BY <1>1, <2>2, <3>2, RowsAreKeyed DEF GoodPage
    <2> QED
      BY <2>1, <2>2
  <1>5. /\ p.rows \in Seq(Rows) /\ p.more \in BOOLEAN /\ p.there \in SUBSET Rows
        /\ p.type \in {"HISTORY", "INBOX"} /\ p.room \in Rooms \cup {Inbox}
    BY <1>1 DEF GoodPage
  <1>6. p \in Pages
    BY <1>2, <1>3, <1>4, <1>5 DEF Pages
  <1> QED
    BY <1>6, AnswerKinds, PageFields DEF p, IsPage, IsMove

\* The rows before the oldest one shown go above it.
LEMMA PageGoesAbove ==
  ASSUME PagingInv, NEW kind, pos = "prepend", Len(view) > 0, cur = room, Key(view[1]) # First
  PROVE  GoesAbove(Page(kind, room, Key(view[1])))
  <1> DEFINE p == Page(kind, room, Key(view[1]))
  <1>1. view[1] \in Rows /\ Keyed(view[1]) /\ Keyed(Key(view[1]))
    <2>1. 1 \in 1..Len(view)
      BY LenProperties DEF PagingInv, PagingTypes
    <2> QED
      BY <2>1, ElementOfSeq, RowsAreKeyed DEF PagingInv, PagingTypes
  <1>2. GoodPage(p) /\ p.there = RowsOf(cur) /\ EndsAt(p, Key(view[1]))
    BY <1>1, PageIsGood DEF PagingInv, PagingTypes
  <1> HIDE DEF p
  <1>3. /\ base \subseteq p.there /\ p.there \subseteq Rows /\ IdsDiffer(p.there)
        /\ \A i \in 1..Len(p.rows) : p.rows[i] \in p.there
    BY <1>2 DEF PagingInv, BaseIsThere, GoodPage
  <1>4. \A r \in Rows : Before(r, Key(view[1])) <=> Before(r, view[1])
    BY <1>1, KeyOrders, RowsAreKeyed
  <1>5. \A i \in 1..Len(p.rows) : Before(p.rows[i], view[1])
    BY <1>2, <1>3, <1>4 DEF EndsAt
  <1>6. \A i \in 1..Len(p.rows), r \in base : p.rows[i].id = r.id => p.rows[i] = r
    BY <1>3 DEF IdsDiffer
  <1>7. \A r \in base : Before(r, view[1]) =>
          Shows(p.rows, r) \/ (p.more /\ Before(r, p.rows[1]))
    BY <1>2, <1>3, <1>4 DEF EndsAt
  <1> QED
    BY <1>5, <1>6, <1>7 DEF GoesAbove, p

LEMMA Serving ==
  ASSUME PagingInv, Serve
  PROVE  PagingInv'
  <1> DEFINE f == Head(up)
  <1>1. /\ up # <<>> /\ up' = Tail(up) /\ GoodTable(table)
        /\ UNCHANGED <<table, dirty, clientVars, connected, historyVars>>
    BY DEF Serve, PagingInv, PagingTypes
  <1>2. f \in Asks /\ f = up[1] /\ 1 \in 1..Len(up)
    BY <1>1, TailIs DEF PagingInv, PagingTypes
  <1>3. /\ f.type \in {"JOIN", "LEAVE", "HIST", "INBOX"}
        /\ f.type = "JOIN" => f.room \in Rooms
        /\ f.type = "HIST" => f.cursor \in Keys
    BY <1>2, AskKinds
  <1>4. CASE /\ f.type = "JOIN"
             /\ room' = f.room /\ Reply([type |-> "JOIN_OK", room |-> f.room])
    <2> DEFINE g == [type |-> "JOIN_OK", room |-> f.room]
    <2>1. g \in Answers /\ g.type = "JOIN_OK" /\ IsMove(g) /\ Target(g) = f.room
      BY <1>3, <1>4, AnswerKinds DEF IsMove, Target
    <2>2. down' = Append(down, g) /\ ~IsPage(g)
      BY <1>4 DEF Reply, IsPage
    <2> HIDE DEF f, g
    <2> QED
      BY <1>1, <1>4, <2>1, <2>2, Answering DEF f
  <1>5. CASE /\ f.type = "LEAVE" /\ room' = NoRoom
             /\ Reply([type |-> IF room = NoRoom THEN "ERR" ELSE "LEAVE_OK"])
    <2> DEFINE g == [type |-> IF room = NoRoom THEN "ERR" ELSE "LEAVE_OK"]
    <2>1. /\ g \in Answers /\ g.type \in {"ERR", "LEAVE_OK"} /\ ~IsPage(g)
          /\ IF IsMove(g) THEN Target(g) = NoRoom ELSE room = NoRoom
      BY AnswerKinds DEF IsMove, Target, IsPage
    <2>2. down' = Append(down, g)
      BY <1>5 DEF Reply
    <2> HIDE DEF f, g
    <2>3. room' = IF IsMove(g) THEN Target(g) ELSE room
      BY <1>5, <2>1
    <2>4. IsMove(g) \/ room = NoRoom
      BY <2>1
    <2> QED
      BY <1>1, <1>5, <2>1, <2>2, <2>3, <2>4, Answering DEF f
  <1>6. CASE /\ f.type = "HIST" /\ room = NoRoom
             /\ Reply([type |-> "ERR"]) /\ UNCHANGED room
    <2> DEFINE g == [type |-> "ERR"]
    <2>1. g \in Answers /\ g.type = "ERR" /\ ~IsPage(g) /\ ~IsMove(g)
      BY AnswerKinds DEF IsMove, IsPage
    <2>2. down' = Append(down, g)
      BY <1>6 DEF Reply
    <2> HIDE DEF f, g
    <2> QED
      BY <1>1, <1>6, <2>1, <2>2, Answering DEF f
  <1>7. CASE /\ f.type = "HIST" /\ room # NoRoom
             /\ LET page == Page("HISTORY", room, f.cursor)
                IN IF Fits(page) THEN Reply(page) ELSE UNCHANGED down
             /\ UNCHANGED room
    <2> DEFINE page == Page("HISTORY", room, f.cursor)
    <2>1. f.cursor \in Keys /\ room \in Rooms \cup {Inbox} /\ IsQuery(f)
      BY <1>3, <1>7 DEF PagingInv, PagingTypes, IsQuery
    <2>2. page \in Answers /\ ~IsMove(page)
      BY <1>1, <2>1, PageIsAnswer
    <2>3. GoodPage(page) /\ page.room = room
      BY <1>1, <2>1, PageIsGood, RowsAreKeyed
    <2>4. ASSUME Len(view) > 0, \A i \in 1..Len(down) : ~IsMove(down[i])
          PROVE  GoesAbove(page)
      <3>1. cur = room
        BY <1>1, <2>4, AskedIsConnected, StandsStill
      <3>2. \A i \in 1..1 : up[i].type \notin {"JOIN", "LEAVE"}
        BY <1>2, <1>7
      <3>3. pos = "prepend" /\ f.cursor # First /\ f.cursor = Key(view[1])
        BY <1>2, <1>7, <2>4, <3>2 DEF PagingInv, AskedAbove
      <3> QED
        BY <2>4, <3>1, <3>3, PageGoesAbove
    <2> HIDE DEF f, page
    <2>5. CASE down' = Append(down, page)
      BY <1>1, <1>7, <2>1, <2>2, <2>3, <2>4, <2>5, Answering DEF f
    <2>6. CASE UNCHANGED down
      BY <1>1, <1>7, <2>1, <2>6, Ignoring DEF f
    <2> QED
      BY <1>7, <2>5, <2>6 DEF Reply, page
  <1>8. CASE /\ f.type = "INBOX"
             /\ LET page == Page("INBOX", Inbox, First)
                IN IF Fits(page) THEN Reply(page) ELSE UNCHANGED down
             /\ UNCHANGED room
    <2> DEFINE page == Page("INBOX", Inbox, First)
    <2>1. IsQuery(f)
      BY <1>8 DEF IsQuery
    <2>2. page \in Answers /\ ~IsMove(page)
      BY <1>1, RowsAreKeyed, PageIsAnswer
    <2>3. GoodPage(page) /\ page.type = "INBOX"
      BY <1>1, RowsAreKeyed, PageIsGood
    <2> HIDE DEF f, page
    <2>4. CASE down' = Append(down, page)
      BY <1>1, <1>8, <2>1, <2>2, <2>3, <2>4, Answering DEF f
    <2>5. CASE UNCHANGED down
      BY <1>1, <1>8, <2>1, <2>5, Ignoring DEF f
    <2> QED
      BY <1>8, <2>4, <2>5 DEF Reply, page
  <1> QED
    BY <1>4, <1>5, <1>6, <1>7, <1>8 DEF Serve

LEMMA ConcatIs ==
  ASSUME NEW S, NEW v \in Seq(S), NEW w \in Seq(S)
  PROVE  LET c == v \o w
         IN /\ c \in Seq(S) /\ Len(v) \in Nat /\ Len(w) \in Nat /\ Len(c) = Len(v) + Len(w)
            /\ \A i \in 1..Len(v) : i \in 1..Len(c) /\ c[i] = v[i]
            /\ \A i \in 1..Len(w) : Len(v) + i \in 1..Len(c) /\ c[Len(v) + i] = w[i]
            /\ \A i \in 1..Len(c) : i \in 1..Len(v) \/ (i > Len(v) /\ i - Len(v) \in 1..Len(w))
            /\ \A i \in 1..Len(c) : i \notin 1..Len(v) => c[i] = w[i - Len(v)]
  <1> DEFINE c == v \o w
  <1>1. /\ c \in Seq(S) /\ Len(v) \in Nat /\ Len(w) \in Nat /\ Len(c) = Len(v) + Len(w)
        /\ \A i \in 1 .. Len(v) + Len(w) : c[i] = IF i <= Len(v) THEN v[i] ELSE w[i - Len(v)]
    BY ConcatProperties, LenProperties
  <1> HIDE DEF c
  <1>2. \A i \in 1..Len(v) : i \in 1..Len(c) /\ c[i] = v[i]
    BY <1>1
  <1>3. \A i \in 1..Len(w) : Len(v) + i \in 1..Len(c) /\ c[Len(v) + i] = w[i]
    <2> TAKE i \in 1..Len(w)
    <2>1. /\ Len(v) + i \in 1..Len(v) + Len(w) /\ ~(Len(v) + i <= Len(v))
          /\ (Len(v) + i) - Len(v) = i
      BY <1>1
    <2> QED
      BY <1>1, <2>1
  <1>4. /\ \A i \in 1..Len(c) : i \in 1..Len(v) \/ (i > Len(v) /\ i - Len(v) \in 1..Len(w))
        /\ \A i \in 1..Len(c) : i \notin 1..Len(v) => c[i] = w[i - Len(v)]
    BY <1>1
  <1> QED
    BY <1>1, <1>2, <1>3, <1>4 DEF c

\* A frame arrives: what follows it leads on from where it leads, and a page
\* is the only one there is.
LEMMA Arriving ==
  ASSUME PagingInv, down # <<>>, down' = Tail(down)
  PROVE  LET f == Head(down)
             c == IF IsMove(f) THEN Target(f) ELSE cur
         IN /\ connected /\ f = down[1] /\ 1 \in 1..Len(down) /\ f \in Answers
            /\ down' \in Seq(Answers) /\ Len(down') \in Nat /\ Len(down) = Len(down') + 1
            /\ \A i \in 1..Len(down') : down'[i] = down[i + 1] /\ i + 1 \in 1..Len(down)
            /\ \A i \in 1..Len(down) : i = 1 \/ i - 1 \in 1..Len(down')
            /\ LeadsTo(down', Len(down'), c, room)
            /\ \A n \in 1..Len(down') :
                 down'[n].type = "HISTORY" => LeadsTo(down', n, c, down'[n].room)
            /\ \A n \in 1..Len(down') : IsPage(down'[n]) => GoodPage(down'[n]) /\ busy
            /\ \A i, j \in 1..Len(down') : IsPage(down'[i]) /\ IsPage(down'[j]) => i = j
            /\ \A i \in 1..Len(up), j \in 1..Len(down') : ~(IsQuery(up[i]) /\ IsPage(down'[j]))
            /\ IsPage(f) => /\ \A i \in 1..Len(down') : ~IsPage(down'[i])
                            /\ \A i \in 1..Len(up) : ~IsQuery(up[i])
  <1> DEFINE f == Head(down)
             c == IF IsMove(f) THEN Target(f) ELSE cur
  <1>1. connected
    BY AskedIsConnected
  <1>2. /\ f = down[1] /\ 1 \in 1..Len(down) /\ f \in Answers
        /\ down' \in Seq(Answers) /\ Len(down') \in Nat /\ Len(down) = Len(down') + 1
        /\ \A i \in 1..Len(down') : down'[i] = down[i + 1] /\ i + 1 \in 1..Len(down)
        /\ \A i \in 1..Len(down) : i = 1 \/ i - 1 \in 1..Len(down')
    BY TailIs DEF PagingInv, PagingTypes
  <1>3. ASSUME NEW n \in 1..Len(down), NEW r, LeadsTo(down, n, cur, r)
        PROVE  LeadsTo(down', n - 1, c, r)
    BY <1>3, TailLeads DEF PagingInv, PagingTypes
  <1> HIDE DEF c, f
  <1>4. LeadsTo(down', Len(down'), c, room)
    <2>1. LeadsTo(down, Len(down), cur, room)
      BY <1>1 DEF PagingInv, RoomsAgree
    <2>2. Len(down) \in 1..Len(down) /\ Len(down) - 1 = Len(down')
      BY <1>2
    <2>3. LeadsTo(down', Len(down) - 1, c, room)
      BY <1>3, <2>1, <2>2
    <2> QED
      BY <2>2, <2>3
  <1>5. ASSUME NEW n \in 1..Len(down'), down'[n].type = "HISTORY"
        PROVE  LeadsTo(down', n, c, down'[n].room)
    <2> DEFINE k == n + 1
    <2>1. k \in 1..Len(down) /\ k - 1 = n /\ down[k] = down'[n]
      BY <1>2
    <2> HIDE DEF k
    <2>2. LeadsTo(down, k, cur, down[k].room)
      BY <1>5, <2>1 DEF PagingInv, RoomsAgree
    <2>3. LeadsTo(down', k - 1, c, down[k].room)
      BY <1>3, <2>1, <2>2
    <2> QED
      BY <2>1, <2>3
  <1>6. /\ \A n \in 1..Len(down') : IsPage(down'[n]) => GoodPage(down'[n]) /\ busy
        /\ \A i \in 1..Len(up), j \in 1..Len(down') : ~(IsQuery(up[i]) /\ IsPage(down'[j]))
    BY <1>2 DEF PagingInv, PagesAreGood, OneAtATime
  <1>7. \A i, j \in 1..Len(down') : IsPage(down'[i]) /\ IsPage(down'[j]) => i = j
    <2>1. \A i, j \in 1..Len(down') : i + 1 = j + 1 => i = j
      OBVIOUS
    <2> QED
      BY <1>2, <2>1 DEF PagingInv, OneAtATime
  <1>8. ASSUME IsPage(f)
        PROVE  /\ \A i \in 1..Len(down') : ~IsPage(down'[i])
               /\ \A i \in 1..Len(up) : ~IsQuery(up[i])
    <2>1. \A i \in 1..Len(down') : i + 1 # 1
      BY <1>2
    <2> QED
      BY <1>2, <1>8, <2>1 DEF PagingInv, OneAtATime
  <1> QED
    BY <1>1, <1>2, <1>4, <1>5, <1>6, <1>7, <1>8 DEF f, c

\* The client is told that it is in a room or in none.
LEMMA Moved ==
  ASSUME PagingInv, down # <<>>, down' = Tail(down), IsMove(Head(down)),
         Enter(Target(Head(down))), UNCHANGED <<serverVars, connected>>,
         \/ UNCHANGED <<up, busy, pos>>
         \/ /\ ~busy /\ up' = Append(up, [type |-> "HIST", cursor |-> First])
            /\ busy' = TRUE /\ pos' = "append"
  PROVE  PagingInv'
  <1> DEFINE f == Head(down)
  <1>1. /\ UNCHANGED <<table, dirty, room, connected>>
        /\ cur' = Target(f) /\ cursor' = First /\ view' = <<>> /\ base' = {}
    BY DEF serverVars, Enter
  <1>2. /\ connected /\ f \in Answers /\ down' \in Seq(Answers)
        /\ LeadsTo(down', Len(down'), Target(f), room)
        /\ \A n \in 1..Len(down') :
             down'[n].type = "HISTORY" => LeadsTo(down', n, Target(f), down'[n].room)
        /\ \A n \in 1..Len(down') : IsPage(down'[n]) => GoodPage(down'[n]) /\ busy
        /\ \A i, j \in 1..Len(down') : IsPage(down'[i]) /\ IsPage(down'[j]) => i = j
        /\ \A i \in 1..Len(up), j \in 1..Len(down') : ~(IsQuery(up[i]) /\ IsPage(down'[j]))
    BY Arriving
  <1>3. Target(f) \in Rooms \cup {NoRoom}
    BY <1>2, AnswerKinds DEF Target
  <1> HIDE DEF f
  <1>4. view' \in Seq(Rows) /\ Len(view') = 0
    BY <1>1, EmptySeq
  <1>5. /\ up' \in Seq(Asks) /\ busy' \in BOOLEAN /\ pos' \in {"append", "prepend"}
        /\ \A i, j \in 1..Len(up') : IsQuery(up'[i]) /\ IsQuery(up'[j]) => i = j
        /\ \A i \in 1..Len(up'), j \in 1..Len(down') : ~(IsQuery(up'[i]) /\ IsPage(down'[j]))
        /\ \A i \in 1..Len(up') : IsQuery(up'[i]) => busy'
        /\ \A i \in 1..Len(down') : IsPage(down'[i]) => busy'
    <2>1. CASE UNCHANGED <<up, busy, pos>>
      BY <1>2, <2>1 DEF PagingInv, PagingTypes, OneAtATime
    <2>2. CASE /\ ~busy /\ up' = Append(up, [type |-> "HIST", cursor |-> First])
               /\ busy' = TRUE /\ pos' = "append"
      <3> DEFINE g == [type |-> "HIST", cursor |-> First]
      <3>1. g \in Asks
        BY AskKinds, RowsAreKeyed
      <3>2. up' = Append(up, g)
        BY <2>2
      <3> HIDE DEF g
      <3>3. /\ up' \in Seq(Asks)
            /\ \A i \in 1..Len(up) : up'[i] = up[i]
            /\ \A i \in 1..Len(up') : i \in 1..Len(up) \/ i = Len(up) + 1
        BY <3>1, <3>2, AppendIs DEF PagingInv, PagingTypes
      <3>4. \A i \in 1..Len(up) : ~IsQuery(up[i])
        BY <2>2 DEF PagingInv, OneAtATime
      <3>5. \A i \in 1..Len(up') : IsQuery(up'[i]) => i = Len(up) + 1
        BY <3>3, <3>4
      <3>6. \A i \in 1..Len(down') : ~IsPage(down'[i])
        BY <1>2, <2>2
      <3> QED
        BY <2>2, <3>3, <3>5, <3>6
    <2> QED
      BY <2>1, <2>2
  <1>6. PagingTypes'
    BY <1>1, <1>2, <1>3, <1>4, <1>5, RowsAreKeyed DEF PagingInv, PagingTypes, GoodTable
  <1>7. OneAtATime'
    BY <1>2, <1>5 DEF OneAtATime, IsQuery, IsPage
  <1>8. RoomsAgree'
    <2>1. /\ connected' /\ LeadsTo(down', Len(down'), cur', room')
          /\ \A n \in 1..Len(down') :
               down'[n].type = "HISTORY" => LeadsTo(down', n, cur', down'[n].room)
      BY <1>1, <1>2
    <2> QED
      BY <2>1, SMTT(60) DEF RoomsAgree, LeadsTo, IsMove, Target
  <1>9. PagesAreGood'
    BY <1>2, ZenonT(60) DEF PagesAreGood, IsPage, GoodPage, Shows, IdsDiffer
  <1>10. BaseIsThere' /\ CursorIsOnTop' /\ AskedAbove' /\ SentAbove' /\ LogIsExact'
    <2>1. \A i \in 1..Len(view') : FALSE
      BY <1>4
    <2>2. ~(Len(view') > 0)
      BY <1>4
    <2>3. BaseIsThere'
      BY <1>1 DEF BaseIsThere
    <2>4. LogIsExact'
      BY <2>1, <2>2 DEF LogIsExact
    <2> QED
      BY <2>2, <2>3, <2>4 DEF CursorIsOnTop, AskedAbove, SentAbove
  <1> QED
    BY <1>6, <1>7, <1>8, <1>9, <1>10 DEF PagingInv

\* The client is sent something that its log has nothing to do with.
LEMMA Passed ==
  ASSUME PagingInv, down # <<>>, down' = Tail(down), ~IsMove(Head(down)),
         Head(down).type # "HISTORY",
         UNCHANGED <<serverVars, connected, up, cur, cursor, historyVars>>,
         \/ UNCHANGED <<busy, pos>>
         \/ IsPage(Head(down)) /\ busy' = FALSE /\ pos' = "append"
  PROVE  PagingInv'
  <1> DEFINE f == Head(down)
  <1>1. UNCHANGED <<table, dirty, room, connected, up, cur, cursor, view, base, ended>>
    BY DEF serverVars, historyVars
  <1>2. /\ connected /\ f = down[1] /\ 1 \in 1..Len(down) /\ down' \in Seq(Answers)
        /\ \A i \in 1..Len(down') : down'[i] = down[i + 1] /\ i + 1 \in 1..Len(down)
        /\ \A i \in 1..Len(down) : i = 1 \/ i - 1 \in 1..Len(down')
        /\ LeadsTo(down', Len(down'), cur, room)
        /\ \A n \in 1..Len(down') :
             down'[n].type = "HISTORY" => LeadsTo(down', n, cur, down'[n].room)
        /\ \A n \in 1..Len(down') : IsPage(down'[n]) => GoodPage(down'[n]) /\ busy
        /\ \A i, j \in 1..Len(down') : IsPage(down'[i]) /\ IsPage(down'[j]) => i = j
        /\ \A i \in 1..Len(up), j \in 1..Len(down') : ~(IsQuery(up[i]) /\ IsPage(down'[j]))
        /\ IsPage(f) => /\ \A i \in 1..Len(down') : ~IsPage(down'[i])
                        /\ \A i \in 1..Len(up) : ~IsQuery(up[i])
    BY Arriving
  <1> HIDE DEF f
  <1>3. \/ UNCHANGED <<busy, pos>>
        \/ /\ busy' = FALSE /\ pos' = "append"
           /\ \A i \in 1..Len(down') : ~IsPage(down'[i])
           /\ \A i \in 1..Len(up) : ~IsQuery(up[i])
    BY <1>2 DEF f
  <1>4. PagingTypes'
    BY <1>1, <1>2, <1>3 DEF PagingInv, PagingTypes, GoodTable
  <1>5. OneAtATime'
    BY <1>1, <1>2, <1>3 DEF PagingInv, OneAtATime, IsQuery, IsPage
  <1>6. RoomsAgree'
    BY <1>1, <1>2, SMTT(60) DEF RoomsAgree, LeadsTo, IsMove, Target
  <1>7. PagesAreGood'
    BY <1>2, ZenonT(60) DEF PagesAreGood, IsPage, GoodPage, Shows, IdsDiffer
  <1>8. BaseIsThere' /\ LogIsExact' /\ CursorIsOnTop'
    <2>1. BaseIsThere'
      BY <1>1 DEF PagingInv, BaseIsThere, RowsOf, Row
    <2>2. LogIsExact'
      BY <1>1 DEF PagingInv, LogIsExact, Shows
    <2>3. CursorIsOnTop'
      BY <1>1 DEF PagingInv, CursorIsOnTop
    <2> QED
      BY <2>1, <2>2, <2>3
  \* What is left of the frames moves the client as little as they all did.
  <1>9. ASSUME NEW n \in Nat, \A i \in 1..n : i \in 1..Len(down') => ~IsMove(down'[i])
        PROVE  \A i \in 1..n + 1 : i \in 1..Len(down) => ~IsMove(down[i])
    <2> TAKE i \in 1..n + 1
    <2> HAVE i \in 1..Len(down)
    <2>1. CASE i = 1
      BY <1>2, <2>1 DEF f
    <2>2. CASE i # 1
      <3> DEFINE j == i - 1
      <3>1. j \in 1..Len(down') /\ j \in 1..n /\ j + 1 = i
        <4>1. j \in 1..Len(down')
          BY <1>2, <2>2
        <4>2. j \in 1..n /\ j + 1 = i
          BY <2>2
        <4> QED
          BY <4>1, <4>2
      <3> HIDE DEF j
      <3> QED
        BY <1>2, <1>9, <3>1
    <2> QED
      BY <2>1, <2>2
  <1>10. AskedAbove'
    <2>1. ASSUME NEW n \in 1..Len(up), up[n].type = "HIST", Len(view) > 0,
                 \A i \in 1..n : up[i].type \notin {"JOIN", "LEAVE"},
                 \A i \in 1..Len(down') : ~IsMove(down'[i])
          PROVE  pos' = "prepend" /\ up[n].cursor # First /\ up[n].cursor = Key(view[1])
      <3>1. \A i \in 1..Len(down) : ~IsMove(down[i])
        <4>1. Len(down') \in Nat /\ Len(down) = Len(down') + 1
          BY <1>2, TailIs DEF PagingInv, PagingTypes
        <4>2. \A i \in 1..Len(down') + 1 : i \in 1..Len(down) => ~IsMove(down[i])
          BY <1>9, <2>1, <4>1
        <4> QED
          BY <4>1, <4>2
      <3>2. UNCHANGED pos
        BY <1>3, <2>1 DEF IsQuery
      <3> QED
        BY <2>1, <3>1, <3>2 DEF PagingInv, AskedAbove
    <2> QED
      BY <1>1, <2>1 DEF AskedAbove, IsMove
  <1>11. SentAbove'
    <2>1. ASSUME NEW n \in 1..Len(down'), down'[n].type = "HISTORY", Len(view) > 0,
                 \A i \in 1..n : ~IsMove(down'[i])
          PROVE  GoesAbove(down'[n]) /\ UNCHANGED pos
      <3> DEFINE k == n + 1
      <3>1. n \in Nat /\ k \in 1..Len(down) /\ down[k] = down'[n]
        BY <1>2
      <3>2. \A i \in 1..k : ~IsMove(down[i])
        <4>1. \A i \in 1..k : i \in 1..Len(down)
          BY <3>1, LenProperties DEF PagingInv, PagingTypes
        <4>2. \A i \in 1..n + 1 : i \in 1..Len(down) => ~IsMove(down[i])
          BY <1>9, <2>1, <3>1
        <4> QED
          BY <4>1, <4>2
      <3> HIDE DEF k
      <3>3. GoesAbove(down[k])
        BY <2>1, <3>1, <3>2 DEF PagingInv, SentAbove
      <3>4. IsPage(down'[n])
        BY <2>1 DEF IsPage
      <3> QED
        BY <1>3, <3>1, <3>3, <3>4
    <2> QED
      BY <1>1, <2>1, SMTT(60) DEF SentAbove, IsMove, GoesAbove, Shows
  <1> QED
    BY <1>4, <1>5, <1>6, <1>7, <1>8, <1>10, <1>11 DEF PagingInv

\* The first page of a log is the log.
LEMMA FirstPageShown ==
  ASSUME PagingInv, UNCHANGED table, NEW f, GoodPage(f), f.room = cur, Len(view) = 0,
         view' = f.rows, base' = f.there \cap RowsOf(cur), ended' = ~f.more, cur' = cur,
         cursor' = IF f.more THEN f.cursor ELSE First
  PROVE  BaseIsThere' /\ CursorIsOnTop' /\ LogIsExact'
  <1>1. BaseIsThere'
    <2>1. \A i \in 1..Len(view'), r \in base' : view'[i].id = r.id => view'[i] = r
      BY DEF GoodPage, IdsDiffer
    <2>2. base' \subseteq RowsOf(cur)
      OBVIOUS
    <2>3. RowsOf(cur)' = RowsOf(cur)
      BY DEF RowsOf, Row
    <2> QED
      BY <2>1, <2>2, <2>3 DEF BaseIsThere
  <1>2. CursorIsOnTop'
    BY DEF CursorIsOnTop, GoodPage
  <1>3. /\ \A i, j \in 1..Len(view') : i < j => Before(view'[i], view'[j])
        /\ \A i \in 1..Len(view') : view'[i].place = cur'
    BY DEF GoodPage
  <1>4. ASSUME Len(view') > 0, NEW r \in base'
        PROVE  \/ Shows(view', r)
               \/ ~ended' /\ Before(r, view'[1])
               \/ Before(view'[Len(view')], r)
    BY <1>4 DEF GoodPage
  <1>5. LogIsExact'
    BY <1>3, <1>4 DEF LogIsExact, Shows
  <1> QED
    BY <1>1, <1>2, <1>5

\* A further page continues the log, above.
LEMMA EarlierPageShown ==
  ASSUME PagingInv, UNCHANGED table, NEW f, GoodPage(f), f.room = cur, Len(view) > 0,
         GoesAbove(f), view' = f.rows \o view, base' = base, ended' = ~f.more, cur' = cur,
         cursor' = IF f.more THEN f.cursor ELSE First
  PROVE  BaseIsThere' /\ CursorIsOnTop' /\ LogIsExact'
  <1> DEFINE w == f.rows
             m == Len(w)
             n == Len(view')
  <1>1. /\ view' \in Seq(Rows) /\ m \in Nat /\ Len(view) \in Nat /\ n = m + Len(view)
        /\ \A i \in 1..m : i \in 1..n /\ view'[i] = w[i]
        /\ \A i \in 1..Len(view) : m + i \in 1..n /\ view'[m + i] = view[i]
        /\ \A i \in 1..n : i \in 1..m \/ (i > m /\ i - m \in 1..Len(view))
        /\ \A i \in 1..n : i \notin 1..m => view'[i] = view[i - m]
    BY ConcatIs DEF GoodPage, PagingInv, PagingTypes
  <1>2. /\ \A i \in 1..m : w[i] \in Rows /\ Keyed(w[i])
        /\ \A i \in 1..Len(view) : view[i] \in Rows /\ Keyed(view[i])
    BY ElementOfSeq, RowsAreKeyed DEF GoodPage, PagingInv, PagingTypes
  <1>3. /\ 1 \in 1..Len(view) /\ Len(view) \in 1..Len(view)
        /\ m > 0 => 1 \in 1..m
    BY <1>1
  <1>4. /\ \A i, j \in 1..m : i < j => Before(w[i], w[j])
        /\ \A i \in 1..m : w[i].place = cur /\ Before(w[i], view[1])
        /\ \A i \in 1..m, r \in base : w[i].id = r.id => w[i] = r
        /\ \A r \in base : Before(r, view[1]) => Shows(w, r) \/ (f.more /\ Before(r, w[1]))
        /\ f.more \in BOOLEAN /\ (f.more => m > 0)
        /\ f.cursor = IF m = 0 THEN First ELSE Key(w[1])
    BY DEF GoodPage, GoesAbove
  <1>5. /\ \A i, j \in 1..Len(view) : i < j => Before(view[i], view[j])
        /\ \A i \in 1..Len(view) : view[i].place = cur
        /\ \A r \in base : \/ Shows(view, r)
                           \/ ~ended /\ Before(r, view[1])
                           \/ Before(view[Len(view)], r)
    BY DEF PagingInv, LogIsExact
  <1>6. \A i \in 1..Len(view), r \in base : view[i].id = r.id => view[i] = r
    BY DEF PagingInv, BaseIsThere
  <1> HIDE DEF w, m, n
  <1>7. m > 0 => view'[1] = w[1]
    BY <1>1, <1>3
  <1>8. view'[n] = view[Len(view)]
    BY <1>1, <1>3
  <1>9. ASSUME NEW i \in 1..n, NEW j \in 1..n, i < j
        PROVE  Before(view'[i], view'[j])
    <2>1. CASE i \in 1..m /\ j \in 1..m
      BY <1>1, <1>4, <1>9, <2>1
    <2>2. CASE i \in 1..m /\ j \notin 1..m
      <3> DEFINE k == j - m
      <3>1. k \in 1..Len(view) /\ view'[j] = view[k] /\ view'[i] = w[i]
        BY <1>1, <2>2
      <3>2. k = 1 \/ 1 < k
        BY <1>1, <3>1
      <3> HIDE DEF k
      <3>3. Before(w[i], view[1]) /\ (view[k] = view[1] \/ Before(view[1], view[k]))
        BY <1>3, <1>4, <1>5, <2>2, <3>1, <3>2
      <3>4. Keyed(w[i]) /\ Keyed(view[1]) /\ Keyed(view[k])
        BY <1>2, <1>3, <2>2, <3>1
      <3>5. Before(w[i], view[k])
        BY <3>3, <3>4, OrderIsStrict
      <3> QED
        BY <3>1, <3>5
    <2>3. CASE i \notin 1..m
      <3> DEFINE h == i - m
                 k == j - m
      <3>1. j \notin 1..m
        BY <1>1, <1>9, <2>3
      <3>2. h < k
        BY <1>1, <1>9
      <3>3. h \in 1..Len(view) /\ view'[i] = view[h]
        BY <1>1, <2>3
      <3>4. k \in 1..Len(view) /\ view'[j] = view[k]
        BY <1>1, <3>1
      <3> HIDE DEF h, k
      <3> QED
        BY <1>5, <3>2, <3>3, <3>4
    <2> QED
      BY <2>1, <2>2, <2>3
  <1>10. ASSUME NEW i \in 1..n
         PROVE  /\ view'[i].place = cur
                /\ \A r \in base : view'[i].id = r.id => view'[i] = r
    <2>1. CASE i \in 1..m
      <3>1. view'[i] = w[i]
        BY <1>1, <2>1
      <3>2. w[i].place = cur /\ \A r \in base : w[i].id = r.id => w[i] = r
        BY <1>4, <2>1
      <3> QED
        BY <3>1, <3>2
    <2>2. CASE i \notin 1..m
      <3> DEFINE k == i - m
      <3>1. k \in 1..Len(view) /\ view'[i] = view[k]
        BY <1>1, <2>2
      <3> HIDE DEF k
      <3> QED
        BY <1>5, <1>6, <3>1
    <2> QED
      BY <2>1, <2>2
  <1>11. ASSUME NEW r \in base
         PROVE  \/ Shows(view', r)
                \/ ~ended' /\ Before(r, view'[1])
                \/ Before(view'[n], r)
    <2>1. CASE Shows(view, r)
      <3>1. PICK i \in 1..Len(view) : view[i] = r
        BY <2>1 DEF Shows
      <3>2. m + i \in 1..n /\ view'[m + i] = r
        BY <1>1, <3>1
      <3> QED
        BY <3>2 DEF Shows, n
    <2>2. CASE Before(view[Len(view)], r)
      BY <1>8, <2>2
    <2>3. CASE Before(r, view[1])
      <3>1. CASE Shows(w, r)
        <4>1. PICK i \in 1..m : w[i] = r
          BY <3>1 DEF Shows, m
        <4>2. i \in 1..n /\ view'[i] = r
          BY <1>1, <4>1
        <4> QED
          BY <4>2 DEF Shows, n
      <3>2. CASE f.more /\ Before(r, w[1])
        BY <1>4, <1>7, <3>2
      <3> QED
        BY <1>4, <2>3, <3>1, <3>2
    <2> QED
      BY <1>5, <2>1, <2>2, <2>3
  <1>12. BaseIsThere'
    <2>1. RowsOf(cur)' = RowsOf(cur)
      BY DEF RowsOf, Row
    <2>2. base' \subseteq RowsOf(cur)'
      BY <2>1 DEF PagingInv, BaseIsThere
    <2>3. \A i \in 1..Len(view'), r \in base' : view'[i].id = r.id => view'[i] = r
      BY <1>10 DEF n
    <2> QED
      BY <2>2, <2>3 DEF BaseIsThere
  <1>13. CursorIsOnTop'
    BY <1>4, <1>7 DEF CursorIsOnTop
  <1>14. LogIsExact'
    <2>1. \A r \in base' : \/ Shows(view', r)
                           \/ ~ended' /\ Before(r, view'[1])
                           \/ Before(view'[Len(view')], r)
      BY <1>11 DEF n
    <2>2. /\ \A i, j \in 1..Len(view') : i < j => Before(view'[i], view'[j])
          /\ \A i \in 1..Len(view') : view'[i].place = cur'
      BY <1>9, <1>10 DEF n
    <2> QED
      BY <2>1, <2>2 DEF LogIsExact, Shows
  <1> QED
    BY <1>12, <1>13, <1>14

LEMMA Paging ==
  ASSUME PagingInv, down # <<>>, down' = Tail(down), History(Head(down)),
         UNCHANGED <<serverVars, connected>>
  PROVE  PagingInv'
  <1> DEFINE f == Head(down)
  <1>1. /\ UNCHANGED <<table, dirty, room, connected, up, cur>>
        /\ f.type = "HISTORY" /\ busy' = FALSE /\ pos' = "append"
        /\ cursor' = IF f.more THEN f.cursor ELSE First
        /\ view' = (IF pos = "prepend" THEN f.rows \o view ELSE view \o f.rows)
        /\ ended' = ~f.more
        /\ base' = IF view = <<>> THEN f.there \cap RowsOf(f.room) ELSE base
    BY DEF serverVars, History, Show
  <1>2. IsPage(f) /\ ~IsMove(f)
    BY <1>1 DEF IsPage, IsMove
  <1>3. /\ connected /\ f = down[1] /\ 1 \in 1..Len(down) /\ f \in Answers
        /\ down' \in Seq(Answers) /\ LeadsTo(down', Len(down'), cur, room)
        /\ \A n \in 1..Len(down') :
             down'[n].type = "HISTORY" => LeadsTo(down', n, cur, down'[n].room)
        /\ \A i \in 1..Len(down') : ~IsPage(down'[i])
        /\ \A i \in 1..Len(up) : ~IsQuery(up[i])
    BY <1>2, Arriving
  <1>4. GoodPage(f) /\ f.cursor \in Keys /\ f.more \in BOOLEAN /\ f.rows \in Seq(Rows)
    BY <1>2, <1>3, AnswerKinds, PageFields DEF PagingInv, PagesAreGood
  <1>5. f.room = cur
    <2>1. LeadsTo(down, 1, cur, f.room)
      BY <1>1, <1>3 DEF PagingInv, RoomsAgree
    <2>2. \A i \in 1..1 : ~IsMove(down[i])
      BY <1>2, <1>3
    <2> QED
      BY <2>1, <2>2 DEF LeadsTo
  <1>6. Len(view) > 0 => GoesAbove(f)
    <2>1. \A i \in 1..1 : ~IsMove(down[i])
      BY <1>2, <1>3
    <2> QED
      BY <1>1, <1>3, <2>1 DEF PagingInv, SentAbove
  <1> HIDE DEF f
  <1>7. view \in Seq(Rows) /\ Len(view) \in Nat /\ (view = <<>> <=> Len(view) = 0)
    BY LenProperties, EmptySeq DEF PagingInv, PagingTypes
  <1>8. view' \in Seq(Rows) /\ BaseIsThere' /\ CursorIsOnTop' /\ LogIsExact'
    <2>1. CASE view = <<>>
      <3>1. view' = f.rows
        BY <1>1, <1>4, <2>1, ConcatEmptySeq
      <3>2. base' = f.there \cap RowsOf(cur)
        BY <1>1, <1>5, <2>1
      <3>3. BaseIsThere' /\ CursorIsOnTop' /\ LogIsExact'
        BY <1>1, <1>4, <1>5, <1>7, <2>1, <3>1, <3>2, FirstPageShown
      <3> QED
        BY <1>4, <3>1, <3>3
    <2>2. CASE view # <<>>
      <3>1. Len(view) > 0
        BY <1>7, <2>2
      <3>2. view' = f.rows \o view /\ base' = base
        BY <1>1, <1>6, <2>2, <3>1 DEF GoesAbove
      <3>3. BaseIsThere' /\ CursorIsOnTop' /\ LogIsExact'
        BY <1>1, <1>4, <1>5, <1>6, <3>1, <3>2, EarlierPageShown
      <3>4. view' \in Seq(Rows)
        BY <1>4, <1>7, <3>2, ConcatIs
      <3> QED
        BY <3>3, <3>4
    <2> QED
      BY <2>1, <2>2
  <1>9. PagingTypes'
    <2>1. cursor' \in Keys
      BY <1>1, <1>4, RowsAreKeyed
    <2> QED
      BY <1>1, <1>3, <1>8, <2>1 DEF PagingInv, PagingTypes, GoodTable
  <1>10. OneAtATime'
    BY <1>1, <1>3 DEF OneAtATime, IsQuery, IsPage
  <1>11. RoomsAgree'
    <2>1. /\ connected' /\ LeadsTo(down', Len(down'), cur', room')
          /\ \A n \in 1..Len(down') :
               down'[n].type = "HISTORY" => LeadsTo(down', n, cur', down'[n].room)
      BY <1>1, <1>3
    <2> QED
      BY <2>1, SMTT(60) DEF RoomsAgree, LeadsTo, IsMove, Target
  <1>12. PagesAreGood' /\ AskedAbove' /\ SentAbove'
    <2>1. \A i \in 1..Len(down') : down'[i].type # "HISTORY"
      BY <1>3 DEF IsPage
    <2>2. \A i \in 1..Len(up') : up'[i].type # "HIST"
      BY <1>1, <1>3 DEF IsQuery
    <2>3. PagesAreGood'
      BY <1>3 DEF PagesAreGood, IsPage
    <2> QED
      BY <2>1, <2>2, <2>3 DEF AskedAbove, SentAbove
  <1> QED
    BY <1>8, <1>9, <1>10, <1>11, <1>12 DEF PagingInv

LEMMA Receiving ==
  ASSUME PagingInv, Receive
  PROVE  PagingInv'
  <1> DEFINE f == Head(down)
  <1>1. /\ down # <<>> /\ down' = Tail(down)
        /\ UNCHANGED <<serverVars, connected, requests>>
    BY DEF Receive
  <1>2. CASE JoinOk(f) \/ LeaveOk(f)
    <2>1. /\ IsMove(f) /\ Enter(Target(f))
          /\ \/ UNCHANGED <<up, busy, pos>>
             \/ /\ ~busy /\ up' = Append(up, [type |-> "HIST", cursor |-> First])
                /\ busy' = TRUE /\ pos' = "append"
      BY <1>2 DEF JoinOk, LeaveOk, IsMove, Target
    <2> QED
      BY <1>1, <2>1, Moved
  <1>3. CASE History(f)
    BY <1>1, <1>3, Paging
  <1>4. CASE InboxPage(f) \/ Err(f)
    <2>1. /\ ~IsMove(f) /\ f.type # "HISTORY"
          /\ UNCHANGED <<up, cur, cursor, historyVars>>
          /\ \/ UNCHANGED <<busy, pos>>
             \/ IsPage(f) /\ busy' = FALSE /\ pos' = "append"
      BY <1>4 DEF InboxPage, Err, IsMove, IsPage, clientVars
    <2> QED
      BY <1>1, <2>1, Passed
  <1> QED
    BY <1>2, <1>3, <1>4 DEF Receive

\* Rows are written or rolled back.
LEMMA TableChanged ==
  ASSUME PagingInv, UNCHANGED <<room, up, down, clientVars, connected, view, ended>>,
         GoodTable(table'), dirty' \in 0..Len(table'),
         base' \subseteq base, base' \subseteq RowsOf(cur)'
  PROVE  PagingInv'
  <1>1. UNCHANGED <<room, up, down, cur, cursor, busy, pos, connected, view, ended>>
    BY DEF clientVars
  <1>2. PagingTypes'
    BY <1>1 DEF PagingInv, PagingTypes, GoodTable
  <1>3. OneAtATime' /\ RoomsAgree' /\ PagesAreGood' /\ CursorIsOnTop' /\ AskedAbove'
    <2>1. OneAtATime'
      BY <1>1 DEF PagingInv, OneAtATime, IsQuery, IsPage
    <2>2. RoomsAgree'
      BY <1>1, SMTT(60) DEF PagingInv, RoomsAgree, LeadsTo, IsMove, Target
    <2>3. PagesAreGood'
      <3>1. \A n \in 1..Len(down') : IsPage(down'[n]) => GoodPage(down'[n])
        BY <1>1 DEF PagingInv, PagesAreGood
      <3> QED
        BY <3>1, SMTT(60) DEF PagesAreGood, IsPage, GoodPage, Shows, IdsDiffer
    <2>4. CursorIsOnTop'
      BY <1>1 DEF PagingInv, CursorIsOnTop
    <2>5. AskedAbove'
      BY <1>1 DEF PagingInv, AskedAbove, IsMove
    <2> QED
      BY <2>1, <2>2, <2>3, <2>4, <2>5
  <1>4. BaseIsThere'
    BY <1>1 DEF PagingInv, BaseIsThere
  <1>5. SentAbove'
    <2>1. ASSUME NEW n \in 1..Len(down), down[n].type = "HISTORY", Len(view) > 0,
                 \A i \in 1..n : ~IsMove(down[i])
          PROVE  GoesAbove(down[n])
      BY <2>1 DEF PagingInv, SentAbove
    <2> QED
      BY <1>1, <2>1, SMTT(60) DEF SentAbove, IsMove, GoesAbove, Shows
  <1>6. LogIsExact'
    BY <1>1 DEF PagingInv, LogIsExact, Shows
  <1> QED
    BY <1>2, <1>3, <1>4, <1>5, <1>6 DEF PagingInv

LEMMA Writing ==
  ASSUME PagingInv, NEW p \in Written, NEW t \in 1..MaxTs, NEW s \in {1, FrameSize},
         Write(p, t, s)
  PROVE  PagingInv'
  <1> DEFINE row == [place |-> p, ts |-> t, size |-> s]
             Stored == [place : Rooms \cup {Inbox}, ts : Nat, size : Nat]
  <1>1. /\ table' = Append(table, row) /\ dirty' = dirty + 1
        /\ UNCHANGED <<room, up, down, clientVars, cur, connected, view, base, ended>>
    BY DEF Write, clientVars, historyVars
  <1>2. row \in Stored
    BY Constants
  <1>3. table \in Seq(Stored) /\ dirty \in 0..Len(table)
    BY DEF PagingInv, PagingTypes, GoodTable
  <1> HIDE DEF row, Stored
  <1>4. /\ table' \in Seq(Stored) /\ Len(table) \in Nat /\ Len(table') = Len(table) + 1
        /\ \A i \in 1..Len(table) : i \in 1..Len(table') /\ table'[i] = table[i]
    BY <1>1, <1>2, <1>3, AppendIs
  <1>5. DOMAIN table = 1..Len(table) /\ DOMAIN table' = 1..Len(table')
    BY <1>3, <1>4, LenProperties
  <1>6. GoodTable(table') /\ dirty' \in 0..Len(table')
    <2>1. dirty' \in 0..Len(table')
      BY <1>1, <1>3, <1>4
    <2> QED
      BY <1>4, <2>1 DEF GoodTable, Stored
  <1>7. base \subseteq RowsOf(cur)'
    <2>1. RowsOf(cur) \subseteq RowsOf(cur)'
      BY <1>1, <1>4, <1>5 DEF RowsOf, Row
    <2> QED
      BY <2>1 DEF PagingInv, BaseIsThere
  <1> QED
    BY <1>1, <1>6, <1>7, TableChanged

LEMMA Resolving ==
  ASSUME PagingInv, Resolve
  PROVE  PagingInv'
  <1> DEFINE Stored == [place : Rooms \cup {Inbox}, ts : Nat, size : Nat]
             n == Len(table) - dirty
  <1>1. /\ dirty' = 0
        /\ UNCHANGED <<room, up, down, clientVars, cur, connected, view, ended>>
    BY DEF Resolve, clientVars
  <1>2. table \in Seq(Stored) /\ dirty \in 0..Len(table) /\ Len(table) \in Nat
    BY LenProperties DEF PagingInv, PagingTypes, GoodTable
  <1>3. n \in 0..Len(table)
    BY <1>2
  <1>4. CASE UNCHANGED <<table, base>>
    <2>1. GoodTable(table') /\ dirty' \in 0..Len(table')
      BY <1>1, <1>2, <1>4 DEF GoodTable
    <2>2. base' \subseteq RowsOf(cur)'
      BY <1>1, <1>4 DEF PagingInv, BaseIsThere, RowsOf, Row
    <2> QED
      BY <1>1, <1>4, <2>1, <2>2, TableChanged
  <1>5. CASE /\ table' = SubSeq(table, 1, n)
             /\ base' = {r \in base : r.id <= Len(table')}
    <2> HIDE DEF n, Stored
    <2>1. /\ table' \in Seq(Stored) /\ Len(table') = n
          /\ \A i \in 1..n : i \in 1..Len(table) /\ table'[i] = table[i]
      <3>1. \A i \in 1..n : i \in 1..Len(table) /\ 1 + i - 1 = i
        BY <1>2, <1>3
      <3>2. \A i \in 1..n : table[i] \in Stored
        BY <1>2, <3>1, ElementOfSeq
      <3>3. 1 \in Int /\ n \in Int
        BY <1>2, <1>3
      <3>4. /\ SubSeq(table, 1, n) \in Seq(Stored)
            /\ Len(SubSeq(table, 1, n)) = IF 1 <= n THEN n - 1 + 1 ELSE 0
            /\ \A i \in 1 .. (n - 1 + 1) : SubSeq(table, 1, n)[i] = table[1 + i - 1]
        BY <3>2, <3>3, SubSeqProperties
      <3>5. n - 1 + 1 = n /\ (IF 1 <= n THEN n - 1 + 1 ELSE 0) = n
        BY <1>2, <1>3
      <3> QED
        BY <1>5, <3>1, <3>4, <3>5
    <2>2. DOMAIN table = 1..Len(table) /\ DOMAIN table' = 1..n
      BY <1>2, <2>1, LenProperties
    <2>3. GoodTable(table') /\ dirty' \in 0..Len(table')
      BY <1>1, <1>2, <1>3, <2>1 DEF GoodTable, Stored
    <2>4. ASSUME NEW r \in base' PROVE r \in RowsOf(cur)'
      <3>1. r \in RowsOf(cur) /\ r.id <= n
        BY <1>5, <2>1, <2>4 DEF PagingInv, BaseIsThere
      <3>2. PICK i \in DOMAIN table : table[i].place = cur /\ r = Row(i)
        BY <3>1 DEF RowsOf
      <3>3. r.id = i
        BY <3>2 DEF Row
      <3>4. i \in 1..n
        BY <1>2, <1>3, <2>2, <3>1, <3>2, <3>3
      <3>5. i \in DOMAIN table' /\ table'[i] = table[i]
        BY <2>1, <2>2, <3>4
      <3>6. table'[i].place = cur' /\ r = Row(i)'
        BY <1>1, <3>2, <3>5 DEF Row
      <3> QED
        BY <3>5, <3>6 DEF RowsOf
    <2> QED
      BY <1>1, <1>5, <2>3, <2>4, TableChanged
  <1> QED
    BY <1>4, <1>5 DEF Resolve

\* A client without a log, with nothing on its way but the room it is in.
LEMMA NothingOnItsWay ==
  ASSUME PagingTypes', up' = <<>>, cur' = NoRoom, view' = <<>>, base' \subseteq RowsOf(cur)',
         \/ down' = <<>> /\ (connected' => room' = NoRoom)
         \/ /\ connected' /\ room' \in Rooms
            /\ down' = <<[type |-> "JOIN_OK", room |-> room']>>
  PROVE  PagingInv'
  <1>1. Len(up') = 0 /\ Len(view') = 0
    BY EmptySeq
  <1>2. \A i \in 1..Len(down') : i = 1 /\ Len(down') = 1 /\ ~IsPage(down'[i])
                                 /\ down'[i].type # "HISTORY" /\ IsMove(down'[i])
                                 /\ Target(down'[i]) = room'
    <2>1. CASE down' = <<>>
      <3>1. Len(down') = 0
        BY <2>1
      <3> QED
        BY <3>1
    <2>2. CASE down' = <<[type |-> "JOIN_OK", room |-> room']>>
      <3>1. Len(down') = 1 /\ down'[1] = [type |-> "JOIN_OK", room |-> room']
        BY <2>2
      <3>2. \A i \in 1..Len(down') : i = 1
        BY <3>1
      <3> QED
        BY <3>1, <3>2 DEF IsPage, IsMove, Target
    <2> QED
      BY <2>1, <2>2
  <1>3. OneAtATime'
    BY <1>1, <1>2 DEF OneAtATime, IsPage
  <1>4. RoomsAgree'
    <2>1. ASSUME connected' PROVE LeadsTo(down', Len(down'), cur', room')
      <3>1. CASE down' = <<>> /\ room' = NoRoom
        <4>1. Len(down') = 0
          BY <3>1
        <4> QED
          BY <3>1, <4>1 DEF LeadsTo
      <3>2. CASE down' = <<[type |-> "JOIN_OK", room |-> room']>>
        <4>1. Len(down') = 1
          BY <3>2
        <4>2. 1 \in 1..Len(down') /\ \A i \in 1..Len(down') : ~(i > 1)
          BY <4>1
        <4> QED
          BY <1>2, <4>1, <4>2 DEF LeadsTo
      <3> QED
        BY <2>1, <3>1, <3>2
    <2>2. ~connected' => up' = <<>> /\ down' = <<>> /\ cur' = NoRoom /\ view' = <<>>
      OBVIOUS
    <2> QED
      BY <1>2, <2>1, <2>2, SMTT(60) DEF RoomsAgree, LeadsTo, IsMove, Target
  <1>5. PagesAreGood'
    BY <1>2 DEF PagesAreGood, IsPage
  <1>6. BaseIsThere' /\ CursorIsOnTop' /\ AskedAbove' /\ SentAbove' /\ LogIsExact'
    <2>1. ~(Len(view') > 0) /\ \A i \in 1..Len(view') : FALSE
      BY <1>1
    <2>2. BaseIsThere'
      BY <2>1 DEF BaseIsThere
    <2>3. LogIsExact'
      BY <2>1 DEF LogIsExact
    <2> QED
      BY <2>1, <2>2, <2>3 DEF CursorIsOnTop, AskedAbove, SentAbove
  <1> QED
    BY <1>3, <1>4, <1>5, <1>6 DEF PagingInv

\* What the user does.
LEMMA Using ==
  ASSUME PagingInv, (\E r \in Rooms : JoinRoom(r)) \/ LeaveRoom \/ FetchOlder \/ FetchInbox
  PROVE  PagingInv'
  <1>1. CASE LeaveRoom
    <2> DEFINE f == [type |-> "LEAVE"]
    <2>1. f \in Asks /\ ~IsQuery(f) /\ f.type = "LEAVE"
      BY AskKinds DEF IsQuery
    <2>2. up' = Append(up, f)
      BY <1>1 DEF LeaveRoom, Send
    <2>3. /\ connected /\ UNCHANGED <<serverVars, down, cur, connected, historyVars>>
          /\ cursor' = cursor /\ UNCHANGED <<busy, pos>>
      BY <1>1 DEF LeaveRoom, clientVars
    <2> HIDE DEF f
    <2> QED
      BY <2>1, <2>2, <2>3, Asking
  <1>2. CASE FetchOlder
    <2> DEFINE f == [type |-> "HIST", cursor |-> cursor]
    <2>1. f \in Asks /\ IsQuery(f) /\ f.cursor = cursor
      BY AskKinds DEF IsQuery, PagingInv, PagingTypes
    <2>2. up' = Append(up, f)
      BY <1>2 DEF FetchOlder, Fetch, Send
    <2>3. /\ connected /\ UNCHANGED <<serverVars, down, cur, connected, historyVars>>
          /\ cursor' = cursor /\ ~busy /\ busy' = TRUE /\ pos' = "prepend"
      BY <1>2 DEF FetchOlder, Fetch
    <2>4. Len(view) > 0 => cursor # First /\ cursor = Key(view[1])
      BY <1>2 DEF FetchOlder, PagingInv, CursorIsOnTop
    <2> HIDE DEF f
    <2> QED
      BY <2>1, <2>2, <2>3, <2>4, Asking
  <1>3. CASE FetchInbox
    <2> DEFINE f == [type |-> "INBOX"]
    <2>1. f \in Asks /\ IsQuery(f) /\ f.type = "INBOX"
      BY AskKinds DEF IsQuery
    <2>2. up' = Append(up, f)
      BY <1>3 DEF FetchInbox, Fetch, Send
    <2>3. /\ connected /\ UNCHANGED <<serverVars, down, cur, connected, historyVars>>
          /\ cursor' = cursor /\ ~busy /\ busy' = TRUE /\ pos' = "append"
      BY <1>3 DEF FetchInbox, Fetch
    <2> HIDE DEF f
    <2> QED
      BY <2>1, <2>2, <2>3, Asking
  <1>4. ASSUME NEW r \in Rooms, JoinRoom(r) PROVE PagingInv'
    <2>1. /\ UNCHANGED <<serverVars, down, cur, busy, pos, connected, historyVars>>
          /\ cursor' = First
      BY <1>4 DEF JoinRoom
    <2>2. CASE connected
      <3> DEFINE f == [type |-> "JOIN", room |-> r]
      <3>1. f \in Asks /\ ~IsQuery(f) /\ f.type = "JOIN"
        BY AskKinds DEF IsQuery
      <3>2. up' = Append(up, f)
        BY <1>4, <2>2 DEF JoinRoom, Send
      <3> HIDE DEF f
      <3> QED
        BY <2>1, <2>2, <3>1, <3>2, Asking
    <2>3. CASE ~connected
      <3>1. UNCHANGED <<table, dirty, room, up, down, cur, busy, pos, connected, view, base,
                        ended>>
        BY <1>4, <2>1, <2>3 DEF JoinRoom, serverVars, historyVars
      <3>2. /\ up' = <<>> /\ down' = <<>> /\ cur' = NoRoom /\ view' = <<>> /\ connected' = FALSE
            /\ base \subseteq RowsOf(cur)'
        BY <2>3, <3>1 DEF PagingInv, RoomsAgree, BaseIsThere, PagingTypes, RowsOf, Row
      <3>3. PagingTypes'
        BY <2>1, <3>1, RowsAreKeyed DEF PagingInv, PagingTypes, GoodTable
      <3> QED
        BY <3>1, <3>2, <3>3, NothingOnItsWay
    <2> QED
      BY <2>2, <2>3 DEF PagingInv, PagingTypes
  <1> QED
    BY <1>1, <1>2, <1>3, <1>4

LEMMA Breaking ==
  ASSUME PagingInv, Break \/ Reconnect
  PROVE  PagingInv'
  <1>1. CASE Break
    <2>1. /\ up' = <<>> /\ down' = <<>> /\ cur' = NoRoom /\ view' = <<>> /\ base' = {}
          /\ connected' = FALSE /\ room' \in {room, NoRoom}
          /\ UNCHANGED <<table, dirty, cursor, busy, pos>>
      BY <1>1 DEF Break
    <2>2. up' \in Seq(Asks) /\ down' \in Seq(Answers) /\ view' \in Seq(Rows)
      BY <2>1, EmptySeq
    <2>3. PagingTypes'
      BY <2>1, <2>2 DEF PagingInv, PagingTypes, GoodTable
    <2> QED
      BY <2>1, <2>3, NothingOnItsWay
  <1>2. CASE Reconnect
    <2>1. /\ UNCHANGED <<table, dirty, room, up, cur, cursor, busy, pos, view, base, ended>>
          /\ connected' = TRUE /\ up' = <<>> /\ cur' = NoRoom /\ view' = <<>>
          /\ down' = IF room = NoRoom THEN <<>> ELSE <<[type |-> "JOIN_OK", room |-> room]>>
      BY <1>2 DEF Reconnect, serverVars, clientVars, historyVars, PagingInv, RoomsAgree
    <2>2. room \in Rooms \cup {NoRoom}
      BY DEF PagingInv, PagingTypes
    <2>3. down' \in Seq(Answers)
      <3>1. CASE room = NoRoom
        BY <2>1, <3>1, EmptySeq
      <3>2. CASE room # NoRoom
        <4> DEFINE f == [type |-> "JOIN_OK", room |-> room]
        <4>1. f \in Answers
          BY <2>2, <3>2, AnswerKinds
        <4>2. down' = <<f>>
          BY <2>1, <3>2
        <4> HIDE DEF f
        <4> QED
          BY <4>1, <4>2
      <3> QED
        BY <3>1, <3>2
    <2>4. PagingTypes'
      BY <2>1, <2>3 DEF PagingInv, PagingTypes, GoodTable
    <2>5. base' \subseteq RowsOf(cur)'
      BY <2>1 DEF PagingInv, BaseIsThere, RowsOf, Row
    <2>6. \/ down' = <<>> /\ room' = NoRoom
          \/ /\ room' \in Rooms
             /\ down' = <<[type |-> "JOIN_OK", room |-> room']>>
      BY <2>1, <2>2
    <2> QED
      BY <2>1, <2>4, <2>5, <2>6, NothingOnItsWay
  <1> QED
    BY <1>1, <1>2

\* Every step keeps the invariant.
LEMMA InvariantHolds == Spec => []PagingInv
  <1>1. Init => PagingInv
    <2> SUFFICES ASSUME Init PROVE PagingInv
      OBVIOUS
    <2>1. /\ table = <<>> /\ dirty = 0 /\ room = NoRoom /\ up = <<>> /\ down = <<>>
          /\ connected = TRUE /\ cur = NoRoom /\ cursor = First /\ busy = FALSE
          /\ pos = "append" /\ view = <<>> /\ base = {}
      BY DEF Init
    <2>2. Len(up) = 0 /\ Len(down) = 0 /\ Len(view) = 0 /\ Len(table) = 0
      BY <2>1, EmptySeq
    <2>3. PagingTypes
      <3>1. /\ up \in Seq(Asks) /\ down \in Seq(Answers) /\ view \in Seq(Rows)
            /\ GoodTable(table)
        BY <2>1, EmptySeq DEF GoodTable
      <3>2. dirty \in 0..Len(table)
        BY <2>1, <2>2
      <3> QED
        BY <2>1, <3>1, <3>2, RowsAreKeyed DEF PagingTypes
    <2>4. ~(Len(view) > 0) /\ (\A i \in 1..Len(view) : FALSE)
          /\ (\A i \in 1..Len(up) : FALSE) /\ (\A i \in 1..Len(down) : FALSE)
      BY <2>2
    <2>5. OneAtATime /\ PagesAreGood /\ CursorIsOnTop /\ AskedAbove /\ SentAbove
      BY <2>4 DEF OneAtATime, PagesAreGood, CursorIsOnTop, AskedAbove, SentAbove
    <2>6. BaseIsThere /\ LogIsExact
      BY <2>1, <2>4 DEF BaseIsThere, LogIsExact
    <2>7. RoomsAgree
      BY <2>1, <2>4, SMTT(60) DEF RoomsAgree, LeadsTo
    <2> QED
      BY <2>3, <2>5, <2>6, <2>7 DEF PagingInv
  <1>2. PagingInv /\ [Next]_vars => PagingInv'
    <2> SUFFICES ASSUME PagingInv, [Next]_vars PROVE PagingInv'
      OBVIOUS
    <2>1. ASSUME NEW p \in Written, NEW t \in 1..MaxTs, NEW s \in {1, FrameSize},
                 Write(p, t, s)
          PROVE  PagingInv'
      BY <2>1, Writing
    <2>2. CASE Resolve
      BY <2>2, Resolving
    <2>3. CASE Serve
      BY <2>3, Serving
    <2>4. CASE Receive
      BY <2>4, Receiving
    <2>5. CASE (\E r \in Rooms : JoinRoom(r)) \/ LeaveRoom \/ FetchOlder \/ FetchInbox
      BY <2>5, Using
    <2>6. CASE Break \/ Reconnect
      BY <2>6, Breaking
    <2>7. CASE UNCHANGED vars
      <3>1. UNCHANGED <<table, dirty, room, up, down, clientVars, cur, connected, view, base,
                        ended>>
        BY <2>7 DEF vars, serverVars, clientVars, historyVars
      <3>2. GoodTable(table') /\ dirty' \in 0..Len(table') /\ base' \subseteq RowsOf(cur)'
        BY <3>1 DEF PagingInv, PagingTypes, GoodTable, BaseIsThere, RowsOf, Row
      <3> QED
        BY <3>1, <3>2, TableChanged
    <2> QED
      BY <2>1, <2>2, <2>3, <2>4, <2>5, <2>6, <2>7 DEF Next
  <1> QED
    BY <1>1, <1>2, PTL DEF Spec

-----------------------------------------------------------------------------
(* The theorems.                                                           *)

\* Every variable of the model keeps its type, no page holds more than
\* kHistPageSize rows (doHist, doInbox), and the client awaits at most one page
\* (_hist_busy), for any rooms and sizes.
THEOREM TypeCorrect == Spec => []TypeOK
  <1>1. ASSUME PagingInv PROVE TypeOK
    <2> DEFINE asked    == {n \in DOMAIN up : up[n].type \in {"HIST", "INBOX"}}
               answered == {n \in DOMAIN down : down[n].type \in {"HISTORY", "INBOX"}}
    <2>1. DOMAIN up = 1..Len(up) /\ DOMAIN down = 1..Len(down)
      BY <1>1, LenProperties DEF PagingInv, PagingTypes
    <2>2. /\ dirty \in 0..Len(table) /\ room \in Rooms \cup {NoRoom}
          /\ cur \in Rooms \cup {NoRoom} /\ busy \in BOOLEAN /\ pos \in {"append", "prepend"}
      BY <1>1 DEF PagingInv, PagingTypes
    <2>3. \A n \in DOMAIN down : down[n].type \in {"HISTORY", "INBOX"} =>
            Len(down[n].rows) <= PageSize
      BY <1>1, <2>1, SMTT(60) DEF PagingInv, PagesAreGood, IsPage, GoodPage
    <2>4. /\ \A i, j \in asked : i = j
          /\ \A i, j \in answered : i = j
          /\ asked = {} \/ answered = {}
          /\ asked # {} \/ answered # {} => busy
      BY <1>1, <2>1 DEF PagingInv, OneAtATime, IsQuery, IsPage
    <2> HIDE DEF asked, answered
    <2>5. Cardinality({}) = 0 /\ \A n : Cardinality({n}) = 1
      BY FS_EmptySet, FS_Singleton
    <2>6. /\ asked = {} \/ \E n : asked = {n}
          /\ answered = {} \/ \E n : answered = {n}
      BY <2>4
    <2>7. Cardinality(asked) + Cardinality(answered) <= IF busy THEN 1 ELSE 0
      <3>1. CASE asked = {} /\ answered = {}
        BY <2>2, <2>5, <3>1
      <3>2. CASE asked = {} /\ answered # {}
        BY <2>4, <2>5, <2>6, <3>2
      <3>3. CASE asked # {} /\ answered = {}
        BY <2>4, <2>5, <2>6, <3>3
      <3> QED
        BY <2>4, <3>1, <3>2, <3>3
    <2> QED
      BY <2>2, <2>3, <2>7 DEF TypeOK, asked, answered
  <1> QED
    BY <1>1, InvariantHolds, PTL

\* The log a client shows is, of its room's history, all that is between its
\* first row and its last, oldest first, without a repetition, a gap or a row of
\* another room, whatever is written, rolled back, left, entered or disconnected
\* meanwhile (doHist, doInbox, history_before, _dispatch, on_history).
THEOREM PagesExact == Spec => []PagesAreExact
  <1>1. ASSUME PagingInv PROVE PagesAreExact
    <2>1. /\ view \in Seq(Rows) /\ Len(view) \in Nat /\ DOMAIN view = 1..Len(view)
          /\ (view # <<>> => Len(view) > 0) /\ (view # <<>> => Head(view) = view[1])
      BY <1>1, LenProperties, EmptySeq, HeadTailProperties DEF PagingInv, PagingTypes
    <2>2. \A i \in 1..Len(view) : Keyed(view[i])
      BY <2>1, ElementOfSeq, RowsAreKeyed
    <2>3. \A r \in base : Keyed(r)
      BY <1>1, RowsAreRows DEF PagingInv, PagingTypes, BaseIsThere
    <2>4. PagesRepeatNothing
      <3> SUFFICES ASSUME NEW i \in 1..Len(view), NEW j \in 1..Len(view), i < j
                   PROVE  Older(Key(view[i]), Key(view[j]))
        BY <2>1 DEF PagesRepeatNothing
      <3>1. Before(view[i], view[j])
        BY <1>1 DEF PagingInv, LogIsExact
      <3> QED
        BY <2>2, <3>1, KeyOrders, OlderIsBefore
    <2>5. PagesSkipNothing
      <3> SUFFICES ASSUME view # <<>>, NEW r \in base, Older(r, Key(Last(view))),
                          ended \/ Older(Key(Head(view)), r)
                   PROVE  r \in Range(view)
        BY DEF PagesSkipNothing
      <3>1. Len(view) > 0 /\ 1 \in 1..Len(view) /\ Len(view) \in 1..Len(view)
        BY <2>1
      <3>2. Before(r, view[Len(view)])
        BY <2>2, <2>3, <3>1, KeyOrders, OlderIsBefore DEF Last
      <3>3. ended \/ Before(view[1], r)
        BY <2>1, <2>2, <2>3, <3>1, KeyOrders, OlderIsBefore
      <3>4. ~Before(view[Len(view)], r) /\ (ended \/ ~Before(r, view[1]))
        BY <2>2, <2>3, <3>1, <3>2, <3>3, OrderIsStrict
      <3>5. Shows(view, r)
        BY <1>1, <3>1, <3>4 DEF PagingInv, LogIsExact
      <3> QED
        BY <2>1, <3>5 DEF Shows, Range
    <2>6. PagesAreOfTheRoom
      BY <1>1, <2>1 DEF PagingInv, LogIsExact, PagesAreOfTheRoom
    <2> QED
      BY <2>4, <2>5, <2>6 DEF PagesAreExact
  <1> QED
    BY <1>1, InvariantHolds, PTL
=============================================================================
