-------------------------- MODULE AlgorithmsProofs --------------------------
(***************************************************************************)
(* Theorems about six of the parts of Algorithms, each with a state of its *)
(* own: the rate limiter, for any rates, keys and clocks; the log's files, *)
(* for any days and directories; the frame layer, for any base, sizes and  *)
(* bodies; SHA-256's block layer, for any sizes and messages; the word     *)
(* filter, for any list of words and any texts; and the load generator's   *)
(* report, for any threads, messages and answers.                          *)
(***************************************************************************)
EXTENDS RateLimiter, Log, Framing, Sha256, WordFilter, Bench,
        FiniteSetTheorems, SequenceTheorems, WellFoundedInduction, TLAPS

LogSpec == LogInit /\ [][LogNext]_logVars
FramingSpec == FramingInit /\ [][FramingNext]_framingVars
ShaSpec == ShaInit /\ [][ShaNext]_shaVars
FilterSpec == FilterInit /\ [][FilterNext]_filterVars
BenchSpec == BenchInit /\ [][BenchNext]_benchVars

-----------------------------------------------------------------------------
(* Induction.                                                              *)

\* The least-number principle.
LEMMA LeastNumber ==
  ASSUME NEW T \in SUBSET Nat, T # {}
  PROVE  \E x \in T : \A y \in T : x <= y
  <1>1. PICK x \in T : \A y \in T : ~(<<y, x>> \in OpToRel(<, Nat))
    BY WFMin, NatLessThanWellFounded
  <1>2. ASSUME NEW y \in T
        PROVE  x <= y
    <2>1. ~(<<y, x>> \in OpToRel(<, Nat))
      BY <1>1
    <2>2. <<y, x>> \in Nat \X Nat /\ <<y, x>>[1] = y /\ <<y, x>>[2] = x
      OBVIOUS
    <2>3. ~(y < x)
      BY <2>1, <2>2 DEF OpToRel
    <2> QED
      BY <2>3
  <1> QED
    BY <1>2

\* Induction, for a property of numbers that is given as the set that has it.
LEMMA NumbersInduction ==
  ASSUME NEW T, 0 \in T, \A n \in Nat : n \in T => n + 1 \in T
  PROVE  Nat \subseteq T
  <1> SUFFICES ASSUME Nat \ T # {} PROVE FALSE
    OBVIOUS
  <1>1. PICK x \in Nat \ T : \A y \in Nat \ T : x <= y
    BY LeastNumber
  <1>2. x # 0 /\ x - 1 \in Nat /\ (x - 1) + 1 = x /\ ~(x <= x - 1)
    BY <1>1
  <1>3. x - 1 \in T
    BY <1>1, <1>2
  <1> QED
    BY <1>1, <1>2, <1>3

\* f lists the states of a loop over 1..n that starts with c and whose step
\* takes the state k - 1 to the state k.
IsLoop(f, n, S, c, step) ==
  /\ f \in [0..n -> S]
  /\ f[0] = c
  /\ \A k \in 1..n : f[k] = step[<<k, f[k - 1]>>]

\* There is one.
LEMMA LoopExists ==
  ASSUME NEW n \in Nat, NEW S, NEW c \in S, NEW step \in [(1..n) \X S -> S]
  PROVE  \E f : IsLoop(f, n, S, c, step)
  <1> DEFINE P(m) == \E f \in [0..m -> S] :
                       /\ f[0] = c
                       /\ \A k \in 1..m : f[k] = step[<<k, f[k - 1]>>]
             T == {m \in Nat : m <= n => P(m)}
  <1>1. 0 \in T
    <2>1. P(0)
      <3> DEFINE f == [k \in 0..0 |-> c]
      <3>1. f \in [0..0 -> S] /\ f[0] = c /\ 1..0 = {}
        OBVIOUS
      <3> QED
        BY <3>1
    <2> QED
      BY <2>1
  <1>2. ASSUME NEW m \in Nat, m \in T, m + 1 <= n
        PROVE  P(m + 1)
    <2>1. m <= n
      BY <1>2
    <2>2. PICK f \in [0..m -> S] : /\ f[0] = c
                                   /\ \A k \in 1..m : f[k] = step[<<k, f[k - 1]>>]
      BY <1>2, <2>1
    <2> DEFINE g == [k \in 0..m + 1 |-> IF k = m + 1 THEN step[<<m + 1, f[m]>>] ELSE f[k]]
    <2>3. step[<<m + 1, f[m]>>] \in S
      <3>1. m + 1 \in 1..n /\ f[m] \in S
        BY <1>2, <2>2
      <3>2. <<m + 1, f[m]>> \in (1..n) \X S
        BY <3>1
      <3> QED
        BY <3>2
    <2>4. g \in [0..m + 1 -> S] /\ g[0] = c
      BY <2>2, <2>3
    <2>5. ASSUME NEW k \in 1..m + 1 PROVE g[k] = step[<<k, g[k - 1]>>]
      <3>1. CASE k = m + 1
        <4>1. k - 1 = m /\ m \in 0..m + 1 /\ m # m + 1 /\ k \in 0..m + 1
          BY <3>1
        <4>2. g[k - 1] = f[m] /\ g[k] = step[<<m + 1, f[m]>>]
          BY <3>1, <4>1
        <4> QED
          BY <3>1, <4>2
      <3>2. CASE k # m + 1
        <4>1. k \in 1..m /\ k \in 0..m + 1 /\ k - 1 \in 0..m + 1 /\ k - 1 # m + 1
          BY <3>2
        <4>2. g[k - 1] = f[k - 1] /\ g[k] = f[k]
          BY <3>2, <4>1
        <4> QED
          BY <2>2, <4>1, <4>2
      <3> QED
        BY <3>1, <3>2
    <2> HIDE DEF g
    <2> QED
      BY <2>4, <2>5
  <1>3. \A m \in Nat : m \in T => m + 1 \in T
    <2> SUFFICES ASSUME NEW m \in Nat, m \in T PROVE m + 1 \in T
      OBVIOUS
    <2>1. m + 1 <= n => P(m + 1)
      BY <1>2
    <2> HIDE DEF P
    <2> QED
      BY <2>1
  <1> HIDE DEF T
  <1>4. n \in T
    BY <1>1, <1>3, NumbersInduction
  <1> QED
    BY <1>4 DEF T, IsLoop

-----------------------------------------------------------------------------
(* The log.                                                                *)

\* A file that is open is in a directory, and is that of open_date.
LogInv ==
  /\ LinesAreInTheirDaysFile
  /\ opened # NoFile => opened.date = openDate /\ opened.dir # NoDir

\* The file that ensure_file_locked leaves open is today's.
LEMMA EnsureOpensToday ==
  ASSUME LogInv, NEW d \in Dirs \cup {NoDir}, NEW ok \in BOOLEAN
  PROVE  LET f == Ensure(d, ok)
         IN f.opened # NoFile =>
              /\ f.opened.date = f.openDate /\ f.opened.dir # NoDir
              /\ d # NoDir => f.openDate = day
  <1>1. CASE d = NoDir \/ (opened # NoFile /\ openDate = day)
    BY <1>1 DEF Ensure, LogInv
  <1>2. CASE d # NoDir /\ ~(opened # NoFile /\ openDate = day)
    BY <1>2 DEF Ensure
  <1> QED
    BY <1>1, <1>2

\* Every line that is kept is in the file of the day it was written on
\* (ensure_file_locked), for any number of days, files and clocks set back.
THEOREM LinesGoToTheirDay == LogSpec => []LinesAreInTheirDaysFile
  <1> DEFINE Typed == dir \in Dirs \cup {NoDir}
  <1>1. LogInit => Typed /\ LogInv
    BY DEF LogInit, LogInv, LinesAreInTheirDaysFile
  <1>2. Typed /\ LogInv /\ [LogNext]_logVars => (Typed /\ LogInv)'
    <2> SUFFICES ASSUME Typed, LogInv, [LogNext]_logVars PROVE (Typed /\ LogInv)'
      OBVIOUS
    <2>1. ASSUME NEW d \in Dirs \cup {NoDir}, NEW lv \in Levels, NEW ok \in BOOLEAN,
                 LogSetup(d, lv, ok)
          PROVE  (Typed /\ LogInv)'
      <3>1. opened' # NoFile => opened'.date = openDate' /\ opened'.dir # NoDir
        BY <2>1, EnsureOpensToday DEF LogSetup
      <3> QED
        BY <2>1, <3>1 DEF LogSetup, LogInv, LinesAreInTheirDaysFile
    <2>2. CASE LogShutdown
      BY <2>2 DEF LogShutdown, LogInv, LinesAreInTheirDaysFile
    <2>3. ASSUME NEW lv \in Levels, NEW ok \in BOOLEAN, NEW stored \in BOOLEAN,
                 LogWrite(lv, ok, stored)
          PROVE  (Typed /\ LogInv)'
      <3>1. /\ dir # NoDir /\ dir' = dir
            /\ opened' = Ensure(dir, ok).opened /\ openDate' = Ensure(dir, ok).openDate
            /\ \/ lines' = lines
               \/ /\ opened' # NoFile
                  /\ lines' = lines \cup {[level |-> lv, date |-> day, file |-> opened']}
        BY <2>3 DEF LogWrite
      <3>2. opened' # NoFile =>
              opened'.date = openDate' /\ opened'.dir # NoDir /\ openDate' = day
        BY <3>1, EnsureOpensToday
      <3>3. ASSUME NEW l \in lines'
            PROVE  l.file.date = l.date /\ l.file.dir # NoDir
        BY <3>1, <3>2 DEF LogInv, LinesAreInTheirDaysFile
      <3> QED
        BY <3>1, <3>2, <3>3 DEF LogInv, LinesAreInTheirDaysFile
    <2>4. ASSUME NEW d \in 1..MaxDay, DayChanges(d)
          PROVE  (Typed /\ LogInv)'
      BY <2>4 DEF DayChanges, LogInv, LinesAreInTheirDaysFile
    <2>5. CASE UNCHANGED logVars
      BY <2>5 DEF logVars, LogInv, LinesAreInTheirDaysFile
    <2> QED
      BY <2>1, <2>2, <2>3, <2>4, <2>5 DEF LogNext
  <1>3. LogInv => LinesAreInTheirDaysFile
    BY DEF LogInv
  <1> QED
    BY <1>1, <1>2, <1>3, PTL DEF LogSpec

-----------------------------------------------------------------------------
(* The limiter: its table.                                                 *)

Buckets == [tokens : 0..Burst, refilled : Start..clock, seen : Start..clock]

\* The types of a limiter's state, and the bound of its table.
LimiterTypes ==
  /\ clock \in Nat /\ clock >= Start
  /\ table \in [DOMAIN table -> Buckets]
  /\ DOMAIN table \subseteq Keys /\ IsFiniteSet(DOMAIN table)
  /\ granted \in [Keys -> Nat] /\ early \in [Keys -> Nat]
  /\ TableIsBounded

LEMMA Numbers ==
  /\ Rate \in Nat /\ Burst \in Nat /\ Unit \in Nat /\ MaxKeys \in Nat /\ IdleGc \in Nat
  /\ Unit > 0 /\ MaxKeys > 1
  /\ Start \in Nat /\ Start > 0 /\ Skew \in Nat /\ Keys \subseteq Nat
  BY RateLimiterAssumption, CallersAssumption

\* gc_locked drops one key at least when it cannot spare any.
LEMMA FirstHalfIsSome ==
  ASSUME NEW S \in SUBSET Nat, IsFiniteSet(S), Cardinality(S) > 1
  PROVE  FirstHalf(S) # {}
  <1>1. S # {}
    BY FS_EmptySet
  <1>2. PICK x \in S : \A y \in S : x <= y
    BY <1>1, LeastNumber
  <1>3. {j \in S : j < x} = {}
    <2>1. \A j \in S : ~(j < x)
      BY <1>2
    <2> QED
      BY <2>1
  <1>4. Cardinality({j \in S : j < x}) = 0
    BY <1>3, FS_EmptySet
  <1>5. Cardinality(S) \div 2 > 0
    <2>1. Cardinality(S) \in Nat
      BY FS_CardinalityType
    <2> QED
      BY <2>1
  <1>6. x \in FirstHalf(S)
    BY <1>4, <1>5 DEF FirstHalf
  <1> QED
    BY <1>6

\* After gc_locked there is room for one more.
LEMMA GcMakesRoom ==
  ASSUME LimiterTypes, NEW now
  PROVE  LET left == Recent(table, now) \ Forced(table, now)
         IN /\ IsFiniteSet(left) /\ left \subseteq DOMAIN table
            /\ Cardinality(left) < MaxKeys
  <1> DEFINE R == Recent(table, now)
             F == Forced(table, now)
             N == Cardinality(R)
  <1>1. R \subseteq DOMAIN table /\ R \in SUBSET Nat
    BY Numbers DEF Recent, LimiterTypes
  <1>2. IsFiniteSet(R)
    BY <1>1, FS_Subset DEF LimiterTypes
  <1>3. N \in Nat /\ N <= MaxKeys
    <2>1. N <= Cardinality(DOMAIN table) /\ Cardinality(DOMAIN table) \in Nat
      BY <1>1, FS_Subset, FS_CardinalityType DEF LimiterTypes
    <2>2. N \in Nat
      BY <1>2, FS_CardinalityType
    <2> QED
      BY <2>1, <2>2, Numbers DEF LimiterTypes, TableIsBounded
  <1>4. IsFiniteSet(R \ F) /\ R \ F \subseteq R
    BY <1>2, FS_Difference
  <1>5. Cardinality(R \ F) < MaxKeys
    <2>1. CASE N >= MaxKeys
      <3>1. F = FirstHalf(R) /\ F \subseteq R
        BY <2>1 DEF Forced, FirstHalf
      <3>2. F # {}
        BY <1>1, <1>2, <1>3, <2>1, <3>1, FirstHalfIsSome, Numbers
      <3>3. R \ F # R
        BY <3>1, <3>2
      <3>4. Cardinality(R \ F) < N
        BY <1>2, <1>3, <1>4, <3>3, FS_Subset, FS_CardinalityType
      <3> QED
        BY <1>3, <1>4, <3>4, FS_CardinalityType, Numbers
    <2>2. CASE N < MaxKeys
      <3>1. Cardinality(R \ F) <= N /\ Cardinality(R \ F) \in Nat
        BY <1>2, <1>4, FS_Subset, FS_CardinalityType
      <3> QED
        BY <1>3, <2>2, <3>1, Numbers
    <2> QED
      BY <1>3, <2>1, <2>2, Numbers
  <1> QED
    BY <1>1, <1>4, <1>5

\* The keys that a call of allow leaves in the table.
Kept(key, now) ==
  IF key \in DOMAIN table THEN DOMAIN table
  ELSE IF Cardinality(DOMAIN table) >= MaxKeys
       THEN Recent(table, now) \ Forced(table, now) ELSE DOMAIN table

\* What allow does to the table: the keys that stay keep their buckets, and the
\* key that calls has one, with what refill and try_consume made of it.
Bucket(key, now) == Refill(IF key \in DOMAIN table THEN table[key] ELSE Entry(now), now)

LEMMA AllowWrites ==
  ASSUME LimiterTypes, NEW key \in Keys, NEW now
  PROVE  LET b == Bucket(key, now)
             r == Allow(table, key, now)
         IN /\ r.ok = (b.tokens >= Unit)
            /\ DOMAIN r.table = Kept(key, now) \cup {key}
            /\ \A k \in Kept(key, now) \ {key} : r.table[k] = table[k]
            /\ r.table[key] = [tokens |-> IF r.ok THEN b.tokens - Unit ELSE b.tokens,
                               refilled |-> b.refilled, seen |-> now]
            /\ r.table = [k \in DOMAIN r.table |-> r.table[k]]
  <1> DEFINE found == WithKey(table, key, now)
  <1>1. /\ DOMAIN found = Kept(key, now) \cup {key}
        /\ \A k \in Kept(key, now) \ {key} : found[k] = table[k]
        /\ found[key] = IF key \in DOMAIN table THEN table[key] ELSE Entry(now)
        /\ found = [k \in DOMAIN found |-> found[k]]
    <2>1. CASE key \in DOMAIN table
      BY <2>1 DEF WithKey, Kept, LimiterTypes
    <2>2. CASE key \notin DOMAIN table /\ Cardinality(DOMAIN table) >= MaxKeys
      BY <2>2 DEF WithKey, Kept, AfterGc
    <2>3. CASE key \notin DOMAIN table /\ ~(Cardinality(DOMAIN table) >= MaxKeys)
      BY <2>3 DEF WithKey, Kept
    <2> QED
      BY <2>1, <2>2, <2>3
  <1>2. Refill(found[key], now) = Bucket(key, now)
    BY <1>1 DEF Bucket
  <1> HIDE DEF found
  <1> DEFINE b == Bucket(key, now)
             ok == b.tokens >= Unit
             left == [tokens |-> IF ok THEN b.tokens - Unit ELSE b.tokens,
                      refilled |-> b.refilled, seen |-> now]
  <1>3. Allow(table, key, now) = [ok |-> ok, table |-> [found EXCEPT ![key] = left]]
    BY <1>2 DEF Allow, found
  <1> HIDE DEF b, left, ok
  <1>4. /\ Allow(table, key, now).ok = ok
        /\ Allow(table, key, now).table = [found EXCEPT ![key] = left]
    BY <1>3
  <1>5. LET t == [found EXCEPT ![key] = left]
        IN /\ DOMAIN t = DOMAIN found
           /\ \A k \in DOMAIN found \ {key} : t[k] = found[k]
           /\ t[key] = left
           /\ t = [k \in DOMAIN t |-> t[k]]
    BY <1>1
  <1> QED
    BY <1>1, <1>4, <1>5 DEF b, left, ok

-----------------------------------------------------------------------------
(* The limiter: what a key has earned.                                     *)

\* What a key that was dropped early f times may have been granted at time t.
Credit(f, t) == (1 + f) * Burst + (t - Start + f * Skew) * Rate

LEMMA TimesIsInt == \A a, b \in Int : a * b \in Int
  BY SMT

LEMMA TimesIsNat == \A a, b \in Nat : a * b \in Nat
  BY SMT

LEMMA CreditIsInt ==
  ASSUME NEW f \in Nat, NEW t \in Int
  PROVE  Credit(f, t) \in Int
  BY Numbers, SMT DEF Credit

\* Time earns its rate.
LEMMA CreditGrows ==
  ASSUME NEW f \in Nat, NEW t \in Int, NEW u \in Int
  PROVE  /\ (u - t) * Rate \in Int
         /\ Credit(f, u) = Credit(f, t) + (u - t) * Rate
         /\ t <= u => Credit(f, t) <= Credit(f, u)
  <1>1. (u - t) * Rate \in Int
    BY Numbers, SMT
  <1>2. Credit(f, u) = Credit(f, t) + (u - t) * Rate
    BY Numbers, SMT DEF Credit
  <1>3. t <= u => (u - t) * Rate >= 0
    BY Numbers, SMT
  <1> QED
    BY <1>1, <1>2, <1>3, CreditIsInt

\* A drop gives a full bucket, and the skew.
LEMMA CreditOfDrop ==
  ASSUME NEW f \in Nat, NEW t \in Int
  PROVE  Credit(f + 1, t - Skew) = Credit(f, t) + Burst
  BY Numbers, SMT DEF Credit

LEMMA CreditAtStart ==
  ASSUME NEW f \in Nat, NEW t \in Int, t >= Start
  PROVE  Credit(f, t) >= Burst
  <1>1. f * Burst >= 0 /\ f * Skew >= 0
    BY Numbers, SMT
  <1>2. (t - Start + f * Skew) * Rate >= 0
    <2>1. t - Start + f * Skew >= 0
      BY <1>1, Numbers, SMT
    <2> QED
      BY <2>1, Numbers, SMT
  <1> QED
    BY <1>1, <1>2, Numbers, SMT DEF Credit

\* A key in the table has spent what it was granted, and its bucket is no newer
\* than its last call may be; one that is not has left room for a full bucket
\* at the earliest time that it can come with.
LimiterInv ==
  /\ \A k \in DOMAIN table :
       /\ granted[k] * Unit + table[k].tokens <= Credit(early[k], table[k].refilled)
       /\ table[k].refilled <= table[k].seen + Skew
  /\ \A k \in Keys \ DOMAIN table :
       granted[k] = 0 \/ granted[k] * Unit + Burst <= Credit(early[k], clock - Skew)

\* Refill never makes up for more than the time that has passed.
LEMMA RefillEarns ==
  ASSUME LimiterTypes, NEW b \in [tokens : 0..Burst, refilled : Nat, seen : Nat],
         NEW now \in Nat
  PROVE  /\ Refill(b, now).tokens \in 0..Burst
         /\ Refill(b, now).refilled = IF now <= b.refilled THEN b.refilled ELSE now
         /\ Refill(b, now).tokens
              <= b.tokens + (Refill(b, now).refilled - b.refilled) * Rate
  <1>1. CASE now <= b.refilled
    <2>1. (b.refilled - b.refilled) * Rate = 0
      BY Numbers, SMT
    <2> QED
      BY <1>1, <2>1 DEF Refill
  <1>2. CASE ~(now <= b.refilled)
    <2> DEFINE add == (now - b.refilled) * Rate
    <2>1. add \in Nat
      <3>1. \A a, c \in Nat : a * c \in Nat
        BY SMT
      <3> QED
        BY <1>2, <3>1, Numbers
    <2>2. Refill(b, now) = [b EXCEPT !.tokens = IF b.tokens + add > Burst THEN Burst
                                                ELSE b.tokens + add,
                                     !.refilled = now]
      BY <1>2 DEF Refill
    <2>3. Refill(b, now).refilled = now
      BY <2>2
    <2> HIDE DEF add
    <2>4. Refill(b, now).tokens = IF b.tokens + add > Burst THEN Burst ELSE b.tokens + add
      BY <2>2
    <2>5. Refill(b, now).tokens \in 0..Burst /\ Refill(b, now).tokens <= b.tokens + add
      BY <2>1, <2>4, Numbers
    <2> QED
      BY <1>2, <2>3, <2>5 DEF add
  <1> QED
    BY <1>1, <1>2

\* The bucket that a caller finds, and what refill makes of it.
LEMMA BucketIsEarned ==
  ASSUME LimiterTypes, LimiterInv, NEW key \in Keys,
         NEW now \in Start..clock, now >= clock - Skew
  PROVE  LET b == Bucket(key, now)
         IN /\ b.tokens \in 0..Burst /\ b.refilled \in now..clock
            /\ granted[key] * Unit + b.tokens <= Credit(early[key], b.refilled)
  <1> DEFINE b == Bucket(key, now)
  <1>0. now \in Nat /\ now >= Start /\ now <= clock /\ clock \in Nat
        /\ granted[key] \in Nat /\ early[key] \in Nat
    BY Numbers DEF LimiterTypes
  <1>1. CASE key \in DOMAIN table
    <2> DEFINE old == table[key]
    <2>1. old \in Buckets
      BY <1>1 DEF LimiterTypes
    <2>2. /\ old \in [tokens : 0..Burst, refilled : Nat, seen : Nat]
          /\ old.tokens \in 0..Burst /\ old.refilled \in Nat /\ old.refilled <= clock
      BY <2>1, <1>0, Numbers DEF Buckets
    <2>3. granted[key] * Unit + old.tokens <= Credit(early[key], old.refilled)
      BY <1>1 DEF LimiterInv
    <2>4. b = Refill(old, now)
      BY <1>1 DEF Bucket
    <2> HIDE DEF old, b
    <2>5. /\ b.tokens \in 0..Burst
          /\ b.refilled = IF now <= old.refilled THEN old.refilled ELSE now
          /\ b.tokens <= old.tokens + (b.refilled - old.refilled) * Rate
      BY <2>2, <2>4, <1>0, RefillEarns
    <2>6. b.refilled \in now..clock
      BY <2>2, <2>5, <1>0
    <2>7. Credit(early[key], b.refilled)
            = Credit(early[key], old.refilled) + (b.refilled - old.refilled) * Rate
      <3>1. old.refilled \in Int /\ b.refilled \in Int
        BY <2>2, <2>6, <1>0
      <3> QED
        BY <3>1, <1>0, CreditGrows
    <2>8. granted[key] * Unit + b.tokens <= Credit(early[key], b.refilled)
      <3>0. old.refilled \in Int /\ b.refilled \in Int
        BY <2>2, <2>6, <1>0
      <3>1. /\ granted[key] * Unit \in Int
            /\ (b.refilled - old.refilled) * Rate \in Int
            /\ Credit(early[key], old.refilled) \in Int
        <4>1. granted[key] * Unit \in Nat
          BY <1>0, Numbers, TimesIsNat, Zenon
        <4>2. (b.refilled - old.refilled) * Rate \in Int
          BY <3>0, <1>0, CreditGrows, Zenon
        <4>3. Credit(early[key], old.refilled) \in Int
          BY <3>0, <1>0, CreditIsInt, Zenon
        <4> QED
          BY <4>1, <4>2, <4>3
      <3> QED
        BY <3>1, <2>2, <2>3, <2>5, <2>7
    <2> QED
      BY <2>5, <2>6, <2>8 DEF b
  <1>2. CASE key \notin DOMAIN table
    <2>1. b = Refill(Entry(now), now)
      BY <1>2 DEF Bucket
    <2>2. Entry(now) = [tokens |-> Burst, refilled |-> 0, seen |-> now]
      BY DEF Entry
    <2>3. now * Rate \in Nat
      BY <1>0, Numbers, TimesIsNat, Zenon
    <2>4. b.tokens = Burst /\ b.refilled = now
      <3>1. ~(now <= 0) /\ now - 0 = now
        BY <1>0, Numbers
      <3> DEFINE x == IF Burst + now * Rate > Burst THEN Burst ELSE Burst + now * Rate
      <3>2. b.tokens = x /\ b.refilled = now
        <4> DEFINE e == Entry(now)
        <4>1. e.tokens = Burst /\ e.refilled = 0 /\ e.seen = now
          BY <2>2
        <4>2. ~(now <= e.refilled) /\ now - e.refilled = now
          BY <3>1, <4>1
        <4>3. b = [e EXCEPT !.tokens = IF e.tokens + (now - e.refilled) * Rate > Burst
                                       THEN Burst
                                       ELSE e.tokens + (now - e.refilled) * Rate,
                            !.refilled = now]
          BY <2>1, <4>2, Zenon DEF Refill
        <4>4. b = [e EXCEPT !.tokens = x, !.refilled = now]
          BY <4>1, <4>2, <4>3, Zenon
        <4> HIDE DEF b, x
        <4> QED
          BY <2>2, <4>4
      <3>3. Burst + now * Rate > Burst \/ Burst + now * Rate = Burst
        BY <2>3, Numbers
      <3> QED
        BY <3>2, <3>3
    <2>5. granted[key] * Unit + Burst <= Credit(early[key], now)
      <3>1. CASE granted[key] = 0
        <4>1. granted[key] * Unit = 0
          BY <3>1, Numbers, SMT
        <4>2. Credit(early[key], now) >= Burst
          BY <1>0, CreditAtStart
        <4> QED
          BY <4>1, <4>2, Numbers
      <3>2. CASE granted[key] * Unit + Burst <= Credit(early[key], clock - Skew)
        <4>1. clock - Skew \in Int /\ now \in Int /\ clock - Skew <= now
          BY <1>0, Numbers
        <4>2. Credit(early[key], clock - Skew) <= Credit(early[key], now)
          BY <4>1, <1>0, CreditGrows, Zenon
        <4>3. /\ granted[key] * Unit \in Nat /\ Credit(early[key], clock - Skew) \in Int
              /\ Credit(early[key], now) \in Int
          BY <4>1, <1>0, Numbers, TimesIsNat, CreditIsInt, Zenon
        <4> QED
          BY <3>2, <4>2, <4>3, Numbers
      <3> QED
        BY <1>2, <3>1, <3>2 DEF LimiterInv
    <2> QED
      BY <2>4, <2>5, <1>0, Numbers DEF b
  <1> QED
    BY <1>1, <1>2

\* A key that gc_locked drops has left room for a full bucket, by the time it has
\* waited or as one more key dropped early.
LEMMA DroppedIsEarned ==
  ASSUME LimiterTypes, LimiterInv, NEW k \in DOMAIN table, NEW f \in Nat,
         f = IF Full(table[k], clock - Skew) THEN early[k] ELSE early[k] + 1
  PROVE  granted[k] * Unit + Burst <= Credit(f, clock - Skew)
  <1> DEFINE r == table[k].refilled
             g == granted[k] * Unit
  <1>1. /\ clock \in Nat /\ granted[k] \in Nat /\ early[k] \in Nat
        /\ table[k].tokens \in Nat /\ r \in Nat /\ r <= clock
    BY Numbers DEF LimiterTypes, LimiterInv, Buckets
  <1>2. g \in Int /\ Credit(early[k], r) \in Int /\ g <= Credit(early[k], r)
        /\ g + table[k].tokens <= Credit(early[k], r)
    <2>1. g \in Nat
      BY <1>1, Numbers, TimesIsNat, Zenon
    <2>2. g + table[k].tokens <= Credit(early[k], r)
      BY DEF LimiterInv
    <2> HIDE DEF g, r
    <2>3. Credit(early[k], r) \in Int
      <3>1. early[k] \in Nat /\ r \in Int
        BY <1>1
      <3> QED
        BY <3>1, CreditIsInt, Zenon
    <2> QED
      BY <1>1, <2>1, <2>2, <2>3
  <1>3. CASE ~Full(table[k], clock - Skew)
    <2>0. r \in Int /\ clock \in Int /\ f = early[k] + 1
      BY <1>1, <1>3
    <2>1. Credit(early[k], r) <= Credit(early[k], clock)
      BY <1>1, <2>0, CreditGrows, Zenon
    <2>2. Credit(f, clock - Skew) = Credit(early[k], clock) + Burst
          /\ Credit(early[k], clock) \in Int
      BY <1>1, <2>0, CreditOfDrop, CreditIsInt, Zenon
    <2> HIDE DEF g, r
    <2> QED
      BY <1>2, <2>1, <2>2, Numbers DEF g
  <1>4. CASE Full(table[k], clock - Skew)
    <2> DEFINE d == clock - Skew - r
    <2>1. d \in Int /\ r \in Int /\ clock - Skew \in Int /\ f = early[k]
      BY <1>1, <1>4, Numbers
    <2>2. table[k].tokens + d * Rate >= Burst
      BY <1>4 DEF Full
    <2>3. d * Rate \in Int
      BY <2>1, TimesIsInt, Numbers
    <2>4. Credit(f, clock - Skew) = Credit(early[k], r) + d * Rate
      <3>1. Credit(early[k], clock - Skew) = Credit(early[k], r) + d * Rate
        BY <1>1, <2>1, CreditGrows, Zenon
      <3> QED
        BY <2>1, <3>1, Zenon
    <2> DEFINE x == d * Rate
    <2> HIDE DEF g, r, d, x
    <2>5. g + Burst <= Credit(f, clock - Skew)
      <3>1. /\ table[k].tokens + x >= Burst /\ x \in Int
            /\ Credit(f, clock - Skew) = Credit(early[k], r) + x
        BY <2>2, <2>3, <2>4 DEF x
      <3> QED
        BY <1>1, <1>2, <3>1, Numbers
    <2> QED
      BY <2>5 DEF g
  <1> QED
    BY <1>3, <1>4

\* A call leaves a table that is bounded ...
LEMMA CallKeepsTable ==
  ASSUME LimiterTypes, LimiterInv, NEW key \in Keys, NEW now, Call(key, now)
  PROVE  LimiterTypes'
  <1> DEFINE r == Allow(table, key, now)
             b == Bucket(key, now)
             kept == Kept(key, now)
  <1>1. /\ now \in Start..clock /\ now >= clock - Skew
        /\ table' = r.table /\ clock' = clock
        /\ granted' = [granted EXCEPT ![key] = IF r.ok THEN granted[key] + 1 ELSE granted[key]]
    BY DEF Call
  <1>2. \A k \in Keys : early'[k] \in {early[k], early[k] + 1}
        /\ early' = [j \in Keys |-> early'[j]]
    BY DEF Call
  <1>3. /\ r.ok = (b.tokens >= Unit)
        /\ DOMAIN table' = kept \cup {key}
        /\ \A k \in kept \ {key} : table'[k] = table[k]
        /\ table'[key] = [tokens |-> IF r.ok THEN b.tokens - Unit ELSE b.tokens,
                          refilled |-> b.refilled, seen |-> now]
        /\ table' = [k \in DOMAIN table' |-> table'[k]]
    BY <1>1, AllowWrites
  <1>4. b.tokens \in 0..Burst /\ b.refilled \in now..clock
    BY <1>1, BucketIsEarned
  <1>5. kept \subseteq DOMAIN table /\ IsFiniteSet(kept)
    BY GcMakesRoom DEF Kept, LimiterTypes
  <1>6. key \notin DOMAIN table => Cardinality(kept) < MaxKeys
    <2>1. CASE Cardinality(DOMAIN table) >= MaxKeys
      BY <2>1, GcMakesRoom DEF Kept
    <2>2. CASE ~(Cardinality(DOMAIN table) >= MaxKeys)
      <3>1. Cardinality(DOMAIN table) \in Nat
        BY FS_CardinalityType DEF LimiterTypes
      <3> QED
        BY <2>2, <3>1, Numbers DEF Kept
    <2> QED
      BY <2>1, <2>2
  <1>7. table'[key] \in Buckets
    <2>1. b.tokens \in Int /\ (r.ok => b.tokens - Unit \in 0..Burst)
      <3> HIDE DEF b, r
      <3>1. r.ok => b.tokens >= Unit
        BY <1>3
      <3> QED
        BY <1>4, <3>1, Numbers
    <2>2. b.refilled \in Start..clock
      BY <1>1, <1>4, Numbers DEF LimiterTypes
    <2> HIDE DEF b, r
    <2> QED
      BY <1>1, <1>3, <1>4, <2>1, <2>2 DEF Buckets
  <1> HIDE DEF r, b, kept
  <1>8. table' \in [DOMAIN table' -> Buckets]
    <2>1. \A k \in DOMAIN table' : table'[k] \in Buckets
      BY <1>3, <1>5, <1>7 DEF LimiterTypes
    <2> QED
      BY <1>3, <2>1
  <1>9. Buckets' = Buckets
    BY <1>1 DEF Buckets
  <1>10. DOMAIN table' \subseteq Keys /\ IsFiniteSet(DOMAIN table')
    BY <1>3, <1>5, FS_AddElement DEF LimiterTypes
  <1>11. Cardinality(DOMAIN table') <= MaxKeys
    <2>1. CASE key \in DOMAIN table
      <3>1. DOMAIN table' = DOMAIN table
        BY <1>3, <2>1 DEF Kept, kept
      <3> QED
        BY <3>1 DEF LimiterTypes, TableIsBounded
    <2>2. CASE key \notin DOMAIN table
      <3>1. Cardinality(DOMAIN table') = Cardinality(kept) + 1
        BY <1>3, <1>5, <2>2, FS_AddElement
      <3>2. Cardinality(kept) \in Nat
        BY <1>5, FS_CardinalityType
      <3> QED
        BY <1>6, <2>2, <3>1, <3>2, Numbers
    <2> QED
      BY <2>1, <2>2
  <1>12. granted' \in [Keys -> Nat] /\ early' \in [Keys -> Nat]
    BY <1>1, <1>2 DEF LimiterTypes
  <1> QED
    BY <1>1, <1>8, <1>9, <1>10, <1>11, <1>12 DEF LimiterTypes, TableIsBounded

\* ... and gives nothing away.
LEMMA CallKeepsCredit ==
  ASSUME LimiterTypes, LimiterInv, NEW key \in Keys, NEW now, Call(key, now)
  PROVE  LimiterInv'
  <1> DEFINE r == Allow(table, key, now)
             b == Bucket(key, now)
             kept == Kept(key, now)
             lost == DOMAIN table \ DOMAIN r.table
  <1>1. /\ now \in Start..clock /\ now >= clock - Skew
        /\ table' = r.table /\ clock' = clock
        /\ granted' = [granted EXCEPT ![key] = IF r.ok THEN granted[key] + 1 ELSE granted[key]]
        /\ early' = [k \in Keys |-> IF k \in lost /\ ~Full(table[k], clock - Skew)
                                    THEN early[k] + 1 ELSE early[k]]
    BY DEF Call
  <1>2. /\ r.ok = (b.tokens >= Unit)
        /\ DOMAIN table' = kept \cup {key}
        /\ \A k \in kept \ {key} : table'[k] = table[k]
        /\ table'[key] = [tokens |-> IF r.ok THEN b.tokens - Unit ELSE b.tokens,
                          refilled |-> b.refilled, seen |-> now]
        /\ table' = [k \in DOMAIN table' |-> table'[k]]
    BY <1>1, AllowWrites
  <1>3. /\ b.tokens \in 0..Burst /\ b.refilled \in now..clock
        /\ granted[key] * Unit + b.tokens <= Credit(early[key], b.refilled)
    BY <1>1, BucketIsEarned
  <1>4. kept \subseteq DOMAIN table
    BY GcMakesRoom DEF Kept
  <1>5. lost = DOMAIN table \ (kept \cup {key})
    BY <1>1, <1>2
  <1>7. /\ granted[key] \in Nat /\ early[key] \in Nat /\ clock \in Nat /\ now \in Nat
        /\ Start \in Nat
    BY <1>1, Numbers DEF LimiterTypes
  <1>8. early'[key] = early[key]
    BY <1>1, <1>5
  <1>9. /\ granted'[key] * Unit + table'[key].tokens <= Credit(early'[key], table'[key].refilled)
        /\ table'[key].refilled <= table'[key].seen + Skew
    <2>1. /\ table'[key].tokens = (IF r.ok THEN b.tokens - Unit ELSE b.tokens)
          /\ table'[key].refilled = b.refilled /\ table'[key].seen = now
          /\ granted'[key] = IF r.ok THEN granted[key] + 1 ELSE granted[key]
      BY <1>1, <1>2 DEF LimiterTypes
    <2>2. granted'[key] * Unit + table'[key].tokens = granted[key] * Unit + b.tokens
      <3>1. (granted[key] + 1) * Unit = granted[key] * Unit + Unit
        BY <1>7, Numbers, SMT
      <3>2. granted[key] * Unit \in Nat
        BY <1>7, Numbers, TimesIsNat, Zenon
      <3> HIDE DEF b, r
      <3> QED
        BY <1>3, <2>1, <3>1, <3>2, Numbers
    <2>3. b.refilled <= now + Skew
      BY <1>1, <1>3, <1>7, Numbers
    <2> HIDE DEF b, r
    <2> QED
      BY <1>3, <1>8, <2>1, <2>2, <2>3
  <1>10. ASSUME NEW k \in kept \ {key}
         PROVE  /\ granted'[k] = granted[k] /\ early'[k] = early[k]
                /\ table'[k] = table[k] /\ k \in DOMAIN table
    BY <1>1, <1>2, <1>4, <1>5 DEF LimiterTypes
  <1>11. ASSUME NEW k \in Keys \ DOMAIN table'
         PROVE  \/ granted'[k] = 0
                \/ granted'[k] * Unit + Burst <= Credit(early'[k], clock - Skew)
    <2>1. k # key /\ k \notin kept /\ granted'[k] = granted[k]
      BY <1>1, <1>2 DEF LimiterTypes
    <2>2. early'[k] = IF k \in lost /\ ~Full(table[k], clock - Skew)
                      THEN early[k] + 1 ELSE early[k]
      BY <1>1
    <2>3. CASE k \in DOMAIN table
      <3>1. k \in lost
        BY <1>5, <2>1, <2>3
      <3>2. early[k] \in Nat
        BY DEF LimiterTypes
      <3>3. early'[k] = IF Full(table[k], clock - Skew) THEN early[k] ELSE early[k] + 1
        BY <2>2, <3>1
      <3>4. early'[k] \in Nat
        BY <3>2, <3>3
      <3>5. granted[k] * Unit + Burst <= Credit(early'[k], clock - Skew)
        BY <2>3, <3>3, <3>4, DroppedIsEarned
      <3> QED
        BY <2>1, <3>5
    <2>4. CASE k \notin DOMAIN table
      <3>1. early'[k] = early[k]
        BY <2>2, <2>4
      <3> QED
        BY <2>1, <2>4, <3>1 DEF LimiterInv
    <2> QED
      BY <2>3, <2>4
  <1> HIDE DEF r, b, kept, lost
  <1>12. ASSUME NEW k \in DOMAIN table'
         PROVE  /\ granted'[k] * Unit + table'[k].tokens <= Credit(early'[k], table'[k].refilled)
                /\ table'[k].refilled <= table'[k].seen + Skew
    <2>1. CASE k = key
      BY <1>9, <2>1
    <2>2. CASE k # key
      <3>1. k \in kept \ {key}
        BY <1>2, <2>2
      <3> QED
        BY <1>10, <3>1 DEF LimiterInv
    <2> QED
      BY <2>1, <2>2
  <1> QED
    BY <1>1, <1>11, <1>12 DEF LimiterInv

LEMMA TickKeeps ==
  ASSUME LimiterTypes, LimiterInv, Tick
  PROVE  LimiterTypes' /\ LimiterInv'
  <1>1. clock' = clock + 1 /\ clock \in Nat /\ clock >= Start
        /\ UNCHANGED <<table, granted, early>>
    BY DEF Tick, LimiterTypes
  <1>2. LimiterTypes'
    <2>1. Buckets \subseteq Buckets'
      BY <1>1, Numbers DEF Buckets
    <2>2. table \in [DOMAIN table -> Buckets']
      BY <2>1 DEF LimiterTypes
    <2> QED
      BY <1>1, <2>2, Numbers DEF LimiterTypes, TableIsBounded
  <1>3. ASSUME NEW k \in Keys \ DOMAIN table, granted[k] # 0
        PROVE  granted[k] * Unit + Burst <= Credit(early[k], clock' - Skew)
    <2>1. granted[k] * Unit + Burst <= Credit(early[k], clock - Skew)
      BY <1>3 DEF LimiterInv
    <2>2. /\ clock - Skew \in Int /\ clock' - Skew \in Int /\ clock - Skew <= clock' - Skew
          /\ early[k] \in Nat /\ granted[k] \in Nat
      BY <1>1, Numbers DEF LimiterTypes
    <2>3. /\ Credit(early[k], clock - Skew) <= Credit(early[k], clock' - Skew)
          /\ Credit(early[k], clock - Skew) \in Int
          /\ Credit(early[k], clock' - Skew) \in Int
      BY <2>2, CreditGrows, CreditIsInt, Zenon
    <2>4. granted[k] * Unit \in Nat
      BY <2>2, Numbers, TimesIsNat, Zenon
    <2> QED
      BY <2>1, <2>3, <2>4, Numbers
  <1>4. LimiterInv'
    BY <1>1, <1>3 DEF LimiterInv
  <1> QED
    BY <1>2, <1>4

LEMMA LimiterIsInvariant == LimiterSpec => [](LimiterTypes /\ LimiterInv)
  <1>1. LimiterInit => LimiterTypes /\ LimiterInv
    <2> SUFFICES ASSUME LimiterInit PROVE LimiterTypes /\ LimiterInv
      OBVIOUS
    <2>1. DOMAIN table = {} /\ table \in [{} -> Buckets]
      BY DEF LimiterInit
    <2>2. IsFiniteSet({}) /\ Cardinality({}) = 0
      BY FS_EmptySet
    <2> QED
      BY <2>1, <2>2, Numbers DEF LimiterInit, LimiterTypes, LimiterInv, TableIsBounded
  <1>2. LimiterTypes /\ LimiterInv /\ [LimiterNext]_limiterVars
          => (LimiterTypes /\ LimiterInv)'
    <2> SUFFICES ASSUME LimiterTypes, LimiterInv, [LimiterNext]_limiterVars
                 PROVE  LimiterTypes' /\ LimiterInv'
      OBVIOUS
    <2>1. CASE Tick
      BY <2>1, TickKeeps
    <2>2. ASSUME NEW key \in Keys, NEW now \in Start..MaxTime, Call(key, now)
          PROVE  LimiterTypes' /\ LimiterInv'
      BY <2>2, CallKeepsTable, CallKeepsCredit
    <2>3. CASE UNCHANGED limiterVars
      BY <2>3 DEF limiterVars, LimiterTypes, LimiterInv, TableIsBounded, Buckets
    <2> QED
      BY <2>1, <2>2, <2>3 DEF LimiterNext
  <1> QED
    BY <1>1, <1>2, PTL DEF LimiterSpec

\* The limiter holds its rates in a table that stays bounded, whatever keys call
\* in whatever order and with whatever skew (allow, gc_locked).
THEOREM RatesHold == LimiterSpec => []LimiterKeepsItsRates
  <1>1. LimiterTypes /\ LimiterInv => LimiterKeepsItsRates
    <2> SUFFICES ASSUME LimiterTypes, LimiterInv, NEW k \in Keys
                 PROVE  granted[k] * Unit <= Credit(early[k], clock)
      BY DEF LimiterKeepsItsRates, GrantsAreEarned, LimiterTypes, Credit
    <2>1. /\ granted[k] \in Nat /\ early[k] \in Nat /\ clock \in Nat /\ clock >= Start
          /\ clock \in Int
      BY DEF LimiterTypes
    <2>2. granted[k] * Unit \in Nat /\ Credit(early[k], clock) \in Int
      BY <2>1, Numbers, TimesIsNat, CreditIsInt, Zenon
    <2>3. CASE k \in DOMAIN table
      <3>1. /\ table[k].tokens \in Nat /\ table[k].refilled \in Int
            /\ table[k].refilled <= clock
        BY <2>1, <2>3, Numbers DEF LimiterTypes, Buckets
      <3>2. granted[k] * Unit + table[k].tokens <= Credit(early[k], table[k].refilled)
        BY <2>3 DEF LimiterInv
      <3>3. Credit(early[k], table[k].refilled) <= Credit(early[k], clock)
            /\ Credit(early[k], table[k].refilled) \in Int
        BY <2>1, <3>1, CreditGrows, CreditIsInt, Zenon
      <3> QED
        BY <2>2, <3>1, <3>2, <3>3
    <2>4. CASE k \notin DOMAIN table /\ granted[k] = 0
      <3>1. granted[k] * Unit = 0
        BY <2>4, Numbers, SMT
      <3>2. Credit(early[k], clock) >= Burst
        BY <2>1, CreditAtStart, Zenon
      <3> QED
        BY <2>2, <3>1, <3>2, Numbers
    <2>5. CASE k \notin DOMAIN table /\ granted[k] # 0
      <3>1. granted[k] * Unit + Burst <= Credit(early[k], clock - Skew)
        BY <2>5 DEF LimiterInv
      <3>2. clock - Skew \in Int /\ clock - Skew <= clock
        BY <2>1, Numbers
      <3>3. Credit(early[k], clock - Skew) <= Credit(early[k], clock)
            /\ Credit(early[k], clock - Skew) \in Int
        BY <2>1, <3>2, CreditGrows, CreditIsInt, Zenon
      <3> QED
        BY <2>2, <3>1, <3>3, Numbers
    <2> QED
      BY <2>3, <2>4, <2>5
  <1> QED
    BY <1>1, LimiterIsInvariant, PTL

\* Where a bucket fills while its key is idle, gc_locked takes nothing from the
\* keys that it drops as idle, however late the callers' clocks are.
THEOREM IdleKeysLoseNothing == LimiterSpec => []IdleBucketsAreFull
  <1>1. LimiterTypes /\ LimiterInv => IdleBucketsAreFull
    <2> SUFFICES ASSUME LimiterTypes, LimiterInv,
                        (IdleGc + 1 - 2 * Skew) * Rate >= Burst,
                        NEW k \in DOMAIN table, NEW now \in Start..clock,
                        k \notin Recent(table, now)
                 PROVE  Full(table[k], clock - Skew)
      BY DEF IdleBucketsAreFull
    <2> DEFINE d == clock - Skew - table[k].refilled
               c == IdleGc + 1 - 2 * Skew
    <2>1. now - table[k].seen > IdleGc
      BY DEF Recent
    <2>2. /\ now \in Nat /\ clock \in Nat /\ now <= clock
          /\ table[k].tokens \in Nat /\ table[k].refilled \in Nat
          /\ table[k].seen \in Nat /\ table[k].refilled <= table[k].seen + Skew
      BY Numbers DEF LimiterTypes, LimiterInv, Buckets
    <2>3. d \in Int /\ c \in Int /\ d >= c /\ c * Rate >= Burst
      BY <2>1, <2>2, Numbers
    <2> HIDE DEF c
    <2>4. table[k].tokens + d * Rate >= Burst
      <3> HIDE DEF d
      <3>1. d * Rate >= c * Rate
        BY <2>3, Numbers, SMT
      <3> QED
        BY <2>2, <2>3, <3>1, TimesIsInt, Numbers
    <2> QED
      BY <2>4 DEF Full
  <1> QED
    BY <1>1, LimiterIsInvariant, PTL

-----------------------------------------------------------------------------
(* The frame layer.                                                        *)

Bytes == 0..Base - 1

LEMMA Sizes ==
  /\ Base \in Nat /\ MaxFrame \in Nat /\ Chunk \in Nat /\ MaxBody \in Nat
  /\ Base > 0 /\ HeadLen = 4
  BY FramingAssumption DEF HeadLen

\* Division takes a digit off a bound.
LEMMA HighIsSmaller ==
  ASSUME NEW n \in Nat, NEW K \in Nat, n < Base * K
  PROVE  /\ High(n) \in Nat /\ High(n) < K
         /\ n % Base \in Bytes
         /\ High(n) * Base + (n % Base) = n
  <1>1. /\ n % Base \in 0..Base - 1
        /\ n = Base * (n \div Base) + (n % Base)
        /\ n \div Base \in Nat
    BY Sizes
  <1> DEFINE q == n \div Base
  <1>2. q \in Nat /\ Base * q <= n
    BY <1>1, Sizes
  <1>3. q < K
    <2> HIDE DEF q
    <2> SUFFICES ASSUME K <= q PROVE FALSE
      BY <1>2
    <2>1. Base * K <= Base * q
      BY <1>2, Sizes
    <2>2. Base * K \in Nat /\ Base * q \in Nat
      BY <1>2, Sizes
    <2> QED
      BY <1>2, <2>1, <2>2
  <1>4. Base * q = q * Base
    BY <1>2, Sizes
  <1> QED
    BY <1>1, <1>2, <1>3, <1>4 DEF High, Bytes

\* The length that next reads is the one that make_wire_frame wrote.
LEMMA HeaderIsRead ==
  ASSUME NEW n \in Nat, n <= MaxBody
  PROVE  /\ Header(n) \in Seq(Bytes) /\ Len(Header(n)) = HeadLen
         /\ \A b : (\A i \in 1..HeadLen : b[i] = Header(n)[i]) => BodyLen(b) = n
  <1> DEFINE B2 == Base * Base
             B3 == Base * B2
  <1>0. B2 \in Nat /\ B3 \in Nat /\ n < Base * B3
    BY Sizes, FramingAssumption
  <1> HIDE DEF B3
  <1>1. /\ High(n) \in Nat /\ High(n) < B3 /\ n % Base \in Bytes
        /\ High(n) * Base + (n % Base) = n
    BY <1>0, HighIsSmaller
  <1> USE DEF B3
  <1> HIDE DEF B2
  <1>2. /\ High(High(n)) \in Nat /\ High(High(n)) < B2 /\ High(n) % Base \in Bytes
        /\ High(High(n)) * Base + (High(n) % Base) = High(n)
    BY <1>0, <1>1, HighIsSmaller
  <1> USE DEF B2
  <1>3. /\ High(High(High(n))) \in Nat /\ High(High(High(n))) < Base
        /\ High(High(n)) % Base \in Bytes
        /\ High(High(High(n))) * Base + (High(High(n)) % Base) = High(High(n))
    BY <1>0, <1>2, HighIsSmaller, Sizes
  <1>4. High(High(High(n))) % Base = High(High(High(n)))
        /\ High(High(High(n))) \in Bytes
    <2> DEFINE q == High(High(High(n)))
    <2> HIDE DEF q
    <2>1. q \in Nat /\ q < Base
      BY <1>3 DEF q
    <2>2. q % Base = q /\ q \in 0..Base - 1
      BY <2>1, Sizes
    <2> QED
      BY <2>2 DEF q, Bytes
  <1>5. Header(n) \in Seq(Bytes) /\ Len(Header(n)) = HeadLen
    BY <1>1, <1>2, <1>3, <1>4, Sizes DEF Header
  <1>6. ASSUME NEW b, \A i \in 1..HeadLen : b[i] = Header(n)[i]
        PROVE  BodyLen(b) = n
    <2>1. /\ b[1] = High(High(High(n))) /\ b[2] = High(High(n)) % Base
          /\ b[3] = High(n) % Base /\ b[4] = n % Base
      BY <1>4, <1>6, Sizes DEF Header
    <2> QED
      BY <1>1, <1>2, <1>3, <2>1 DEF BodyLen
  <1> QED
    BY <1>5, <1>6

\* A stream s consists of the frames of the bodies in S behind the first g: the
\* frame of S[k] ends at o[k].
Frames(s, g, S, o) ==
  /\ o \in [g..Len(S) -> 0..Len(s)]
  /\ o[g] = 0 /\ o[Len(S)] = Len(s)
  /\ \A j, k \in g..Len(S) : j <= k => o[j] <= o[k]
  /\ \A k \in g + 1..Len(S) :
       /\ o[k] = o[k - 1] + HeadLen + Len(S[k])
       /\ \A i \in 1..HeadLen + Len(S[k]) : s[o[k - 1] + i] = Wire(S[k])[i]

Bodies == {b \in Seq(Bytes) : Len(b) <= MaxBody}

LEMMA WireIsAFrame ==
  ASSUME NEW b \in Bodies
  PROVE  /\ Wire(b) \in Seq(Bytes) /\ Len(Wire(b)) = HeadLen + Len(b)
         /\ \A i \in 1..HeadLen : Wire(b)[i] = Header(Len(b))[i]
         /\ \A i \in 1..Len(b) : Wire(b)[HeadLen + i] = b[i]
  <1>1. b \in Seq(Bytes) /\ Len(b) \in Nat /\ Len(b) <= MaxBody
    BY DEF Bodies
  <1>2. Header(Len(b)) \in Seq(Bytes) /\ Len(Header(Len(b))) = HeadLen
    BY <1>1, HeaderIsRead
  <1> DEFINE h == Header(Len(b))
  <1> HIDE DEF h
  <1>3. /\ h \o b \in Seq(Bytes) /\ Len(h \o b) = HeadLen + Len(b)
        /\ \A i \in 1..HeadLen + Len(b) :
             (h \o b)[i] = IF i <= HeadLen THEN h[i] ELSE b[i - HeadLen]
    BY <1>1, <1>2, ConcatProperties DEF h
  <1> QED
    BY <1>1, <1>3, Sizes DEF Wire, h

\* A frame that is sent is behind those that are on their way.
LEMMA OneMoreFrame ==
  ASSUME NEW S \in Seq(Bodies), NEW b \in Bodies, NEW s \in Seq(Bytes),
         NEW g \in 0..Len(S), NEW o, Frames(s, g, S, o)
  PROVE  \E p : Frames(s \o Wire(b), g, Append(S, b), p)
  <1> DEFINE n == Len(S)
             T == Append(S, b)
             t == s \o Wire(b)
             p == [k \in g..n + 1 |-> IF k = n + 1 THEN Len(t) ELSE o[k]]
  <1>1. /\ n \in Nat /\ Len(T) = n + 1 /\ T[n + 1] = b
        /\ \A k \in 1..n : T[k] = S[k] /\ S[k] \in Bodies
    BY AppendProperties
  <1>2. /\ Len(b) \in Nat /\ Wire(b) \in Seq(Bytes) /\ Len(s) \in Nat
        /\ Len(Wire(b)) = HeadLen + Len(b)
    BY WireIsAFrame DEF Bodies
  <1>3. /\ t \in Seq(Bytes) /\ Len(t) = Len(s) + HeadLen + Len(b)
        /\ \A i \in 1..Len(s) : t[i] = s[i]
        /\ \A i \in 1..HeadLen + Len(b) : t[Len(s) + i] = Wire(b)[i]
    <2>1. /\ t \in Seq(Bytes) /\ Len(t) = Len(s) + Len(Wire(b))
          /\ \A i \in 1..Len(s) + Len(Wire(b)) :
               t[i] = IF i <= Len(s) THEN s[i] ELSE Wire(b)[i - Len(s)]
      BY <1>2, ConcatProperties
    <2> QED
      BY <1>2, <2>1, Sizes
  <1> HIDE DEF n, t, T
  <1>4. /\ o \in [g..n -> 0..Len(s)] /\ o[g] = 0 /\ o[n] = Len(s) /\ g \in 0..n
        /\ \A j, k \in g..n : j <= k => o[j] <= o[k]
        /\ \A k \in g + 1..n :
             /\ o[k] = o[k - 1] + HeadLen + Len(S[k])
             /\ \A i \in 1..HeadLen + Len(S[k]) : s[o[k - 1] + i] = Wire(S[k])[i]
    BY DEF Frames, n
  <1>5. p \in [g..n + 1 -> 0..Len(t)] /\ p[g] = 0 /\ p[n + 1] = Len(t)
    BY <1>1, <1>2, <1>3, <1>4, Sizes
  <1>6. \A j, k \in g..n + 1 : j <= k => p[j] <= p[k]
    BY <1>1, <1>2, <1>3, <1>4, Sizes
  <1>7. ASSUME NEW k \in g + 1..n + 1
        PROVE  /\ p[k] = p[k - 1] + HeadLen + Len(T[k])
               /\ \A i \in 1..HeadLen + Len(T[k]) : t[p[k - 1] + i] = Wire(T[k])[i]
    <2>1. CASE k = n + 1
      <3>1. p[k] = Len(t) /\ p[k - 1] = Len(s) /\ T[k] = b
        BY <1>1, <1>4, <2>1
      <3> QED
        BY <1>3, <3>1
    <2>2. CASE k \in g + 1..n
      <3>1. /\ k \in 1..n /\ k - 1 \in g..n
            /\ p[k] = o[k] /\ p[k - 1] = o[k - 1] /\ T[k] = S[k]
        BY <1>1, <1>4, <2>2
      <3>2. Len(S[k]) \in Nat /\ o[k - 1] \in 0..Len(s) /\ o[k] \in 0..Len(s)
        <4> HIDE DEF p
        <4>1. S[k] \in Bodies
          BY <1>1, <3>1
        <4>2. Len(S[k]) \in Nat
          BY <4>1 DEF Bodies
        <4>3. k \in g..n
          BY <1>4, <2>2
        <4> QED
          BY <1>4, <3>1, <4>2, <4>3
      <3>3. o[k] = o[k - 1] + HeadLen + Len(S[k])
        BY <1>4, <2>2
      <3> HIDE DEF p
      <3>4. ASSUME NEW i \in 1..HeadLen + Len(S[k])
            PROVE  t[o[k - 1] + i] = Wire(S[k])[i]
        <4> DEFINE a == o[k - 1]
                   c == Len(S[k])
        <4>0. /\ a \in Nat /\ c \in Nat /\ a + HeadLen + c <= Len(s)
              /\ i \in 1..HeadLen + c
          BY <1>2, <3>2, <3>3
        <4> HIDE DEF a, c
        <4>1. a + i \in 1..Len(s)
          BY <1>2, <4>0, Sizes
        <4> USE DEF a, c
        <4>2. t[o[k - 1] + i] = s[o[k - 1] + i]
          BY <1>3, <4>1
        <4> QED
          BY <1>4, <2>2, <4>2
      <3> QED
        BY <3>1, <3>3, <3>4
    <2>3. k = n + 1 \/ k \in g + 1..n
      BY <1>1, <1>4
    <2> QED
      BY <2>1, <2>2, <2>3
  <1>8. Frames(t, g, T, p)
    <2> HIDE DEF p
    <2> QED
      BY <1>1, <1>5, <1>6, <1>7 DEF Frames
  <1> QED
    BY <1>8 DEF t, T

\* The first frame of a stream, and what is behind it.
LEMMA OneFrameLess ==
  ASSUME NEW S \in Seq(Bodies), NEW s \in Seq(Bytes),
         NEW g \in 0..Len(S) - 1, NEW o, Frames(s, g, S, o)
  PROVE  LET n == Len(S[g + 1]) IN
         /\ n \in Nat /\ n <= MaxBody /\ HeadLen + n <= Len(s)
         /\ \A i \in 1..HeadLen : s[i] = Header(n)[i]
         /\ \A i \in 1..n : s[HeadLen + i] = S[g + 1][i]
         /\ \E p : Frames(SubSeq(s, HeadLen + 1 + n, Len(s)), g + 1, S, p)
  <1> DEFINE m == Len(S)
             b == S[g + 1]
             n == Len(b)
             from == HeadLen + n
             t == SubSeq(s, HeadLen + 1 + n, Len(s))
             p == [k \in g + 1..m |-> o[k] - from]
  <1>1. m \in Nat /\ g + 1 \in 1..m /\ b \in Bodies /\ Len(s) \in Nat
    BY LenProperties
  <1>2. n \in Nat /\ n <= MaxBody
    BY <1>1 DEF Bodies
  <1>3. /\ Len(Wire(b)) = from
        /\ \A i \in 1..HeadLen : Wire(b)[i] = Header(n)[i]
        /\ \A i \in 1..n : Wire(b)[HeadLen + i] = b[i]
    BY <1>1, WireIsAFrame
  <1>4. /\ o \in [g..m -> 0..Len(s)] /\ o[g] = 0 /\ o[m] = Len(s)
        /\ \A j, k \in g..m : j <= k => o[j] <= o[k]
        /\ \A k \in g + 1..m :
             /\ o[k] = o[k - 1] + HeadLen + Len(S[k])
             /\ \A i \in 1..HeadLen + Len(S[k]) : s[o[k - 1] + i] = Wire(S[k])[i]
    BY DEF Frames
  <1>5. /\ o[g + 1] = from /\ from <= Len(s) /\ from \in Nat
        /\ \A i \in 1..from : s[i] = Wire(b)[i]
    <2>1. g + 1 \in g + 1..m /\ (g + 1) - 1 = g /\ g + 1 \in g..m /\ m \in g..m
      BY <1>1
    <2>2. /\ o[g + 1] = o[g] + HeadLen + n
          /\ \A i \in 1..HeadLen + n : s[o[g] + i] = Wire(b)[i]
      BY <1>4, <2>1
    <2>3. o[g + 1] <= o[m]
      BY <1>1, <1>4, <2>1
    <2> QED
      BY <1>1, <1>2, <1>4, <2>2, <2>3, Sizes
  <1>6. /\ \A i \in 1..HeadLen : s[i] = Header(n)[i]
        /\ \A i \in 1..n : s[HeadLen + i] = b[i]
    <2> HIDE DEF p, t, b
    <2>1. \A i \in 1..HeadLen : i \in 1..from
      BY <1>2, Sizes
    <2>2. \A i \in 1..n : HeadLen + i \in 1..from
      BY <1>2, Sizes
    <2> QED
      BY <1>3, <1>5, <2>1, <2>2
  <1>7. /\ t \in Seq(Bytes) /\ Len(t) = Len(s) - from
        /\ \A i \in 1..Len(s) - from : t[i] = s[from + i]
    <2>1. HeadLen + 1 + n \in Int /\ HeadLen + 1 + n = from + 1 /\ Len(s) \in Int
      BY <1>1, <1>2, Sizes
    <2>2. \A i \in HeadLen + 1 + n..Len(s) : s[i] \in Bytes
      BY <1>1, <1>2, Sizes, ElementOfSeq
    <2>3. /\ t \in Seq(Bytes)
          /\ Len(t) = IF from + 1 <= Len(s) THEN Len(s) - (from + 1) + 1 ELSE 0
          /\ \A i \in 1..Len(s) - (from + 1) + 1 : t[i] = s[(from + 1) + i - 1]
      BY <2>1, <2>2, SubSeqProperties
    <2> HIDE DEF m, b, n, from, t, p
    <2>4. \A i \in 1..Len(s) - from : (from + 1) + i - 1 = from + i
      BY <1>1, <1>5
    <2>5. Len(s) - (from + 1) + 1 = Len(s) - from
      BY <1>1, <1>5
    <2>6. Len(t) = Len(s) - from
      BY <1>1, <1>5, <2>3
    <2> QED
      BY <2>3, <2>4, <2>5, <2>6
  <1> HIDE DEF m, b, n, from, t
  <1>8. /\ p \in [g + 1..m -> 0..Len(t)] /\ p[g + 1] = 0 /\ p[m] = Len(t)
    <2>1. ASSUME NEW k \in g + 1..m
          PROVE  o[k] \in 0..Len(s) /\ o[k] >= from
      <3> HIDE DEF m, from, p
      <3>1. k \in g..m /\ g + 1 \in g..m /\ g + 1 <= k
        BY <1>1
      <3>2. o[k] \in 0..Len(s)
        BY <1>4, <3>1
      <3>3. o[g + 1] <= o[k]
        BY <1>4, <3>1
      <3> QED
        BY <1>5, <3>2, <3>3
    <2>2. /\ g + 1 \in g + 1..m /\ m \in g + 1..m
          /\ from \in Int /\ Len(s) \in Nat /\ Len(t) = Len(s) - from
      BY <1>1, <1>5, <1>7, <2>1
    <2>3. \A k \in g + 1..m : o[k] - from \in 0..Len(t)
      BY <2>1, <2>2
    <2>4. p \in [g + 1..m -> 0..Len(t)]
      BY <2>3
    <2>5. o[g + 1] = from /\ o[m] = Len(s)
      BY <1>4, <1>5
    <2> QED
      BY <2>2, <2>4, <2>5
  <1>9. \A j, k \in g + 1..m : j <= k => p[j] <= p[k]
    BY <1>1, <1>4, <1>5, SMTT(60)
  <1>10. ASSUME NEW k \in (g + 1) + 1..m
         PROVE  /\ p[k] = p[k - 1] + HeadLen + Len(S[k])
                /\ \A i \in 1..HeadLen + Len(S[k]) : t[p[k - 1] + i] = Wire(S[k])[i]
    <2>1. /\ k \in g + 1..m /\ k - 1 \in g + 1..m
          /\ k \in g..m /\ k - 1 \in g..m /\ g + 1 \in g..m /\ g + 1 <= k - 1
          /\ k \in 1..m
      BY <1>1
    <2>2. Len(S[k]) \in Nat
      BY <2>1 DEF m, Bodies
    <2>3. /\ p[k] = o[k] - from /\ p[k - 1] = o[k - 1] - from
          /\ o[k] \in 0..Len(s) /\ o[k - 1] \in from..Len(s)
          /\ o[k] = o[k - 1] + HeadLen + Len(S[k])
      BY <1>1, <1>4, <1>5, <2>1
    <2> HIDE DEF p
    <2>4. ASSUME NEW i \in 1..HeadLen + Len(S[k])
          PROVE  t[p[k - 1] + i] = Wire(S[k])[i]
      <3>1. p[k - 1] + i \in 1..Len(s) - from /\ from + (p[k - 1] + i) = o[k - 1] + i
        <4> DEFINE a == o[k - 1]
                   c == Len(S[k])
                   q == p[k - 1]
        <4>1. /\ Len(s) \in Nat /\ from \in Nat /\ a \in from..Len(s) /\ c \in Nat
              /\ a + HeadLen + c <= Len(s) /\ i \in 1..HeadLen + c /\ q = a - from
          BY <1>1, <1>5, <2>2, <2>3
        <4> HIDE DEF a, c, q
        <4>2. q + i \in 1..Len(s) - from /\ from + (q + i) = a + i
          BY <4>1, Sizes
        <4> QED
          BY <4>2 DEF a, q
      <3>2. t[p[k - 1] + i] = s[o[k - 1] + i]
        BY <1>7, <3>1
      <3> QED
        BY <1>4, <2>1, <3>2
    <2>5. p[k] = p[k - 1] + HeadLen + Len(S[k])
      <3> DEFINE a == o[k - 1]
                 c == Len(S[k])
                 e == o[k]
      <3>1. /\ from \in Nat /\ a \in Nat /\ c \in Nat /\ e = a + HeadLen + c
            /\ p[k] = e - from /\ p[k - 1] = a - from
        BY <1>1, <1>5, <2>2, <2>3
      <3> HIDE DEF a, c, e
      <3>2. p[k] = p[k - 1] + HeadLen + c
        BY <3>1, Sizes
      <3> QED
        BY <3>2 DEF c
    <2> QED
      BY <2>4, <2>5
  <1>11. Frames(t, g + 1, S, p)
    <2> HIDE DEF p
    <2> QED
      BY <1>8, <1>9, <1>10 DEF Frames, m
  <1>12. from = HeadLen + Len(S[g + 1]) /\ n = Len(S[g + 1]) /\ b = S[g + 1]
    BY DEF from, n, b
  <1> QED
    BY <1>2, <1>5, <1>6, <1>11, <1>12 DEF t, n, b

FramingTypes ==
  /\ sent \in Seq(Bodies) /\ got \in Seq(Seq(Bytes))
  /\ buf \in Seq(Bytes) /\ wire \in Seq(Bytes)

\* The bodies handled are the first that were sent.
GotInv ==
  /\ Len(got) <= Len(sent)
  /\ \A k \in 1..Len(got) : got[k] = sent[k] /\ Len(got[k]) <= MaxFrame

\* As long as the reader has not failed, what is in its buffer and on the wire is
\* the frames of the others; and when it waits for bytes, it needs them.
StreamInv == ~failed => \E o : Frames(buf \o wire, Len(got), sent, o)

WaitInv ==
  at = "recv" =>
    /\ ~failed
    /\ ~HasHead(buf) \/ (BodyLen(buf) <= MaxFrame /\ ~Complete(buf))

FramingInv == FramingTypes /\ GotInv /\ StreamInv /\ WaitInv

LEMMA FramingStarts == FramingInit => FramingInv
  <1> SUFFICES ASSUME FramingInit PROVE FramingInv
    OBVIOUS
  <1>1. FramingTypes /\ GotInv
    BY DEF FramingInit, FramingTypes, GotInv
  <1>2. WaitInv
    BY Sizes DEF FramingInit, WaitInv, HasHead
  <1>3. StreamInv
    <2>1. buf \o wire = <<>> /\ Len(got) = 0 /\ sent = <<>>
      BY DEF FramingInit
    <2> DEFINE o == [k \in 0..0 |-> 0]
    <2>2. Frames(<<>>, 0, <<>>, o)
      <3>1. Len(<<>>) = 0 /\ 0 + 1..0 = {}
        OBVIOUS
      <3> QED
        BY <3>1 DEF Frames
    <2> QED
      BY <2>1, <2>2 DEF StreamInv
  <1> QED
    BY <1>1, <1>2, <1>3 DEF FramingInv

LEMMA SendKeepsFrames ==
  ASSUME FramingInv, NEW b \in Bodies, PeerSends(b)
  PROVE  FramingInv'
  <1>1. /\ sent' = Append(sent, b) /\ wire' = wire \o Wire(b)
        /\ buf' = buf /\ failed' = failed /\ got' = got /\ at' = at
    BY DEF PeerSends
  <1>2. Wire(b) \in Seq(Bytes)
    BY WireIsAFrame
  <1>3. FramingTypes'
    BY <1>1, <1>2 DEF FramingInv, FramingTypes
  <1>4. GotInv'
    <2>1. Len(sent') = Len(sent) + 1 /\ \A k \in 1..Len(sent) : sent'[k] = sent[k]
      BY <1>1, AppendProperties DEF FramingInv, FramingTypes
    <2>2. Len(got) \in Nat /\ Len(sent) \in Nat
      BY DEF FramingInv, FramingTypes
    <2> QED
      BY <1>1, <2>1, <2>2 DEF FramingInv, GotInv
  <1>5. ASSUME ~failed PROVE \E o : Frames(buf \o wire', Len(got), sent', o)
    <2>1. PICK o : Frames(buf \o wire, Len(got), sent, o)
      BY <1>5 DEF FramingInv, StreamInv
    <2>2. /\ sent \in Seq(Bodies) /\ buf \o wire \in Seq(Bytes)
          /\ Len(got) \in 0..Len(sent)
      <3>1. Len(got) \in Nat /\ Len(sent) \in Nat /\ Len(got) <= Len(sent)
        BY DEF FramingInv, FramingTypes, GotInv
      <3> QED
        BY <3>1, ConcatProperties DEF FramingInv, FramingTypes
    <2>3. \E p : Frames((buf \o wire) \o Wire(b), Len(got), Append(sent, b), p)
      BY <2>1, <2>2, OneMoreFrame
    <2>4. (buf \o wire) \o Wire(b) = buf \o wire'
      BY <1>1, <1>2, ConcatAssociative, SMTT(60) DEF FramingInv, FramingTypes
    <2> QED
      BY <1>1, <2>3, <2>4
  <1>6. StreamInv'
    BY <1>1, <1>5 DEF StreamInv
  <1>7. WaitInv'
    BY <1>1 DEF FramingInv, WaitInv, HasHead, BodyLen, Complete
  <1> QED
    BY <1>3, <1>4, <1>6, <1>7 DEF FramingInv

LEMMA FeedKeepsFrames ==
  ASSUME FramingInv, NEW n \in 1..Chunk, Feed(n)
  PROVE  FramingInv'
  <1>1. /\ ~failed /\ n <= Len(wire)
        /\ buf' = buf \o SubSeq(wire, 1, n) /\ wire' = SubSeq(wire, n + 1, Len(wire))
        /\ at' = "next" /\ sent' = sent /\ failed' = failed /\ got' = got
    BY DEF Feed, FramingInv, WaitInv
  <1>2. /\ wire \in Seq(Bytes) /\ buf \in Seq(Bytes) /\ Len(wire) \in Nat
        /\ n \in Nat /\ n >= 1
    BY Sizes DEF FramingInv, FramingTypes
  <1>3. SubSeq(wire, 1, n) \in Seq(Bytes) /\ wire' \in Seq(Bytes)
    <2>1. \A i \in 1..n : wire[i] \in Bytes
      BY <1>1, <1>2, ElementOfSeq
    <2>2. \A i \in n + 1..Len(wire) : wire[i] \in Bytes
      BY <1>1, <1>2, ElementOfSeq
    <2> QED
      BY <1>1, <1>2, <2>1, <2>2, SubSeqProperties
  <1>4. SubSeq(wire, 1, n) \o wire' = wire
    <2>1. 1 \in 1..Len(wire) + 1 /\ n \in 1 - 1..Len(wire) /\ Len(wire) \in n..Len(wire)
      BY <1>1, <1>2
    <2>2. SubSeq(wire, 1, n) \o SubSeq(wire, n + 1, Len(wire)) = SubSeq(wire, 1, Len(wire))
      BY <1>2, <2>1, ConcatAdjacentSubSeq
    <2> QED
      BY <1>1, <1>2, <2>2, SubSeqFull
  <1>5. buf' \o wire' = buf \o wire
    <2>1. (buf \o SubSeq(wire, 1, n)) \o wire' = buf \o (SubSeq(wire, 1, n) \o wire')
      BY <1>2, <1>3, ConcatAssociative
    <2> QED
      BY <1>1, <1>4, <2>1
  <1>6. FramingTypes'
    BY <1>1, <1>2, <1>3, ConcatProperties DEF FramingInv, FramingTypes
  <1>7. GotInv' /\ StreamInv' /\ WaitInv'
    BY <1>1, <1>5 DEF FramingInv, GotInv, StreamInv, WaitInv
  <1> QED
    BY <1>6, <1>7 DEF FramingInv

\* While the reader has not failed and a frame is missing, the first bytes of the
\* buffer are the next one's.
LEMMA NextFrame ==
  ASSUME FramingInv, ~failed, Len(got) # Len(sent)
  PROVE  LET n == Len(sent[Len(got) + 1])
             s == buf \o wire
         IN /\ Len(got) + 1 \in 1..Len(sent) /\ n \in Nat /\ n <= MaxBody
            /\ HeadLen + n <= Len(s)
            /\ HasHead(buf) => BodyLen(buf) = n
            /\ \A i \in 1..n : s[HeadLen + i] = sent[Len(got) + 1][i]
            /\ \E p : Frames(SubSeq(s, HeadLen + 1 + n, Len(s)), Len(got) + 1, sent, p)
  <1> DEFINE s == buf \o wire
             g == Len(got)
             n == Len(sent[g + 1])
  <1>1. PICK o : Frames(s, g, sent, o)
    BY DEF FramingInv, StreamInv
  <1>2. /\ sent \in Seq(Bodies) /\ g \in Nat /\ Len(sent) \in Nat /\ g <= Len(sent)
        /\ buf \in Seq(Bytes) /\ wire \in Seq(Bytes) /\ Len(buf) \in Nat
    BY DEF FramingInv, FramingTypes, GotInv
  <1>3. /\ s \in Seq(Bytes) /\ \A i \in 1..Len(buf) : s[i] = buf[i]
    <2>1. /\ s \in Seq(Bytes)
          /\ \A i \in 1..Len(buf) + Len(wire) :
               s[i] = IF i <= Len(buf) THEN buf[i] ELSE wire[i - Len(buf)]
      BY <1>2, ConcatProperties
    <2>2. Len(wire) \in Nat /\ \A i \in 1..Len(buf) : i \in 1..Len(buf) + Len(wire)
      BY <1>2
    <2> QED
      BY <1>2, <2>1, <2>2
  <1>4. g \in 0..Len(sent) - 1 /\ g + 1 \in 1..Len(sent)
    BY <1>2
  <1> HIDE DEF s, g
  <1>5. /\ n \in Nat /\ n <= MaxBody /\ HeadLen + n <= Len(s)
        /\ \A i \in 1..HeadLen : s[i] = Header(n)[i]
        /\ \A i \in 1..n : s[HeadLen + i] = sent[g + 1][i]
        /\ \E p : Frames(SubSeq(s, HeadLen + 1 + n, Len(s)), g + 1, sent, p)
    BY <1>1, <1>2, <1>3, <1>4, OneFrameLess
  <1>6. ASSUME HasHead(buf) PROVE BodyLen(buf) = n
    <2>1. \A i \in 1..HeadLen : i \in 1..Len(buf)
      BY <1>2, <1>6, Sizes DEF HasHead
    <2>2. \A i \in 1..HeadLen : buf[i] = Header(n)[i]
      BY <1>3, <1>5, <2>1
    <2> QED
      BY <1>5, <2>2, HeaderIsRead
  <1> QED
    BY <1>4, <1>5, <1>6 DEF s, g

LEMMA NextKeepsFrames ==
  ASSUME FramingInv, NextBody
  PROVE  FramingInv'
  <1> DEFINE s == buf \o wire
             g == Len(got)
             n == Len(sent[g + 1])
             L == BodyLen(buf)
             body == SubSeq(buf, HeadLen + 1, HeadLen + L)
  <1>1. /\ at = "next" /\ ~failed /\ HasHead(buf) /\ L <= MaxFrame /\ Complete(buf)
        /\ got' = Append(got, body)
        /\ buf' = SubSeq(buf, HeadLen + 1 + L, Len(buf))
        /\ sent' = sent /\ wire' = wire /\ failed' = failed /\ at' = at
    BY DEF NextBody
  <1>2. /\ sent \in Seq(Bodies) /\ g \in Nat /\ Len(sent) \in Nat /\ g <= Len(sent)
        /\ got \in Seq(Seq(Bytes))
        /\ buf \in Seq(Bytes) /\ wire \in Seq(Bytes)
        /\ Len(buf) \in Nat /\ Len(wire) \in Nat /\ HeadLen = 4
    BY Sizes DEF FramingInv, FramingTypes, GotInv
  <1>3. /\ s \in Seq(Bytes) /\ Len(s) = Len(buf) + Len(wire)
        /\ \A i \in 1..Len(buf) + Len(wire) :
             s[i] = IF i <= Len(buf) THEN buf[i] ELSE wire[i - Len(buf)]
    BY <1>2, ConcatProperties
  <1>4. g # Len(sent)
    <2> SUFFICES ASSUME g = Len(sent) PROVE FALSE
      OBVIOUS
    <2>1. PICK o : Frames(s, g, sent, o)
      BY <1>1 DEF FramingInv, StreamInv
    <2>2. Len(s) = 0
      BY <2>1 DEF Frames
    <2> QED
      BY <1>1, <1>2, <1>3, <2>2 DEF HasHead
  <1>5. /\ g + 1 \in 1..Len(sent) /\ n \in Nat /\ HeadLen + n <= Len(s) /\ L = n
        /\ \A i \in 1..n : s[HeadLen + i] = sent[g + 1][i]
        /\ \E p : Frames(SubSeq(s, HeadLen + 1 + n, Len(s)), g + 1, sent, p)
    BY <1>1, <1>4, NextFrame
  <1>6. HeadLen + n <= Len(buf)
    BY <1>1, <1>5 DEF Complete
  <1>7. sent[g + 1] \in Seq(Bytes)
    BY <1>2, <1>5, ElementOfSeq DEF Bodies
  <1> HIDE DEF s, g, n, L
  <1>8. body = sent[g + 1]
    <2>1. \A i \in HeadLen + 1..HeadLen + L : buf[i] \in Bytes
      <3>1. \A i \in HeadLen + 1..HeadLen + L : i \in 1..Len(buf)
        BY <1>2, <1>5, <1>6
      <3> QED
        BY <1>2, <3>1, ElementOfSeq
    <2>2. HeadLen + 1 \in Int /\ HeadLen + L \in Int
      BY <1>2, <1>5
    <2>3. /\ body \in Seq(Bytes)
          /\ Len(body) = IF HeadLen + 1 <= HeadLen + L
                         THEN (HeadLen + L) - (HeadLen + 1) + 1 ELSE 0
          /\ \A i \in 1..(HeadLen + L) - (HeadLen + 1) + 1 :
               body[i] = buf[(HeadLen + 1) + i - 1]
      BY <2>1, <2>2, SubSeqProperties
    <2> HIDE DEF body
    <2>4. Len(body) = n
      BY <1>2, <1>5, <2>3
    <2>5. ASSUME NEW i \in 1..n PROVE body[i] = sent[g + 1][i]
      <3>1. /\ i \in 1..(HeadLen + L) - (HeadLen + 1) + 1
            /\ (HeadLen + 1) + i - 1 = HeadLen + i
            /\ HeadLen + i \in 1..Len(buf)
            /\ HeadLen + i \in 1..Len(buf) + Len(wire) /\ HeadLen + i <= Len(buf)
        BY <1>2, <1>5, <1>6
      <3>2. body[i] = buf[HeadLen + i]
        BY <2>3, <3>1
      <3>3. s[HeadLen + i] = buf[HeadLen + i]
        BY <1>3, <3>1
      <3> QED
        BY <1>5, <3>2, <3>3
    <2>6. Len(sent[g + 1]) = n
      BY DEF n
    <2> QED
      BY <1>7, <2>3, <2>4, <2>5, <2>6, SeqEqual
  <1> HIDE DEF body
  <1>9. GotInv'
    <2>1. Len(got') = g + 1 /\ got'[g + 1] = sent[g + 1]
          /\ \A k \in 1..g : got'[k] = got[k]
      BY <1>1, <1>2, <1>7, <1>8, AppendProperties DEF g
    <2>2. Len(sent[g + 1]) <= MaxFrame
      BY <1>1, <1>5 DEF n
    <2>3. \A k \in 1..g + 1 : k = g + 1 \/ k \in 1..g
      BY <1>2
    <2>4. \A k \in 1..g : got[k] = sent[k] /\ Len(got[k]) <= MaxFrame
      BY DEF FramingInv, GotInv, g
    <2>5. g + 1 <= Len(sent)
      BY <1>5
    <2> QED
      BY <1>1, <2>1, <2>2, <2>3, <2>4, <2>5 DEF GotInv
  <1>10. buf' \in Seq(Bytes) /\ buf' \o wire = SubSeq(s, HeadLen + 1 + n, Len(s))
    <2> DEFINE from == HeadLen + n
               t == SubSeq(s, HeadLen + 1 + n, Len(s))
    <2>1. /\ HeadLen + 1 + n = from + 1 /\ from + 1 \in Int /\ Len(buf) \in Int
          /\ Len(s) \in Int /\ from \in Nat /\ from <= Len(buf) /\ from <= Len(s)
          /\ from + 1 >= 1
      BY <1>2, <1>3, <1>5, <1>6
    <2> HIDE DEF from
    <2>2. /\ \A i \in from + 1..Len(buf) : buf[i] \in Bytes
          /\ \A i \in from + 1..Len(s) : s[i] \in Bytes
      BY <1>2, <1>3, <2>1, ElementOfSeq
    <2>3. /\ buf' \in Seq(Bytes)
          /\ Len(buf') = IF from + 1 <= Len(buf) THEN Len(buf) - (from + 1) + 1 ELSE 0
          /\ \A i \in 1..Len(buf) - (from + 1) + 1 : buf'[i] = buf[(from + 1) + i - 1]
      BY <1>1, <1>5, <2>1, <2>2, SubSeqProperties, SMTT(60)
    <2>4. /\ t \in Seq(Bytes)
          /\ Len(t) = IF from + 1 <= Len(s) THEN Len(s) - (from + 1) + 1 ELSE 0
          /\ \A i \in 1..Len(s) - (from + 1) + 1 : t[i] = s[(from + 1) + i - 1]
      BY <2>1, <2>2, SubSeqProperties
    <2> HIDE DEF t
    <2>5. Len(buf') = Len(buf) - from /\ Len(t) = Len(s) - from
      BY <2>1, <2>3, <2>4
    <2>6. /\ buf' \o wire \in Seq(Bytes) /\ Len(buf' \o wire) = Len(buf') + Len(wire)
          /\ \A i \in 1..Len(buf') + Len(wire) :
               (buf' \o wire)[i] = IF i <= Len(buf') THEN buf'[i] ELSE wire[i - Len(buf')]
      BY <1>2, <2>3, ConcatProperties
    <2>7. Len(buf' \o wire) = Len(t)
      BY <1>2, <1>3, <2>1, <2>5, <2>6
    <2>8. ASSUME NEW i \in 1..Len(buf' \o wire) PROVE (buf' \o wire)[i] = t[i]
      <3>1. /\ i \in Nat /\ i >= 1 /\ i <= Len(s) - from /\ Len(s) \in Nat
            /\ i \in 1..Len(buf') + Len(wire)
        BY <1>2, <1>3, <2>1, <2>5, <2>6
      <3>2. t[i] = s[from + i]
        <4>1. i \in 1..Len(s) - (from + 1) + 1 /\ (from + 1) + i - 1 = from + i
          BY <2>1, <3>1
        <4> QED
          BY <2>4, <4>1
      <3>3. from + i \in 1..Len(buf) + Len(wire)
        BY <1>2, <1>3, <2>1, <3>1
      <3>4. CASE i <= Len(buf')
        <4>1. /\ i \in 1..Len(buf) - (from + 1) + 1 /\ (from + 1) + i - 1 = from + i
              /\ from + i <= Len(buf)
          BY <1>2, <2>1, <2>5, <3>1, <3>4
        <4>2. (buf' \o wire)[i] = buf[from + i]
          BY <2>3, <2>6, <3>1, <3>4, <4>1
        <4> QED
          BY <1>3, <3>2, <3>3, <4>1, <4>2
      <3>5. CASE ~(i <= Len(buf'))
        <4>1. ~(from + i <= Len(buf)) /\ i - Len(buf') = (from + i) - Len(buf)
          BY <1>2, <2>1, <2>5, <3>1, <3>5
        <4>2. (buf' \o wire)[i] = wire[i - Len(buf')]
          BY <2>6, <3>1, <3>5
        <4> QED
          BY <1>3, <3>2, <3>3, <4>1, <4>2
      <3> QED
        BY <3>4, <3>5
    <2>9. buf' \o wire = t
      BY <2>4, <2>6, <2>7, <2>8, SeqEqual
    <2> QED
      BY <2>3, <2>9 DEF t
  <1>11. StreamInv'
    <2>1. Len(got') = g + 1
      BY <1>1, <1>2, <1>7, <1>8, AppendProperties DEF g
    <2> QED
      BY <1>1, <1>5, <1>10, <2>1 DEF StreamInv
  <1>12. FramingTypes'
    BY <1>1, <1>2, <1>7, <1>8, <1>10, AppendProperties DEF FramingTypes
  <1>13. WaitInv'
    BY <1>1 DEF WaitInv
  <1> QED
    BY <1>9, <1>11, <1>12, <1>13 DEF FramingInv

LEMMA FramingKeeps == FramingInv /\ [FramingNext]_framingVars => FramingInv'
  <1> SUFFICES ASSUME FramingInv, [FramingNext]_framingVars PROVE FramingInv'
    OBVIOUS
  <1>1. ASSUME NEW n \in 0..MaxBody, NEW body \in [1..n -> 0..Base - 1], PeerSends(body)
        PROVE  FramingInv'
    <2>1. n \in Nat /\ n <= MaxBody
      BY Sizes
    <2>2. body \in Seq(Bytes) /\ Len(body) = n
      <3>1. body \in [1..n -> Bytes]
        BY DEF Bytes
      <3> QED
        BY <2>1, <3>1
    <2>3. body \in Bodies
      BY <2>1, <2>2 DEF Bodies
    <2> QED
      BY <1>1, <2>3, SendKeepsFrames
  <1>2. ASSUME NEW n \in 1..Chunk, Feed(n) PROVE FramingInv'
    BY <1>2, FeedKeepsFrames
  <1>3. CASE TooLong
    BY <1>3 DEF TooLong, FramingInv, FramingTypes, GotInv, StreamInv, WaitInv
  <1>4. CASE NextBody
    BY <1>4, NextKeepsFrames
  <1>5. CASE NoBody
    BY <1>5 DEF NoBody, FramingInv, FramingTypes, GotInv, StreamInv, WaitInv, HasHead, BodyLen, Complete
  <1>6. CASE UNCHANGED framingVars
    BY <1>6 DEF framingVars, FramingInv, FramingTypes, GotInv, StreamInv, WaitInv, HasHead, BodyLen, Complete
  <1> QED
    BY <1>1, <1>2, <1>3, <1>4, <1>5, <1>6 DEF FramingNext

LEMMA HandledAsSent == FramingInv => FramesAsSent
  <1> SUFFICES ASSUME FramingInv PROVE FramesAsSent
    OBVIOUS
  <1> DEFINE g == Len(got)
  <1>1. /\ got \in Seq(Seq(Bytes)) /\ sent \in Seq(Seq(Bytes))
        /\ g \in Nat /\ Len(sent) \in Nat /\ g <= Len(sent)
        /\ \A k \in 1..g : got[k] = sent[k] /\ Len(got[k]) <= MaxFrame
    <2>1. Bodies \subseteq Seq(Bytes)
      BY DEF Bodies
    <2> QED
      BY <2>1, SeqMonotonic DEF FramingInv, FramingTypes, GotInv
  <1>2. SubSeq(got, 1, g) = SubSeq(sent, 1, g)
    <2>1. /\ \A i \in 1..g : got[i] \in Seq(Bytes) /\ sent[i] \in Seq(Bytes)
          /\ 1 \in Int /\ g \in Int
      BY <1>1, ElementOfSeq
    <2>2. /\ SubSeq(got, 1, g) \in Seq(Seq(Bytes)) /\ SubSeq(sent, 1, g) \in Seq(Seq(Bytes))
          /\ Len(SubSeq(got, 1, g)) = g /\ Len(SubSeq(sent, 1, g)) = g
          /\ \A i \in 1..g : SubSeq(got, 1, g)[i] = got[i] /\ SubSeq(sent, 1, g)[i] = sent[i]
      <3> HIDE DEF g
      <3>1. /\ SubSeq(got, 1, g) \in Seq(Seq(Bytes))
            /\ Len(SubSeq(got, 1, g)) = IF 1 <= g THEN g - 1 + 1 ELSE 0
            /\ \A i \in 1..g - 1 + 1 : SubSeq(got, 1, g)[i] = got[1 + i - 1]
        BY <2>1, SubSeqProperties
      <3>2. /\ SubSeq(sent, 1, g) \in Seq(Seq(Bytes))
            /\ Len(SubSeq(sent, 1, g)) = IF 1 <= g THEN g - 1 + 1 ELSE 0
            /\ \A i \in 1..g - 1 + 1 : SubSeq(sent, 1, g)[i] = sent[1 + i - 1]
        BY <2>1, SubSeqProperties
      <3>3. g - 1 + 1 = g /\ \A i \in 1..g : 1 + i - 1 = i
        BY <1>1
      <3> QED
        BY <1>1, <3>1, <3>2, <3>3
    <2> HIDE DEF g
    <2> QED
      BY <1>1, <2>2, SeqEqual
  <1>3. IsPrefix(got, sent)
    BY <1>1, <1>2 DEF IsPrefix
  <1>4. \A n \in DOMAIN got : Len(got[n]) <= MaxFrame
    <2>1. DOMAIN got = 1..g
      BY <1>1
    <2> QED
      BY <1>1, <2>1
  <1> QED
    BY <1>3, <1>4 DEF FramesAsSent

LEMMA WaitingIsNeeded == FramingInv => NothingWaits
  <1> SUFFICES ASSUME FramingInv, at = "recv", wire = <<>> PROVE got = sent /\ buf = <<>>
    BY DEF NothingWaits
  <1>1. /\ sent \in Seq(Bodies) /\ got \in Seq(Seq(Bytes)) /\ buf \in Seq(Bytes)
        /\ Len(got) \in Nat /\ Len(sent) \in Nat /\ Len(buf) \in Nat
        /\ buf \o wire = buf /\ ~failed
    BY DEF FramingInv, FramingTypes, WaitInv
  <1>2. Len(got) = Len(sent)
    <2> SUFFICES ASSUME Len(got) # Len(sent) PROVE FALSE
      OBVIOUS
    <2> DEFINE n == Len(sent[Len(got) + 1])
    <2>1. /\ n \in Nat /\ HeadLen + n <= Len(buf)
          /\ HasHead(buf) => BodyLen(buf) = n
      BY <1>1, NextFrame
    <2> HIDE DEF n
    <2>2. HasHead(buf) /\ Complete(buf)
      BY <1>1, <2>1, Sizes DEF HasHead, Complete
    <2> QED
      BY <2>2 DEF FramingInv, WaitInv
  <1>3. buf = <<>>
    <2>1. PICK o : Frames(buf, Len(got), sent, o)
      BY <1>1 DEF FramingInv, StreamInv
    <2>2. Len(buf) = 0
      BY <1>2, <2>1 DEF Frames
    <2> QED
      BY <1>1, <2>2
  <1>4. got = sent
    <2>1. sent \in Seq(Seq(Bytes))
      <3>1. Bodies \subseteq Seq(Bytes)
        BY DEF Bodies
      <3> QED
        BY <1>1, <3>1, SeqMonotonic
    <2>2. \A k \in 1..Len(got) : got[k] = sent[k]
      BY DEF FramingInv, GotInv
    <2> QED
      BY <1>1, <1>2, <2>1, <2>2, SeqEqual
  <1> QED
    BY <1>3, <1>4

\* Wherever the stream is cut and whatever is sent, the frames handled are the
\* frames sent, in order and whole, and none waits that has arrived (FrameReader,
\* make_wire_frame, handleClient).
THEOREM FramesArriveAsSent == FramingSpec => []StreamIsFrames
  <1>1. FramingInv => StreamIsFrames
    BY HandledAsSent, WaitingIsNeeded DEF StreamIsFrames
  <1> QED
    BY <1>1, FramingStarts, FramingKeeps, PTL DEF FramingSpec

-----------------------------------------------------------------------------
(* SHA-256's block layer.                                                  *)

\* Everything that is ever hashed: bytes of messages, of padding and of lengths.
HashBytes ==
  MessageBytes \cup {0, 128}
  \cup {LengthBytes(8 * n)[k] : n \in Nat, k \in 1..LengthSize}

Contexts ==
  [h : Seq(Seq(HashBytes)), block : Seq(HashBytes), bitlen : Nat]

\* The context c has taken the bytes m: full blocks are in h, the rest in block.
Holds(c, m) ==
  /\ c \in Contexts
  /\ Len(c.block) < BlockSize
  /\ \A k \in DOMAIN c.h : Len(c.h[k]) = BlockSize
  /\ c.bitlen = 8 * (BlockSize * Len(c.h))
  /\ Len(m) = BlockSize * Len(c.h) + Len(c.block)
  /\ FlattenSeq(c.h) \o c.block = m

LEMMA ShaSizes ==
  BlockSize \in Nat /\ LengthSize \in Nat /\ 1 <= LengthSize /\ LengthSize < BlockSize
  BY Sha256Assumption

\* f lists what the pieces h make, one piece after the other.
Joins(f, h, V) ==
  /\ f \in [0..Len(h) -> Seq(V)]
  /\ f[0] = << >>
  /\ \A k \in 1..Len(h) : f[k] = f[k - 1] \o h[k]

\* FlattenSeq is the last of them.
LEMMA FlattenIsLoop ==
  ASSUME NEW V, NEW h \in Seq(Seq(V)), NEW f, Joins(f, h, V)
  PROVE  FlattenSeq(h) = f[Len(h)]
  <1> USE DEF Joins
  <1> DEFINE n == Len(h)
             Eq(g) == g = [i \in 1..n |-> IF i = 1 THEN h[i] ELSE g[i - 1] \o h[i]]
             e == [i \in 1..n |-> f[i]]
             a == CHOOSE g : Eq(g)
  <1>1. n \in Nat /\ (n = 0 <=> h = << >>) /\ \A k \in 1..n : h[k] \in Seq(V)
    BY EmptySeq, ElementOfSeq
  <1>2. CASE n = 0
    BY <1>1, <1>2 DEF FlattenSeq
  <1>3. CASE n # 0
    <2>1. FlattenSeq(h) = a[n]
      BY <1>1, <1>3 DEF FlattenSeq
    <2>2. Eq(e)
      <3>1. ASSUME NEW i \in 1..n
            PROVE  e[i] = IF i = 1 THEN h[i] ELSE e[i - 1] \o h[i]
        <4>1. CASE i = 1
          <5>1. h[1] \in Seq(V) /\ f[1] = f[0] \o h[1]
            <6>1. 1 \in 1..n
              BY <1>1, <1>3
            <6>2. f[1] = f[1 - 1] \o h[1]
              BY <6>1
            <6> QED
              BY <1>1, <6>1, <6>2
          <5>2. << >> \o h[1] = h[1]
            BY <5>1, ConcatEmptySeq
          <5> QED
            BY <1>3, <4>1, <5>1, <5>2
        <4>2. CASE i # 1
          <5>1. i - 1 \in 1..n
            BY <1>1, <4>2
          <5> QED
            BY <4>2, <5>1
        <4> QED
          BY <4>1, <4>2
      <3> QED
        BY <3>1
    <2>3. Eq(a)
      BY <2>2
    <2> DEFINE T == {k \in Nat : k + 1 \in 1..n => a[k + 1] = f[k + 1]}
    <2>4. \A i \in 1..n : a[i] = IF i = 1 THEN h[i] ELSE a[i - 1] \o h[i]
      BY <2>3
    <2>5. \A i \in 1..n : f[i] = IF i = 1 THEN h[i] ELSE f[i - 1] \o h[i]
      <3> SUFFICES ASSUME NEW i \in 1..n
                   PROVE  f[i] = IF i = 1 THEN h[i] ELSE f[i - 1] \o h[i]
        OBVIOUS
      <3>1. e[i] = IF i = 1 THEN h[i] ELSE e[i - 1] \o h[i]
        BY <2>2
      <3>2. e[i] = f[i] /\ (i # 1 => i - 1 \in 1..n)
        BY <1>1
      <3>3. i # 1 => e[i - 1] = f[i - 1]
        BY <3>2
      <3> HIDE DEF e
      <3> QED
        BY <3>1, <3>2, <3>3
    <2> HIDE DEF a, e
    <2>6. 0 \in T
      BY <1>1, <1>3, <2>4, <2>5
    <2>7. \A k \in Nat : k \in T => k + 1 \in T
      <3> SUFFICES ASSUME NEW k \in Nat, k \in T, (k + 1) + 1 \in 1..n
                   PROVE  a[(k + 1) + 1] = f[(k + 1) + 1]
        OBVIOUS
      <3>1. k + 1 \in 1..n /\ ((k + 1) + 1) - 1 = k + 1 /\ (k + 1) + 1 # 1
        BY <1>1
      <3>2. a[k + 1] = f[k + 1]
        BY <3>1
      <3> DEFINE j == (k + 1) + 1
      <3>3. a[j] = a[j - 1] \o h[j] /\ f[j] = f[j - 1] \o h[j]
        BY <2>4, <2>5, <3>1
      <3> QED
        BY <3>1, <3>2, <3>3
    <2> HIDE DEF T
    <2>8. n - 1 \in T
      <3>1. Nat \subseteq T
        BY <2>6, <2>7, NumbersInduction
      <3> QED
        BY <1>1, <1>3, <3>1
    <2>9. a[n] = f[n]
      BY <1>1, <1>3, <2>8 DEF T
    <2> QED
      BY <2>1, <2>9
  <1> QED
    BY <1>2, <1>3

\* The pieces put together, and one more.
LEMMA FlattenAppends ==
  ASSUME NEW V, NEW h \in Seq(Seq(V)), NEW b \in Seq(V)
  PROVE  /\ FlattenSeq(h) \in Seq(V)
         /\ FlattenSeq(Append(h, b)) = FlattenSeq(h) \o b
  <1> DEFINE n == Len(h)
             step == [x \in (1..n) \X Seq(V) |-> x[2] \o h[x[1]]]
             empty == << >>
             Q == Seq(V)
  <1>1. n \in Nat /\ \A k \in 1..n : h[k] \in Seq(V)
    BY LenProperties, ElementOfSeq
  <1>2. empty \in Q /\ step \in [(1..n) \X Q -> Q]
    <2>1. ASSUME NEW x \in (1..n) \X Seq(V)
          PROVE  x[2] \o h[x[1]] \in Seq(V)
      <3>1. x[1] \in 1..n /\ x[2] \in Seq(V)
        OBVIOUS
      <3> HIDE DEF n
      <3>2. h[x[1]] \in Seq(V)
        BY <1>1, <3>1
      <3> QED
        BY <3>1, <3>2, ConcatProperties
    <2> QED
      BY <2>1, EmptySeq
  <1>3. \A k \in 1..n, q \in Q : step[<<k, q>>] = q \o h[k]
    OBVIOUS
  <1> HIDE DEF n, step, empty, Q
  <1>4. PICK f : IsLoop(f, n, Q, empty, step)
    BY <1>1, <1>2, LoopExists
  <1>5. /\ f \in [0..n -> Seq(V)] /\ f[0] = << >>
        /\ \A k \in 1..n : f[k] = f[k - 1] \o h[k]
    <2>1. f \in [0..n -> Q] /\ f[0] = empty /\ \A k \in 1..n : f[k] = step[<<k, f[k - 1]>>]
      BY <1>4 DEF IsLoop
    <2>2. ASSUME NEW k \in 1..n PROVE f[k] = f[k - 1] \o h[k]
      <3>1. k - 1 \in 0..n
        BY <1>1
      <3> QED
        BY <1>3, <2>1, <3>1
    <2> QED
      BY <2>1, <2>2 DEF Q, empty
  <1>6. FlattenSeq(h) = f[n] /\ f[n] \in Seq(V)
    <2>1. Joins(f, h, V)
      BY <1>5 DEF Joins, n
    <2>2. FlattenSeq(h) = f[n]
      BY <2>1, FlattenIsLoop DEF n
    <2> QED
      BY <1>1, <1>5, <2>2
  <1> DEFINE hb == Append(h, b)
             g == [k \in 0..n + 1 |-> IF k = n + 1 THEN f[n] \o b ELSE f[k]]
  <1>7. /\ hb \in Seq(Seq(V)) /\ Len(hb) = n + 1 /\ hb[n + 1] = b
        /\ \A k \in 1..n : hb[k] = h[k]
    BY AppendProperties DEF n
  <1>8. /\ g \in [0..n + 1 -> Seq(V)] /\ g[0] = << >> /\ g[n + 1] = f[n] \o b
        /\ \A k \in 0..n : g[k] = f[k]
    <2>1. f[n] \o b \in Seq(V)
      BY <1>6, ConcatProperties
    <2> QED
      BY <1>1, <1>5, <2>1, SMTT(60)
  <1> HIDE DEF hb, g
  <1>9. ASSUME NEW k \in 1..n + 1 PROVE g[k] = g[k - 1] \o hb[k]
    <2>1. CASE k = n + 1
      <3>1. k - 1 = n /\ n \in 0..n
        BY <1>1, <2>1
      <3> QED
        BY <1>7, <1>8, <2>1, <3>1
    <2>2. CASE k # n + 1
      <3>1. k \in 1..n /\ k \in 0..n /\ k - 1 \in 0..n
        BY <1>1, <2>2
      <3> QED
        BY <1>5, <1>7, <1>8, <3>1
    <2> QED
      BY <2>1, <2>2
  <1>10. FlattenSeq(hb) = g[n + 1]
    <2>1. Joins(g, hb, V)
      BY <1>7, <1>8, <1>9 DEF Joins
    <2> QED
      BY <1>7, <2>1, FlattenIsLoop
  <1> QED
    BY <1>6, <1>8, <1>10 DEF hb

\* One byte more (update).
LEMMA AbsorbHolds ==
  ASSUME NEW c, NEW m \in Seq(HashBytes), Holds(c, m), NEW x \in HashBytes
  PROVE  Holds(Absorb(c, x), Append(m, x))
  <1> DEFINE V == HashBytes
             b == Append(c.block, x)
  <1>1. /\ c.h \in Seq(Seq(V)) /\ c.block \in Seq(V) /\ c.bitlen \in Nat
        /\ Len(c.h) \in Nat /\ Len(c.block) \in Nat /\ Len(m) \in Nat
    BY LenProperties DEF Holds, Contexts
  <1>2. b \in Seq(V) /\ Len(b) = Len(c.block) + 1 /\ b = c.block \o <<x>>
    BY <1>1, AppendProperties, AppendIsConcat
  <1>3. Append(m, x) = m \o <<x>> /\ Len(Append(m, x)) = Len(m) + 1
    BY AppendProperties, AppendIsConcat
  <1>4. FlattenSeq(c.h) \in Seq(V) /\ FlattenSeq(Append(c.h, b)) = FlattenSeq(c.h) \o b
    BY <1>1, <1>2, FlattenAppends
  <1>5. FlattenSeq(c.h) \o b = Append(m, x)
    <2>1. <<x>> \in Seq(V)
      OBVIOUS
    <2>2. (FlattenSeq(c.h) \o c.block) \o <<x>> = FlattenSeq(c.h) \o (c.block \o <<x>>)
      <3> DEFINE F == FlattenSeq(c.h)
                 B == c.block
                 one == <<x>>
      <3>1. F \in Seq(V) /\ B \in Seq(V) /\ one \in Seq(V)
        BY <1>1, <1>4, <2>1
      <3> HIDE DEF F, B, one
      <3>2. (F \o B) \o one = F \o (B \o one)
        BY <3>1, ConcatAssociative, SMTT(60)
      <3> QED
        BY <3>2 DEF F, B, one
    <2>3. FlattenSeq(c.h) \o c.block = m
      BY DEF Holds
    <2> QED
      BY <1>2, <1>3, <2>2, <2>3
  <1>6. CASE Len(c.block) + 1 < BlockSize
    <2>1. Absorb(c, x) = [c EXCEPT !.block = b]
      BY <1>6 DEF Absorb
    <2> DEFINE d == [c EXCEPT !.block = b]
    <2>2. d.h = c.h /\ d.block = b /\ d.bitlen = c.bitlen /\ d \in Contexts
      BY <1>2 DEF Holds, Contexts
    <2> HIDE DEF d, b
    <2>3. Len(Append(m, x)) = BlockSize * Len(c.h) + Len(b)
      <3> DEFINE p == BlockSize * Len(c.h)
      <3>1. p \in Nat /\ Len(m) = p + Len(c.block)
        BY <1>1, ShaSizes DEF Holds
      <3> HIDE DEF p
      <3>2. Len(Append(m, x)) = p + Len(b)
        BY <1>1, <1>2, <1>3, <3>1
      <3> QED
        BY <3>2 DEF p
    <2>4. Holds(d, Append(m, x))
      BY <1>2, <1>5, <1>6, <2>2, <2>3 DEF Holds
    <2> QED
      BY <2>1, <2>4 DEF d
  <1>7. CASE ~(Len(c.block) + 1 < BlockSize)
    <2> DEFINE d == [h |-> Append(c.h, b), block |-> << >>,
                     bitlen |-> c.bitlen + 8 * BlockSize]
    <2>1. Absorb(c, x) = d
      BY <1>7 DEF Absorb
    <2>2. Len(b) = BlockSize
      <3> DEFINE n == Len(c.block)
      <3>1. n \in Nat /\ n < BlockSize /\ ~(n + 1 < BlockSize) /\ Len(b) = n + 1
        BY <1>1, <1>2, <1>7 DEF Holds
      <3> HIDE DEF n, b
      <3> QED
        BY <3>1, ShaSizes
    <2>3. /\ d.h \in Seq(Seq(V)) /\ Len(d.h) = Len(c.h) + 1
          /\ \A k \in 1..Len(c.h) : d.h[k] = c.h[k]
          /\ d.h[Len(c.h) + 1] = b
      BY <1>1, <1>2, AppendProperties
    <2>4. d.block = << >> /\ Len(d.block) = 0 /\ d.block \in Seq(V)
      BY EmptySeq
    <2>5. d.bitlen = c.bitlen + 8 * BlockSize /\ d.bitlen \in Nat
      BY <1>1, ShaSizes
    <2>6. d \in Contexts
      BY <2>3, <2>4, <2>5 DEF Contexts
    <2>7. FlattenSeq(d.h) \o d.block = Append(m, x)
      <3>1. FlattenSeq(d.h) = Append(m, x)
        BY <1>4, <1>5
      <3>2. Append(m, x) \in Seq(V)
        BY AppendProperties
      <3> QED
        BY <2>4, <3>1, <3>2, ConcatEmptySeq
    <2> HIDE DEF d, b
    <2>8. /\ Len(Append(m, x)) = BlockSize * Len(d.h) + Len(d.block)
          /\ d.bitlen = 8 * (BlockSize * Len(d.h))
      <3> DEFINE H == Len(c.h)
                 p == BlockSize * H
      <3>1. H \in Nat /\ p \in Nat /\ Len(m) = p + Len(c.block) /\ c.bitlen = 8 * p
        BY <1>1, ShaSizes DEF Holds
      <3>2. BlockSize * (H + 1) = p + BlockSize
        BY <3>1, ShaSizes
      <3>3. Len(d.h) = H + 1
        BY <2>3
      <3> HIDE DEF H, p
      <3>4. Len(Append(m, x)) = p + BlockSize
        BY <1>1, <1>2, <1>3, <2>2, <3>1
      <3> QED
        BY <2>4, <2>5, <3>1, <3>2, <3>3, <3>4, ShaSizes
    <2>9. \A k \in DOMAIN d.h : Len(d.h[k]) = BlockSize
      <3>1. DOMAIN d.h = 1..Len(c.h) + 1 /\ DOMAIN c.h = 1..Len(c.h)
        BY <1>1, <2>3, LenProperties
      <3>2. \A k \in 1..Len(c.h) : Len(c.h[k]) = BlockSize
        BY <3>1 DEF Holds
      <3>3. \A k \in 1..Len(c.h) + 1 : k \in 1..Len(c.h) \/ k = Len(c.h) + 1
        BY <1>1
      <3> QED
        BY <2>2, <2>3, <3>1, <3>2, <3>3
    <2>10. Len(d.block) < BlockSize
      BY <2>4, ShaSizes
    <2>11. Holds(d, Append(m, x))
      BY <2>6, <2>7, <2>8, <2>9, <2>10 DEF Holds
    <2> QED
      BY <2>1, <2>11
  <1> QED
    BY <1>6, <1>7

\* A byte behind a text.
LEMMA ByteBehind ==
  ASSUME NEW V, NEW m \in Seq(V), NEW s \in Seq(V), NEW y \in V
  PROVE  Append(m \o s, y) = m \o (s \o <<y>>)
  <1> DEFINE one == <<y>>
  <1>1. one \in Seq(V) /\ m \o s \in Seq(V)
    BY ConcatProperties
  <1>2. Append(m \o s, y) = (m \o s) \o one
    BY <1>1, AppendIsConcat
  <1> HIDE DEF one
  <1>3. (m \o s) \o one = m \o (s \o one)
    BY <1>1, ConcatAssociative
  <1> QED
    BY <1>2, <1>3 DEF one

\* Any number of bytes more.
LEMMA AbsorbAllHolds ==
  ASSUME NEW c, NEW m \in Seq(HashBytes), Holds(c, m), NEW bytes \in Seq(HashBytes)
  PROVE  Holds(AbsorbAll(c, bytes), m \o bytes)
  <1> DEFINE n == Len(bytes)
             V == HashBytes
             D == {d \in Contexts : \E t \in Seq(V) : Holds(d, t)}
             step == [x \in (1..n) \X D |-> Absorb(x[2], bytes[x[1]])]
             Eq(g) == g = [k \in 0..n |-> IF k = 0 THEN c ELSE Absorb(g[k - 1], bytes[k])]
             a == CHOOSE g : Eq(g)
             T == {k \in Nat : k <= n => Holds(a[k], m \o SubSeq(bytes, 1, k))}
  <1>1. n \in Nat /\ \A k \in 1..n : bytes[k] \in V
    BY LenProperties, ElementOfSeq
  <1>2. \A d \in D, x \in V : Absorb(d, x) \in D
    <2> SUFFICES ASSUME NEW d \in D, NEW x \in V PROVE Absorb(d, x) \in D
      OBVIOUS
    <2>1. PICK t \in Seq(V) : Holds(d, t)
      OBVIOUS
    <2>2. Holds(Absorb(d, x), Append(t, x)) /\ Append(t, x) \in Seq(V)
      BY <2>1, AbsorbHolds, AppendProperties
    <2> QED
      BY <2>2 DEF Holds
  <1>3. c \in D
    BY DEF Holds
  <1>4. /\ step \in [(1..n) \X D -> D]
        /\ \A k \in 1..n, d \in D : step[<<k, d>>] = Absorb(d, bytes[k])
    <2> HIDE DEF D, n
    <2>1. ASSUME NEW x \in (1..n) \X D
          PROVE  Absorb(x[2], bytes[x[1]]) \in D
      <3>1. x[1] \in 1..n /\ x[2] \in D
        OBVIOUS
      <3> QED
        BY <1>1, <1>2, <3>1
    <2> QED
      BY <2>1
  <1>8. AbsorbAll(c, bytes) = a[n]
    BY DEF AbsorbAll
  <1> HIDE DEF D, step, n
  <1>5. PICK f : IsLoop(f, n, D, c, step)
    BY <1>1, <1>3, <1>4, LoopExists
  <1>6. Eq(f)
    <2>1. ASSUME NEW k \in 0..n
          PROVE  f[k] = IF k = 0 THEN c ELSE Absorb(f[k - 1], bytes[k])
      <3>1. CASE k = 0
        BY <1>5, <3>1 DEF IsLoop
      <3>2. CASE k # 0
        <4>1. k \in 1..n /\ k - 1 \in 0..n
          BY <1>1, <3>2
        <4>2. f[k - 1] \in D /\ f[k] = step[<<k, f[k - 1]>>]
          BY <1>5, <4>1 DEF IsLoop
        <4> QED
          BY <1>4, <3>2, <4>1, <4>2
      <3> QED
        BY <3>1, <3>2
    <2> QED
      BY <1>5, <2>1 DEF IsLoop
  <1>7. Eq(a)
    BY <1>6
  <1> HIDE DEF a
  <1>9. a[0] = c /\ \A k \in 1..n : a[k] = Absorb(a[k - 1], bytes[k])
    <2>1. \A k \in 0..n : a[k] = IF k = 0 THEN c ELSE Absorb(a[k - 1], bytes[k])
      BY <1>7
    <2>2. 0 \in 0..n /\ \A k \in 1..n : k \in 0..n /\ k # 0
      BY <1>1
    <2> QED
      BY <2>1, <2>2
  <1>10. 0 \in T
    <2>1. SubSeq(bytes, 1, 0) = << >>
      BY SubSeqEmpty
    <2>2. m \o SubSeq(bytes, 1, 0) = m
      BY <2>1, ConcatEmptySeq
    <2> QED
      BY <1>9, <2>2
  <1>11. \A k \in Nat : k \in T => k + 1 \in T
    <2> SUFFICES ASSUME NEW k \in Nat, k \in T, k + 1 <= n
                 PROVE  Holds(a[k + 1], m \o SubSeq(bytes, 1, k + 1))
      OBVIOUS
    <2> DEFINE s == SubSeq(bytes, 1, k)
               y == bytes[k + 1]
    <2>1. k \in 0..n /\ k + 1 \in 1..n /\ (k + 1) - 1 = k /\ y \in V
      BY <1>1
    <2>2. Holds(a[k], m \o s)
      BY <2>1
    <2>3. s \in Seq(V)
      <3>1. \A i \in 1..k : bytes[i] \in V
        BY <1>1, <2>1
      <3> QED
        BY <3>1, SubSeqProperties
    <2>4. SubSeq(bytes, 1, k + 1) = s \o <<y>>
      <3>1. 1 \in 1..Len(bytes) /\ k + 1 \in 1..Len(bytes)
        BY <1>1, <2>1 DEF n
      <3> QED
        BY <2>1, <3>1, SubSeqRecursiveSecond
    <2>5. m \o s \in Seq(V) /\ <<y>> \in Seq(V)
      BY <2>1, <2>3, ConcatProperties
    <2>6. Append(m \o s, y) = m \o SubSeq(bytes, 1, k + 1)
      <3>1. y \in V
        BY <2>1
      <3> HIDE DEF s, y
      <3>2. Append(m \o s, y) = m \o (s \o <<y>>)
        BY <2>3, <3>1, ByteBehind
      <3> QED
        BY <2>4, <3>2 DEF s, y
    <2> HIDE DEF s, y
    <2>7. Holds(Absorb(a[k], y), Append(m \o s, y))
      BY <2>1, <2>2, <2>5, AbsorbHolds
    <2>8. a[k + 1] = Absorb(a[k], y)
      BY <1>9, <2>1 DEF y
    <2> QED
      BY <2>6, <2>7, <2>8
  <1> HIDE DEF T
  <1>12. n \in T
    BY <1>1, <1>10, <1>11, NumbersInduction
  <1>13. SubSeq(bytes, 1, n) = bytes
    BY SubSeqFull DEF n
  <1>14. Holds(a[n], m \o SubSeq(bytes, 1, n))
    BY <1>1, <1>12 DEF T
  <1> QED
    BY <1>8, <1>13, <1>14

LEMMA ZerosAreBytes ==
  ASSUME NEW n \in Nat
  PROVE  Zeros(n) \in Seq(HashBytes) /\ Len(Zeros(n)) = n
  BY DEF Zeros, HashBytes

LEMMA LengthIsBytes ==
  ASSUME NEW n \in Nat
  PROVE  LengthBytes(8 * n) \in Seq(HashBytes) /\ Len(LengthBytes(8 * n)) = LengthSize
  <1> DEFINE L == LengthBytes(8 * n)
  <1>1. \A k \in 1..LengthSize : L[k] \in HashBytes
    BY DEF HashBytes
  <1>2. /\ L = [k \in 1..LengthSize |-> ((8 * n) \div 256 ^ (LengthSize - k)) % 256]
    BY DEF LengthBytes
  <1>3. DOMAIN L = 1..LengthSize /\ L = [k \in 1..LengthSize |-> L[k]]
    BY <1>2
  <1> HIDE DEF L
  <1>4. L \in [1..LengthSize -> HashBytes]
    BY <1>1, <1>3
  <1>5. L \in Seq(HashBytes) /\ Len(L) = LengthSize
    BY <1>3, <1>4, ShaSizes
  <1> QED
    BY <1>5 DEF L

\* The padding fills the last block: numbers only.
LEMMA GapFills ==
  ASSUME NEW b \in Nat, b < BlockSize, NEW H \in Nat, NEW H2 \in Nat, NEW r \in Nat,
         r < BlockSize,
         BlockSize * H2 + r
           = ((BlockSize * H + b) + ((BlockSize - LengthSize - b) % BlockSize)) + LengthSize
  PROVE  r = 0
  <1> DEFINE x == BlockSize - LengthSize - b
             g == x % BlockSize
             q == x \div BlockSize
  <1>1. x \in Int /\ q \in Int /\ g \in Int /\ x = BlockSize * q + g
    BY ShaSizes
  <1>2. BlockSize * H2 + r = BlockSize * H + (BlockSize - BlockSize * q)
    <2> DEFINE u == BlockSize * H2
               v == BlockSize * H
               w == BlockSize * q
    <2>1. u \in Int /\ v \in Int /\ w \in Int
      BY <1>1, ShaSizes
    <2>2. BlockSize - LengthSize - b = w + g
      BY <1>1
    <2> HIDE DEF u, v, w, q
    <2>3. u + r = ((v + b) + g) + LengthSize
      BY DEF u, v
    <2> HIDE DEF x, g
    <2> QED
      BY <1>1, <2>1, <2>2, <2>3, ShaSizes DEF u, v, w
  <1> DEFINE z == (H + 1 - q) - H2
  <1> HIDE DEF q
  <1>3. z \in Int
    BY <1>1
  <1>4. BlockSize * z = r
    <2>1. BlockSize * z = ((BlockSize * H + BlockSize) - BlockSize * q) - BlockSize * H2
      BY <1>1, ShaSizes
    <2> DEFINE u == BlockSize * H2
               v == BlockSize * H
               w == BlockSize * q
    <2>2. u \in Int /\ v \in Int /\ w \in Int
      BY <1>1, ShaSizes
    <2> HIDE DEF u, v, w, z
    <2>3. BlockSize * z = ((v + BlockSize) - w) - u
      BY <2>1 DEF u, v, w
    <2>4. u + r = v + (BlockSize - w)
      BY <1>2 DEF u, v, w
    <2> QED
      BY <2>2, <2>3, <2>4, ShaSizes
  <1> HIDE DEF z
  <1>5. z = 0
    <2>1. ~(z < 0)
      <3> SUFFICES ASSUME z < 0 PROVE FALSE
        OBVIOUS
      <3>1. z <= -1
        BY <1>3
      <3>2. BlockSize * z <= BlockSize * (-1)
        BY <1>3, <3>1, ShaSizes
      <3>3. BlockSize * (-1) = - BlockSize
        BY ShaSizes
      <3> QED
        BY <1>4, <3>2, <3>3, ShaSizes
    <2>2. ~(z > 0)
      <3> SUFFICES ASSUME z > 0 PROVE FALSE
        OBVIOUS
      <3>1. BlockSize * 1 <= BlockSize * z
        BY <1>3, ShaSizes
      <3> QED
        BY <1>4, <3>1, ShaSizes
    <2> QED
      BY <1>3, <2>1, <2>2
  <1> QED
    BY <1>4, <1>5, ShaSizes

\* final makes whole blocks of the message, the mark, the fewest zeros and the
\* message's length.
LEMMA FinalPads ==
  ASSUME NEW c, NEW m \in Seq(HashBytes), Holds(c, m)
  PROVE  \E g \in 0..BlockSize - 1 :
           LET d == Final(c)
               text == ((m \o <<128>>) \o Zeros(g)) \o LengthBytes(8 * Len(m))
           IN /\ d \in Seq(Seq(HashBytes))
              /\ \A k \in DOMAIN d : Len(d[k]) = BlockSize
              /\ FlattenSeq(d) = text
              /\ Len(text) = Len(m) + 1 + g + LengthSize
  <1> DEFINE V == HashBytes
             padded == Absorb(c, 128)
             g == Gap(padded)
             filled == AbsorbAll(padded, Zeros(g))
             L == LengthBytes(8 * Len(m))
             e == AbsorbAll(filled, L)
             m1 == m \o <<128>>
             m2 == m1 \o Zeros(g)
             m3 == m2 \o L
  <1>1. 128 \in V /\ <<128>> \in Seq(V) /\ Len(<<128>>) = 1 /\ Len(m) \in Nat
    BY LenProperties DEF HashBytes
  <1>2. /\ m1 \in Seq(V) /\ Len(m1) = Len(m) + 1 /\ m1 = Append(m, 128)
    BY <1>1, ConcatProperties, AppendIsConcat
  <1>3. Holds(padded, m1)
    <2>1. Holds(Absorb(c, 128), Append(m, 128))
      BY <1>1, AbsorbHolds
    <2> HIDE DEF m1
    <2> QED
      BY <1>2, <2>1
  <1> HIDE DEF padded, m1
  <1>4. /\ Len(padded.block) \in Nat /\ Len(padded.h) \in Nat
        /\ Len(padded.block) < BlockSize
    BY <1>3, LenProperties DEF Holds, Contexts
  <1>5. g = (BlockSize - LengthSize - Len(padded.block)) % BlockSize
        /\ g \in 0..BlockSize - 1
    <2>1. g = (BlockSize - LengthSize - Len(padded.block)) % BlockSize
      BY DEF Gap
    <2> DEFINE x == BlockSize - LengthSize - Len(padded.block)
    <2>2. x \in Int
      BY <1>4, ShaSizes
    <2> HIDE DEF x, g
    <2>3. x % BlockSize \in 0..BlockSize - 1
      BY <2>2, ShaSizes
    <2> QED
      BY <2>1, <2>3 DEF x
  <1> HIDE DEF g
  <1>6. Zeros(g) \in Seq(V) /\ Len(Zeros(g)) = g /\ g \in Nat
    <2>1. \A x \in 0..BlockSize - 1 : x \in Nat
      BY ShaSizes
    <2>2. g \in Nat
      BY <1>5, <2>1
    <2> QED
      BY <2>2, ZerosAreBytes
  <1>7. m2 \in Seq(V) /\ Len(m2) = Len(m1) + g
    BY <1>2, <1>6, ConcatProperties
  <1>8. Holds(filled, m2)
    BY <1>2, <1>3, <1>6, AbsorbAllHolds
  <1> HIDE DEF filled, m2
  <1>9. L \in Seq(V) /\ Len(L) = LengthSize
    BY <1>1, LengthIsBytes
  <1>10. m3 \in Seq(V) /\ Len(m3) = Len(m2) + LengthSize
    BY <1>7, <1>9, ConcatProperties
  <1>11. Holds(e, m3)
    BY <1>7, <1>8, <1>9, AbsorbAllHolds
  <1>12. c.bitlen + 8 * Len(c.block) = 8 * Len(m)
    <2> DEFINE p == BlockSize * Len(c.h)
    <2>1. p \in Nat /\ Len(c.block) \in Nat /\ c.bitlen = 8 * p /\ Len(m) = p + Len(c.block)
      BY ShaSizes, LenProperties DEF Holds, Contexts
    <2> DEFINE k == Len(c.block)
               n == Len(m)
               bits == c.bitlen
    <2>2. k \in Nat /\ bits = 8 * p /\ n = p + k
      BY <2>1
    <2> HIDE DEF p, k, n, bits
    <2>3. bits + 8 * k = 8 * n
      BY <2>1, <2>2
    <2> QED
      BY <2>3 DEF bits, k, n
  <1>13. Final(c) = e.h
    BY <1>12 DEF Final, padded, g, filled, Gap
  <1> HIDE DEF L, e, m3
  <1>14. /\ e.h \in Seq(Seq(V)) /\ e.block \in Seq(V)
         /\ Len(e.h) \in Nat /\ Len(e.block) \in Nat /\ Len(e.block) < BlockSize
         /\ Len(m3) = BlockSize * Len(e.h) + Len(e.block)
         /\ FlattenSeq(e.h) \o e.block = m3
         /\ \A k \in DOMAIN e.h : Len(e.h[k]) = BlockSize
    BY <1>11, LenProperties DEF Holds, Contexts
  <1>15. Len(m3) = Len(m) + 1 + g + LengthSize
    BY <1>1, <1>2, <1>6, <1>7, <1>10, ShaSizes
  <1>16. Len(e.block) = 0
    <2>1. Len(m1) = BlockSize * Len(padded.h) + Len(padded.block)
      BY <1>3 DEF Holds
    <2>2. Len(m3) = (Len(m1) + g) + LengthSize
      BY <1>7, <1>10
    <2>3. BlockSize * Len(e.h) + Len(e.block)
            = ((BlockSize * Len(padded.h) + Len(padded.block))
               + ((BlockSize - LengthSize - Len(padded.block)) % BlockSize)) + LengthSize
      BY <1>5, <1>14, <2>1, <2>2
    <2> QED
      BY <1>4, <1>14, <2>3, GapFills
  <1>17. FlattenSeq(e.h) = m3
    <2>1. e.block = << >>
      BY <1>14, <1>16, EmptySeq
    <2>2. FlattenSeq(e.h) \in Seq(V)
      BY <1>14, <2>1, EmptySeq, FlattenAppends
    <2> QED
      BY <1>14, <2>1, <2>2, ConcatEmptySeq
  <1> QED
    BY <1>5, <1>13, <1>14, <1>15, <1>17 DEF m3, m2, m1, L

ShaInv ==
  /\ message \in Seq(MessageBytes)
  /\ Holds(ctx, message)
  /\ DigestIsOfTheMessage

LEMMA ShaStarts == ShaInit => ShaInv
  <1> SUFFICES ASSUME ShaInit PROVE ShaInv
    OBVIOUS
  <1>1. message = << >> /\ digest = << >>
        /\ ctx = [h |-> << >>, block |-> << >>, bitlen |-> 0]
    BY DEF ShaInit
  <1>2. ctx.h = << >> /\ ctx.block = << >> /\ ctx.bitlen = 0 /\ ctx \in Contexts
    BY <1>1 DEF Contexts
  <1>3. FlattenSeq(ctx.h) = << >> /\ << >> \o << >> = << >>
    BY <1>2, ConcatEmptySeq, EmptySeq DEF FlattenSeq
  <1>4. Holds(ctx, message)
    BY <1>1, <1>2, <1>3, ShaSizes DEF Holds
  <1> QED
    BY <1>1, <1>4 DEF ShaInv, DigestIsOfTheMessage

LEMMA ShaKeeps == ShaInv /\ [ShaNext]_shaVars => ShaInv'
  <1> SUFFICES ASSUME ShaInv, [ShaNext]_shaVars PROVE ShaInv'
    OBVIOUS
  <1>1. message \in Seq(HashBytes)
    BY SeqMonotonic DEF ShaInv, HashBytes
  <1>2. ASSUME NEW n \in 1..MaxMessage, NEW bytes \in [1..n -> MessageBytes], Update(bytes)
        PROVE  ShaInv'
    <2>1. bytes \in Seq(MessageBytes) /\ bytes \in Seq(HashBytes)
      <3>1. bytes \in Seq(MessageBytes)
        OBVIOUS
      <3> QED
        BY <3>1, SeqMonotonic DEF HashBytes
    <2>2. /\ message' = message \o bytes /\ ctx' = AbsorbAll(ctx, bytes)
          /\ digest' = << >>
      BY <1>2 DEF Update
    <2>3. message' \in Seq(MessageBytes)
      BY <2>1, <2>2, ConcatProperties DEF ShaInv
    <2>4. Holds(ctx', message')
      BY <1>1, <2>1, <2>2, AbsorbAllHolds DEF ShaInv
    <2>5. DigestIsOfTheMessage'
      BY <2>2 DEF DigestIsOfTheMessage
    <2> QED
      BY <2>3, <2>4, <2>5 DEF ShaInv
  <1>3. CASE Finish
    <2>1. digest' = Final(ctx) /\ UNCHANGED <<message, ctx>>
      BY <1>3 DEF Finish
    <2> DEFINE m == message
    <2>2. PICK g \in 0..BlockSize - 1 :
            LET d == Final(ctx)
                text == ((m \o <<128>>) \o Zeros(g)) \o LengthBytes(8 * Len(m))
            IN /\ d \in Seq(Seq(HashBytes))
               /\ \A k \in DOMAIN d : Len(d[k]) = BlockSize
               /\ FlattenSeq(d) = text
               /\ Len(text) = Len(m) + 1 + g + LengthSize
      BY <1>1, FinalPads DEF ShaInv
    <2>3. Len(FlattenSeq(digest')) - Len(m) - 1 - LengthSize = g
      <3>1. Len(m) \in Nat /\ g \in Nat
        BY <1>1, LenProperties, ShaSizes
      <3> QED
        BY <2>1, <2>2, <3>1, ShaSizes
    <2>4. message' = m
      BY <2>1
    <2>5. DigestIsOfTheMessage'
      BY <2>1, <2>2, <2>3, <2>4 DEF DigestIsOfTheMessage
    <2> QED
      BY <2>1, <2>5 DEF ShaInv
  <1>4. CASE UNCHANGED shaVars
    BY <1>4 DEF ShaInv, shaVars, DigestIsOfTheMessage
  <1> QED
    BY <1>2, <1>3, <1>4 DEF ShaNext

\* Whatever update was given and in however many calls, the digest is of the
\* padded message (update, final), for every size of the blocks and of the length.
THEOREM DigestsAreOfMessages == ShaSpec => []DigestIsOfTheMessage
  <1>1. ShaInv => DigestIsOfTheMessage
    BY DEF ShaInv
  <1> QED
    BY <1>1, ShaStarts, ShaKeeps, PTL DEF ShaSpec

-----------------------------------------------------------------------------
(* The word filter: the trie.                                              *)

Octets == 0..255

NodeType == [next : UNION {[D -> Nat] : D \in SUBSET Octets}, terminal : BOOLEAN]

\* The words of the list as the trie holds them.
Table == {Lower(w) : w \in added}

\* The bytes s and one more.
Then(s, b) == Append(s, b)

\* path gives for each node of ns the bytes that lead to it: different bytes lead
\* to different nodes, and to each but the first leads a byte from another one.
Paths(path, ns) ==
  /\ ns \in Seq(NodeType) /\ 1 \in 1..Len(ns)
  /\ path \in [1..Len(ns) -> Seq(Octets)]
  /\ \A n \in 1..Len(ns) : path[n] = << >> <=> n = 1
  /\ \A n \in 1..Len(ns) : \A b \in DOMAIN ns[n].next :
       /\ ns[n].next[b] \in 1..Len(ns)
       /\ path[ns[n].next[b]] = Then(path[n], b)
  /\ \A n, m \in 1..Len(ns), b \in Octets : path[m] = Then(path[n], b) =>
       b \in DOMAIN ns[n].next /\ ns[n].next[b] = m
  /\ \A m \in 1..Len(ns) : m # 1 =>
       \E n \in 1..Len(ns), b \in Octets : path[m] = Then(path[n], b)

\* The nodes that end a word are those of the words W.
Marks(path, ns, W) ==
  /\ \A n \in 1..Len(ns) : ns[n].terminal <=> path[n] \in W
  /\ \A w \in W : \E n \in 1..Len(ns) : path[n] = w

LEMMA PathsDiffer ==
  ASSUME NEW path, NEW ns, Paths(path, ns),
         NEW m \in 1..Len(ns), NEW n \in 1..Len(ns), path[m] = path[n]
  PROVE  m = n
  <1>1. CASE m = 1
    BY <1>1 DEF Paths
  <1>2. CASE m # 1
    <2>1. PICK p \in 1..Len(ns), b \in Octets : path[m] = Then(path[p], b)
      BY <1>2 DEF Paths
    <2>2. ns[p].next[b] = m
      BY <2>1 DEF Paths
    <2>3. path[n] = Then(path[p], b)
      BY <2>1
    <2>4. ns[p].next[b] = n
      BY <2>3 DEF Paths
    <2> QED
      BY <2>2, <2>4
  <1> QED
    BY <1>1, <1>2

LEMMA ThenIsText ==
  ASSUME NEW s \in Seq(Octets), NEW b \in Octets
  PROVE  /\ Then(s, b) \in Seq(Octets) /\ Len(Then(s, b)) = Len(s) + 1
         /\ Then(s, b) # << >> /\ Len(s) \in Nat
  BY AppendProperties, LenProperties DEF Then

LEMMA ThensDiffer ==
  ASSUME NEW s \in Seq(Octets), NEW t \in Seq(Octets), NEW b \in Octets, NEW c \in Octets
  PROVE  /\ Then(s, b) = Then(t, c) => s = t /\ b = c
         /\ Then(s, b) # Then(Then(s, b), c)
  <1>1. Then(s, b) \in Seq(Octets) /\ Len(Then(s, b)) \in Nat
    BY ThenIsText, LenProperties
  <1>2. Len(Then(Then(s, b), c)) = Len(Then(s, b)) + 1
    BY <1>1, ThenIsText
  <1>3. Then(s, b) # Then(Then(s, b), c)
    BY <1>1, <1>2
  <1> QED
    BY <1>3, AppendInjective DEF Then

\* The trie ns with one node more, to which the byte b leads from the node cur.
Grown(ns, cur, b) ==
  LET next == ns[cur].next
      new  == Len(ns) + 1
  IN Append([ns EXCEPT ![cur].next =
               [c \in DOMAIN next \cup {b} |-> IF c = b THEN new ELSE next[c]]], Node)

LEMMA NodeParts ==
  ASSUME NEW x \in NodeType
  PROVE  /\ x = [next |-> x.next, terminal |-> x.terminal]
         /\ x.terminal \in BOOLEAN
         /\ \E D \in SUBSET Octets : x.next \in [D -> Nat]
  BY DEF NodeType

\* A byte from a node that has none for it: the trie has one node more.
LEMMA NewNode ==
  ASSUME NEW path, NEW ns, NEW W, Paths(path, ns), Marks(path, ns, W),
         NEW cur \in 1..Len(ns), NEW b \in Octets, b \notin DOMAIN ns[cur].next
  PROVE  \E path2 : /\ Paths(path2, Grown(ns, cur, b)) /\ Marks(path2, Grown(ns, cur, b), W)
                    /\ Len(ns) + 1 \in 1..Len(Grown(ns, cur, b))
                    /\ path2[Len(ns) + 1] = Then(path[cur], b)
  <1> DEFINE N == Len(ns)
             next == ns[cur].next
             new == N + 1
             ext == [c \in DOMAIN next \cup {b} |-> IF c = b THEN new ELSE next[c]]
             mid == [ns EXCEPT ![cur].next = ext]
             g == Append(mid, Node)
             here == Then(path[cur], b)
             path2 == [n \in 1..N + 1 |-> IF n = N + 1 THEN here ELSE path[n]]
  <1>1. /\ N \in Nat /\ 1 <= N /\ ns \in Seq(NodeType)
        /\ \A n \in 1..N : ns[n] \in NodeType
        /\ \A n \in 1..N : path[n] \in Seq(Octets)
    <2>1. ns \in Seq(NodeType) /\ 1 \in 1..N /\ path \in [1..N -> Seq(Octets)]
      BY DEF Paths
    <2>2. N \in Nat /\ \A n \in 1..N : ns[n] \in NodeType
      BY <2>1, LenProperties, ElementOfSeq
    <2> QED
      BY <2>1, <2>2
  <1>2. Node \in NodeType /\ DOMAIN Node.next = {} /\ Node.terminal = FALSE
    <2>1. [c \in {} |-> 0] \in [{} -> Nat] /\ {} \in SUBSET Octets
      OBVIOUS
    <2>2. [c \in {} |-> 0] \in UNION {[D -> Nat] : D \in SUBSET Octets}
      BY <2>1
    <2> QED
      BY <2>2 DEF Node, NodeType
  <1>3. ns[cur] = [next |-> next, terminal |-> ns[cur].terminal]
        /\ ns[cur].terminal \in BOOLEAN
        /\ \E D \in SUBSET Octets : next \in [D -> Nat]
    BY <1>1, NodeParts
  <1>4. ext \in UNION {[D -> Nat] : D \in SUBSET Octets}
    <2>1. PICK D \in SUBSET Octets : next \in [D -> Nat]
      BY <1>3
    <2>2. ext \in [D \cup {b} -> Nat] /\ D \cup {b} \in SUBSET Octets
      BY <1>1, <2>1
    <2> QED
      BY <2>2
  <1> HIDE DEF ext
  <1>5. /\ mid = [ns EXCEPT ![cur] = [next |-> ext, terminal |-> ns[cur].terminal]]
    <2>1. [ns[cur] EXCEPT !.next = ext] = [next |-> ext, terminal |-> ns[cur].terminal]
      BY <1>3
    <2> QED
      BY <1>1, <2>1
  <1>6. [next |-> ext, terminal |-> ns[cur].terminal] \in NodeType
    BY <1>3, <1>4 DEF NodeType
  <1>7. /\ mid \in Seq(NodeType) /\ Len(mid) = N
        /\ mid[cur] = [next |-> ext, terminal |-> ns[cur].terminal]
        /\ \A n \in 1..N : n # cur => mid[n] = ns[n]
    BY <1>1, <1>5, <1>6, ExceptSeq
  <1> HIDE DEF mid
  <1>8. /\ g \in Seq(NodeType) /\ Len(g) = N + 1 /\ g[N + 1] = Node
        /\ \A n \in 1..N : g[n] = mid[n]
    BY <1>2, <1>7, AppendProperties
  <1>9. /\ g[cur].next = ext /\ g[cur].terminal = ns[cur].terminal
        /\ \A n \in 1..N : n # cur => g[n] = ns[n]
        /\ \A n \in 1..N : g[n].terminal = ns[n].terminal
        /\ g[N + 1].next = Node.next /\ g[N + 1].terminal = FALSE
    BY <1>2, <1>7, <1>8
  <1>10. /\ DOMAIN ext = DOMAIN next \cup {b} /\ ext[b] = N + 1
         /\ \A c \in DOMAIN next : c # b /\ ext[c] = next[c]
    BY DEF ext
  <1>11. /\ here \in Seq(Octets) /\ here # << >>
    BY <1>1, ThenIsText
  <1>12. /\ path2 \in [1..N + 1 -> Seq(Octets)] /\ path2[N + 1] = here
         /\ \A n \in 1..N : path2[n] = path[n] /\ n \in 1..N + 1 /\ n # N + 1
         /\ \A n \in 1..N + 1 : n \in 1..N \/ n = N + 1
    BY <1>1, <1>11
  <1>13. /\ \A m \in 1..N : path[m] # here
    <2> SUFFICES ASSUME NEW m \in 1..N, path[m] = Then(path[cur], b) PROVE FALSE
      OBVIOUS
    <2> QED
      BY DEF Paths
  <1>14. \A n \in 1..N : DOMAIN ns[n].next \subseteq DOMAIN g[n].next
                        /\ \A c \in DOMAIN ns[n].next : g[n].next[c] = ns[n].next[c]
    BY <1>9, <1>10
  <1> HIDE DEF g, path2
  <1>15. \A n \in 1..N + 1 : path2[n] = << >> <=> n = 1
    BY <1>1, <1>11, <1>12 DEF Paths
  <1>16. ASSUME NEW n \in 1..N + 1, NEW c \in DOMAIN g[n].next
         PROVE  /\ g[n].next[c] \in 1..N + 1
                /\ path2[g[n].next[c]] = Then(path2[n], c)
    <2>1. CASE n = N + 1
      BY <1>2, <1>9, <2>1
    <2>2. CASE n \in 1..N /\ c \in DOMAIN ns[n].next
      <3>1. ns[n].next[c] \in 1..N /\ path[ns[n].next[c]] = Then(path[n], c)
        BY <2>2 DEF Paths
      <3> QED
        BY <1>12, <1>14, <2>2, <3>1
    <2>3. CASE n \in 1..N /\ c \notin DOMAIN ns[n].next
      <3>1. n = cur /\ c = b
        BY <1>9, <1>10, <2>3
      <3>2. g[n].next[c] = N + 1 /\ N + 1 \in 1..N + 1
        BY <1>1, <1>9, <1>10, <3>1
      <3> QED
        BY <1>12, <2>3, <3>1, <3>2
    <2> QED
      BY <1>12, <2>1, <2>2, <2>3
  <1>17. ASSUME NEW n \in 1..N + 1, NEW m \in 1..N + 1, NEW c \in Octets,
                path2[m] = Then(path2[n], c)
         PROVE  c \in DOMAIN g[n].next /\ g[n].next[c] = m
    <2>1. CASE n \in 1..N /\ m \in 1..N
      <3>1. c \in DOMAIN ns[n].next /\ ns[n].next[c] = m
        BY <1>12, <1>17, <2>1 DEF Paths
      <3> QED
        BY <1>14, <2>1, <3>1
    <2>2. CASE n \in 1..N /\ m = N + 1
      <3>1. Then(path[cur], b) = Then(path[n], c)
        BY <1>12, <1>17, <2>2
      <3>2. path[cur] = path[n] /\ b = c
        BY <1>1, <2>2, <3>1, ThensDiffer
      <3>3. n = cur
        BY <2>2, <3>2, PathsDiffer
      <3> QED
        BY <1>9, <1>10, <2>2, <3>2, <3>3
    <2>3. CASE n = N + 1 /\ m \in 1..N
      <3>1. path[m] = Then(here, c)
        BY <1>12, <1>17, <2>3
      <3>2. m # 1
        BY <1>1, <1>11, <2>3, <3>1, ThenIsText DEF Paths
      <3>3. PICK p \in 1..N, d \in Octets : path[m] = Then(path[p], d)
        BY <2>3, <3>2 DEF Paths
      <3>4. path[p] = here
        <4>1. path[p] \in Seq(Octets) /\ Then(path[p], d) = Then(here, c)
          BY <1>1, <3>1, <3>3
        <4> HIDE DEF here
        <4> QED
          BY <1>11, <4>1, ThensDiffer
      <3> QED
        BY <1>13, <3>4
    <2>4. CASE n = N + 1 /\ m = N + 1
      <3>1. here = Then(here, c)
        BY <1>12, <1>17, <2>4
      <3>2. path[cur] \in Seq(Octets)
        BY <1>1
      <3> QED
        BY <3>1, <3>2, ThensDiffer
    <2> QED
      BY <1>12, <2>1, <2>2, <2>3, <2>4
  <1>18. ASSUME NEW m \in 1..N + 1, m # 1
         PROVE  \E n \in 1..N + 1, c \in Octets : path2[m] = Then(path2[n], c)
    <2>1. CASE m = N + 1
      BY <1>12, <2>1
    <2>2. CASE m \in 1..N
      <3>1. PICK n \in 1..N, c \in Octets : path[m] = Then(path[n], c)
        BY <1>18, <2>2 DEF Paths
      <3> QED
        BY <1>12, <2>2, <3>1
    <2> QED
      BY <1>12, <2>1, <2>2
  <1>19. Paths(path2, g)
    <2>1. 1 \in 1..N + 1
      BY <1>1
    <2> QED
      BY <1>8, <1>12, <1>15, <1>16, <1>17, <1>18, <2>1 DEF Paths
  <1>20. Marks(path2, g, W)
    <2>1. ASSUME NEW n \in 1..N + 1
          PROVE  g[n].terminal <=> path2[n] \in W
      <3>1. CASE n = N + 1
        <4>1. here \notin W
          BY <1>13 DEF Marks
        <4> QED
          BY <1>9, <1>12, <3>1, <4>1
      <3>2. CASE n \in 1..N
        BY <1>9, <1>12, <3>2 DEF Marks
      <3> QED
        BY <1>12, <3>1, <3>2
    <2>2. ASSUME NEW w \in W PROVE \E n \in 1..N + 1 : path2[n] = w
      <3>1. PICK n \in 1..N : path[n] = w
        BY DEF Marks
      <3> QED
        BY <1>12, <3>1
    <2> QED
      BY <1>8, <2>1, <2>2 DEF Marks
  <1>21. N + 1 \in 1..Len(g)
    BY <1>1, <1>8
  <1>22. \E p : Paths(p, g) /\ Marks(p, g, W) /\ N + 1 \in 1..Len(g) /\ p[N + 1] = here
    BY <1>12, <1>19, <1>20, <1>21
  <1> QED
    BY <1>22 DEF g, mid, ext, Grown

\* add_word has come to a node of a trie that holds the words W.
Stands(r, path, W) ==
  /\ r = [cur |-> r.cur, nodes |-> r.nodes]
  /\ Paths(path, r.nodes) /\ Marks(path, r.nodes, W)
  /\ r.cur \in 1..Len(r.nodes)

\* One byte of add_word.
LEMMA DescendGoesOn ==
  ASSUME NEW r, NEW path, NEW W, Stands(r, path, W), NEW b \in Octets
  PROVE  \E path2 : /\ Stands(Descend(r, b), path2, W)
                    /\ path2[Descend(r, b).cur] = Then(path[r.cur], b)
  <1> DEFINE ns == r.nodes
             next == ns[r.cur].next
             new == Len(ns) + 1
             grown == Grown(ns, r.cur, b)
  <1>1. CASE b \in DOMAIN next
    <2>1. Descend(r, b) = [r EXCEPT !.cur = next[b]]
      BY <1>1 DEF Descend
    <2>2. r = [cur |-> r.cur, nodes |-> r.nodes]
      BY DEF Stands
    <2>3. Descend(r, b) = [cur |-> next[b], nodes |-> r.nodes]
      BY <2>1, <2>2
    <2>4. next[b] \in 1..Len(ns) /\ path[next[b]] = Then(path[r.cur], b)
      BY <1>1 DEF Stands, Paths
    <2> HIDE DEF next
    <2>5. Descend(r, b).cur = next[b] /\ Descend(r, b).nodes = r.nodes
      BY <2>3
    <2>6. Stands(Descend(r, b), path, W)
      BY <2>3, <2>4, <2>5 DEF Stands
    <2>7. path[Descend(r, b).cur] = Then(path[r.cur], b)
      BY <2>4, <2>5
    <2> QED
      BY <2>6, <2>7
  <1>2. CASE b \notin DOMAIN next
    <2>1. Descend(r, b) = [cur |-> new, nodes |-> grown]
      BY <1>2 DEF Descend, Grown
    <2>2. \E path2 : /\ Paths(path2, grown) /\ Marks(path2, grown, W)
                     /\ new \in 1..Len(grown)
                     /\ path2[new] = Then(path[r.cur], b)
      BY <1>2, NewNode DEF Stands
    <2> HIDE DEF grown, new
    <2> QED
      BY <2>1, <2>2 DEF Stands
  <1> QED
    BY <1>1, <1>2

\* The bytes of a word, one more.
LEMMA OneMoreByte ==
  ASSUME NEW t \in Seq(Octets), NEW i \in 1..Len(t), NEW j \in i..Len(t)
  PROVE  /\ SubSeq(t, i, j - 1) \in Seq(Octets) /\ t[j] \in Octets
         /\ SubSeq(t, i, j) = Then(SubSeq(t, i, j - 1), t[j])
  <1> DEFINE s == SubSeq(t, i, j - 1)
             L == Len(t)
  <1>1. L \in Nat /\ j \in 1..L /\ j - 1 \in Int /\ i \in Int
    BY LenProperties
  <1>2. t[j] \in Octets
    BY <1>1, ElementOfSeq
  <1>3. s \in Seq(Octets)
    <2>1. \A k \in i..j - 1 : t[k] \in Octets
      <3>1. \A k \in i..j - 1 : k \in 1..L
        BY <1>1
      <3> QED
        BY <3>1, ElementOfSeq
    <2> QED
      BY <1>1, <2>1, SubSeqProperties
  <1>4. SubSeq(t, i, j) = s \o <<t[j]>>
    BY <1>1, SubSeqRecursiveSecond
  <1> HIDE DEF s
  <1>5. s \o <<t[j]>> = Append(s, t[j])
    BY <1>2, <1>3, AppendIsConcat
  <1> QED
    BY <1>2, <1>3, <1>4, <1>5 DEF Then, s

\* The whole word.
LEMMA GrowReaches ==
  ASSUME NEW path, NEW W, Paths(path, nodes), Marks(path, nodes, W),
         NEW word \in Seq(Octets)
  PROVE  \E path2 : /\ Stands(Grow(word), path2, W)
                    /\ path2[Grow(word).cur] = word
  <1> DEFINE n == Len(word)
             c == [cur |-> 1, nodes |-> nodes]
             D == {r \in [cur : Nat, nodes : Seq(NodeType)] : \E p : Stands(r, p, W)}
             step == [x \in (1..n) \X D |-> Descend(x[2], word[x[1]])]
             Eq(g) == g = [k \in 0..n |-> IF k = 0 THEN c ELSE Descend(g[k - 1], word[k])]
             a == CHOOSE g : Eq(g)
             T == {k \in Nat : k <= n =>
                     \E p : Stands(a[k], p, W) /\ p[a[k].cur] = SubSeq(word, 1, k)}
  <1>1. n \in Nat /\ \A k \in 1..n : word[k] \in Octets
    BY LenProperties, ElementOfSeq
  <1>2. \A r, p : Stands(r, p, W) => r \in D
    <2> SUFFICES ASSUME NEW r, NEW p, Stands(r, p, W)
                 PROVE  r \in [cur : Nat, nodes : Seq(NodeType)]
      OBVIOUS
    <2>1. /\ r = [cur |-> r.cur, nodes |-> r.nodes]
          /\ r.nodes \in Seq(NodeType) /\ r.cur \in 1..Len(r.nodes)
      BY DEF Stands, Paths
    <2>2. r.cur \in Nat
      BY <2>1
    <2> QED
      BY <2>1, <2>2
  <1>3. \A d \in D, b \in Octets : Descend(d, b) \in D
    <2> SUFFICES ASSUME NEW d \in D, NEW b \in Octets PROVE Descend(d, b) \in D
      OBVIOUS
    <2>1. PICK p : Stands(d, p, W)
      OBVIOUS
    <2>2. \E q : Stands(Descend(d, b), q, W)
      BY <2>1, DescendGoesOn
    <2> QED
      BY <1>2, <2>2
  <1>4. Stands(c, path, W) /\ c.cur = 1
    BY DEF Stands, Paths
  <1>5. c \in D
    BY <1>2, <1>4
  <1>6. /\ step \in [(1..n) \X D -> D]
        /\ \A k \in 1..n, d \in D : step[<<k, d>>] = Descend(d, word[k])
    <2> HIDE DEF D, n
    <2>1. ASSUME NEW x \in (1..n) \X D PROVE Descend(x[2], word[x[1]]) \in D
      <3>1. x[1] \in 1..n /\ x[2] \in D
        OBVIOUS
      <3> QED
        BY <1>1, <1>3, <3>1
    <2> QED
      BY <2>1
  <1>7. Grow(word) = a[n]
    BY DEF Grow
  <1> HIDE DEF D, step, n, c
  <1>8. PICK f : IsLoop(f, n, D, c, step)
    BY <1>1, <1>5, <1>6, LoopExists
  <1>9. Eq(f)
    <2>1. ASSUME NEW k \in 0..n
          PROVE  f[k] = IF k = 0 THEN c ELSE Descend(f[k - 1], word[k])
      <3>1. CASE k = 0
        BY <1>8, <3>1 DEF IsLoop
      <3>2. CASE k # 0
        <4>1. k \in 1..n /\ k - 1 \in 0..n
          BY <1>1, <3>2
        <4>2. f[k - 1] \in D /\ f[k] = step[<<k, f[k - 1]>>]
          BY <1>8, <4>1 DEF IsLoop
        <4> QED
          BY <1>6, <3>2, <4>1, <4>2
      <3> QED
        BY <3>1, <3>2
    <2> QED
      BY <1>8, <2>1 DEF IsLoop
  <1>10. Eq(a)
    BY <1>9
  <1> HIDE DEF a
  <1>11. a[0] = c /\ \A k \in 1..n : a[k] = Descend(a[k - 1], word[k])
    <2>1. \A k \in 0..n : a[k] = IF k = 0 THEN c ELSE Descend(a[k - 1], word[k])
      BY <1>10
    <2>2. 0 \in 0..n /\ \A k \in 1..n : k \in 0..n /\ k # 0
      BY <1>1
    <2> QED
      BY <2>1, <2>2
  <1>12. 0 \in T
    <2>1. SubSeq(word, 1, 0) = << >>
      BY SubSeqEmpty
    <2>2. path[1] = << >>
      BY DEF Paths
    <2> QED
      BY <1>4, <1>11, <2>1, <2>2
  <1>13. \A k \in Nat : k \in T => k + 1 \in T
    <2> SUFFICES ASSUME NEW k \in Nat, k \in T, k + 1 <= n
                 PROVE  \E p : Stands(a[k + 1], p, W)
                               /\ p[a[k + 1].cur] = SubSeq(word, 1, k + 1)
      OBVIOUS
    <2>1. k <= n /\ k + 1 \in 1..n /\ (k + 1) - 1 = k /\ 1 \in 1..n
      BY <1>1
    <2>2. PICK p : Stands(a[k], p, W) /\ p[a[k].cur] = SubSeq(word, 1, k)
      BY <2>1
    <2>3. a[k + 1] = Descend(a[k], word[k + 1]) /\ word[k + 1] \in Octets
      BY <1>1, <1>11, <2>1
    <2>4. PICK q : /\ Stands(Descend(a[k], word[k + 1]), q, W)
                   /\ q[Descend(a[k], word[k + 1]).cur] = Then(p[a[k].cur], word[k + 1])
      <3> DEFINE r == a[k]
                 b == word[k + 1]
      <3>1. Stands(r, p, W) /\ b \in Octets
        BY <2>2, <2>3
      <3> HIDE DEF r, b
      <3>2. \E q : Stands(Descend(r, b), q, W) /\ q[Descend(r, b).cur] = Then(p[r.cur], b)
        BY <3>1, DescendGoesOn
      <3> QED
        BY <3>2 DEF r, b
    <2>5. SubSeq(word, 1, k + 1) = Then(SubSeq(word, 1, k), word[k + 1])
      <3> DEFINE j == k + 1
      <3>1. j \in 1..Len(word) /\ 1 \in 1..Len(word) /\ j - 1 = k
        BY <2>1 DEF n
      <3> HIDE DEF j
      <3>2. SubSeq(word, 1, j) = Then(SubSeq(word, 1, j - 1), word[j])
        BY <3>1, OneMoreByte
      <3> QED
        BY <3>1, <3>2 DEF j
    <2> QED
      BY <2>2, <2>3, <2>4, <2>5
  <1> HIDE DEF T
  <1>14. n \in T
    BY <1>1, <1>12, <1>13, NumbersInduction
  <1>15. SubSeq(word, 1, n) = word
    BY SubSeqFull DEF n
  <1>16. \E p : Stands(a[n], p, W) /\ p[a[n].cur] = SubSeq(word, 1, n)
    BY <1>1, <1>14 DEF T
  <1> QED
    BY <1>7, <1>15, <1>16

\* Where the word ends, it is marked.
LEMMA MarkHolds ==
  ASSUME NEW r, NEW path, NEW W, Stands(r, path, W)
  PROVE  Paths(path, MarkWord(r)) /\ Marks(path, MarkWord(r), W \cup {path[r.cur]})
  <1> DEFINE ns == r.nodes
             N == Len(ns)
             cur == r.cur
             g == MarkWord(r)
             here == [next |-> ns[cur].next, terminal |-> TRUE]
  <1>1. /\ Paths(path, ns) /\ Marks(path, ns, W) /\ cur \in 1..N
        /\ ns \in Seq(NodeType) /\ ns[cur] \in NodeType
    BY ElementOfSeq DEF Stands, Paths
  <1> HIDE DEF ns, cur
  <1>2. g = [ns EXCEPT ![cur] = here] /\ here \in NodeType
    <2>1. \A x \in NodeType :
            /\ [x EXCEPT !.terminal = TRUE] = [next |-> x.next, terminal |-> TRUE]
            /\ [next |-> x.next, terminal |-> TRUE] \in NodeType
      <3> SUFFICES ASSUME NEW x \in NodeType
                   PROVE  /\ [x EXCEPT !.terminal = TRUE] = [next |-> x.next, terminal |-> TRUE]
                          /\ [next |-> x.next, terminal |-> TRUE] \in NodeType
        OBVIOUS
      <3>1. x = [next |-> x.next, terminal |-> x.terminal]
        BY DEF NodeType
      <3>2. \A y : [x EXCEPT !.terminal = y] = [next |-> x.next, terminal |-> y]
        BY <3>1
      <3>3. [next |-> x.next, terminal |-> TRUE] \in NodeType
        BY DEF NodeType
      <3> QED
        BY <3>2, <3>3
    <2>2. [ns[cur] EXCEPT !.terminal = TRUE] = here
      BY <1>1, <2>1
    <2>3. here \in NodeType
      BY <1>1, <2>1
    <2> QED
      BY <2>2, <2>3 DEF MarkWord, ns, cur
  <1> HIDE DEF here, g
  <1>3. /\ g \in Seq(NodeType) /\ Len(g) = N /\ g[cur] = here
        /\ \A n \in 1..N : n # cur => g[n] = ns[n]
    BY <1>1, <1>2, ExceptSeq
  <1>4. /\ \A n \in 1..N : g[n].next = ns[n].next
        /\ g[cur].terminal = TRUE
        /\ \A n \in 1..N : n # cur => g[n].terminal = ns[n].terminal
    BY <1>3 DEF here
  <1>5. Paths(path, g)
    <2> HIDE DEF N
    <2>1. /\ 1 \in 1..N /\ path \in [1..N -> Seq(Octets)]
          /\ \A n \in 1..N : path[n] = << >> <=> n = 1
          /\ \A m \in 1..N : m # 1 =>
               \E n \in 1..N, b \in Octets : path[m] = Then(path[n], b)
      BY <1>1 DEF Paths, N
    <2>2. \A n \in 1..N : \A b \in DOMAIN g[n].next :
            g[n].next[b] \in 1..N /\ path[g[n].next[b]] = Then(path[n], b)
      <3>1. \A n \in 1..N : \A b \in DOMAIN ns[n].next :
              ns[n].next[b] \in 1..N /\ path[ns[n].next[b]] = Then(path[n], b)
        BY <1>1 DEF Paths, N
      <3> QED
        BY <1>4, <3>1
    <2>3. \A n, m \in 1..N, b \in Octets : path[m] = Then(path[n], b) =>
            b \in DOMAIN g[n].next /\ g[n].next[b] = m
      BY <1>1, <1>4 DEF Paths, N
    <2> QED
      BY <1>3, <2>1, <2>2, <2>3 DEF Paths
  <1>6. Marks(path, g, W \cup {path[cur]})
    <2>1. ASSUME NEW n \in 1..N
          PROVE  g[n].terminal <=> path[n] \in W \cup {path[cur]}
      <3>1. CASE n = cur
        BY <1>4, <3>1
      <3>2. CASE n # cur
        <4>1. path[n] # path[cur]
          BY <1>1, <3>2, PathsDiffer
        <4> QED
          BY <1>1, <1>4, <3>2, <4>1 DEF Marks
      <3> QED
        BY <3>1, <3>2
    <2>2. \A w \in W \cup {path[cur]} : \E n \in 1..N : path[n] = w
      BY <1>1 DEF Marks
    <2> QED
      BY <1>3, <2>1, <2>2 DEF Marks
  <1> QED
    BY <1>5, <1>6 DEF g, cur

LEMMA LowerIsText ==
  ASSUME NEW t \in Seq(Octets)
  PROVE  /\ Lower(t) \in Seq(Octets) /\ Len(Lower(t)) = Len(t) /\ Len(t) \in Nat
         /\ \A i \in 1..Len(t) :
              /\ t[i] \in Octets
              /\ Lower(t)[i] = IF t[i] \in 65..90 THEN t[i] + 32 ELSE t[i]
  <1> DEFINE n == Len(t)
             u == [i \in 1..n |-> IF t[i] \in 65..90 THEN t[i] + 32 ELSE t[i]]
  <1>1. n \in Nat /\ DOMAIN t = 1..n /\ \A i \in 1..n : t[i] \in Octets
    BY LenProperties, ElementOfSeq
  <1>2. Lower(t) = u
    <2>1. Lower(t) = [i \in DOMAIN t |-> IF t[i] \in 65..90 THEN t[i] + 32 ELSE t[i]]
      BY DEF Lower
    <2> QED
      BY <1>1, <2>1
  <1>3. u \in [1..n -> Octets]
    <2>1. \A x \in Octets : (IF x \in 65..90 THEN x + 32 ELSE x) \in Octets
      BY DEF Octets
    <2>2. \A i \in 1..n : (IF t[i] \in 65..90 THEN t[i] + 32 ELSE t[i]) \in Octets
      BY <1>1, <2>1
    <2>3. \A i \in 1..n : u[i] \in Octets
      BY <2>2
    <2>4. u = [i \in 1..n |-> u[i]]
      OBVIOUS
    <2> HIDE DEF u, n
    <2> QED
      BY <2>3, <2>4
  <1> HIDE DEF u, n
  <1>4. u \in Seq(Octets) /\ Len(u) = n
    BY <1>1, <1>3
  <1> QED
    BY <1>1, <1>2, <1>4 DEF u, n

\* The trie holds the words of the list and nothing else (load_file).
FilterInv ==
  /\ added \subseteq Candidates /\ << >> \notin added
  /\ \E path : Paths(path, nodes) /\ Marks(path, nodes, Table)

LEMMA FilterStarts == FilterInit => FilterInv
  <1> SUFFICES ASSUME FilterInit PROVE FilterInv
    OBVIOUS
  <1> DEFINE path == [n \in 1..1 |-> << >>]
  <1>1. nodes = <<Node>> /\ added = {} /\ Table = {}
    BY DEF FilterInit, Table
  <1>2. Node \in NodeType /\ Node.next = [b \in {} |-> 0] /\ Node.terminal = FALSE
    <2>1. [c \in {} |-> 0] \in [{} -> Nat] /\ {} \in SUBSET Octets
      OBVIOUS
    <2>2. [c \in {} |-> 0] \in UNION {[D -> Nat] : D \in SUBSET Octets}
      BY <2>1
    <2> QED
      BY <2>2 DEF Node, NodeType
  <1>3. /\ nodes \in Seq(NodeType) /\ Len(nodes) = 1 /\ nodes[1] = Node
        /\ \A n \in 1..1 : n = 1
    BY <1>1, <1>2
  <1>4. path \in [1..1 -> Seq(Octets)] /\ path[1] = << >> /\ path[1] \in Seq(Octets)
    OBVIOUS
  <1> HIDE DEF path
  <1>5. \A b \in Octets : Then(path[1], b) # << >>
    BY <1>4, ThenIsText
  <1>6. Paths(path, nodes)
    BY <1>2, <1>3, <1>4, <1>5 DEF Paths
  <1>7. Marks(path, nodes, Table)
    BY <1>1, <1>2, <1>3 DEF Marks
  <1> QED
    BY <1>1, <1>6, <1>7 DEF FilterInv

LEMMA FilterKeeps == FilterInv /\ [FilterNext]_filterVars => FilterInv'
  <1> SUFFICES ASSUME FilterInv, [FilterNext]_filterVars PROVE FilterInv'
    OBVIOUS
  <1>1. ASSUME NEW w \in Candidates \ added, AddWord(w)
        PROVE  FilterInv'
    <2>1. w # << >> /\ nodes' = MarkWord(Grow(Lower(w))) /\ added' = added \cup {w}
      BY <1>1 DEF AddWord
    <2>2. PICK path : Paths(path, nodes) /\ Marks(path, nodes, Table)
      BY DEF FilterInv
    <2>3. Lower(w) \in Seq(Octets)
      <3>1. w \in Seq(Octets)
        BY WordFilterAssumption DEF Octets
      <3> QED
        BY <3>1, LowerIsText
    <2>4. PICK q : Stands(Grow(Lower(w)), q, Table) /\ q[Grow(Lower(w)).cur] = Lower(w)
      BY <2>2, <2>3, GrowReaches
    <2>5. Paths(q, nodes') /\ Marks(q, nodes', Table \cup {Lower(w)})
      BY <2>1, <2>4, MarkHolds
    <2>6. Table' = Table \cup {Lower(w)}
      BY <2>1 DEF Table
    <2> QED
      BY <2>1, <2>5, <2>6 DEF FilterInv
  <1>2. CASE UNCHANGED filterVars
    BY <1>2 DEF FilterInv, filterVars, Table
  <1> QED
    BY <1>1, <1>2 DEF FilterNext

-----------------------------------------------------------------------------
(* The word filter: the scan.                                              *)

\* A word of the list stands in t from i to j.
Hit(t, i, j) == i \in 1..j /\ j \in 1..Len(t) /\ SubSeq(t, i, j) \in Table

\* What the inner loop of scan knows after the byte j of t, when it began with i.
Followed(r, path, t, i, j) ==
  /\ r.cur \in 0..Len(nodes) /\ r.end \in 0..Len(t)
  /\ r.cur # 0 => path[r.cur] = SubSeq(t, i, j)
  /\ r.cur = 0 => \A n \in 1..Len(nodes) : path[n] # SubSeq(t, i, j)
  /\ r.end > 0 => r.end \in i..j /\ SubSeq(t, i, r.end) \in Table
  /\ \A k \in i..j : SubSeq(t, i, k) \in Table => k <= r.end

LEMMA FollowGoesOn ==
  ASSUME NEW path, Paths(path, nodes), Marks(path, nodes, Table),
         NEW t \in Seq(Octets), NEW i \in 1..Len(t), NEW j \in i..Len(t),
         NEW r, Followed(r, path, t, i, j - 1)
  PROVE  Followed(Follow(r, t[j], j), path, t, i, j)
  <1> DEFINE b == t[j]
             s == SubSeq(t, i, j - 1)
             u == SubSeq(t, i, j)
             N == Len(nodes)
             goes == r.cur # 0 /\ b \in DOMAIN nodes[r.cur].next
             to == IF goes THEN nodes[r.cur].next[b] ELSE 0
             end == IF to # 0 /\ nodes[to].terminal THEN j ELSE r.end
  <1>1. s \in Seq(Octets) /\ b \in Octets /\ u = Then(s, b)
    BY OneMoreByte
  <1>2. /\ Len(t) \in Nat /\ N \in Nat /\ i \in 1..Len(t) /\ j \in 1..Len(t)
        /\ i <= j
    BY LenProperties DEF Paths
  <1>3. Follow(r, b, j) = [cur |-> to, end |-> end]
    BY DEF Follow
  <1>4. r.cur \in 0..N /\ r.end \in 0..Len(t)
    BY DEF Followed
  <1>5. CASE goes
    <2>1. r.cur \in 1..N /\ path[r.cur] = s
      BY <1>2, <1>4, <1>5 DEF Followed
    <2>2. to \in 1..N /\ path[to] = u
      <3> DEFINE cur == r.cur
                 x == nodes[cur].next[b]
      <3>1. cur \in 1..N /\ path[cur] = s /\ b \in DOMAIN nodes[cur].next /\ to = x
        BY <1>5, <2>1
      <3> HIDE DEF cur, b
      <3>2. x \in 1..N /\ path[x] = Then(path[cur], b)
        BY <3>1 DEF Paths
      <3> HIDE DEF to, x
      <3> QED
        BY <1>1, <3>1, <3>2 DEF b
    <2>3. to # 0 /\ to \in 0..N
      <3> HIDE DEF to, N
      <3> QED
        BY <1>2, <2>2
    <2>4. nodes[to].terminal <=> u \in Table
      BY <2>2 DEF Marks
    <2> HIDE DEF to, goes
    <2>5. end = IF u \in Table THEN j ELSE r.end
      BY <2>3, <2>4
    <2> HIDE DEF end, s, b
    <2>6. end \in 0..Len(t) /\ (end > 0 => end \in i..j /\ SubSeq(t, i, end) \in Table)
      <3>1. CASE u \in Table
        BY <1>2, <2>5, <3>1
      <3>2. CASE u \notin Table
        <4>1. r.end > 0 => r.end \in i..j - 1 /\ SubSeq(t, i, r.end) \in Table
          BY DEF Followed
        <4>2. \A x \in i..j - 1 : x \in i..j
          BY <1>2
        <4> QED
          BY <1>4, <2>5, <3>2, <4>1, <4>2
      <3> QED
        BY <3>1, <3>2
    <2>7. ASSUME NEW k \in i..j, SubSeq(t, i, k) \in Table
          PROVE  k <= end
      <3>1. CASE k = j
        <4>1. u \in Table
          BY <2>7, <3>1
        <4> QED
          BY <1>2, <2>5, <3>1, <4>1
      <3>2. CASE k # j
        <4>1. k \in i..j - 1
          BY <1>2, <3>2
        <4>2. k <= r.end
          BY <2>7, <4>1 DEF Followed
        <4>3. end = j \/ end = r.end
          BY <2>5
        <4>4. k <= j
          BY <1>2
        <4> QED
          BY <4>2, <4>3, <4>4
      <3> QED
        BY <3>1, <3>2
    <2> HIDE DEF u
    <2> QED
      BY <1>3, <2>2, <2>3, <2>6, <2>7 DEF Followed, u, b
  <1>6. CASE ~goes
    <2>1. to = 0 /\ end = r.end
      BY <1>6
    <2>2. ASSUME NEW n \in 1..N, path[n] = u PROVE FALSE
      <3>1. path[n] # << >>
        BY <1>1, <2>2, ThenIsText
      <3>2. PICK p \in 1..N, c \in Octets : path[n] = Then(path[p], c)
        BY <3>1 DEF Paths
      <3>3. path[p] = s
        <4>1. path[p] \in Seq(Octets) /\ Then(path[p], c) = Then(s, b)
          BY <1>1, <2>2, <3>2 DEF Paths
        <4> HIDE DEF s, b
        <4> QED
          BY <1>1, <4>1, ThensDiffer
      <3>4. r.cur # 0
        BY <3>3 DEF Followed
      <3>5. r.cur \in 1..N /\ path[r.cur] = s
        BY <1>2, <1>4, <3>4 DEF Followed
      <3>6. path[n] = Then(path[r.cur], b)
        BY <1>1, <2>2, <3>5
      <3>7. b \in DOMAIN nodes[r.cur].next
        BY <1>1, <3>5, <3>6 DEF Paths
      <3> QED
        BY <1>6, <3>4, <3>7
    <2>3. u \notin Table
      BY <2>2 DEF Marks
    <2> HIDE DEF to, end, goes
    <2>4. r.end > 0 => r.end \in i..j /\ SubSeq(t, i, r.end) \in Table
      <3>1. \A x \in i..j - 1 : x \in i..j
        BY <1>2
      <3> QED
        BY <3>1 DEF Followed
    <2>5. ASSUME NEW k \in i..j, SubSeq(t, i, k) \in Table
          PROVE  k <= r.end
      <3>1. k # j
        BY <2>3, <2>5
      <3>2. k \in i..j - 1
        BY <1>2, <3>1
      <3> QED
        BY <2>5, <3>2 DEF Followed
    <2>6. 0 \in 0..N
      BY <1>2
    <2> HIDE DEF u
    <2> QED
      BY <1>3, <1>4, <2>1, <2>2, <2>4, <2>5, <2>6 DEF Followed, u, b
  <1> QED
    BY <1>5, <1>6

\* The inner loop finds the longest word that begins with the byte i.
LEMMA LongestIsLongest ==
  ASSUME FilterInv, NEW t \in Seq(Octets), NEW i \in 1..Len(t)
  PROVE  /\ Longest(t, i) \in 0..Len(t)
         /\ Longest(t, i) > 0 => Hit(t, i, Longest(t, i))
         /\ \A j \in i..Len(t) : SubSeq(t, i, j) \in Table => j <= Longest(t, i)
  <1> DEFINE L == Len(t)
             n == (L - i) + 1
             c == [cur |-> 1, end |-> 0]
             Eq(g) == g = [j \in i - 1..L |->
                             IF j = i - 1 THEN c ELSE Follow(g[j - 1], t[j], j)]
             a == CHOOSE g : Eq(g)
  <1>1. L \in Nat /\ i \in 1..L /\ n \in Nat /\ (i - 1) + n = L
    BY LenProperties
  <1>2. PICK path : Paths(path, nodes) /\ Marks(path, nodes, Table)
    BY DEF FilterInv
  <1> DEFINE D == {r \in [cur : Nat, end : Nat] :
                     \E j \in i - 1..L : Followed(r, path, t, i, j)}
             S == [cur : 0..Len(nodes), end : 0..L]
             step == [x \in (1..n) \X S |-> Follow(x[2], t[(i - 1) + x[1]], (i - 1) + x[1])]
  <1>3. c \in S
    <2>1. 1 \in 0..Len(nodes) /\ 0 \in 0..L
      BY <1>1, <1>2 DEF Paths
    <2> QED
      BY <2>1
  <1>4. ASSUME NEW r \in S, NEW j \in i..L PROVE Follow(r, t[j], j) \in S
    <2> DEFINE goes == r.cur # 0 /\ t[j] \in DOMAIN nodes[r.cur].next
               to == IF goes THEN nodes[r.cur].next[t[j]] ELSE 0
               end == IF to # 0 /\ nodes[to].terminal THEN j ELSE r.end
    <2>1. Follow(r, t[j], j) = [cur |-> to, end |-> end]
      BY DEF Follow
    <2>2. to \in 0..Len(nodes)
      <3>1. CASE goes
        <4>1. r.cur \in 1..Len(nodes)
          BY <3>1, <1>2 DEF Paths
        <4>2. to \in 1..Len(nodes)
          BY <1>2, <3>1, <4>1 DEF Paths
        <4> QED
          BY <1>2, <4>2 DEF Paths
      <3>2. CASE ~goes
        BY <3>2, <1>2 DEF Paths
      <3> QED
        BY <3>1, <3>2
    <2>3. end \in 0..L
      BY <1>1
    <2> HIDE DEF to, end
    <2> QED
      BY <2>1, <2>2, <2>3
  <1>5. /\ step \in [(1..n) \X S -> S]
        /\ \A k \in 1..n, d \in S :
             step[<<k, d>>] = Follow(d, t[(i - 1) + k], (i - 1) + k)
    <2>0. \A k \in 1..n : (i - 1) + k \in i..L
      BY <1>1
    <2> HIDE DEF S, n
    <2>1. ASSUME NEW x \in (1..n) \X S
          PROVE  Follow(x[2], t[(i - 1) + x[1]], (i - 1) + x[1]) \in S
      <3>1. x[1] \in 1..n /\ x[2] \in S
        OBVIOUS
      <3> QED
        BY <1>4, <2>0, <3>1
    <2> QED
      BY <2>1
  <1>6. Longest(t, i) = a[L].end
    BY DEF Longest
  <1> HIDE DEF S, step, c
  <1>7. PICK f : IsLoop(f, n, S, c, step)
    BY <1>1, <1>3, <1>5, LoopExists
  <1>8. \E g : Eq(g)
    <2> DEFINE g == [j \in i - 1..L |-> f[j - (i - 1)]]
    <2> HIDE DEF n
    <2>1. ASSUME NEW j \in i - 1..L
          PROVE  g[j] = IF j = i - 1 THEN c ELSE Follow(g[j - 1], t[j], j)
      <3>1. CASE j = i - 1
        <4>1. j - (i - 1) = 0
          BY <1>1, <3>1
        <4> QED
          BY <1>7, <3>1, <4>1 DEF IsLoop
      <3>2. CASE j # i - 1
        <4> DEFINE k == j - (i - 1)
        <4>1. /\ k \in 1..n /\ k - 1 \in 0..n /\ (i - 1) + k = j
              /\ j - 1 \in i - 1..L /\ (j - 1) - (i - 1) = k - 1
          BY <1>1, <3>2
        <4>2. g[j] = f[k] /\ g[j - 1] = f[k - 1]
          BY <4>1
        <4> HIDE DEF k, g
        <4>3. f[k - 1] \in S /\ f[k] = step[<<k, f[k - 1]>>]
          BY <1>7, <4>1 DEF IsLoop
        <4>4. f[k] = Follow(f[k - 1], t[j], j)
          BY <1>5, <4>1, <4>3
        <4> QED
          BY <3>2, <4>2, <4>4
      <3> QED
        BY <3>1, <3>2
    <2>2. Eq(g)
      BY <2>1
    <2> QED
      BY <2>2
  <1>9. Eq(a)
    BY <1>8
  <1> HIDE DEF a
  <1>10. a[i - 1] = c /\ \A j \in i..L : a[j] = Follow(a[j - 1], t[j], j)
    <2>1. \A j \in i - 1..L : a[j] = IF j = i - 1 THEN c ELSE Follow(a[j - 1], t[j], j)
      BY <1>9
    <2>2. i - 1 \in i - 1..L /\ \A j \in i..L : j \in i - 1..L /\ j # i - 1
      BY <1>1
    <2> QED
      BY <2>1, <2>2
  <1> DEFINE T == {k \in Nat : k <= n =>
                     Followed(a[(i - 1) + k], path, t, i, (i - 1) + k)}
  <1>11. 0 \in T
    <2>1. SubSeq(t, i, i - 1) = << >>
      BY <1>1, SubSeqEmpty
    <2>2. path[1] = << >> /\ 1 \in 1..Len(nodes)
      BY <1>2 DEF Paths
    <2>3. \A k \in i..i - 1 : FALSE
      BY <1>1
    <2>4. c.cur = 1 /\ c.end = 0 /\ 1 \in 0..Len(nodes) /\ 0 \in 0..L
      BY <1>1, <1>2 DEF c, Paths
    <2>5. Followed(c, path, t, i, i - 1)
      <3>1. c.cur # 0 /\ ~(c.end > 0)
        BY <2>4
      <3>3. path[c.cur] = SubSeq(t, i, i - 1)
        <4>1. SubSeq(t, i, i - 1) = path[1]
          BY <2>1, <2>2
        <4>2. c.cur = 1
          BY <2>4
        <4> QED
          BY <4>1, <4>2, Zenon
      <3>2. c.cur \in 0..Len(nodes) /\ c.end \in 0..Len(t)
        BY <2>4
      <3> QED
        BY <2>3, <3>1, <3>2, <3>3 DEF Followed
    <2> QED
      BY <1>1, <1>10, <2>5
  <1>12. \A k \in Nat : k \in T => k + 1 \in T
    <2> SUFFICES ASSUME NEW k \in Nat, k \in T, k + 1 <= n
                 PROVE  Followed(a[(i - 1) + (k + 1)], path, t, i, (i - 1) + (k + 1))
      OBVIOUS
    <2> DEFINE j == (i - 1) + (k + 1)
    <2>1. j \in i..L /\ j - 1 = (i - 1) + k /\ k <= n
      BY <1>1
    <2>2. Followed(a[j - 1], path, t, i, j - 1)
      BY <2>1
    <2> HIDE DEF j
    <2>3. Followed(Follow(a[j - 1], t[j], j), path, t, i, j)
      BY <1>1, <1>2, <2>1, <2>2, FollowGoesOn
    <2>4. Followed(a[j], path, t, i, j)
      BY <1>10, <2>1, <2>3
    <2> QED
      BY <2>4 DEF j
  <1> HIDE DEF T
  <1>13. n \in T
    BY <1>1, <1>11, <1>12, NumbersInduction
  <1>14. Followed(a[(i - 1) + n], path, t, i, (i - 1) + n)
    BY <1>1, <1>13 DEF T
  <1>15. Followed(a[L], path, t, i, L)
    BY <1>1, <1>14
  <1> DEFINE e == a[L].end
  <1>16. /\ e \in 0..L /\ (e > 0 => e \in i..L /\ SubSeq(t, i, e) \in Table)
         /\ \A j \in i..L : SubSeq(t, i, j) \in Table => j <= e
    BY <1>15 DEF Followed
  <1> HIDE DEF e
  <1>17. e > 0 => Hit(t, i, e)
    BY <1>1, <1>16 DEF Hit
  <1> QED
    BY <1>6, <1>16, <1>17 DEF e

Matches(t) == [start : 1..Len(t), end : 1..Len(t)]

\* ms are the matches in t from i on: words only, each the longest at its place, one
\* behind the other, and every word of the list that stands in t meets one.
Exact(ms, t, i) ==
  /\ ms \in Seq(Matches(t))
  /\ \A k \in 1..Len(ms) :
       /\ i <= ms[k].start /\ Hit(t, ms[k].start, ms[k].end)
       /\ \A j \in ms[k].end + 1..Len(t) : ~Hit(t, ms[k].start, j)
  /\ \A k, l \in 1..Len(ms) : k < l => ms[k].end < ms[l].start
  /\ \A x, y \in 1..Len(t) : i <= x /\ Hit(t, x, y) =>
       \E k \in 1..Len(ms) : ms[k].start <= x /\ x <= ms[k].end

LEMMA NothingIsExact ==
  ASSUME NEW t \in Seq(Octets)
  PROVE  Exact(<< >>, t, Len(t) + 1)
  <1>1. Len(t) \in Nat /\ << >> \in Seq(Matches(t)) /\ Len(<< >>) = 0
    BY LenProperties, EmptySeq
  <1>2. \A x \in 1..Len(t) : ~(Len(t) + 1 <= x)
    BY <1>1
  <1>3. \A k \in 1..0 : FALSE
    OBVIOUS
  <1> QED
    BY <1>1, <1>2, <1>3 DEF Exact

\* Where no word begins, scan goes on by a byte.
LEMMA ExactSkips ==
  ASSUME NEW t \in Seq(Octets), NEW i \in 1..Len(t), NEW ms, Exact(ms, t, i + 1),
         \A j \in 1..Len(t) : ~Hit(t, i, j)
  PROVE  Exact(ms, t, i)
  <1>1. ms \in Seq(Matches(t)) /\ Len(t) \in Nat
    BY LenProperties DEF Exact
  <1>2. ASSUME NEW k \in 1..Len(ms) PROVE i <= ms[k].start
    <2>1. ms[k] \in Matches(t) /\ i + 1 <= ms[k].start
      BY <1>1, ElementOfSeq DEF Exact
    <2>2. ms[k].start \in 1..Len(t)
      BY <2>1 DEF Matches
    <2> QED
      BY <1>1, <2>1, <2>2
  <1>3. ASSUME NEW x \in 1..Len(t), NEW y \in 1..Len(t), i <= x, Hit(t, x, y)
        PROVE  \E k \in 1..Len(ms) : ms[k].start <= x /\ x <= ms[k].end
    <2>1. x # i
      BY <1>3
    <2>2. i + 1 <= x
      BY <1>1, <1>3, <2>1
    <2> QED
      BY <1>3, <2>2 DEF Exact
  <1> QED
    BY <1>2, <1>3 DEF Exact

\* Behind a match, scan goes on.
LEMMA ExactAdds ==
  ASSUME NEW t \in Seq(Octets), NEW i \in 1..Len(t), NEW e \in 1..Len(t), Hit(t, i, e),
         \A j \in e + 1..Len(t) : ~Hit(t, i, j),
         NEW ms, Exact(ms, t, e + 1)
  PROVE  Exact(<<[start |-> i, end |-> e]>> \o ms, t, i)
  <1> DEFINE m == [start |-> i, end |-> e]
             one == <<m>>
             new == one \o ms
             L == Len(t)
             n == Len(ms)
  <1>1. L \in Nat /\ ms \in Seq(Matches(t)) /\ n \in Nat /\ i <= e /\ i \in 1..L /\ e \in 1..L
    BY LenProperties DEF Exact, Hit
  <1>2. m \in Matches(t) /\ m.start = i /\ m.end = e
    BY DEF Matches
  <1> HIDE DEF m
  <1>3. one \in Seq(Matches(t)) /\ Len(one) = 1 /\ one[1] = m
    BY <1>2
  <1> HIDE DEF one
  <1>4. /\ new \in Seq(Matches(t)) /\ Len(new) = n + 1
        /\ \A k \in 1..n + 1 : new[k] = IF k <= 1 THEN one[k] ELSE ms[k - 1]
    <2>1. /\ new \in Seq(Matches(t)) /\ Len(new) = Len(one) + Len(ms)
          /\ \A k \in 1..Len(one) + Len(ms) :
               new[k] = IF k <= Len(one) THEN one[k] ELSE ms[k - Len(one)]
      BY <1>1, <1>3, ConcatProperties
    <2> HIDE DEF new, n
    <2>2. Len(one) + Len(ms) = n + 1
      BY <1>1, <1>3 DEF n
    <2> QED
      BY <1>3, <2>1, <2>2
  <1> HIDE DEF new
  <1>5. new[1] = m
    BY <1>1, <1>3, <1>4
  <1>6. ASSUME NEW k \in 1..n + 1, k # 1
        PROVE  k - 1 \in 1..n /\ new[k] = ms[k - 1] /\ (k - 1) + 1 = k
    BY <1>1, <1>4, <1>6
  <1>7. ASSUME NEW k \in 1..n
        PROVE  /\ k + 1 \in 1..n + 1 /\ new[k + 1] = ms[k]
    <2>1. k + 1 \in 1..n + 1 /\ k + 1 # 1 /\ (k + 1) - 1 = k
      BY <1>1
    <2> QED
      BY <1>6, <2>1
  <1>8. ASSUME NEW k \in 1..n
        PROVE  /\ ms[k].start \in 1..L /\ ms[k].end \in 1..L
               /\ e + 1 <= ms[k].start /\ Hit(t, ms[k].start, ms[k].end)
               /\ \A j \in ms[k].end + 1..L : ~Hit(t, ms[k].start, j)
    <2>1. ms[k] \in Matches(t)
      BY <1>1, ElementOfSeq
    <2> QED
      BY <2>1 DEF Exact, Matches
  <1>9. ASSUME NEW k \in 1..n + 1
        PROVE  /\ i <= new[k].start /\ Hit(t, new[k].start, new[k].end)
               /\ \A j \in new[k].end + 1..L : ~Hit(t, new[k].start, j)
    <2>1. CASE k = 1
      BY <1>1, <1>2, <1>5, <2>1
    <2>2. CASE k # 1
      <3> DEFINE l == k - 1
      <3>1. l \in 1..n /\ new[k] = ms[l]
        BY <1>6, <2>2
      <3> HIDE DEF l
      <3>2. i <= ms[l].start
        BY <1>1, <1>8, <3>1
      <3> QED
        BY <1>8, <3>1, <3>2
    <2> QED
      BY <2>1, <2>2
  <1>10. ASSUME NEW k \in 1..n + 1, NEW l \in 1..n + 1, k < l
         PROVE  new[k].end < new[l].start
    <2> DEFINE p == l - 1
               q == k - 1
    <2>1. l # 1 /\ (k # 1 => q < p)
      BY <1>1, <1>10
    <2>2. p \in 1..n /\ new[l] = ms[p]
      BY <1>6, <2>1
    <2>3. k # 1 => q \in 1..n /\ new[k] = ms[q]
      BY <1>6
    <2> HIDE DEF p, q
    <2>4. CASE k = 1
      <3>1. e + 1 <= ms[p].start /\ ms[p].start \in 1..L
        BY <1>8, <2>2
      <3> QED
        BY <1>1, <1>2, <1>5, <2>2, <2>4, <3>1
    <2>5. CASE k # 1
      BY <2>1, <2>2, <2>3, <2>5 DEF Exact
    <2> QED
      BY <2>4, <2>5
  <1>11. ASSUME NEW x \in 1..L, NEW y \in 1..L, i <= x, Hit(t, x, y)
         PROVE  \E k \in 1..n + 1 : new[k].start <= x /\ x <= new[k].end
    <2>1. CASE x <= e
      <3>1. 1 \in 1..n + 1
        BY <1>1
      <3> QED
        BY <1>2, <1>5, <1>11, <2>1, <3>1
    <2>2. CASE ~(x <= e)
      <3>1. e + 1 <= x
        BY <1>1, <2>2
      <3>2. PICK k \in 1..n : ms[k].start <= x /\ x <= ms[k].end
        BY <1>11, <3>1 DEF Exact
      <3> DEFINE l == k + 1
      <3>3. l \in 1..n + 1 /\ new[l] = ms[k]
        BY <1>7
      <3> HIDE DEF l
      <3> QED
        BY <3>2, <3>3
    <2> QED
      BY <2>1, <2>2
  <1>12. Exact(new, t, i)
    BY <1>4, <1>9, <1>10, <1>11 DEF Exact
  <1> QED
    BY <1>12 DEF new, one, m

\* What scan makes of the byte i, when g has the matches from the later ones on.
Found(t, i, g) ==
  IF i > Len(t) THEN <<>>
  ELSE LET end == Longest(t, i)
       IN IF end > 0 THEN <<[start |-> i, end |-> end]>> \o g[After(end)]
                     ELSE g[i + 1]

LEMMA FoundIsExact ==
  ASSUME FilterInv, NEW t \in Seq(Octets), NEW i \in 1..Len(t) + 1, NEW g,
         \A j \in i + 1..Len(t) + 1 : Exact(g[j], t, j)
  PROVE  Exact(Found(t, i, g), t, i)
  <1>1. Len(t) \in Nat
    BY LenProperties
  <1>2. CASE i > Len(t)
    <2>1. i = Len(t) + 1 /\ Found(t, i, g) = << >>
      BY <1>1, <1>2 DEF Found
    <2> QED
      BY <2>1, NothingIsExact
  <1>3. CASE ~(i > Len(t))
    <2> DEFINE e == Longest(t, i)
    <2>1. i \in 1..Len(t)
      BY <1>1, <1>3
    <2>2. /\ e \in 0..Len(t) /\ (e > 0 => Hit(t, i, e))
          /\ \A j \in i..Len(t) : SubSeq(t, i, j) \in Table => j <= e
      BY <2>1, LongestIsLongest
    <2>3. Found(t, i, g) = IF e > 0 THEN <<[start |-> i, end |-> e]>> \o g[After(e)]
                                    ELSE g[i + 1]
      BY <1>3 DEF Found
    <2> HIDE DEF e
    <2>4. CASE e > 0
      <3>1. e \in 1..Len(t) /\ i <= e
        BY <1>1, <2>1, <2>2, <2>4 DEF Hit
      <3>2. After(e) = e + 1 /\ e + 1 \in i + 1..Len(t) + 1
        BY <1>1, <2>1, <3>1 DEF After
      <3>3. ASSUME NEW j \in e + 1..Len(t), Hit(t, i, j) PROVE FALSE
        <4>1. j \in i..Len(t) /\ SubSeq(t, i, j) \in Table /\ ~(j <= e)
          BY <1>1, <2>1, <3>1, <3>3 DEF Hit
        <4> QED
          BY <2>2, <4>1
      <3>4. Exact(g[e + 1], t, e + 1)
        BY <3>2
      <3>5. Exact(<<[start |-> i, end |-> e]>> \o g[e + 1], t, i)
        BY <2>1, <2>2, <2>4, <3>1, <3>3, <3>4, ExactAdds
      <3> QED
        BY <2>3, <2>4, <3>2, <3>5
    <2>5. CASE ~(e > 0)
      <3>1. ASSUME NEW j \in 1..Len(t), Hit(t, i, j) PROVE FALSE
        <4>1. j \in i..Len(t) /\ SubSeq(t, i, j) \in Table /\ ~(j <= e)
          BY <1>1, <2>1, <2>2, <2>5, <3>1 DEF Hit
        <4> QED
          BY <2>2, <4>1
      <3>2. i + 1 \in i + 1..Len(t) + 1
        BY <1>1, <2>1
      <3>3. Exact(g[i + 1], t, i + 1)
        BY <3>2
      <3> QED
        BY <2>1, <2>3, <2>5, <3>1, <3>3, ExactSkips
    <2> QED
      BY <2>4, <2>5
  <1> QED
    BY <1>2, <1>3

\* Found asks g only behind i.
LEMMA FoundLooksAhead ==
  ASSUME FilterInv, NEW t \in Seq(Octets), NEW i \in 1..Len(t) + 1, NEW g, NEW h,
         \A j \in i + 1..Len(t) + 1 : g[j] = h[j]
  PROVE  Found(t, i, g) = Found(t, i, h)
  <1>1. Len(t) \in Nat
    BY LenProperties
  <1>2. CASE i > Len(t)
    BY <1>2 DEF Found
  <1>3. CASE ~(i > Len(t))
    <2> DEFINE e == Longest(t, i)
    <2>1. i \in 1..Len(t)
      BY <1>1, <1>3
    <2>2. e \in 0..Len(t) /\ (e > 0 => Hit(t, i, e))
      BY <2>1, LongestIsLongest
    <2>3. e > 0 => After(e) \in i + 1..Len(t) + 1
      BY <1>1, <2>1, <2>2 DEF Hit, After
    <2>4. i + 1 \in i + 1..Len(t) + 1
      BY <1>1, <2>1
    <2>5. \A f : Found(t, i, f) = IF e > 0 THEN <<[start |-> i, end |-> e]>> \o f[After(e)]
                                           ELSE f[i + 1]
      BY <1>3 DEF Found
    <2> HIDE DEF e
    <2>6. e > 0 => g[After(e)] = h[After(e)]
      BY <2>3
    <2>7. g[i + 1] = h[i + 1]
      BY <2>4
    <2> QED
      BY <2>5, <2>6, <2>7
  <1> QED
    BY <1>2, <1>3

LEMMA ScanIsExact ==
  ASSUME FilterInv, NEW t \in Seq(Octets)
  PROVE  Exact(Scan(t), t, 1)
  <1> DEFINE L == Len(t)
             Eq(g) == g = [i \in 1..L + 1 |-> Found(t, i, g)]
             a == CHOOSE g : Eq(g)
             P(k) == \E g : \A i \in (L + 1) - k..L + 1 : g[i] = Found(t, i, g)
             X(k) == \A i \in (L + 1) - k..L + 1 : Exact(a[i], t, i)
             T == {k \in Nat : k <= L => P(k)}
  <1>1. L \in Nat
    BY LenProperties
  <1>2. Scan(t) = a[1]
    BY DEF Scan, Found
  <1>3. \A k \in Nat : k <= L => \A i \in (L + 1) - k..L + 1 : i \in 1..L + 1
    BY <1>1
  <1>4. 0 \in T
    <2> DEFINE g == [i \in 1..L + 1 |-> << >>]
    <2>1. L + 1 \in 1..L + 1 /\ (L + 1) - 0 = L + 1 /\ L + 1 > L
      BY <1>1
    <2>2. g[L + 1] = << >>
      BY <2>1
    <2>3. Found(t, L + 1, g) = << >>
      BY <2>1 DEF Found
    <2>4. \A i \in (L + 1) - 0..L + 1 : i = L + 1
      BY <1>1
    <2> HIDE DEF g
    <2>5. P(0)
      BY <2>2, <2>3, <2>4
    <2> HIDE DEF P
    <2> QED
      BY <2>5
  <1>5. \A k \in Nat : k \in T => k + 1 \in T
    <2> HIDE DEF P
    <2> SUFFICES ASSUME NEW k \in Nat, k \in T, k + 1 <= L PROVE P(k + 1)
      OBVIOUS
    <2> DEFINE b == (L + 1) - (k + 1)
    <2>1. k <= L /\ b \in 1..L /\ b + 1 = (L + 1) - k
      BY <1>1
    <2>2. P(k)
      BY <2>1
    <2> USE DEF P
    <2>3. PICK f : \A i \in (L + 1) - k..L + 1 : f[i] = Found(t, i, f)
      BY <2>2
    <2> HIDE DEF b
    <2> DEFINE g == [i \in 1..L + 1 |-> IF i = b THEN Found(t, b, f) ELSE f[i]]
    <2>4. ASSUME NEW i \in b..L + 1 PROVE g[i] = Found(t, i, g)
      <3>1. i \in 1..L + 1 /\ \A j \in i + 1..L + 1 : j \in 1..L + 1 /\ j # b
        BY <1>1, <2>1
      <3>2. \A j \in i + 1..L + 1 : g[j] = f[j]
        BY <3>1
      <3>3. Found(t, i, g) = Found(t, i, f)
        <4> HIDE DEF g
        <4> QED
          BY <3>1, <3>2, FoundLooksAhead
      <3>4. g[i] = Found(t, i, f)
        <4>1. CASE i = b
          BY <3>1, <4>1
        <4>2. CASE i # b
          <5>1. i \in (L + 1) - k..L + 1
            BY <1>1, <2>1, <4>2
          <5>2. f[i] = Found(t, i, f)
            BY <2>3, <5>1
          <5> QED
            BY <3>1, <4>2, <5>2
        <4> QED
          BY <4>1, <4>2
      <3> QED
        BY <3>3, <3>4
    <2> HIDE DEF g
    <2> QED
      BY <2>4 DEF b
  <1>6. L \in T
    <2> HIDE DEF T
    <2> QED
      BY <1>1, <1>4, <1>5, NumbersInduction
  <1>7. \E g : Eq(g)
    <2>1. PICK f : \A i \in (L + 1) - L..L + 1 : f[i] = Found(t, i, f)
      BY <1>1, <1>6
    <2> DEFINE g == [i \in 1..L + 1 |-> f[i]]
    <2>2. ASSUME NEW i \in 1..L + 1 PROVE f[i] = Found(t, i, g)
      <3>1. i \in (L + 1) - L..L + 1
        BY <1>1
      <3>2. \A j \in i + 1..L + 1 : j \in 1..L + 1
        BY <1>1
      <3>3. \A j \in i + 1..L + 1 : g[j] = f[j]
        BY <3>2
      <3>4. Found(t, i, g) = Found(t, i, f)
        <4> HIDE DEF g
        <4> QED
          BY <3>3, FoundLooksAhead
      <3> QED
        BY <2>1, <3>1, <3>4
    <2>3. g = [i \in 1..L + 1 |-> Found(t, i, g)]
      <3> DEFINE h == [i \in 1..L + 1 |-> Found(t, i, g)]
      <3>1. \A i \in 1..L + 1 : g[i] = f[i] /\ h[i] = f[i]
        BY <2>2
      <3>2. DOMAIN g = 1..L + 1 /\ DOMAIN h = 1..L + 1
            /\ g = [i \in 1..L + 1 |-> g[i]] /\ h = [i \in 1..L + 1 |-> h[i]]
        OBVIOUS
      <3> HIDE DEF g, h
      <3>3. g = h
        BY <3>1, <3>2
      <3> QED
        BY <3>3 DEF h
    <2> QED
      BY <2>3
  <1>8. Eq(a)
    BY <1>7
  <1> HIDE DEF a
  <1>9. \A i \in 1..L + 1 : a[i] = Found(t, i, a)
    BY <1>8
  <1> DEFINE E == {k \in Nat : k <= L => X(k)}
  <1>10. 0 \in E
    <2>1. \A i \in (L + 1) - 0..L + 1 : i = L + 1 /\ i \in 1..L + 1
      BY <1>1
    <2>2. \A j \in (L + 1) + 1..L + 1 : FALSE
      BY <1>1
    <2>3. L + 1 \in 1..L + 1
      BY <1>1
    <2>4. Exact(Found(t, L + 1, a), t, L + 1)
      BY <2>2, <2>3, FoundIsExact
    <2>5. Exact(a[L + 1], t, L + 1)
      BY <1>9, <2>3, <2>4
    <2> QED
      BY <2>1, <2>5
  <1>11. \A k \in Nat : k \in E => k + 1 \in E
    <2> HIDE DEF X
    <2> SUFFICES ASSUME NEW k \in Nat, k \in E, k + 1 <= L PROVE X(k + 1)
      OBVIOUS
    <2>0. k <= L => X(k)
      OBVIOUS
    <2> USE DEF X
    <2> SUFFICES ASSUME NEW i \in (L + 1) - (k + 1)..L + 1 PROVE Exact(a[i], t, i)
      OBVIOUS
    <2>1. k <= L /\ i \in 1..L + 1 /\ \A j \in i + 1..L + 1 : j \in (L + 1) - k..L + 1
      BY <1>1
    <2>2. \A j \in (L + 1) - k..L + 1 : Exact(a[j], t, j)
      BY <2>0, <2>1
    <2>3. Exact(Found(t, i, a), t, i)
      BY <2>1, <2>2, FoundIsExact
    <2> QED
      BY <1>9, <2>1, <2>3
  <1>12. L \in E
    <2> HIDE DEF E
    <2> QED
      BY <1>1, <1>10, <1>11, NumbersInduction
  <1>13. 1 \in (L + 1) - L..L + 1
    BY <1>1
  <1>14. Exact(a[1], t, 1)
    BY <1>1, <1>12, <1>13
  <1> QED
    BY <1>2, <1>14

\* The scan's promise, in the words of the property.
LEMMA HitsAreWords ==
  ASSUME NEW text \in Seq(Octets), NEW i, NEW j
  PROVE  Occurs(text, i, j) <=> Hit(Lower(text), i, j)
  <1>1. Len(Lower(text)) = Len(text)
    BY LowerIsText
  <1>2. (\E w \in added : Lower(w) = SubSeq(Lower(text), i, j))
        <=> SubSeq(Lower(text), i, j) \in Table
    BY DEF Table
  <1>3. Occurs(text, i, j)
        <=> /\ i \in 1..j /\ j \in 1..Len(text)
            /\ \E w \in added : Lower(w) = SubSeq(Lower(text), i, j)
    BY Zenon DEF Occurs, StandsAt
  <1> QED
    BY <1>1, <1>2, <1>3, Zenon DEF Hit

LEMMA TextsAreOctets == Texts \subseteq Seq(Octets)
  <1> SUFFICES ASSUME NEW n \in 0..MaxText, NEW text \in [1..n -> TextBytes]
               PROVE  text \in Seq(Octets)
    BY DEF Texts
  <1>1. n \in Nat /\ TextBytes \subseteq Octets
    BY WordFilterAssumption DEF Octets
  <1>2. text \in [1..n -> Octets]
    BY <1>1
  <1> QED
    BY <1>1, <1>2

LEMMA MatchesHold == FilterInv => MatchesAreLeftmostLongest
  <1> SUFFICES ASSUME FilterInv, NEW text \in Texts
               PROVE  LET ms == Scan(Lower(text)) IN
                 /\ \A k \in DOMAIN ms :
                      /\ Occurs(text, ms[k].start, ms[k].end)
                      /\ \A j \in ms[k].end + 1..Len(text) : ~Occurs(text, ms[k].start, j)
                      /\ k < Len(ms) => ms[k].end < ms[k + 1].start
                 /\ \A i, j \in 1..Len(text) : Occurs(text, i, j) =>
                      \E k \in DOMAIN ms : ms[k].start <= i /\ i <= ms[k].end
    BY DEF MatchesAreLeftmostLongest
  <1> DEFINE t == Lower(text)
             ms == Scan(t)
  <1>1. text \in Seq(Octets) /\ t \in Seq(Octets) /\ Len(t) = Len(text) /\ Len(t) \in Nat
    BY TextsAreOctets, LowerIsText
  <1>2. \A i, j : Occurs(text, i, j) <=> Hit(t, i, j)
    BY <1>1, HitsAreWords
  <1> HIDE DEF t
  <1>3. Exact(ms, t, 1)
    BY <1>1, ScanIsExact
  <1> HIDE DEF ms
  <1>4. DOMAIN ms = 1..Len(ms) /\ Len(ms) \in Nat
    BY <1>3, LenProperties DEF Exact
  <1>5. ASSUME NEW k \in 1..Len(ms)
        PROVE  /\ Occurs(text, ms[k].start, ms[k].end)
               /\ \A j \in ms[k].end + 1..Len(text) : ~Occurs(text, ms[k].start, j)
               /\ k < Len(ms) => ms[k].end < ms[k + 1].start
    <2>1. k < Len(ms) => k + 1 \in 1..Len(ms) /\ k < k + 1
      BY <1>4
    <2>2. k < Len(ms) => ms[k].end < ms[k + 1].start
      <3> DEFINE l == k + 1
      <3>1. k < Len(ms) => l \in 1..Len(ms) /\ k < l
        BY <2>1
      <3> HIDE DEF l
      <3>2. k < Len(ms) => ms[k].end < ms[l].start
        BY <1>3, <3>1 DEF Exact
      <3> QED
        BY <3>2 DEF l
    <2> QED
      BY <1>1, <1>2, <1>3, <2>2 DEF Exact
  <1>6. ASSUME NEW i \in 1..Len(text), NEW j \in 1..Len(text), Occurs(text, i, j)
        PROVE  \E k \in 1..Len(ms) : ms[k].start <= i /\ i <= ms[k].end
    <2>1. 1 <= i /\ i \in 1..Len(t) /\ j \in 1..Len(t) /\ Hit(t, i, j)
      BY <1>1, <1>2, <1>6
    <2> QED
      BY <1>3, <2>1 DEF Exact
  <1> QED
    BY <1>4, <1>5, <1>6 DEF ms, t

-----------------------------------------------------------------------------
(* The word filter: masking.                                               *)

\* Where a character begins.
Heads(t) == {i \in 1..Len(t) : ~Continues(t[i])}

LEMMA CharsAreHeads ==
  ASSUME NEW t \in Seq(Octets)
  PROVE  /\ Chars(t) = Cardinality(Heads(t)) /\ Chars(t) \in Nat
         /\ IsFiniteSet(Heads(t)) /\ Len(t) \in Nat
         /\ (\E i \in 1..Len(t) : ~Continues(t[i])) => Chars(t) >= 1
  <1>1. DOMAIN t = 1..Len(t) /\ Len(t) \in Nat
    BY LenProperties
  <1>2. Chars(t) = Cardinality(Heads(t))
    BY <1>1 DEF Chars, Heads
  <1>3. IsFiniteSet(1..Len(t)) /\ Heads(t) \in SUBSET (1..Len(t))
    BY <1>1, FS_Interval DEF Heads
  <1>4. IsFiniteSet(Heads(t))
    BY <1>3, FS_Subset
  <1>5. Cardinality(Heads(t)) \in Nat
    BY <1>4, FS_CardinalityType
  <1>6. Heads(t) # {} => Cardinality(Heads(t)) # 0
    BY <1>4, FS_EmptySet
  <1>7. (\E i \in 1..Len(t) : ~Continues(t[i])) => Heads(t) # {}
    BY DEF Heads
  <1> QED
    BY <1>1, <1>2, <1>4, <1>5, <1>6, <1>7

\* The characters of two texts put together.
LEMMA CharsAdd ==
  ASSUME NEW s \in Seq(Octets), NEW t \in Seq(Octets)
  PROVE  Chars(s \o t) = Chars(s) + Chars(t)
  <1> DEFINE n == Len(s)
             m == Len(t)
             u == s \o t
             moved == {i \in n + 1..n + m : ~Continues(t[i - n])}
             f == [i \in Heads(t) |-> n + i]
  <1>1. n \in Nat /\ m \in Nat
    BY LenProperties
  <1>2. /\ u \in Seq(Octets) /\ Len(u) = n + m
        /\ \A i \in 1..n + m : u[i] = IF i <= n THEN s[i] ELSE t[i - n]
    BY ConcatProperties
  <1>3. f \in Bijection(Heads(t), moved)
    <2>1. \A i \in Heads(t) : n + i \in moved
      <3> SUFFICES ASSUME NEW i \in Heads(t) PROVE n + i \in moved
        OBVIOUS
      <3>1. i \in 1..m /\ ~Continues(t[i])
        BY DEF Heads
      <3>2. n + i \in n + 1..n + m /\ (n + i) - n = i
        BY <1>1, <3>1
      <3> QED
        BY <3>1, <3>2
    <2>2. \A i, j \in Heads(t) : n + i = n + j => i = j
      BY <1>1 DEF Heads
    <2>3. \A j \in moved : j - n \in Heads(t) /\ n + (j - n) = j
      <3> SUFFICES ASSUME NEW j \in moved PROVE j - n \in Heads(t) /\ n + (j - n) = j
        OBVIOUS
      <3>1. j \in n + 1..n + m /\ ~Continues(t[j - n])
        OBVIOUS
      <3>2. j - n \in 1..m /\ n + (j - n) = j
        BY <1>1, <3>1
      <3> QED
        BY <3>1, <3>2 DEF Heads
    <2> HIDE DEF moved, n
    <2>4. f \in [Heads(t) -> moved]
      BY <2>1
    <2>5. f \in Injection(Heads(t), moved)
      BY <2>2, <2>4 DEF Injection, IsInjective
    <2>6. f \in Surjection(Heads(t), moved)
      BY <2>3, <2>4 DEF Surjection
    <2> QED
      BY <2>5, <2>6 DEF Bijection
  <1>4. IsFiniteSet(moved) /\ Cardinality(moved) = Chars(t)
    <2>1. ExistsBijection(Heads(t), moved)
      <3> HIDE DEF f, moved
      <3> QED
        BY <1>3 DEF ExistsBijection
    <2> HIDE DEF moved
    <2> QED
      BY <2>1, CharsAreHeads, FS_Bijection
  <1>5. Heads(u) = Heads(s) \cup moved /\ Heads(s) \cap moved = {}
    <2> HIDE DEF u
    <2>1. \A i \in 1..n + m : i \in 1..n \/ i \in n + 1..n + m
      BY <1>1
    <2>2. \A i \in 1..n : i \in 1..n + m /\ i <= n
      BY <1>1
    <2>3. \A i \in n + 1..n + m : i \in 1..n + m /\ ~(i <= n)
      BY <1>1
    <2>4. \A i \in 1..n : u[i] = s[i]
      BY <1>2, <2>2
    <2>5. \A i \in n + 1..n + m : u[i] = t[i - n]
      BY <1>2, <2>3
    <2>6. Heads(u) = {i \in 1..n + m : ~Continues(u[i])}
      BY <1>2 DEF Heads
    <2>7. Heads(s) = {i \in 1..n : ~Continues(u[i])}
      BY <2>4 DEF Heads
    <2>8. moved = {i \in n + 1..n + m : ~Continues(u[i])}
      BY <2>5
    <2> HIDE DEF moved, n, m
    <2>9. Heads(u) = Heads(s) \cup moved
      BY <2>1, <2>2, <2>3, <2>6, <2>7, <2>8
    <2> QED
      BY <2>2, <2>3, <2>7, <2>8, <2>9
  <1> HIDE DEF moved, u
  <1>6. Cardinality(Heads(u)) = Cardinality(Heads(s)) + Cardinality(moved)
                                - Cardinality(Heads(s) \cap moved)
    BY <1>4, <1>5, CharsAreHeads, FS_Union
  <1>7. Cardinality(Heads(s) \cap moved) = 0
    BY <1>5, FS_EmptySet
  <1>8. Chars(u) = Cardinality(Heads(u)) /\ Chars(s) = Cardinality(Heads(s))
        /\ Chars(s) \in Nat /\ Chars(t) \in Nat
    BY <1>2, CharsAreHeads
  <1> QED
    BY <1>4, <1>6, <1>7, <1>8 DEF u

\* What is put in the place of a match.
LEMMA StarsAreMasks ==
  ASSUME NEW x \in Seq(Octets)
  PROVE  /\ Stars(x) \in Seq(Octets) /\ Len(Stars(x)) \in Nat /\ Len(Stars(x)) >= 1
         /\ \A i \in 1..Len(Stars(x)) : Stars(x)[i] = Mask
         /\ Chars(x) >= 1 => Chars(Stars(x)) = Chars(x)
  <1> DEFINE n == IF Chars(x) = 0 THEN 1 ELSE Chars(x)
             u == [i \in 1..n |-> Mask]
  <1>1. n \in Nat /\ n >= 1 /\ Chars(x) \in Nat
    BY CharsAreHeads
  <1>2. Stars(x) = u
    BY DEF Stars
  <1> HIDE DEF n
  <1>3. u \in Seq(Octets) /\ Len(u) = n /\ \A i \in 1..n : u[i] = Mask
    BY <1>1 DEF Octets, Mask
  <1> HIDE DEF u
  <1>4. Heads(u) = 1..n
    <2>1. ~Continues(Mask)
      BY DEF Continues, Mask
    <2> QED
      BY <1>3, <2>1 DEF Heads
  <1>5. Cardinality(1..n) = n
    BY <1>1, FS_Interval
  <1>6. Chars(u) = n
    BY <1>3, <1>4, <1>5, CharsAreHeads
  <1>7. Chars(x) >= 1 => n = Chars(x)
    BY <1>1 DEF n
  <1> QED
    BY <1>1, <1>2, <1>3, <1>6, <1>7

LEMMA PartIsText ==
  ASSUME NEW t \in Seq(Octets), NEW p \in 1..Len(t) + 1, NEW q \in 0..Len(t)
  PROVE  /\ SubSeq(t, p, q) \in Seq(Octets) /\ Len(SubSeq(t, p, q)) \in Nat
         /\ Len(SubSeq(t, p, q)) = IF p <= q THEN (q - p) + 1 ELSE 0
         /\ \A i \in 1..Len(SubSeq(t, p, q)) :
              (p + i) - 1 \in p..q /\ SubSeq(t, p, q)[i] = t[(p + i) - 1]
  <1>1. Len(t) \in Nat
    BY LenProperties
  <1>2. p \in Int /\ q \in Int /\ \A i \in p..q : i \in 1..Len(t)
    BY <1>1
  <1>3. \A i \in p..q : t[i] \in Octets
    BY <1>2, ElementOfSeq
  <1> DEFINE u == SubSeq(t, p, q)
  <1>4. /\ u \in Seq(Octets) /\ Len(u) = IF p <= q THEN q - p + 1 ELSE 0
        /\ \A i \in 1..q - p + 1 : u[i] = t[p + i - 1]
    BY <1>2, <1>3, SubSeqProperties
  <1> HIDE DEF u
  <1>5. Len(u) \in Nat
    BY <1>2, <1>4
  <1>6. \A i \in 1..Len(u) : i \in 1..q - p + 1 /\ (p + i) - 1 \in p..q /\ p + i - 1 = (p + i) - 1
    BY <1>2, <1>4
  <1> QED
    BY <1>2, <1>4, <1>5, <1>6 DEF u

LEMMA LowerByte ==
  ASSUME NEW x \in Octets, NEW y, y = IF x \in 65..90 THEN x + 32 ELSE x
  PROVE  (Continues(x) <=> Continues(y)) /\ (x # Mask <=> y # Mask)
  BY DEF Octets, Continues, Mask

\* No word of the list is cut off at its head.
WholeWords == \A w \in added : ~Continues(w[1])

\* A word of the list, as the trie holds it, is as much of a character and as free
\* of *s as it is in the list.
LEMMA WordsAreSound ==
  ASSUME FilterInv, NEW w \in added
  PROVE  LET u == Lower(w) IN
         /\ u \in Seq(Octets) /\ 1 \in 1..Len(u)
         /\ WholeWords => ~Continues(u[1])
         /\ Mask \notin Range(w) => \A i \in 1..Len(u) : u[i] # Mask
  <1> DEFINE u == Lower(w)
  <1>1. w # << >> /\ w \in Seq(Octets)
    BY WordFilterAssumption DEF FilterInv, Octets
  <1>2. /\ u \in Seq(Octets) /\ Len(u) = Len(w) /\ Len(w) \in Nat
        /\ \A i \in 1..Len(w) :
             /\ w[i] \in Octets
             /\ u[i] = IF w[i] \in 65..90 THEN w[i] + 32 ELSE w[i]
    BY <1>1, LowerIsText
  <1>3. 1 \in 1..Len(w)
    <2>1. Len(w) # 0
      BY <1>1, EmptySeq
    <2> QED
      BY <1>2, <2>1
  <1>4. WholeWords => ~Continues(u[1])
    BY <1>2, <1>3, LowerByte DEF WholeWords
  <1>5. ASSUME Mask \notin Range(w), NEW i \in 1..Len(w) PROVE u[i] # Mask
    <2>1. w[i] # Mask
      <3>1. DOMAIN w = 1..Len(w)
        BY <1>1, LenProperties
      <3> QED
        BY <1>5, <3>1 DEF Range
    <2> QED
      BY <1>2, <2>1, LowerByte
  <1> QED
    BY <1>2, <1>3, <1>4, <1>5

\* Where the words are whole a match is one character long at least.
LEMMA HitHasChars ==
  ASSUME FilterInv, WholeWords, NEW t \in Seq(Octets), NEW i, NEW e,
         Hit(Lower(t), i, e)
  PROVE  Chars(SubSeq(t, i, e)) >= 1
  <1> DEFINE l == Lower(t)
             u == SubSeq(l, i, e)
             s == SubSeq(t, i, e)
  <1>1. /\ l \in Seq(Octets) /\ Len(l) = Len(t) /\ Len(t) \in Nat
        /\ \A k \in 1..Len(t) : /\ t[k] \in Octets
                                /\ l[k] = IF t[k] \in 65..90 THEN t[k] + 32 ELSE t[k]
    BY LowerIsText
  <1> HIDE DEF l
  <1>2. i \in 1..e /\ e \in 1..Len(t) /\ u \in Table
    BY <1>1 DEF Hit, l
  <1>3. /\ i \in 1..Len(t) + 1 /\ e \in 0..Len(t) /\ i \in 1..Len(t)
        /\ i \in 1..Len(l) + 1 /\ e \in 0..Len(l) /\ i <= e
    BY <1>1, <1>2
  <1>4. ~Continues(u[1]) /\ 1 \in 1..Len(u)
    <2>1. PICK w \in added : u = Lower(w)
      BY <1>2 DEF Table
    <2> QED
      BY <2>1, WordsAreSound
  <1>5. u[1] = l[i]
    <2>1. u[1] = l[(i + 1) - 1]
      BY <1>1, <1>3, <1>4, PartIsText
    <2>2. (i + 1) - 1 = i
      BY <1>3
    <2> QED
      BY <2>1, <2>2
  <1>6. ~Continues(t[i])
    <2>1. ~Continues(l[i])
      BY <1>4, <1>5
    <2>2. t[i] \in Octets /\ l[i] = IF t[i] \in 65..90 THEN t[i] + 32 ELSE t[i]
      BY <1>1, <1>3
    <2> QED
      BY <2>1, <2>2, LowerByte
  <1>7. s \in Seq(Octets) /\ 1 \in 1..Len(s) /\ s[1] = t[i]
    <2>1. /\ s \in Seq(Octets) /\ Len(s) = (e - i) + 1
          /\ \A k \in 1..Len(s) : s[k] = t[(i + k) - 1]
      BY <1>3, PartIsText
    <2>2. 1 \in 1..Len(s) /\ (i + 1) - 1 = i
      BY <1>3, <2>1
    <2> QED
      BY <2>1, <2>2
  <1> QED
    BY <1>6, <1>7, CharsAreHeads

-----------------------------------------------------------------------------
(* The word filter: where the bytes of a filtered text come from.          *)

Covered(ms, x) == \E k \in 1..Len(ms) : ms[k].start <= x /\ x <= ms[k].end

\* src tells of every byte of out where in t it stood, outside the matches ms, or that
\* it is a * (0); what was not beside each other in t is parted by a *.
Mapped(out, src, t, ms) ==
  /\ out \in Seq(Octets) /\ src \in [1..Len(out) -> 0..Len(t)]
  /\ \A p \in 1..Len(out) : src[p] = 0 => out[p] = Mask
  /\ \A p \in 1..Len(out) : src[p] # 0 => out[p] = t[src[p]] /\ ~Covered(ms, src[p])
  /\ \A p, q \in 1..Len(out) : q = p + 1 /\ src[p] # 0 /\ src[q] # 0 => src[q] = src[p] + 1

\* It ends with a *, or is empty.
Closed(out, src) == Len(out) > 0 => src[Len(out)] = 0

LEMMA MapsJoin ==
  ASSUME NEW a, NEW b, NEW f, NEW g, NEW t, NEW ms,
         Mapped(a, f, t, ms), Mapped(b, g, t, ms),
         Closed(a, f) \/ Len(b) = 0 \/ g[1] = 0
  PROVE  \E h : /\ Mapped(a \o b, h, t, ms)
                /\ Len(b) > 0 /\ Closed(b, g) => Closed(a \o b, h)
                /\ Len(b) = 0 /\ Closed(a, f) => Closed(a \o b, h)
  <1> DEFINE n == Len(a)
             m == Len(b)
             c == a \o b
             h == [p \in 1..n + m |-> IF p <= n THEN f[p] ELSE g[p - n]]
  <1>1. /\ n \in Nat /\ m \in Nat /\ a \in Seq(Octets) /\ b \in Seq(Octets)
        /\ f \in [1..n -> 0..Len(t)] /\ g \in [1..m -> 0..Len(t)]
    BY LenProperties DEF Mapped
  <1>2. /\ c \in Seq(Octets) /\ Len(c) = n + m
        /\ \A p \in 1..n + m : c[p] = IF p <= n THEN a[p] ELSE b[p - n]
    BY <1>1, ConcatProperties
  <1> HIDE DEF n, m, c
  <1>3. ASSUME NEW p \in 1..n + m
        PROVE  /\ p <= n => p \in 1..n /\ h[p] = f[p] /\ c[p] = a[p]
               /\ ~(p <= n) => p - n \in 1..m /\ h[p] = g[p - n] /\ c[p] = b[p - n]
    BY <1>1, <1>2
  <1>4. h \in [1..n + m -> 0..Len(t)]
    <2>1. \A p \in 1..n + m : h[p] \in 0..Len(t)
      BY <1>1, <1>3
    <2>2. h = [p \in 1..n + m |-> h[p]]
      OBVIOUS
    <2> HIDE DEF h
    <2> QED
      BY <2>1, <2>2
  <1> HIDE DEF h
  <1>5. ASSUME NEW p \in 1..n + m
        PROVE  /\ h[p] = 0 => c[p] = Mask
               /\ h[p] # 0 => c[p] = t[h[p]] /\ ~Covered(ms, h[p])
    <2>1. CASE p <= n
      BY <1>3, <2>1 DEF Mapped, n
    <2>2. CASE ~(p <= n)
      <3> DEFINE q == p - n
      <3>1. q \in 1..m /\ h[p] = g[q] /\ c[p] = b[q]
        BY <1>3, <2>2
      <3> HIDE DEF q
      <3> QED
        BY <3>1 DEF Mapped, m
    <2> QED
      BY <2>1, <2>2
  <1>6. ASSUME NEW p \in 1..n + m, NEW q \in 1..n + m, q = p + 1, h[p] # 0, h[q] # 0
        PROVE  h[q] = h[p] + 1
    <2>1. CASE q <= n
      <3>1. p <= n
        BY <1>1, <1>6, <2>1
      <3> QED
        BY <1>3, <1>6, <2>1, <3>1 DEF Mapped, n
    <2>2. CASE ~(p <= n)
      <3> DEFINE x == p - n
                 y == q - n
      <3>1. ~(q <= n) /\ y = x + 1
        BY <1>1, <1>6, <2>2
      <3>2. x \in 1..m /\ y \in 1..m /\ h[p] = g[x] /\ h[q] = g[y]
        BY <1>3, <2>2, <3>1
      <3> HIDE DEF x, y
      <3> QED
        BY <1>6, <3>1, <3>2 DEF Mapped, m
    <2>3. CASE p <= n /\ ~(q <= n)
      <3>1. p = n /\ q - n = 1 /\ n > 0
        BY <1>1, <1>6, <2>3
      <3>2. h[p] = f[n] /\ h[q] = g[1] /\ 1 \in 1..m
        BY <1>3, <2>3, <3>1
      <3>3. m # 0
        BY <1>1, <3>2
      <3>4. f[n] = 0
        BY <1>6, <3>1, <3>2, <3>3 DEF Closed, n, m
      <3> QED
        BY <1>6, <3>2, <3>4
    <2> QED
      BY <2>1, <2>2, <2>3
  <1>7. Mapped(c, h, t, ms)
    BY <1>2, <1>4, <1>5, <1>6 DEF Mapped
  <1>8. m > 0 /\ Closed(b, g) => Closed(c, h)
    <2> SUFFICES ASSUME m > 0, Closed(b, g) PROVE h[n + m] = 0
      BY <1>2 DEF Closed
    <2>1. n + m \in 1..n + m /\ ~(n + m <= n) /\ (n + m) - n = m
      BY <1>1
    <2>2. h[n + m] = g[m]
      BY <1>3, <2>1
    <2> QED
      BY <2>2 DEF Closed, m
  <1>9. m = 0 /\ Closed(a, f) => Closed(c, h)
    <2> SUFFICES ASSUME m = 0, Closed(a, f), n > 0 PROVE h[n] = 0
      BY <1>1, <1>2 DEF Closed
    <2>1. n \in 1..n + m /\ n <= n
      BY <1>1
    <2>2. h[n] = f[n]
      BY <1>3, <2>1
    <2> QED
      BY <2>2 DEF Closed, n
  <1> QED
    BY <1>7, <1>8, <1>9 DEF c, m

\* What is copied.
LEMMA CopyIsMapped ==
  ASSUME NEW t \in Seq(Octets), NEW p \in 1..Len(t) + 1, NEW q \in 0..Len(t), NEW ms,
         \A x \in p..q : ~Covered(ms, x)
  PROVE  \E g : Mapped(SubSeq(t, p, q), g, t, ms)
  <1> DEFINE u == SubSeq(t, p, q)
             g == [i \in 1..Len(u) |-> (p + i) - 1]
  <1>1. /\ u \in Seq(Octets) /\ Len(u) \in Nat
        /\ \A i \in 1..Len(u) : (p + i) - 1 \in p..q /\ u[i] = t[(p + i) - 1]
    BY PartIsText
  <1> HIDE DEF u
  <1>2. Len(t) \in Nat
    BY LenProperties
  <1>3. ASSUME NEW i \in 1..Len(u)
        PROVE  /\ g[i] \in p..q /\ g[i] \in 0..Len(t) /\ g[i] # 0
               /\ u[i] = t[g[i]] /\ g[i] = (p + i) - 1
    <2>1. (p + i) - 1 \in p..q /\ u[i] = t[(p + i) - 1]
      BY <1>1
    <2>2. \A x \in p..q : x \in 0..Len(t) /\ x # 0
      BY <1>2
    <2> QED
      BY <2>1, <2>2
  <1>4. g \in [1..Len(u) -> 0..Len(t)]
    <2>1. g = [i \in 1..Len(u) |-> g[i]]
      OBVIOUS
    <2> HIDE DEF g
    <2> QED
      BY <1>3, <2>1
  <1> HIDE DEF g
  <1>5. ASSUME NEW i \in 1..Len(u), NEW j \in 1..Len(u), j = i + 1
        PROVE  g[j] = g[i] + 1
    <2>1. g[j] = (p + j) - 1 /\ g[i] = (p + i) - 1
      BY <1>3
    <2> QED
      BY <1>1, <1>5, <2>1
  <1>6. Mapped(u, g, t, ms)
    BY <1>1, <1>3, <1>4, <1>5 DEF Mapped
  <1> QED
    BY <1>6 DEF u

\* What is put there.
LEMMA StarsAreMapped ==
  ASSUME NEW t \in Seq(Octets), NEW x \in Seq(Octets), NEW ms
  PROVE  \E g : /\ Mapped(Stars(x), g, t, ms) /\ Closed(Stars(x), g)
                /\ g[1] = 0 /\ Len(Stars(x)) > 0
  <1> DEFINE u == Stars(x)
             g == [i \in 1..Len(u) |-> 0]
  <1>1. /\ u \in Seq(Octets) /\ Len(u) \in Nat /\ Len(u) >= 1
        /\ \A i \in 1..Len(u) : u[i] = Mask
    BY StarsAreMasks
  <1> HIDE DEF u
  <1>2. Len(t) \in Nat
    BY LenProperties
  <1>3. /\ g \in [1..Len(u) -> 0..Len(t)] /\ \A i \in 1..Len(u) : g[i] = 0
        /\ 1 \in 1..Len(u) /\ Len(u) \in 1..Len(u)
    BY <1>1, <1>2
  <1> HIDE DEF g
  <1>4. Mapped(u, g, t, ms) /\ Closed(u, g) /\ g[1] = 0 /\ Len(u) > 0
    BY <1>1, <1>3 DEF Mapped, Closed
  <1> QED
    BY <1>4 DEF u

\* Two parts of a text beside each other.
LEMMA PartsAdd ==
  ASSUME NEW t \in Seq(Octets), NEW p \in 1..Len(t) + 1, NEW q \in p - 1..Len(t)
  PROVE  Chars(SubSeq(t, 1, p - 1)) + Chars(SubSeq(t, p, q)) = Chars(SubSeq(t, 1, q))
  <1> DEFINE L == Len(t)
             a == SubSeq(t, 1, p - 1)
             b == SubSeq(t, p, q)
  <1>1. /\ L \in Nat /\ p - 1 \in 0..L /\ q \in 0..L /\ 1 \in 1..L + 1 /\ p \in 1..L + 1
    BY LenProperties
  <1>2. a \in Seq(Octets) /\ b \in Seq(Octets)
    BY <1>1, PartIsText
  <1>3. a \o b = SubSeq(t, 1, q)
    <2>1. 1 \in 1..L + 1 /\ p - 1 \in (1 - 1)..L /\ q \in p - 1..L
      BY <1>1
    <2>2. SubSeq(t, 1, p - 1) \o SubSeq(t, (p - 1) + 1, q) = SubSeq(t, 1, q)
      <3> DEFINE k == p - 1
      <3> HIDE DEF k
      <3>1. 1 \in 1..L + 1 /\ k \in (1 - 1)..L /\ q \in k..L
        BY <2>1 DEF k
      <3>2. SubSeq(t, 1, k) \o SubSeq(t, k + 1, q) = SubSeq(t, 1, q)
        BY <3>1, ConcatAdjacentSubSeq
      <3> QED
        BY <3>2 DEF k
    <2>3. (p - 1) + 1 = p
      BY <1>1
    <2> QED
      BY <2>2, <2>3
  <1> HIDE DEF a, b
  <1>4. Chars(a \o b) = Chars(a) + Chars(b)
    BY <1>2, CharsAdd
  <1> QED
    BY <1>3, <1>4 DEF a, b

\* What filter has done when it has been through the first k matches of t.
Masked(r, k, t, ms) ==
  /\ r.pos \in 1..Len(t) + 1
  /\ \E src : Mapped(r.out, src, t, ms) /\ Closed(r.out, src)
  /\ \A l \in 1..Len(ms) : IF l <= k THEN ms[l].end < r.pos ELSE r.pos <= ms[l].start
  /\ WholeWords => Chars(r.out) = Chars(SubSeq(t, 1, r.pos - 1))

LEMMA MatchesOf ==
  ASSUME NEW t \in Seq(Octets), NEW ms, Exact(ms, Lower(t), 1), NEW k \in 1..Len(ms)
  PROVE  /\ ms[k].start \in 1..Len(t) /\ ms[k].end \in 1..Len(t)
         /\ ms[k].start <= ms[k].end /\ Hit(Lower(t), ms[k].start, ms[k].end)
         /\ ms[k] \in Matches(Lower(t)) /\ Len(ms) \in Nat
  <1>1. ms \in Seq(Matches(Lower(t))) /\ Len(Lower(t)) = Len(t) /\ Len(t) \in Nat
    BY LowerIsText DEF Exact
  <1>2. ms[k] \in Matches(Lower(t)) /\ Len(ms) \in Nat
    BY <1>1, ElementOfSeq, LenProperties
  <1>3. Hit(Lower(t), ms[k].start, ms[k].end)
    BY DEF Exact
  <1>4. ms[k].start \in 1..Len(t) /\ ms[k].end \in 1..Len(t) /\ ms[k].start \in 1..ms[k].end
    BY <1>1, <1>2, <1>3 DEF Matches, Hit
  <1> QED
    BY <1>1, <1>2, <1>3, <1>4

\* One match is masked.
LEMMA ReplaceMasks ==
  ASSUME FilterInv, NEW t \in Seq(Octets), NEW ms, Exact(ms, Lower(t), 1),
         NEW k \in 1..Len(ms), NEW r, Masked(r, k - 1, t, ms)
  PROVE  Masked(Replace(r, t, ms[k]), k, t, ms)
  <1> DEFINE p == r.pos
             s == ms[k].start
             e == ms[k].end
             copy == SubSeq(t, p, s - 1)
             hit == SubSeq(t, s, e)
             out1 == r.out \o copy
             out2 == out1 \o Stars(hit)
  <1>1. /\ s \in 1..Len(t) /\ e \in 1..Len(t) /\ s <= e /\ Hit(Lower(t), s, e)
        /\ Len(ms) \in Nat /\ Len(t) \in Nat
    BY MatchesOf, LenProperties
  <1>2. p \in 1..Len(t) + 1 /\ p <= s
    <2>1. ~(k <= k - 1)
      BY <1>1
    <2>2. p <= s
      BY <2>1 DEF Masked
    <2> QED
      BY <2>2 DEF Masked
  <1>3. Replace(r, t, ms[k]) = [out |-> out2, pos |-> e + 1]
    BY DEF Replace, After
  <1>4. ASSUME NEW x \in p..s - 1, Covered(ms, x) PROVE FALSE
    <2>1. PICK l \in 1..Len(ms) : ms[l].start <= x /\ x <= ms[l].end
      BY <1>4 DEF Covered
    <2>2. ms[l].start \in 1..Len(t) /\ ms[l].end \in 1..Len(t)
      BY MatchesOf
    <2>3. CASE l <= k - 1
      <3>1. ms[l].end < p
        BY <2>3 DEF Masked
      <3> QED
        BY <1>1, <1>2, <2>1, <2>2, <3>1
    <2>4. CASE ~(l <= k - 1)
      <3>1. l = k \/ k < l
        BY <1>1, <2>4
      <3>2. k < l => e < ms[l].start
        BY DEF Exact
      <3>3. s <= ms[l].start
        BY <1>1, <2>2, <3>1, <3>2
      <3> QED
        BY <1>1, <1>2, <2>1, <2>2, <3>3
    <2> QED
      BY <2>3, <2>4
  <1>5. PICK f : Mapped(r.out, f, t, ms) /\ Closed(r.out, f)
    BY DEF Masked
  <1>6. s - 1 \in 0..Len(t) /\ s - 1 \in p - 1..Len(t) /\ s \in 1..Len(t) + 1 /\ e \in 0..Len(t)
        /\ (s - 1) + 1 = s /\ e \in s - 1..Len(t)
    BY <1>1, <1>2
  <1>7. PICK g : Mapped(copy, g, t, ms)
    BY <1>2, <1>4, <1>6, CopyIsMapped
  <1>8. PICK h : Mapped(out1, h, t, ms)
    <2> HIDE DEF copy
    <2> QED
      BY <1>5, <1>7, MapsJoin
  <1>9. hit \in Seq(Octets) /\ copy \in Seq(Octets)
    BY <1>2, <1>6, PartIsText
  <1>10. WholeWords => Chars(hit) >= 1
    BY <1>1, HitHasChars
  <1>11. WholeWords => Chars(r.out) + Chars(copy) = Chars(SubSeq(t, 1, s - 1))
    <2>1. WholeWords => Chars(r.out) = Chars(SubSeq(t, 1, p - 1))
      BY DEF Masked
    <2> QED
      BY <1>2, <1>6, <2>1, PartsAdd
  <1>12. Chars(SubSeq(t, 1, s - 1)) + Chars(hit) = Chars(SubSeq(t, 1, e))
    BY <1>6, PartsAdd
  <1>13. r.out \in Seq(Octets) /\ out1 \in Seq(Octets)
    BY <1>5, <1>8 DEF Mapped
  <1> HIDE DEF p, s, e, copy, hit
  <1>14. Chars(out1) = Chars(r.out) + Chars(copy)
    BY <1>9, <1>13, CharsAdd
  <1> HIDE DEF out1
  <1>15. PICK z : Mapped(out2, z, t, ms) /\ Closed(out2, z)
    <2>1. PICK y : /\ Mapped(Stars(hit), y, t, ms) /\ Closed(Stars(hit), y)
                   /\ y[1] = 0 /\ Len(Stars(hit)) > 0
      BY <1>9, StarsAreMapped
    <2> QED
      BY <1>8, <2>1, MapsJoin
  <1>16. WholeWords => Chars(out2) = Chars(SubSeq(t, 1, e))
    <2>1. Stars(hit) \in Seq(Octets) /\ (WholeWords => Chars(Stars(hit)) = Chars(hit))
      BY <1>9, <1>10, StarsAreMasks
    <2>2. Chars(out2) = Chars(out1) + Chars(Stars(hit))
      BY <1>13, <2>1, CharsAdd
    <2> QED
      BY <1>11, <1>12, <1>14, <2>1, <2>2
  <1>17. e + 1 \in 1..Len(t) + 1 /\ (e + 1) - 1 = e
    BY <1>1
  <1>18. ASSUME NEW l \in 1..Len(ms)
         PROVE  IF l <= k THEN ms[l].end < e + 1 ELSE e + 1 <= ms[l].start
    <2>1. ms[l].start \in 1..Len(t) /\ ms[l].end \in 1..Len(t)
      BY MatchesOf
    <2>2. l = k => ms[l].end = e
      BY DEF e
    <2>3. k < l => e < ms[l].start
      BY DEF Exact, e
    <2>4. l < k => ms[l].end < s
      BY DEF Exact, s
    <2> QED
      BY <1>1, <2>1, <2>2, <2>3, <2>4
  <1> HIDE DEF out2
  <1> DEFINE n == [out |-> out2, pos |-> e + 1]
  <1>19. n.out = out2 /\ n.pos = e + 1
    OBVIOUS
  <1> HIDE DEF n
  <1>20. Masked(n, k, t, ms)
    BY <1>15, <1>16, <1>17, <1>18, <1>19 DEF Masked
  <1> QED
    BY <1>3, <1>20 DEF n

LEMMA ReplaceIsState ==
  ASSUME FilterInv, NEW t \in Seq(Octets), NEW ms, Exact(ms, Lower(t), 1),
         NEW k \in 1..Len(ms), NEW r \in [out : Seq(Octets), pos : 1..Len(t) + 1]
  PROVE  Replace(r, t, ms[k]) \in [out : Seq(Octets), pos : 1..Len(t) + 1]
  <1> DEFINE s == ms[k].start
             e == ms[k].end
             out == (r.out \o SubSeq(t, r.pos, s - 1)) \o Stars(SubSeq(t, s, e))
  <1>1. s \in 1..Len(t) /\ e \in 1..Len(t) /\ Len(t) \in Nat
    BY MatchesOf, LenProperties
  <1>2. s - 1 \in 0..Len(t) /\ s \in 1..Len(t) + 1 /\ e \in 0..Len(t) /\ e + 1 \in 1..Len(t) + 1
    <2> DEFINE N == Len(t)
    <2>1. s \in 1..N /\ e \in 1..N /\ N \in Nat
      BY <1>1
    <2> HIDE DEF s, e, N
    <2>2. s - 1 \in 0..N /\ s \in 1..N + 1 /\ e \in 0..N /\ e + 1 \in 1..N + 1
      BY <2>1
    <2> QED
      BY <2>2 DEF N
  <1>3. SubSeq(t, r.pos, s - 1) \in Seq(Octets) /\ SubSeq(t, s, e) \in Seq(Octets)
    BY <1>2, PartIsText
  <1>4. Stars(SubSeq(t, s, e)) \in Seq(Octets)
    BY <1>3, StarsAreMasks
  <1>5. out \in Seq(Octets)
    BY <1>3, <1>4, ConcatProperties
  <1>6. Replace(r, t, ms[k]) = [out |-> out, pos |-> e + 1]
    BY DEF Replace, After
  <1> HIDE DEF out, e
  <1> QED
    BY <1>2, <1>5, <1>6

\* The filtered text: what was outside the matches, and *s.
LEMMA FilterIsMapped ==
  ASSUME FilterInv, NEW t \in Seq(Octets)
  PROVE  /\ \E src : Mapped(Filter(t), src, t, Scan(Lower(t)))
         /\ WholeWords => Chars(Filter(t)) = Chars(t)
  <1> DEFINE ms == Scan(Lower(t))
             n == Len(ms)
             S == [out : Seq(Octets), pos : 1..Len(t) + 1]
             c == [out |-> << >>, pos |-> 1]
             Eq(g) == g = [k \in 0..n |-> IF k = 0 THEN c ELSE Replace(g[k - 1], t, ms[k])]
             a == CHOOSE g : Eq(g)
             step == [x \in (1..n) \X S |-> Replace(x[2], t, ms[x[1]])]
             T == {k \in Nat : k <= n => Masked(a[k], k, t, ms)}
  <1>1. Exact(ms, Lower(t), 1)
    BY LowerIsText, ScanIsExact
  <1>2. Filter(t) = a[n].out \o SubSeq(t, a[n].pos, Len(t))
    BY DEF Filter
  <1> HIDE DEF ms
  <1>3. n \in Nat /\ Len(t) \in Nat /\ ms \in Seq(Matches(Lower(t)))
    BY <1>1, LenProperties DEF Exact
  <1>4. c \in S
    <2>1. << >> \in Seq(Octets) /\ 1 \in 1..Len(t) + 1
      BY <1>3
    <2> QED
      BY <2>1
  <1>5. /\ step \in [(1..n) \X S -> S]
        /\ \A k \in 1..n, d \in S : step[<<k, d>>] = Replace(d, t, ms[k])
    <2>1. \A k \in 1..n, d \in S : Replace(d, t, ms[k]) \in S
      BY <1>1, ReplaceIsState
    <2> HIDE DEF S, n
    <2>2. ASSUME NEW x \in (1..n) \X S PROVE Replace(x[2], t, ms[x[1]]) \in S
      <3>1. x[1] \in 1..n /\ x[2] \in S
        OBVIOUS
      <3> QED
        BY <2>1, <3>1
    <2> QED
      BY <2>2
  <1> HIDE DEF S, step, n
  <1>6. PICK f : IsLoop(f, n, S, c, step)
    BY <1>3, <1>4, <1>5, LoopExists
  <1>7. Eq(f)
    <2>1. ASSUME NEW k \in 0..n
          PROVE  f[k] = IF k = 0 THEN c ELSE Replace(f[k - 1], t, ms[k])
      <3>1. CASE k = 0
        BY <1>6, <3>1 DEF IsLoop
      <3>2. CASE k # 0
        <4>1. k \in 1..n /\ k - 1 \in 0..n
          BY <1>3, <3>2
        <4>2. f[k - 1] \in S /\ f[k] = step[<<k, f[k - 1]>>]
          BY <1>6, <4>1 DEF IsLoop
        <4>3. f[k] = Replace(f[k - 1], t, ms[k])
          BY <1>5, <4>1, <4>2
        <4> QED
          BY <3>2, <4>3
      <3> QED
        BY <3>1, <3>2
    <2> HIDE DEF c
    <2> QED
      BY <1>6, <2>1 DEF IsLoop
  <1>8. Eq(a)
    BY <1>7
  <1> HIDE DEF a
  <1>9. a[0] = c /\ \A k \in 1..n : a[k] = Replace(a[k - 1], t, ms[k])
    <2> HIDE DEF c
    <2>1. \A k \in 0..n : a[k] = IF k = 0 THEN c ELSE Replace(a[k - 1], t, ms[k])
      BY <1>8
    <2>2. 0 \in 0..n /\ \A k \in 1..n : k \in 0..n /\ k # 0
      BY <1>3
    <2> QED
      BY <2>1, <2>2
  <1>10. 0 \in T
    <2>1. c.out = << >> /\ c.pos = 1
      OBVIOUS
    <2>2. SubSeq(t, 1, 0) = << >>
      BY SubSeqEmpty
    <2> DEFINE src == [i \in 1..0 |-> 0]
    <2>3. Mapped(<< >>, src, t, ms) /\ Closed(<< >>, src)
      <3>1. << >> \in Seq(Octets) /\ Len(<< >>) = 0 /\ \A i \in 1..0 : FALSE
        OBVIOUS
      <3>2. src \in [1..0 -> 0..Len(t)]
        OBVIOUS
      <3> HIDE DEF src
      <3> QED
        BY <3>1, <3>2 DEF Mapped, Closed
    <2>4. ASSUME NEW l \in 1..n
          PROVE  IF l <= 0 THEN ms[l].end < 1 ELSE 1 <= ms[l].start
      <3>1. ms[l].start \in 1..Len(t) /\ ~(l <= 0)
        BY <1>1, <1>3, MatchesOf DEF n
      <3> QED
        BY <3>1
    <2>5. 1 \in 1..Len(t) + 1 /\ 1 - 1 = 0
      BY <1>3
    <2> HIDE DEF src, c
    <2>6. Masked(c, 0, t, ms)
      BY <2>1, <2>2, <2>3, <2>4, <2>5 DEF Masked, n
    <2> QED
      BY <1>9, <2>6
  <1> HIDE DEF c
  <1>11. \A k \in Nat : k \in T => k + 1 \in T
    <2> SUFFICES ASSUME NEW k \in Nat, k \in T, k + 1 <= n
                 PROVE  Masked(a[k + 1], k + 1, t, ms)
      OBVIOUS
    <2> DEFINE j == k + 1
    <2>1. j \in 1..n /\ j - 1 = k /\ k <= n
      BY <1>3
    <2>2. Masked(a[j - 1], j - 1, t, ms)
      BY <2>1
    <2> HIDE DEF j, T
    <2>3. Masked(Replace(a[j - 1], t, ms[j]), j, t, ms)
      BY <1>1, <2>1, <2>2, ReplaceMasks DEF n
    <2>4. Masked(a[j], j, t, ms)
      BY <1>9, <2>1, <2>3
    <2> QED
      BY <2>4 DEF j
  <1> HIDE DEF T
  <1>12. n \in T
    BY <1>3, <1>10, <1>11, NumbersInduction
  <1> DEFINE r == a[n]
             rest == SubSeq(t, r.pos, Len(t))
  <1>13. Masked(r, n, t, ms)
    BY <1>3, <1>12 DEF T
  <1> HIDE DEF r
  <1>14. r.pos \in 1..Len(t) + 1 /\ Len(t) \in 0..Len(t) /\ Len(t) \in r.pos - 1..Len(t)
    BY <1>3, <1>13 DEF Masked
  <1>15. ASSUME NEW x \in r.pos..Len(t), Covered(ms, x) PROVE FALSE
    <2>1. PICK l \in 1..Len(ms) : ms[l].start <= x /\ x <= ms[l].end
      BY <1>15 DEF Covered
    <2>2. ms[l].end \in 1..Len(t) /\ l <= n
      BY <1>1, MatchesOf DEF n
    <2>3. ms[l].end < r.pos
      BY <1>13, <2>2 DEF Masked
    <2> QED
      BY <1>14, <2>1, <2>2, <2>3
  <1>16. PICK g : Mapped(rest, g, t, ms)
    BY <1>14, <1>15, CopyIsMapped
  <1>17. rest \in Seq(Octets)
    BY <1>14, PartIsText
  <1>18. Chars(SubSeq(t, 1, r.pos - 1)) + Chars(rest) = Chars(SubSeq(t, 1, Len(t)))
    BY <1>14, PartsAdd
  <1> HIDE DEF rest
  <1>19. PICK h : Mapped(r.out, h, t, ms) /\ Closed(r.out, h)
    BY <1>13 DEF Masked
  <1>20. \E src : Mapped(r.out \o rest, src, t, ms)
    BY <1>16, <1>19, MapsJoin
  <1>21. WholeWords => Chars(r.out \o rest) = Chars(t)
    <2>1. r.out \in Seq(Octets)
      BY <1>19 DEF Mapped
    <2>2. Chars(r.out \o rest) = Chars(r.out) + Chars(rest)
      BY <1>17, <2>1, CharsAdd
    <2>3. WholeWords => Chars(r.out) = Chars(SubSeq(t, 1, r.pos - 1))
      BY <1>13 DEF Masked
    <2>4. SubSeq(t, 1, Len(t)) = t
      BY SubSeqFull
    <2> QED
      BY <1>18, <2>2, <2>3, <2>4
  <1>22. Filter(t) = r.out \o rest
    BY <1>2 DEF r, rest
  <1> QED
    BY <1>20, <1>21, <1>22 DEF ms

\* A word without a * is not left behind or put together: it would have stood in
\* the text.
LEMMA LeftWordsAreMasked ==
  ASSUME FilterInv, NEW t \in Seq(Octets), NEW w \in added, NEW x, NEW y,
         StandsAt(w, Filter(t), x, y)
  PROVE  Mask \in Range(w)
  <1> SUFFICES ASSUME Mask \notin Range(w) PROVE FALSE
    OBVIOUS
  <1> DEFINE ms == Scan(Lower(t))
             l == Lower(t)
             out == Filter(t)
             lo == Lower(out)
             u == SubSeq(lo, x, y)
  <1>1. PICK src : Mapped(out, src, t, ms)
    BY FilterIsMapped
  <1>2. out \in Seq(Octets)
    BY <1>1 DEF Mapped
  <1>3. /\ l \in Seq(Octets) /\ Len(l) = Len(t) /\ Len(t) \in Nat
        /\ \A i \in 1..Len(t) : l[i] = IF t[i] \in 65..90 THEN t[i] + 32 ELSE t[i]
    BY LowerIsText
  <1>4. Exact(ms, l, 1)
    BY <1>3, ScanIsExact
  <1>5. x \in 1..y /\ y \in 1..Len(out) /\ u = Lower(w)
    BY DEF StandsAt
  <1> HIDE DEF out, ms, l
  <1>6. /\ lo \in Seq(Octets) /\ Len(lo) = Len(out) /\ Len(out) \in Nat
        /\ \A i \in 1..Len(out) :
             lo[i] = IF out[i] \in 65..90 THEN out[i] + 32 ELSE out[i]
    BY <1>2, LowerIsText
  <1> HIDE DEF lo
  <1>9. /\ x \in 1..Len(out) /\ y \in 1..Len(out) /\ x <= y /\ u \in Table
        /\ x \in 1..Len(lo) + 1 /\ y \in 0..Len(lo)
    <2>1. u \in Table
      BY <1>5 DEF Table
    <2> QED
      BY <1>5, <1>6, <2>1
  <1>10. /\ u \in Seq(Octets) /\ Len(u) = (y - x) + 1
         /\ \A i \in 1..Len(u) : u[i] = lo[(x + i) - 1] /\ u[i] # Mask
    <2>1. /\ u \in Seq(Octets) /\ Len(u) = (y - x) + 1
          /\ \A i \in 1..Len(u) : u[i] = lo[(x + i) - 1]
      BY <1>6, <1>9, PartIsText
    <2> HIDE DEF u
    <2>2. \A i \in 1..Len(u) : u[i] # Mask
      BY <1>5, WordsAreSound
    <2> QED
      BY <2>1, <2>2
  <1> HIDE DEF u
  <1> DEFINE d == y - x
  <1>11. d \in Nat /\ Len(u) = d + 1 /\ \A j \in 0..d : x + j \in 1..Len(out)
    BY <1>6, <1>9, <1>10
  <1>12. ASSUME NEW j \in 0..d PROVE src[x + j] # 0
    <2> DEFINE z == x + j
               i == j + 1
    <2>1. z \in 1..Len(out) /\ i \in 1..Len(u) /\ (x + i) - 1 = z
      BY <1>9, <1>11
    <2> HIDE DEF z, i, d
    <2>2. lo[z] # Mask
      BY <1>10, <2>1
    <2>3. lo[z] = IF out[z] \in 65..90 THEN out[z] + 32 ELSE out[z]
      BY <1>6, <2>1
    <2>4. out[z] # Mask
      <3>1. out[z] \in Octets
        BY <1>2, <2>1, ElementOfSeq
      <3> QED
        BY <2>2, <2>3, <3>1, LowerByte
    <2>5. src[z] # 0
      BY <1>1, <2>1, <2>4 DEF Mapped
    <2> QED
      BY <2>5 DEF z
  <1> HIDE DEF d
  <1> DEFINE b == src[x]
             T == {j \in Nat : j <= d => src[x + j] = b + j}
  <1>13. \A z \in 1..Len(out) : src[z] \in 0..Len(t)
    BY <1>1 DEF Mapped
  <1>14. b \in 0..Len(t) /\ x \in Nat
    BY <1>6, <1>9, <1>13
  <1>15. 0 \in T
    <2>1. x + 0 = x /\ b + 0 = b
      BY <1>3, <1>14
    <2> QED
      BY <2>1
  <1> HIDE DEF b
  <1>16. \A j \in Nat : j \in T => j + 1 \in T
    <2> SUFFICES ASSUME NEW j \in Nat, j \in T, j + 1 <= d PROVE src[x + (j + 1)] = b + (j + 1)
      OBVIOUS
    <2> DEFINE p == x + j
               q == x + (j + 1)
    <2>1. j \in 0..d /\ j + 1 \in 0..d /\ q = p + 1 /\ j <= d
      BY <1>11, <1>14
    <2>2. p \in 1..Len(out) /\ q \in 1..Len(out)
      BY <1>11, <2>1
    <2>3. src[p] # 0 /\ src[q] # 0
      BY <1>12, <2>1
    <2>4. src[p] = b + j
      BY <2>1
    <2> HIDE DEF p, q
    <2>5. src[q] = src[p] + 1
      BY <1>1, <2>1, <2>2, <2>3 DEF Mapped
    <2>6. src[q] = b + (j + 1)
      BY <1>3, <1>14, <2>4, <2>5
    <2> QED
      BY <2>6 DEF q
  <1>17. \A j \in 0..d : src[x + j] = b + j
    <2> HIDE DEF T
    <2>1. Nat \subseteq T
      BY <1>15, <1>16, NumbersInduction
    <2> USE DEF T
    <2> QED
      BY <1>11, <2>1
  <1> HIDE DEF T
  <1>18. ASSUME NEW j \in 0..d
         PROVE  /\ b + j \in 1..Len(t) /\ l[b + j] = u[j + 1] /\ ~Covered(ms, b + j)
    <2> DEFINE z == x + j
               s == b + j
               i == j + 1
    <2>1. z \in 1..Len(out) /\ src[z] = s /\ src[z] # 0
      BY <1>11, <1>12, <1>17
    <2>2. i \in 1..Len(u) /\ (x + i) - 1 = z
      BY <1>11, <1>14
    <2> HIDE DEF z, s, i
    <2>3. out[z] = t[s] /\ ~Covered(ms, s)
      BY <1>1, <2>1 DEF Mapped
    <2>4. s \in 1..Len(t)
      BY <1>3, <1>13, <2>1
    <2>5. l[s] = lo[z]
      BY <1>3, <1>6, <2>1, <2>3, <2>4
    <2>6. l[s] = u[i]
      BY <1>10, <2>2, <2>5
    <2> QED
      BY <2>3, <2>4, <2>6 DEF s, i
  <1>19. /\ b \in 1..Len(t) /\ b + d \in 1..Len(t) /\ ~Covered(ms, b) /\ b <= b + d
         /\ b \in 1..Len(l) + 1 /\ b + d \in 0..Len(l)
    <2>1. 0 \in 0..d /\ d \in 0..d /\ b + 0 = b
      BY <1>11, <1>14
    <2>2. b \in 1..Len(t) /\ ~Covered(ms, b)
      BY <1>18, <2>1
    <2>3. b + d \in 1..Len(t)
      BY <1>18, <2>1
    <2> QED
      BY <1>3, <1>11, <2>2, <2>3
  <1>20. SubSeq(l, b, b + d) = u
    <2> DEFINE v == SubSeq(l, b, b + d)
    <2>1. /\ v \in Seq(Octets) /\ Len(v) = ((b + d) - b) + 1
          /\ \A i \in 1..Len(v) : v[i] = l[(b + i) - 1]
      BY <1>3, <1>19, PartIsText
    <2> HIDE DEF v
    <2>2. Len(v) = Len(u)
      BY <1>11, <1>19, <2>1
    <2>3. ASSUME NEW i \in 1..Len(v) PROVE v[i] = u[i]
      <3> DEFINE j == i - 1
      <3>1. j \in 0..d /\ b + j = (b + i) - 1 /\ j + 1 = i
        BY <1>11, <1>19, <2>2
      <3> HIDE DEF j
      <3>2. l[b + j] = u[j + 1]
        BY <1>18, <3>1
      <3> QED
        BY <2>1, <3>1, <3>2
    <2>4. v = u
      BY <1>10, <2>1, <2>2, <2>3, SeqEqual
    <2> QED
      BY <2>4 DEF v
  <1>21. Hit(l, b, b + d) /\ b \in 1..Len(l) /\ b + d \in 1..Len(l) /\ 1 <= b
    <2> DEFINE e == b + d
    <2>1. b \in 1..e /\ e \in 1..Len(l) /\ b \in 1..Len(l) /\ 1 <= b
      BY <1>3, <1>19
    <2>2. SubSeq(l, b, e) \in Table
      BY <1>9, <1>20
    <2> HIDE DEF e
    <2>3. Hit(l, b, e)
      BY <2>1, <2>2 DEF Hit
    <2> QED
      BY <2>1, <2>3 DEF e
  <1>22. Covered(ms, b)
    <2> DEFINE e == b + d
    <2>1. Hit(l, b, e) /\ e \in 1..Len(l)
      BY <1>21
    <2> HIDE DEF e
    <2> QED
      BY <1>4, <1>21, <2>1 DEF Exact, Covered
  <1> QED
    BY <1>19, <1>22

\* What contains finds in a filtered text is a word with a * in it.
LEMMA FilterLeavesNoWord ==
  ASSUME FilterInv, NEW t \in Seq(Octets), HasWord(Filter(t))
  PROVE  \E w \in added : Mask \in Range(w)
  <1> DEFINE out == Filter(t)
             lo == Lower(out)
             found == Scan(lo)
             x == found[1].start
             y == found[1].end
  <1>1. out \in Seq(Octets)
    BY FilterIsMapped DEF Mapped
  <1>2. found # << >>
    BY DEF HasWord
  <1> HIDE DEF out
  <1>3. lo \in Seq(Octets) /\ Len(lo) = Len(out)
    BY <1>1, LowerIsText
  <1>4. Exact(found, lo, 1)
    BY <1>3, ScanIsExact
  <1> HIDE DEF found
  <1>5. Hit(lo, x, y)
    <2>1. found \in Seq(Matches(lo))
      BY <1>4 DEF Exact
    <2>2. 1 \in 1..Len(found)
      <3>1. Len(found) \in Nat /\ Len(found) # 0
        BY <1>2, <2>1, EmptySeq, LenProperties
      <3> QED
        BY <3>1
    <2> QED
      BY <1>4, <2>2 DEF Exact
  <1> HIDE DEF x, y
  <1>6. PICK w \in added : StandsAt(w, out, x, y)
    BY <1>3, <1>5 DEF Hit, Table, StandsAt
  <1> QED
    BY <1>6, LeftWordsAreMasked DEF out

\* For every list of words and every text, the filter finds what the list says,
\* leaves nothing of it but what has a * in it, and keeps the number of characters
\* where the words are whole (add_word, scan, filter).
THEOREM FilterFindsAndClears == FilterSpec => []FilterIsExact
  <1>1. FilterInv => FilteredIsClean
    BY TextsAreOctets, FilterIsMapped, FilterLeavesNoWord, LeftWordsAreMasked
       DEF FilteredIsClean, WholeWords
  <1>2. FilterInv => FilterIsExact
    BY <1>1, MatchesHold DEF FilterIsExact
  <1> QED
    BY <1>2, FilterStarts, FilterKeeps, PTL DEF FilterSpec

-----------------------------------------------------------------------------
(* The load generator.                                                     *)

ConnStates ==
  [ready : BOOLEAN, tries : Nat, seq : Nat, pending : SUBSET Nat,
   count : [sent : Nat, acked : Nat, nacked : Nat, lost : Nat],
   lats : Seq(LatencyValues)]
AnswerFrames == [type : {"ACK", "NACK"}, seq : Nat]
ProcStates ==
  [used : Nat, up : BOOLEAN, atGo : Nat, first : Int, last : Nat, cpu : Nat,
   missed : BOOLEAN]
AnswerSets == [ack : SUBSET Nat, nack : SUBSET Nat]

BenchStages ==
  {"register", "login", "room", "wait", "warmup", "measure", "tail", "done"}

BenchTypes ==
  /\ stage \in [Workers -> BenchStages]
  /\ conn \in [Workers -> ConnStates]
  /\ coming \in [Workers -> Seq(AnswerFrames)]
  /\ sentIn \in [Workers -> SUBSET Nat]
  /\ answers \in [Workers -> AnswerSets]
  /\ run \in [go : BOOLEAN, stop : BOOLEAN, reported : BOOLEAN]
  /\ proc \in ProcStates

\* The answers to come, q, are in the order of their messages, those that are
\* still unanswered: the server answers a message at most once.
Unanswered(c, q, a) ==
  /\ \A i \in 1..Len(q) : q[i].seq \in 1..c.seq \ (a.ack \cup a.nack)
  /\ \A i, j \in 1..Len(q) : i < j => q[i].seq < q[j].seq

\* What a connection c at stage st counts is what was sent in the window, s, and
\* what was answered of it, a.
Accounted(st, c, s, a) ==
  /\ s \subseteq 1..c.seq /\ a.ack \subseteq 1..c.seq /\ a.nack \subseteq 1..c.seq
  /\ a.ack \cap a.nack = {}
  /\ c.pending = s \ (a.ack \cup a.nack)
  /\ c.count.sent = Cardinality(s)
  /\ c.count.acked = Cardinality(s \cap a.ack)
  /\ c.count.nacked = Cardinality(s \cap a.nack)
  /\ Len(c.lats) = c.count.acked
  /\ s # {} => c.ready /\ st \in {"measure", "tail", "done"}
  /\ st = "done" => c.count.lost = Cardinality(c.pending)

\* What the processor's time is counted from, while the server is up and the
\* first reading has not failed.
CpuCounted ==
  /\ run.reported => run.go /\ \A w \in Workers : stage[w] = "done"
  /\ proc.atGo <= proc.used
  /\ proc.first = -1 \/ (proc.first \in Nat /\ run.go)
  /\ proc.first # -1 /\ proc.up /\ ~proc.missed => proc.first >= proc.atGo
  /\ CpuIsOfTheRun

BenchInv ==
  /\ BenchTypes
  /\ \A w \in Workers : /\ Unanswered(conn[w], coming[w], answers[w])
                        /\ Accounted(stage[w], conn[w], sentIn[w], answers[w])
  /\ CpuCounted

\* The messages of a connection are finitely many.
LEMMA MessagesAreFinite == \A n \in Nat : IsFiniteSet(1..n)
  BY FS_Interval

LEMMA NextMessage ==
  \A n \in Nat : /\ n + 1 \in Nat /\ n + 1 \in 1..n + 1 /\ n + 1 \notin 1..n
                 /\ 1..n \subseteq 1..n + 1
  OBVIOUS

\* The connection c sends a message, counted or not.
LEMMA SentIsAccounted ==
  ASSUME NEW st \in {"warmup", "measure"}, NEW c \in ConnStates, NEW d \in ConnStates,
         NEW s \in SUBSET Nat, NEW t \in SUBSET Nat, NEW a \in AnswerSets,
         Accounted(st, c, s, a), c.ready, d.ready, d.seq = c.seq + 1,
         d.lats = c.lats, d.count.acked = c.count.acked, d.count.nacked = c.count.nacked,
         \/ t = s /\ d.count.sent = c.count.sent /\ d.pending = c.pending
         \/ /\ st = "measure" /\ t = s \cup {d.seq}
            /\ d.count.sent = c.count.sent + 1 /\ d.pending = c.pending \cup {d.seq}
  PROVE  Accounted(st, d, t, a)
  <1>1. c.seq \in Nat /\ d.seq \in Nat /\ d.seq \in 1..d.seq /\ d.seq \notin 1..c.seq
        /\ 1..c.seq \subseteq 1..d.seq
    <2>1. c.seq \in Nat
      BY DEF ConnStates
    <2> QED
      BY <2>1, NextMessage
  <1>2. s \subseteq 1..c.seq /\ a.ack \subseteq 1..c.seq /\ a.nack \subseteq 1..c.seq
        /\ IsFiniteSet(s)
    <2>1. IsFiniteSet(1..c.seq)
      BY <1>1, MessagesAreFinite
    <2>2. s \subseteq 1..c.seq /\ a.ack \subseteq 1..c.seq /\ a.nack \subseteq 1..c.seq
      BY DEF Accounted
    <2> QED
      BY <2>1, <2>2, FS_Subset
  <1>3. CASE t = s /\ d.count.sent = c.count.sent /\ d.pending = c.pending
    BY <1>1, <1>2, <1>3 DEF Accounted
  <1>4. CASE /\ st = "measure" /\ t = s \cup {d.seq}
             /\ d.count.sent = c.count.sent + 1 /\ d.pending = c.pending \cup {d.seq}
    <2>1. Cardinality(t) = Cardinality(s) + 1
      <3>1. d.seq \notin s /\ t = s \cup {d.seq}
        BY <1>1, <1>2, <1>4
      <3> QED
        BY <1>2, <3>1, FS_AddElement
    <2>2. t \cap a.ack = s \cap a.ack /\ t \cap a.nack = s \cap a.nack
          /\ t \subseteq 1..d.seq /\ d.seq \notin a.ack \cup a.nack
      BY <1>1, <1>2, <1>4
    <2>3. d.pending = t \ (a.ack \cup a.nack)
      BY <1>4, <2>2 DEF Accounted
    <2> QED
      BY <1>1, <1>2, <1>4, <2>1, <2>2, <2>3 DEF Accounted
  <1> QED
    BY <1>3, <1>4

\* And the answers to come are unanswered, with one to this message or without.
LEMMA SentIsUnanswered ==
  ASSUME NEW c \in ConnStates, NEW d \in ConnStates, NEW s, NEW st, NEW a \in AnswerSets,
         NEW q \in Seq(AnswerFrames), NEW r, NEW type \in {"ACK", "NACK"},
         Accounted(st, c, s, a), Unanswered(c, q, a), d.seq = c.seq + 1,
         r \in {q, Append(q, [type |-> type, seq |-> d.seq])}
  PROVE  r \in Seq(AnswerFrames) /\ Unanswered(d, r, a)
  <1>1. c.seq \in Nat /\ d.seq \in Nat /\ d.seq \in 1..d.seq /\ d.seq \notin 1..c.seq
        /\ 1..c.seq \subseteq 1..d.seq
    <2>1. c.seq \in Nat
      BY DEF ConnStates
    <2> QED
      BY <2>1, NextMessage
  <1>2. d.seq \notin a.ack \cup a.nack
    BY <1>1 DEF Accounted
  <1>3. CASE r = q
    BY <1>1, <1>3 DEF Unanswered
  <1>4. CASE r = Append(q, [type |-> type, seq |-> d.seq])
    <2> DEFINE f == [type |-> type, seq |-> d.seq]
    <2>1. f \in AnswerFrames /\ f.seq = d.seq
      BY <1>1 DEF AnswerFrames
    <2> HIDE DEF f
    <2>2. /\ r \in Seq(AnswerFrames) /\ Len(r) = Len(q) + 1 /\ r[Len(q) + 1] = f
          /\ \A i \in 1..Len(q) : r[i] = q[i]
      BY <1>4, <2>1, AppendProperties DEF f
    <2>3. Len(q) \in Nat /\ \A i \in 1..Len(q) : q[i].seq \in Nat /\ q[i].seq < d.seq
      <3>1. \A i \in 1..Len(q) : q[i].seq \in 1..c.seq
        BY DEF Unanswered
      <3> QED
        BY <1>1, <3>1, LenProperties
    <2>4. ASSUME NEW i \in 1..Len(r) PROVE r[i].seq \in 1..d.seq \ (a.ack \cup a.nack)
      <3>1. i \in 1..Len(q) \/ i = Len(q) + 1
        BY <2>2, <2>3
      <3> QED
        BY <1>1, <1>2, <2>1, <2>2, <3>1 DEF Unanswered
    <2>5. ASSUME NEW i \in 1..Len(r), NEW j \in 1..Len(r), i < j PROVE r[i].seq < r[j].seq
      <3>1. i \in 1..Len(q) /\ (j \in 1..Len(q) \/ j = Len(q) + 1)
        BY <2>2, <2>3, <2>5
      <3> QED
        BY <2>1, <2>2, <2>3, <2>5, <3>1 DEF Unanswered
    <2> QED
      BY <2>2, <2>4, <2>5 DEF Unanswered
  <1> QED
    BY <1>3, <1>4

\* An answer is read, to a message that is not answered yet.
LEMMA ReadIsAccounted ==
  ASSUME NEW st \in {"warmup", "measure", "tail"}, NEW c \in ConnStates, NEW d \in ConnStates,
         NEW s \in SUBSET Nat, NEW a \in AnswerSets, NEW b \in AnswerSets, NEW n,
         Accounted(st, c, s, a), n \in 1..c.seq \ (a.ack \cup a.nack),
         d.seq = c.seq, d.ready = c.ready, d.count.sent = c.count.sent,
         d.pending = c.pending \ {n},
         \/ /\ b.ack = a.ack \cup {n} /\ b.nack = a.nack
            /\ d.count.nacked = c.count.nacked
            /\ IF n \in c.pending
               THEN d.count.acked = c.count.acked + 1 /\ Len(d.lats) = Len(c.lats) + 1
               ELSE d.count.acked = c.count.acked /\ d.lats = c.lats
         \/ /\ b.ack = a.ack /\ b.nack = a.nack \cup {n}
            /\ d.count.acked = c.count.acked /\ d.lats = c.lats
            /\ d.count.nacked = c.count.nacked + (IF n \in c.pending THEN 1 ELSE 0)
  PROVE  Accounted(st, d, s, b)
  <1>1. /\ c.seq \in Nat /\ s \subseteq 1..c.seq /\ a.ack \subseteq 1..c.seq
        /\ a.nack \subseteq 1..c.seq /\ IsFiniteSet(1..c.seq)
        /\ n \in 1..c.seq /\ n \notin a.ack /\ n \notin a.nack
    <2>1. c.seq \in Nat
      BY DEF ConnStates
    <2>2. IsFiniteSet(1..c.seq)
      BY <2>1, MessagesAreFinite
    <2> QED
      BY <2>1, <2>2 DEF Accounted
  <1>2. n \in c.pending <=> n \in s
    BY <1>1 DEF Accounted
  <1>3. \A T \in SUBSET (1..c.seq) : /\ IsFiniteSet(s \cap T)
                                     /\ s \cap (T \cup {n}) = IF n \in s THEN (s \cap T) \cup {n} ELSE s \cap T
    BY <1>1, FS_Subset
  <1>4. ASSUME NEW T \in SUBSET (1..c.seq), n \notin T
        PROVE  Cardinality(s \cap (T \cup {n}))
                 = Cardinality(s \cap T) + (IF n \in s THEN 1 ELSE 0)
    <2>1. n \notin s \cap T /\ IsFiniteSet(s \cap T) /\ Cardinality(s \cap T) \in Nat
      BY <1>3, <1>4, FS_CardinalityType
    <2>2. Cardinality((s \cap T) \cup {n}) = Cardinality(s \cap T) + 1
      BY <2>1, FS_AddElement
    <2>3. CASE n \in s
      BY <1>3, <2>2, <2>3
    <2>4. CASE n \notin s
      <3>1. s \cap (T \cup {n}) = s \cap T
        BY <2>4
      <3> DEFINE m == Cardinality(s \cap T)
      <3>2. Cardinality(s \cap (T \cup {n})) = m /\ m \in Nat
        BY <2>1, <3>1
      <3> HIDE DEF m
      <3> QED
        BY <2>4, <3>2 DEF m
    <2> QED
      BY <2>3, <2>4
  <1>5. /\ b.ack \subseteq 1..c.seq /\ b.nack \subseteq 1..c.seq /\ b.ack \cap b.nack = {}
        /\ d.pending = s \ (b.ack \cup b.nack)
    BY <1>1 DEF Accounted
  <1>6. /\ c.count.sent = Cardinality(s) /\ c.count.acked = Cardinality(s \cap a.ack)
        /\ c.count.nacked = Cardinality(s \cap a.nack) /\ Len(c.lats) = c.count.acked
        /\ (s # {} => c.ready /\ st \in {"measure", "tail", "done"}) /\ st # "done"
    BY DEF Accounted
  <1>7. CASE /\ b.ack = a.ack \cup {n} /\ b.nack = a.nack
             /\ d.count.nacked = c.count.nacked
             /\ IF n \in c.pending
                THEN d.count.acked = c.count.acked + 1 /\ Len(d.lats) = Len(c.lats) + 1
                ELSE d.count.acked = c.count.acked /\ d.lats = c.lats
    <2>1. Cardinality(s \cap b.ack) = Cardinality(s \cap a.ack) + (IF n \in s THEN 1 ELSE 0)
      BY <1>1, <1>4, <1>7
    <2>2. d.count.acked = Cardinality(s \cap b.ack) /\ Len(d.lats) = d.count.acked
      <3>1. CASE n \in s
        BY <1>2, <1>6, <1>7, <2>1, <3>1
      <3>2. CASE n \notin s
        <4>1. Cardinality(s \cap b.ack) = Cardinality(s \cap a.ack)
          BY <1>1, <1>3, <1>7, <3>2
        <4> QED
          BY <1>2, <1>6, <1>7, <3>2, <4>1
      <3> QED
        BY <3>1, <3>2
    <2> QED
      BY <1>1, <1>5, <1>6, <1>7, <2>2 DEF Accounted
  <1>8. CASE /\ b.ack = a.ack /\ b.nack = a.nack \cup {n}
             /\ d.count.acked = c.count.acked /\ d.lats = c.lats
             /\ d.count.nacked = c.count.nacked + (IF n \in c.pending THEN 1 ELSE 0)
    <2>1. Cardinality(s \cap b.nack) = Cardinality(s \cap a.nack) + (IF n \in s THEN 1 ELSE 0)
      BY <1>1, <1>4, <1>8
    <2>2. d.count.nacked = Cardinality(s \cap b.nack)
      BY <1>2, <1>6, <1>8, <2>1
    <2> QED
      BY <1>1, <1>5, <1>6, <1>8, <2>2 DEF Accounted
  <1> QED
    BY <1>7, <1>8

\* What is behind the answer that is read stays unanswered.
LEMMA ReadLeavesUnanswered ==
  ASSUME NEW c \in ConnStates, NEW d, d.seq = c.seq, NEW a \in AnswerSets, NEW b \in AnswerSets,
         NEW q \in Seq(AnswerFrames), q # << >>, Unanswered(c, q, a),
         b.ack \cup b.nack = (a.ack \cup a.nack) \cup {Head(q).seq}
  PROVE  /\ Tail(q) \in Seq(AnswerFrames) /\ Unanswered(d, Tail(q), b)
         /\ Head(q) \in AnswerFrames /\ Head(q).seq \in 1..c.seq \ (a.ack \cup a.nack)
  <1>1. /\ Len(q) \in Nat \ {0} /\ Head(q) = q[1] /\ Head(q) \in AnswerFrames
        /\ Tail(q) \in Seq(AnswerFrames) /\ Len(Tail(q)) = Len(q) - 1
        /\ \A i \in 1..Len(Tail(q)) : Tail(q)[i] = q[i + 1]
    BY HeadTailProperties, EmptySeq, LenProperties
  <1> DEFINE r == Tail(q)
  <1> HIDE DEF r
  <1>2. \A i \in 1..Len(r) : i \in Nat /\ i + 1 \in 1..Len(q) /\ 1 < i + 1 /\ 1 \in 1..Len(q)
                             /\ r[i] = q[i + 1]
    BY <1>1 DEF r
  <1>3. \A i \in 1..Len(q) : q[i].seq \in 1..c.seq \ (a.ack \cup a.nack)
    BY DEF Unanswered
  <1>4. \A i, j \in 1..Len(q) : i < j => q[i].seq < q[j].seq
    BY DEF Unanswered
  <1>5. ASSUME NEW i \in 1..Len(r) PROVE r[i].seq \in 1..d.seq \ (b.ack \cup b.nack)
    <2>1. q[1].seq < q[i + 1].seq /\ q[i + 1].seq \in 1..c.seq /\ q[1].seq \in 1..c.seq
      BY <1>2, <1>3, <1>4
    <2>2. q[1].seq # q[i + 1].seq
      BY <2>1 DEF ConnStates
    <2>3. q[i + 1].seq \notin a.ack \cup a.nack
      BY <1>2, <1>3
    <2>4. r[i].seq = q[i + 1].seq /\ q[i + 1].seq \notin b.ack \cup b.nack
      BY <1>1, <1>2, <2>2, <2>3
    <2> QED
      BY <2>1, <2>4
  <1>6. ASSUME NEW i \in 1..Len(r), NEW j \in 1..Len(r), i < j PROVE r[i].seq < r[j].seq
    <2>1. i + 1 \in 1..Len(q) /\ j + 1 \in 1..Len(q) /\ i + 1 < j + 1
      BY <1>2, <1>6
    <2>2. q[i + 1].seq < q[j + 1].seq
      BY <1>4, <2>1
    <2> QED
      BY <1>2, <2>2
  <1>7. Head(q).seq \in 1..c.seq \ (a.ack \cup a.nack)
    BY <1>1, <1>3
  <1> QED
    BY <1>1, <1>5, <1>6, <1>7 DEF Unanswered, r

\* A worker goes on, and its counts with it.
LEMMA GoesOnAccounted ==
  ASSUME NEW st, NEW u, NEW c, NEW d, NEW s, NEW a,
         Accounted(st, c, s, a), d.seq = c.seq, d.pending = c.pending, d.lats = c.lats,
         d.count.sent = c.count.sent, d.count.acked = c.count.acked,
         d.count.nacked = c.count.nacked,
         s = {} \/ (d.ready = c.ready /\ u \in {"measure", "tail", "done"}),
         u = "done" => d.count.lost = Cardinality(d.pending)
  PROVE  Accounted(u, d, s, a)
  BY DEF Accounted

\* What a step of one worker leaves behind.
LEMMA WorkerKeeps ==
  ASSUME BenchInv, NEW w \in Workers,
         NEW st \in BenchStages, NEW d \in ConnStates, NEW q \in Seq(AnswerFrames),
         NEW s \in SUBSET Nat, NEW a \in AnswerSets,
         stage' = [stage EXCEPT ![w] = st], conn' = [conn EXCEPT ![w] = d],
         coming' = [coming EXCEPT ![w] = q], sentIn' = [sentIn EXCEPT ![w] = s],
         answers' = [answers EXCEPT ![w] = a], run' = run, proc' = proc,
         Unanswered(d, q, a), Accounted(st, d, s, a), stage[w] # "done"
  PROVE  BenchInv'
  <1>1. BenchTypes'
    BY DEF BenchInv, BenchTypes
  <1>2. ASSUME NEW x \in Workers
        PROVE  /\ Unanswered(conn'[x], coming'[x], answers'[x])
               /\ Accounted(stage'[x], conn'[x], sentIn'[x], answers'[x])
    <2>1. CASE x = w
      <3>1. /\ stage'[x] = st /\ conn'[x] = d /\ coming'[x] = q
            /\ sentIn'[x] = s /\ answers'[x] = a
        BY <2>1 DEF BenchInv, BenchTypes
      <3> QED
        BY <3>1
    <2>2. CASE x # w
      <3>1. /\ stage'[x] = stage[x] /\ conn'[x] = conn[x] /\ coming'[x] = coming[x]
            /\ sentIn'[x] = sentIn[x] /\ answers'[x] = answers[x]
        BY <2>2 DEF BenchInv, BenchTypes
      <3> QED
        BY <3>1 DEF BenchInv
    <2> QED
      BY <2>1, <2>2
  <1>3. CpuCounted'
    <2>1. ~run.reported
      BY DEF BenchInv, CpuCounted, CpuIsOfTheRun
    <2> QED
      BY <2>1 DEF BenchInv, CpuCounted, CpuIsOfTheRun
  <1> QED
    BY <1>1, <1>2, <1>3 DEF BenchInv

\* A step of a worker that neither sends nor reads.
LEMMA StageKeeps ==
  ASSUME BenchInv, NEW w \in Workers, NEW u \in BenchStages, NEW d \in ConnStates,
         stage' = [stage EXCEPT ![w] = u], conn' = [conn EXCEPT ![w] = d], Stays,
         stage[w] # "done", d.seq = conn[w].seq, d.pending = conn[w].pending,
         d.lats = conn[w].lats, d.count.sent = conn[w].count.sent,
         d.count.acked = conn[w].count.acked, d.count.nacked = conn[w].count.nacked,
         \/ stage[w] \in {"register", "login", "room", "wait", "warmup"}
         \/ d.ready = conn[w].ready /\ u \in {"measure", "tail", "done"},
         u = "done" => d.count.lost = Cardinality(d.pending)
  PROVE  BenchInv'
  <1> DEFINE q == coming[w]
             s == sentIn[w]
             a == answers[w]
  <1>1. q \in Seq(AnswerFrames) /\ s \in SUBSET Nat /\ a \in AnswerSets
    BY DEF BenchInv, BenchTypes
  <1>2. /\ coming' = [coming EXCEPT ![w] = q] /\ sentIn' = [sentIn EXCEPT ![w] = s]
        /\ answers' = [answers EXCEPT ![w] = a] /\ run' = run /\ proc' = proc
    BY DEF Stays, BenchInv, BenchTypes
  <1>3. Unanswered(conn[w], q, a) /\ Accounted(stage[w], conn[w], s, a)
    BY DEF BenchInv
  <1>4. Unanswered(d, q, a)
    BY <1>3 DEF Unanswered
  <1>5. stage[w] \in {"register", "login", "room", "wait", "warmup"} => s = {}
    BY <1>3 DEF Accounted
  <1> HIDE DEF q, s, a
  <1>6. Accounted(u, d, s, a)
    BY <1>3, <1>5, GoesOnAccounted
  <1> QED
    BY <1>1, <1>2, <1>4, <1>6, WorkerKeeps

LEMMA SetupKeeps ==
  ASSUME BenchInv, NEW w \in Workers,
         SetupFails(w) \/ Registered(w) \/ LoggedIn(w) \/ StillOnline(w) \/ JoinedRoom(w)
         \/ Begin(w) \/ Measure(w) \/ WindowEnds(w) \/ Finished(w)
  PROVE  BenchInv'
  <1> DEFINE c == conn[w]
  <1>1. /\ c \in ConnStates /\ stage[w] \in BenchStages
        /\ stage \in [Workers -> BenchStages] /\ conn \in [Workers -> ConnStates]
    BY DEF BenchInv, BenchTypes
  <1>2. conn = [conn EXCEPT ![w] = c] /\ stage = [stage EXCEPT ![w] = stage[w]]
    BY <1>1
  <1>3. Accounted(stage[w], c, sentIn[w], answers[w])
    BY DEF BenchInv
  <1>4. CASE SetupFails(w) \/ LoggedIn(w)
    <2> DEFINE d == [c EXCEPT !.tries = 0]
    <2>1. d \in ConnStates /\ d.seq = c.seq /\ d.pending = c.pending /\ d.lats = c.lats
          /\ d.count = c.count
      BY <1>1 DEF ConnStates
    <2>2. conn' = [conn EXCEPT ![w] = d] /\ Stays /\ stage[w] \in {"register", "login", "room"}
          /\ \E u \in {"wait", "room"} : stage' = [stage EXCEPT ![w] = u]
      BY <1>1, <1>4 DEF SetupFails, LoggedIn
    <2> HIDE DEF d, c
    <2> QED
      BY <2>1, <2>2, StageKeeps DEF BenchStages, c
  <1>5. CASE StillOnline(w)
    <2> DEFINE n == c.tries + 1
               d == [c EXCEPT !.tries = n]
    <2>1. d \in ConnStates /\ d.seq = c.seq /\ d.pending = c.pending /\ d.lats = c.lats
          /\ d.count = c.count
      <3>1. n \in Nat
        BY <1>1 DEF ConnStates
      <3> HIDE DEF n
      <3> QED
        BY <1>1, <3>1 DEF ConnStates
    <2>2. conn' = [conn EXCEPT ![w] = d] /\ Stays /\ stage[w] = "login"
          /\ stage' = [stage EXCEPT ![w] = stage[w]]
      BY <1>1, <1>2, <1>5 DEF StillOnline
    <2> HIDE DEF d, c
    <2> QED
      BY <2>1, <2>2, StageKeeps DEF BenchStages, c
  <1>6. CASE JoinedRoom(w)
    <2> DEFINE d == [c EXCEPT !.ready = TRUE]
    <2>1. d \in ConnStates /\ d.seq = c.seq /\ d.pending = c.pending /\ d.lats = c.lats
          /\ d.count = c.count
      BY <1>1 DEF ConnStates
    <2>2. conn' = [conn EXCEPT ![w] = d] /\ Stays /\ stage[w] = "room"
          /\ stage' = [stage EXCEPT ![w] = "wait"]
      BY <1>1, <1>6 DEF JoinedRoom
    <2> HIDE DEF d, c
    <2> QED
      BY <2>1, <2>2, StageKeeps DEF BenchStages, c
  <1>7. CASE Registered(w) \/ Begin(w)
    <2>1. conn' = [conn EXCEPT ![w] = c] /\ Stays /\ stage[w] \in {"register", "wait"}
          /\ \E u \in {"login", "warmup"} : stage' = [stage EXCEPT ![w] = u]
      BY <1>2, <1>7 DEF Registered, Begin
    <2> HIDE DEF c
    <2> QED
      BY <1>1, <2>1, StageKeeps DEF BenchStages, c
  <1>8. CASE Measure(w)
    <2> DEFINE d == [c EXCEPT !.count = Counters, !.pending = {}, !.lats = << >>]
    <2>1. d \in ConnStates /\ d.seq = c.seq /\ d.pending = {} /\ d.lats = << >>
          /\ d.count.sent = 0 /\ d.count.acked = 0 /\ d.count.nacked = 0
      BY <1>1, EmptySeq DEF ConnStates, Counters
    <2>2. conn' = [conn EXCEPT ![w] = d] /\ Stays /\ stage[w] = "warmup"
          /\ stage' = [stage EXCEPT ![w] = "measure"]
      BY <1>1, <1>8 DEF Measure
    <2>3. c.pending = {} /\ c.lats = << >> /\ c.count.sent = 0 /\ c.count.acked = 0
          /\ c.count.nacked = 0
      <3>1. sentIn[w] = {}
        BY <1>3, <2>2 DEF Accounted
      <3>2. c.lats \in Seq(LatencyValues) /\ Len(c.lats) = 0
        BY <1>1, <1>3, <3>1, FS_EmptySet DEF Accounted, ConnStates
      <3> QED
        BY <1>3, <3>1, <3>2, FS_EmptySet, EmptySeq DEF Accounted
    <2> HIDE DEF d, c
    <2> QED
      BY <2>1, <2>2, <2>3, StageKeeps DEF BenchStages, c
  <1>9. CASE WindowEnds(w)
    <2>1. conn' = [conn EXCEPT ![w] = c] /\ Stays /\ stage[w] \in {"warmup", "measure"}
          /\ stage' = [stage EXCEPT ![w] = "tail"]
      BY <1>2, <1>9 DEF WindowEnds
    <2> HIDE DEF c
    <2> QED
      BY <1>1, <2>1, StageKeeps DEF BenchStages, c
  <1>10. CASE Finished(w)
    <2> DEFINE d == [c EXCEPT !.count.lost = Cardinality(c.pending)]
    <2>1. Cardinality(c.pending) \in Nat
      <3>1. c.seq \in Nat /\ c.pending \subseteq 1..c.seq
        BY <1>1, <1>3 DEF ConnStates, Accounted
      <3>2. IsFiniteSet(1..c.seq)
        BY <3>1, MessagesAreFinite
      <3> QED
        BY <3>1, <3>2, FS_Subset, FS_CardinalityType
    <2>2. d \in ConnStates /\ d.seq = c.seq /\ d.pending = c.pending /\ d.lats = c.lats
          /\ d.count.sent = c.count.sent /\ d.count.acked = c.count.acked
          /\ d.count.nacked = c.count.nacked /\ d.ready = c.ready
          /\ d.count.lost = Cardinality(c.pending)
      BY <1>1, <2>1 DEF ConnStates
    <2>3. conn' = [conn EXCEPT ![w] = d] /\ Stays /\ stage[w] = "tail"
          /\ stage' = [stage EXCEPT ![w] = "done"]
      BY <1>1, <1>10 DEF Finished
    <2> HIDE DEF d, c
    <2> QED
      BY <2>2, <2>3, StageKeeps DEF BenchStages, c
  <1> QED
    BY <1>4, <1>5, <1>6, <1>7, <1>8, <1>9, <1>10

LEMMA SendKeeps ==
  ASSUME BenchInv, NEW w \in Workers, SendMessage(w)
  PROVE  BenchInv'
  <1> DEFINE c == conn[w]
             n == c.seq + 1
             counts == stage[w] = "measure"
             s == sentIn[w]
             a == answers[w]
             q == coming[w]
  <1>1. /\ c \in ConnStates /\ stage[w] \in {"warmup", "measure"} /\ c.ready
        /\ stage \in [Workers -> BenchStages] /\ conn \in [Workers -> ConnStates]
        /\ s \in SUBSET Nat /\ a \in AnswerSets /\ q \in Seq(AnswerFrames) /\ n \in Nat
    BY DEF BenchInv, BenchTypes, SendMessage, ConnStates
  <1>2. /\ stage' = [stage EXCEPT ![w] = stage[w]] /\ answers' = [answers EXCEPT ![w] = a]
        /\ sentIn = [sentIn EXCEPT ![w] = s] /\ coming = [coming EXCEPT ![w] = q]
        /\ run' = run /\ proc' = proc
    BY DEF BenchInv, BenchTypes, SendMessage
  <1>3. Accounted(stage[w], c, s, a) /\ Unanswered(c, q, a)
    BY DEF BenchInv
  <1>4. \/ /\ conn' = [conn EXCEPT ![w].seq = n,
                 ![w].count.sent = IF counts THEN @ + 1 ELSE @,
                 ![w].pending = IF counts THEN @ \cup {n} ELSE @]
           /\ \/ \E type \in {"ACK", "NACK"} :
                   coming' = [coming EXCEPT ![w] = Append(@, [type |-> type, seq |-> n])]
              \/ UNCHANGED coming
           /\ sentIn' = [sentIn EXCEPT ![w] = IF counts THEN @ \cup {n} ELSE @]
        \/ /\ conn' = [conn EXCEPT ![w].seq = n]
           /\ UNCHANGED <<coming, sentIn>>
    BY DEF SendMessage
  <1>5. CASE /\ conn' = [conn EXCEPT ![w].seq = n,
                   ![w].count.sent = IF counts THEN @ + 1 ELSE @,
                   ![w].pending = IF counts THEN @ \cup {n} ELSE @]
             /\ \/ \E type \in {"ACK", "NACK"} :
                     coming' = [coming EXCEPT ![w] = Append(@, [type |-> type, seq |-> n])]
                \/ UNCHANGED coming
             /\ sentIn' = [sentIn EXCEPT ![w] = IF counts THEN @ \cup {n} ELSE @]
    <2> DEFINE m == IF counts THEN c.count.sent + 1 ELSE c.count.sent
               p == IF counts THEN c.pending \cup {n} ELSE c.pending
               t == IF counts THEN s \cup {n} ELSE s
               d == [c EXCEPT !.seq = n, !.count.sent = m, !.pending = p]
    <2>1. m \in Nat /\ p \in SUBSET Nat /\ t \in SUBSET Nat
      <3>1. c.count.sent \in Nat /\ c.pending \in SUBSET Nat
        BY <1>1 DEF ConnStates
      <3> QED
        BY <1>1, <3>1
    <2>2. conn' = [conn EXCEPT ![w] = d] /\ sentIn' = [sentIn EXCEPT ![w] = t]
      BY <1>1, <1>5
    <2>3. PICK type \in {"ACK", "NACK"} :
            \E r \in {q, Append(q, [type |-> type, seq |-> n])} :
              coming' = [coming EXCEPT ![w] = r]
      BY <1>2, <1>5
    <2>4. PICK r \in {q, Append(q, [type |-> type, seq |-> n])} :
            coming' = [coming EXCEPT ![w] = r]
      BY <2>3
    <2> HIDE DEF m, p, n
    <2>5. /\ d \in ConnStates /\ d.seq = n /\ d.ready = c.ready /\ d.lats = c.lats
          /\ d.count.acked = c.count.acked /\ d.count.nacked = c.count.nacked
          /\ d.count.sent = m /\ d.pending = p
      BY <1>1, <2>1 DEF ConnStates
    <2> HIDE DEF d, t, c, s, a, q
    <2>6. Accounted(stage[w], d, t, a)
      <3>1. \/ t = s /\ d.count.sent = c.count.sent /\ d.pending = c.pending
            \/ /\ stage[w] = "measure" /\ t = s \cup {d.seq}
               /\ d.count.sent = c.count.sent + 1 /\ d.pending = c.pending \cup {d.seq}
        BY <2>5 DEF m, p, t
      <3> QED
        BY <1>1, <1>3, <2>1, <2>5, <3>1, SentIsAccounted DEF n
    <2>7. r \in Seq(AnswerFrames) /\ Unanswered(d, r, a)
      BY <1>1, <1>3, <2>4, <2>5, SentIsUnanswered DEF n
    <2> QED
      BY <1>1, <1>2, <2>1, <2>2, <2>4, <2>5, <2>6, <2>7, WorkerKeeps DEF c
  <1>6. CASE /\ conn' = [conn EXCEPT ![w].seq = n]
             /\ UNCHANGED <<coming, sentIn>>
    <2> DEFINE d == [c EXCEPT !.seq = n]
    <2>1. conn' = [conn EXCEPT ![w] = d]
      BY <1>1, <1>6
    <2> HIDE DEF n
    <2>2. /\ d \in ConnStates /\ d.seq = n /\ d.ready = c.ready /\ d.lats = c.lats
          /\ d.count = c.count /\ d.pending = c.pending
      BY <1>1 DEF ConnStates
    <2> HIDE DEF d, c, s, a, q
    <2>3. Accounted(stage[w], d, s, a)
      BY <1>1, <1>3, <2>2, SentIsAccounted DEF n
    <2>4. Unanswered(d, q, a)
      BY <1>1, <1>3, <2>2, SentIsUnanswered DEF n
    <2> QED
      BY <1>1, <1>2, <1>6, <2>1, <2>2, <2>3, <2>4, WorkerKeeps DEF c
  <1> QED
    BY <1>4, <1>5, <1>6

LEMMA DrainKeeps ==
  ASSUME BenchInv, NEW w \in Workers, DrainConn(w)
  PROVE  BenchInv'
  <1> DEFINE c == conn[w]
             s == sentIn[w]
             a == answers[w]
             q == coming[w]
             f == Head(q)
             n == f.seq
  <1>1. /\ c \in ConnStates /\ stage[w] \in {"warmup", "measure", "tail"} /\ q # << >>
        /\ stage \in [Workers -> BenchStages] /\ conn \in [Workers -> ConnStates]
        /\ answers \in [Workers -> AnswerSets]
        /\ s \in SUBSET Nat /\ a \in AnswerSets /\ q \in Seq(AnswerFrames)
    BY DEF BenchInv, BenchTypes, DrainConn
  <1>2. /\ stage' = [stage EXCEPT ![w] = stage[w]] /\ sentIn' = [sentIn EXCEPT ![w] = s]
        /\ coming' = [coming EXCEPT ![w] = Tail(q)] /\ run' = run /\ proc' = proc
    BY DEF BenchInv, BenchTypes, DrainConn
  <1>3. Accounted(stage[w], c, s, a) /\ Unanswered(c, q, a)
    BY DEF BenchInv
  <1>4. IF f.type = "ACK"
        THEN /\ \E ms \in LatencyValues : conn' = [conn EXCEPT ![w] = Acked(c, n, ms)]
             /\ answers' = [answers EXCEPT ![w].ack = @ \cup {n}]
        ELSE /\ conn' = [conn EXCEPT ![w] = Nacked(c, n)]
             /\ answers' = [answers EXCEPT ![w].nack = @ \cup {n}]
    BY <1>1 DEF DrainConn
  <1>5. /\ Tail(q) \in Seq(AnswerFrames) /\ f \in AnswerFrames
        /\ n \in 1..c.seq \ (a.ack \cup a.nack)
    <2>1. f \in AnswerFrames /\ f.seq \in Nat
      <3>1. f \in AnswerFrames
        BY <1>1, HeadTailProperties
      <3> HIDE DEF f
      <3> QED
        BY <3>1 DEF AnswerFrames
    <2> DEFINE b == [ack |-> a.ack \cup {n}, nack |-> a.nack]
    <2>2. b \in AnswerSets /\ b.ack \cup b.nack = (a.ack \cup a.nack) \cup {n}
      BY <1>1, <2>1 DEF AnswerSets
    <2> HIDE DEF b, c, a, q
    <2> QED
      BY <1>1, <1>3, <2>2, ReadLeavesUnanswered
  <1>6. n \in Nat /\ c.seq \in Nat /\ c.pending \in SUBSET Nat
        /\ c.count.acked \in Nat /\ c.count.nacked \in Nat /\ c.lats \in Seq(LatencyValues)
    BY <1>1, <1>5 DEF ConnStates, AnswerFrames
  <1> HIDE DEF n
  <1>7. CASE f.type = "ACK"
    <2>1. PICK ms \in LatencyValues : conn' = [conn EXCEPT ![w] = Acked(c, n, ms)]
      BY <1>4, <1>7
    <2> DEFINE d == Acked(c, n, ms)
               b == [a EXCEPT !.ack = @ \cup {n}]
               l == Append(c.lats, ms)
               m == c.count.acked + 1
    <2>2. answers' = [answers EXCEPT ![w] = b]
      BY <1>1, <1>4, <1>7
    <2>3. /\ b \in AnswerSets /\ b.ack = a.ack \cup {n} /\ b.nack = a.nack
      BY <1>1, <1>6 DEF AnswerSets
    <2>4. l \in Seq(LatencyValues) /\ Len(l) = Len(c.lats) + 1 /\ m \in Nat
      BY <1>6, AppendProperties
    <2>5. d = IF n \in c.pending
              THEN [c EXCEPT !.pending = @ \ {n}, !.count.acked = m, !.lats = l]
              ELSE c
      BY <1>1 DEF Acked, ConnStates
    <2> HIDE DEF d, b, l, m, c, s, a, q, f
    <2>6. /\ d \in ConnStates /\ d.seq = c.seq /\ d.ready = c.ready
          /\ d.count.sent = c.count.sent /\ d.pending = c.pending \ {n}
          /\ d.count.nacked = c.count.nacked
          /\ IF n \in c.pending THEN d.count.acked = m /\ d.lats = l
             ELSE d.count.acked = c.count.acked /\ d.lats = c.lats
      <3>1. CASE n \in c.pending
        BY <1>1, <1>6, <2>4, <2>5, <3>1 DEF ConnStates
      <3>2. CASE n \notin c.pending
        BY <1>1, <2>5, <3>2
      <3> QED
        BY <3>1, <3>2
    <2>7. Accounted(stage[w], d, s, b)
      BY <1>1, <1>3, <1>5, <2>3, <2>4, <2>6, ReadIsAccounted DEF m
    <2>8. Unanswered(d, Tail(q), b)
      BY <1>1, <1>3, <2>3, <2>6, ReadLeavesUnanswered DEF n, f
    <2> QED
      BY <1>1, <1>2, <1>5, <2>1, <2>2, <2>3, <2>6, <2>7, <2>8, WorkerKeeps DEF c, d
  <1>8. CASE f.type # "ACK"
    <2> DEFINE d == Nacked(c, n)
               b == [a EXCEPT !.nack = @ \cup {n}]
               m == c.count.nacked + 1
    <2>1. conn' = [conn EXCEPT ![w] = d]
      BY <1>4, <1>8
    <2>2. answers' = [answers EXCEPT ![w] = b]
      BY <1>1, <1>4, <1>8
    <2>3. /\ b \in AnswerSets /\ b.nack = a.nack \cup {n} /\ b.ack = a.ack
      BY <1>1, <1>6 DEF AnswerSets
    <2>4. m \in Nat
      BY <1>6
    <2>5. d = IF n \in c.pending
              THEN [c EXCEPT !.pending = @ \ {n}, !.count.nacked = m]
              ELSE c
      BY <1>1 DEF Nacked, ConnStates
    <2> HIDE DEF d, b, m, c, s, a, q, f
    <2>6. /\ d \in ConnStates /\ d.seq = c.seq /\ d.ready = c.ready
          /\ d.count.sent = c.count.sent /\ d.pending = c.pending \ {n}
          /\ d.count.acked = c.count.acked /\ d.lats = c.lats
          /\ d.count.nacked = IF n \in c.pending THEN m ELSE c.count.nacked
      <3>1. CASE n \in c.pending
        BY <1>1, <1>6, <2>4, <2>5, <3>1 DEF ConnStates
      <3>2. CASE n \notin c.pending
        BY <1>1, <2>5, <3>2
      <3> QED
        BY <3>1, <3>2
    <2>7. d.count.nacked = c.count.nacked + (IF n \in c.pending THEN 1 ELSE 0)
      BY <1>6, <2>6 DEF m
    <2>8. Accounted(stage[w], d, s, b)
      BY <1>1, <1>3, <1>5, <2>3, <2>6, <2>7, ReadIsAccounted
    <2>9. Unanswered(d, Tail(q), b)
      BY <1>1, <1>3, <2>3, <2>6, ReadLeavesUnanswered DEF n, f
    <2> QED
      BY <1>1, <1>2, <1>5, <2>1, <2>2, <2>3, <2>6, <2>8, <2>9, WorkerKeeps DEF c
  <1> QED
    BY <1>7, <1>8

LEMMA BenchStarts == BenchInit => BenchInv
  <1> SUFFICES ASSUME BenchInit PROVE BenchInv
    OBVIOUS
  <1> DEFINE c == [ready |-> FALSE, tries |-> 0, seq |-> 0, pending |-> {},
                   count |-> Counters, lats |-> << >>]
             a == [ack |-> {}, nack |-> {}]
  <1>1. c \in ConnStates /\ a \in AnswerSets /\ << >> \in Seq(AnswerFrames)
    BY EmptySeq DEF ConnStates, AnswerSets, Counters
  <1>2. BenchTypes
    BY <1>1 DEF BenchInit, BenchTypes, BenchStages, ProcStates
  <1>3. Unanswered(c, << >>, a)
    BY DEF Unanswered
  <1>4. Accounted("register", c, {}, a)
    <2>1. Cardinality({}) = 0 /\ Len(<< >>) = 0 /\ {} \cap {} = {} /\ {} \ ({} \cup {}) = {}
      BY FS_EmptySet
    <2>2. /\ c.seq = 0 /\ c.pending = {} /\ c.count.sent = 0 /\ c.count.acked = 0
          /\ c.count.nacked = 0 /\ c.lats = << >> /\ a.ack = {} /\ a.nack = {}
      BY DEF Counters
    <2> HIDE DEF c, a
    <2> QED
      BY <2>1, <2>2 DEF Accounted
  <1>5. CpuCounted
    BY DEF BenchInit, CpuCounted, CpuIsOfTheRun
  <1>6. \A w \in Workers : /\ conn[w] = c /\ answers[w] = a /\ coming[w] = << >>
                           /\ stage[w] = "register" /\ sentIn[w] = {}
    BY DEF BenchInit
  <1> HIDE DEF c, a
  <1> QED
    BY <1>2, <1>3, <1>4, <1>5, <1>6 DEF BenchInv

\* Of main's steps, the sampler's and the server's, none touches a connection.
LEMMA MainKeeps ==
  ASSUME BenchInv, Go \/ Sample \/ Report \/ ServerWorks
  PROVE  BenchInv'
  <1>1. UNCHANGED <<stage, conn, coming, sentIn, answers>>
    BY DEF Go, Sample, Report, ServerWorks
  <1>2. /\ run \in [go : BOOLEAN, stop : BOOLEAN, reported : BOOLEAN]
        /\ proc \in ProcStates /\ CpuCounted
    BY DEF BenchInv, BenchTypes
  <1> DEFINE Types == /\ run' \in [go : BOOLEAN, stop : BOOLEAN, reported : BOOLEAN]
                      /\ proc' \in ProcStates
  <1>3. /\ proc.used \in Nat /\ proc.up \in BOOLEAN /\ proc.atGo \in Nat
        /\ proc.first \in Int /\ proc.last \in Nat /\ proc.cpu \in Nat
    BY <1>2 DEF ProcStates
  <1>4. CASE Go
    <2>1. /\ run' = [run EXCEPT !.go = TRUE, !.stop = ReadyCount = 0]
          /\ proc' = [proc EXCEPT !.atGo = proc.used] /\ ~run.go
      BY <1>4 DEF Go
    <2>2. /\ run'.go /\ run'.reported = run.reported /\ ~run.reported /\ proc.first = -1
          /\ proc'.atGo = proc.used /\ proc'.used = proc.used /\ proc'.first = proc.first
      BY <1>2, <1>3, <2>1 DEF CpuCounted, CpuIsOfTheRun
    <2>3. Types
      BY <1>2, <1>3, <2>1 DEF ProcStates
    <2>4. CpuCounted'
      BY <1>2, <1>3, <2>2 DEF CpuCounted, CpuIsOfTheRun
    <2> QED
      BY <1>1, <2>3, <2>4 DEF BenchInv, BenchTypes
  \* What a reading leaves behind.
  <1>5. ASSUME NEW j \in Readings(proc)
        PROVE  LET p == ReadOnce(proc, j)
               IN /\ p \in ProcStates /\ p.last = j /\ j \in Nat /\ j <= proc.used
                  /\ p.used = proc.used /\ p.up = proc.up /\ p.atGo = proc.atGo
                  /\ p.cpu = proc.cpu /\ p.first \in Nat
                  /\ p.up /\ ~p.missed => p.first >= p.atGo
                  /\ ~p.up => p.last = 0
    <2> DEFINE from == IF proc.first < 0 THEN j ELSE proc.first
               missed == proc.missed \/ (proc.first < 0 /\ proc.up /\ j # proc.used)
               p == ReadOnce(proc, j)
    <2>1. j \in Nat /\ j <= proc.used /\ (~proc.up => j = 0)
      BY <1>3, <1>5 DEF Readings
    <2>2. from \in Nat /\ from \in Int /\ missed \in BOOLEAN
      BY <1>2, <1>3, <2>1 DEF CpuCounted
    <2>3. proc.up /\ ~missed => from >= proc.atGo
      BY <1>2, <1>3, <1>5, <2>1 DEF CpuCounted, Readings
    <2> HIDE DEF from, missed
    <2>4. p = [proc EXCEPT !.first = from, !.last = j, !.missed = missed]
      BY DEF ReadOnce, from, missed
    <2>5. /\ p \in ProcStates /\ p.first = from /\ p.missed = missed /\ p.last = j
          /\ p.used = proc.used /\ p.up = proc.up /\ p.atGo = proc.atGo
          /\ p.cpu = proc.cpu
      <3> HIDE DEF p
      <3>1. p.first = from /\ p.missed = missed /\ p.last = j
        BY <1>2, <2>4 DEF ProcStates
      <3>2. /\ p.used = proc.used /\ p.up = proc.up /\ p.atGo = proc.atGo
            /\ p.cpu = proc.cpu
        BY <1>2, <2>4 DEF ProcStates
      <3>3. p \in ProcStates
        BY <1>2, <2>1, <2>2, <2>4 DEF ProcStates
      <3> QED
        BY <3>1, <3>2, <3>3
    <2>6. /\ p.first \in Nat
          /\ p.up /\ ~p.missed => p.first >= p.atGo
          /\ ~p.up => p.last = 0
      <3> HIDE DEF p
      <3> QED
        BY <1>3, <2>1, <2>2, <2>3, <2>5
    <2> QED
      BY <2>1, <2>5, <2>6
  <1>6. CASE Sample
    <2>1. PICK j \in Readings(proc) : proc' = ReadOnce(proc, j)
      BY <1>6 DEF Sample
    <2>2. run' = run /\ run.go /\ ~run.reported
      BY <1>6 DEF Sample
    <2>3. /\ proc' \in ProcStates /\ proc'.used = proc.used /\ proc'.atGo = proc.atGo
          /\ proc'.first \in Nat
          /\ (proc'.up /\ ~proc'.missed => proc'.first >= proc'.atGo)
      BY <1>5, <2>1
    <2>4. CpuCounted'
      BY <1>2, <1>3, <2>2, <2>3 DEF CpuCounted, CpuIsOfTheRun
    <2> QED
      BY <1>1, <1>2, <2>2, <2>3, <2>4 DEF BenchInv, BenchTypes
  <1>7. CASE Report
    <2>1. PICK j \in Readings(proc) :
            LET p == ReadOnce(proc, j)
            IN proc' = [p EXCEPT !.cpu = IF p.last > p.first THEN p.last - p.first ELSE 0]
      BY <1>7 DEF Report
    <2>2. /\ run' = [run EXCEPT !.reported = TRUE]
          /\ run.go /\ \A w \in Workers : stage[w] = "done"
      BY <1>7 DEF Report
    <2> DEFINE p == ReadOnce(proc, j)
               cpu == IF p.last > p.first THEN p.last - p.first ELSE 0
    <2>3. /\ p \in ProcStates /\ p.last \in Nat /\ p.last <= proc.used
          /\ p.used = proc.used /\ p.atGo = proc.atGo /\ p.first \in Nat
          /\ (p.up /\ ~p.missed => p.first >= p.atGo) /\ (~p.up => p.last = 0)
      BY <1>5
    <2>4. proc' = [p EXCEPT !.cpu = cpu]
      BY <2>1
    <2> HIDE DEF p
    <2>5. p.up \in BOOLEAN /\ p.missed \in BOOLEAN
      BY <2>3 DEF ProcStates
    <2>6. /\ cpu \in Nat /\ cpu <= proc.used
          /\ ~p.missed => cpu <= proc.used - proc.atGo
      BY <1>2, <1>3, <2>3, <2>5 DEF CpuCounted
    <2> HIDE DEF cpu
    <2>7. /\ proc' \in ProcStates /\ proc'.used = proc.used /\ proc'.atGo = proc.atGo
          /\ proc'.first = p.first /\ proc'.up = p.up /\ proc'.missed = p.missed
          /\ proc'.cpu = cpu
      BY <2>3, <2>4, <2>6 DEF ProcStates
    <2>8. run' \in [go : BOOLEAN, stop : BOOLEAN, reported : BOOLEAN] /\ run'.go
      BY <1>2, <2>2
    <2>9. CpuIsOfTheRun'
      BY <2>6, <2>7 DEF CpuIsOfTheRun
    <2>10. CpuCounted'
      BY <1>1, <1>2, <1>3, <2>2, <2>3, <2>5, <2>7, <2>8, <2>9 DEF CpuCounted, CpuIsOfTheRun
    <2> QED
      BY <1>1, <2>7, <2>8, <2>10 DEF BenchInv, BenchTypes
  <1>8. CASE ServerWorks
    <2>1. run' = run /\ run.go /\ ~run.reported
      BY <1>8 DEF ServerWorks
    <2>2. \/ proc' = [proc EXCEPT !.used = proc.used + 1]
          \/ proc' = [proc EXCEPT !.up = FALSE]
      BY <1>2, <1>8 DEF ServerWorks
    <2>3. Types
      <3>1. proc.used + 1 \in Nat
        BY <1>3
      <3> QED
        BY <1>2, <2>1, <2>2, <3>1 DEF ProcStates
    <2>4. /\ proc'.first = proc.first /\ proc'.atGo = proc.atGo
          /\ proc'.used \in {proc.used, proc.used + 1} /\ (proc'.up => proc.up)
          /\ proc'.missed = proc.missed
      BY <1>2, <1>3, <2>2 DEF ProcStates
    <2>5. CpuCounted'
      BY <1>2, <1>3, <2>1, <2>4 DEF CpuCounted, CpuIsOfTheRun
    <2> QED
      BY <1>1, <2>3, <2>5 DEF BenchInv, BenchTypes
  <1> QED
    BY <1>4, <1>6, <1>7, <1>8

LEMMA BenchKeeps == BenchInv /\ [BenchNext]_benchVars => BenchInv'
  <1> SUFFICES ASSUME BenchInv, [BenchNext]_benchVars PROVE BenchInv'
    OBVIOUS
  <1>1. CASE UNCHANGED benchVars
    BY <1>1 DEF benchVars, BenchInv, BenchTypes, CpuCounted, CpuIsOfTheRun
  <1>2. CASE Go \/ Sample \/ Report \/ ServerWorks
    BY <1>2, MainKeeps
  <1>3. ASSUME NEW w \in Workers,
               SetupFails(w) \/ Registered(w) \/ LoggedIn(w) \/ StillOnline(w)
               \/ JoinedRoom(w) \/ Begin(w) \/ Measure(w) \/ WindowEnds(w) \/ Finished(w)
        PROVE  BenchInv'
    BY <1>3, SetupKeeps
  <1>4. ASSUME NEW w \in Workers, SendMessage(w) PROVE BenchInv'
    BY <1>4, SendKeeps
  <1>5. ASSUME NEW w \in Workers, DrainConn(w) PROVE BenchInv'
    BY <1>5, DrainKeeps
  <1> QED
    BY <1>1, <1>2, <1>3, <1>4, <1>5 DEF BenchNext

\* f adds up the numbers x of the threads, one after the other.
Adds(f, x) ==
  /\ f \in [0..Threads -> Nat]
  /\ f[0] = 0
  /\ \A k \in Workers : f[k] = f[k - 1] + x[k]

LEMMA ThreadsAreCounted == Threads \in Nat /\ Workers = 1..Threads /\ LatencyValues \subseteq Nat
  BY BenchAssumption DEF Workers

LEMMA AddsExists ==
  ASSUME NEW x \in [Workers -> Nat]
  PROVE  \E f : Adds(f, x)
  <1> DEFINE step == [y \in (1..Threads) \X Nat |-> y[2] + x[y[1]]]
  <1>1. step \in [(1..Threads) \X Nat -> Nat]
    BY ThreadsAreCounted
  <1>2. \A k \in 1..Threads, n \in Nat : step[<<k, n>>] = n + x[k]
    BY ThreadsAreCounted
  <1> HIDE DEF step
  <1>3. PICK f : IsLoop(f, Threads, Nat, 0, step)
    BY <1>1, ThreadsAreCounted, LoopExists
  <1>4. ASSUME NEW k \in 1..Threads PROVE f[k] = f[k - 1] + x[k]
    <2>1. k - 1 \in 0..Threads
      BY ThreadsAreCounted
    <2>2. f[k] = step[<<k, f[k - 1]>>] /\ f[k - 1] \in Nat
      BY <1>3, <2>1 DEF IsLoop
    <2> QED
      BY <1>2, <2>2
  <1> QED
    BY <1>3, <1>4, ThreadsAreCounted DEF Adds, IsLoop

\* x is the counter of each thread, as main adds it up.
Counts(x, field) ==
  \A w \in Workers : x[w] = IF conn[w].ready THEN conn[w].count[field] ELSE 0

\* Total is the last of such sums.
LEMMA TotalIsLast ==
  ASSUME NEW field, NEW x \in [Workers -> Nat], NEW f, Adds(f, x), Counts(x, field)
  PROVE  Total(field) = f[Threads]
  <1> DEFINE Eq(g) == g = [t \in 0..Threads |->
                             IF t = 0 THEN 0
                             ELSE g[t - 1] + (IF conn[t].ready THEN conn[t].count[field]
                                              ELSE 0)]
             a == CHOOSE g : Eq(g)
  <1>1. Total(field) = a[Threads]
    BY DEF Total
  <1>2. Eq(f)
    <2>1. f = [t \in 0..Threads |-> f[t]]
      BY DEF Adds
    <2>2. ASSUME NEW t \in 0..Threads
          PROVE  f[t] = IF t = 0 THEN 0
                        ELSE f[t - 1] + (IF conn[t].ready THEN conn[t].count[field] ELSE 0)
      <3>1. CASE t = 0
        BY <3>1 DEF Adds
      <3>2. CASE t # 0
        <4>1. t \in Workers
          BY <3>2, ThreadsAreCounted
        <4>2. f[t] = f[t - 1] + x[t]
          BY <4>1 DEF Adds
        <4> QED
          BY <3>2, <4>1, <4>2 DEF Counts
      <3> QED
        BY <3>1, <3>2
    <2>3. [t \in 0..Threads |-> f[t]]
            = [t \in 0..Threads |->
                 IF t = 0 THEN 0
                 ELSE f[t - 1] + (IF conn[t].ready THEN conn[t].count[field] ELSE 0)]
      BY <2>2
    <2> QED
      BY <2>1, <2>3
  <1>3. Eq(a)
    BY <1>2
  <1>4. a[0] = 0 /\ \A t \in Workers : a[t] = a[t - 1] + x[t]
    <2>1. \A t \in 0..Threads :
            a[t] = IF t = 0 THEN 0
                   ELSE a[t - 1] + (IF conn[t].ready THEN conn[t].count[field] ELSE 0)
      BY <1>3
    <2> HIDE DEF a
    <2>2. 0 \in 0..Threads /\ \A t \in Workers : t \in 0..Threads /\ t # 0
      BY ThreadsAreCounted
    <2> QED
      BY <2>1, <2>2 DEF Counts
  <1> HIDE DEF a
  <1> DEFINE T == {k \in Nat : k <= Threads => a[k] = f[k]}
  <1>5. 0 \in T
    BY <1>4 DEF Adds
  <1>6. ASSUME NEW k \in Nat, k \in T PROVE k + 1 \in T
    <2> SUFFICES ASSUME k + 1 <= Threads PROVE a[k + 1] = f[k + 1]
      OBVIOUS
    <2>1. k + 1 \in Workers /\ (k + 1) - 1 = k /\ k <= Threads
      BY ThreadsAreCounted
    <2>2. a[k] = f[k]
      BY <1>6, <2>1
    <2>3. a[k + 1] = a[k] + x[k + 1] /\ f[k + 1] = f[k] + x[k + 1]
      BY <1>4, <2>1 DEF Adds
    <2> QED
      BY <2>2, <2>3
  <1> HIDE DEF T
  <1>7. Threads \in T
    BY <1>5, <1>6, NumbersInduction, ThreadsAreCounted
  <1> QED
    BY <1>1, <1>7, ThreadsAreCounted DEF T

\* The sum of sizes is the number of the elements, each with its thread.
LEMMA SizesAddUp ==
  ASSUME NEW A, \A w \in Workers : IsFiniteSet(A[w]),
         NEW x \in [Workers -> Nat], \A w \in Workers : x[w] = Cardinality(A[w]),
         NEW f, Adds(f, x)
  PROVE  f[Threads] = Cardinality(UNION {{w} \X A[w] : w \in Workers})
  <1> DEFINE U(k) == UNION {{w} \X A[w] : w \in 1..k}
             T == {k \in Nat : k <= Threads => IsFiniteSet(U(k)) /\ f[k] = Cardinality(U(k))}
  <1>1. 0 \in T
    <2>1. U(0) = {}
      OBVIOUS
    <2> QED
      BY <2>1, FS_EmptySet DEF Adds
  <1>2. ASSUME NEW k \in Nat, k \in T, k + 1 <= Threads
        PROVE  IsFiniteSet(U(k + 1)) /\ f[k + 1] = Cardinality(U(k + 1))
    <2> DEFINE B == {k + 1} \X A[k + 1]
    <2>1. k + 1 \in Workers /\ (k + 1) - 1 = k /\ k <= Threads
      BY <1>2, ThreadsAreCounted
    <2>2. IsFiniteSet(U(k)) /\ f[k] = Cardinality(U(k)) /\ f[k] \in Nat
      BY <1>2, <2>1, ThreadsAreCounted DEF Adds
    <2>3. IsFiniteSet(B) /\ Cardinality(B) = x[k + 1]
      <3>1. /\ IsFiniteSet({k + 1}) /\ Cardinality({k + 1}) = 1 /\ IsFiniteSet(A[k + 1])
            /\ Cardinality(A[k + 1]) = x[k + 1] /\ x[k + 1] \in Nat
        BY <2>1, FS_Singleton
      <3>2. IsFiniteSet(B) /\ Cardinality(B) = Cardinality({k + 1}) * Cardinality(A[k + 1])
        BY <3>1, FS_Product
      <3> QED
        BY <3>1, <3>2
    <2>4. U(k + 1) = U(k) \cup B
      <3>1. 1..(k + 1) = (1..k) \cup {k + 1}
        OBVIOUS
      <3> QED
        BY <3>1
    <2>5. U(k) \cap B = {}
      <3>1. k + 1 \notin 1..k
        OBVIOUS
      <3> QED
        BY <3>1
    <2> HIDE DEF B, U
    <2>6. IsFiniteSet(U(k + 1))
          /\ Cardinality(U(k + 1)) = Cardinality(U(k)) + Cardinality(B) - Cardinality({})
      BY <2>2, <2>3, <2>4, <2>5, FS_Union
    <2>7. f[k + 1] = f[k] + x[k + 1] /\ x[k + 1] \in Nat
      BY <2>1 DEF Adds
    <2>8. Cardinality(U(k + 1)) = f[k] + x[k + 1] - 0
      BY <2>2, <2>3, <2>6, FS_EmptySet
    <2> DEFINE j == k + 1
    <2> HIDE DEF j
    <2>9. Cardinality(U(j)) = f[k] + x[j] - 0 /\ f[j] = f[k] + x[j] /\ x[j] \in Nat
      BY <2>7, <2>8 DEF j
    <2>10. f[j] = Cardinality(U(j))
      <3>1. f[k] + x[j] - 0 = f[k] + x[j]
        BY <2>2, <2>9
      <3> QED
        BY <2>9, <3>1
    <2>11. f[k + 1] = Cardinality(U(k + 1))
      BY <2>10 DEF j
    <2> QED
      BY <2>6, <2>11
  <1> HIDE DEF U
  <1>3. \A k \in Nat : k \in T => k + 1 \in T
    BY <1>2
  <1> HIDE DEF T
  <1>4. Threads \in T
    BY <1>1, <1>3, NumbersInduction, ThreadsAreCounted
  <1>5. f[Threads] = Cardinality(U(Threads))
    BY <1>4, ThreadsAreCounted DEF T
  <1> QED
    BY <1>5, ThreadsAreCounted DEF U

\* Of each thread, v is what y and z leave of x.
Rests(x, y, z, v) ==
  /\ x \in [Workers -> Nat] /\ y \in [Workers -> Nat]
  /\ z \in [Workers -> Nat] /\ v \in [Workers -> Nat]
  /\ \A w \in Workers : v[w] = x[w] - y[w] - z[w]

\* What is left over of each is left over of all.
LEMMA RestsAddUp ==
  ASSUME NEW x, NEW y, NEW z, NEW v, Rests(x, y, z, v),
         NEW f, NEW g, NEW h, NEW e, Adds(f, x), Adds(g, y), Adds(h, z), Adds(e, v)
  PROVE  e[Threads] = f[Threads] - g[Threads] - h[Threads]
  <1> DEFINE T == {k \in Nat : k <= Threads => e[k] = f[k] - g[k] - h[k]}
  <1>1. 0 \in T
    BY DEF Adds
  <1>2. ASSUME NEW k \in Nat, k \in T PROVE k + 1 \in T
    <2> SUFFICES ASSUME k + 1 <= Threads
                 PROVE  e[k + 1] = f[k + 1] - g[k + 1] - h[k + 1]
      OBVIOUS
    <2>1. k + 1 \in Workers /\ (k + 1) - 1 = k /\ k <= Threads /\ k \in 0..Threads
      BY ThreadsAreCounted
    <2>2. e[k] = f[k] - g[k] - h[k]
      BY <1>2, <2>1
    <2>3. /\ f[k] \in Nat /\ g[k] \in Nat /\ h[k] \in Nat /\ e[k] \in Nat
          /\ f[k + 1] = f[k] + x[k + 1] /\ g[k + 1] = g[k] + y[k + 1]
          /\ h[k + 1] = h[k] + z[k + 1] /\ e[k + 1] = e[k] + v[k + 1]
      BY <2>1 DEF Adds
    <2>4. /\ x[k + 1] \in Nat /\ y[k + 1] \in Nat /\ z[k + 1] \in Nat
          /\ v[k + 1] = x[k + 1] - y[k + 1] - z[k + 1]
      BY <2>1 DEF Rests
    <2> DEFINE j == k + 1
    <2> HIDE DEF j
    <2>5. /\ f[j] = f[k] + x[j] /\ g[j] = g[k] + y[j] /\ h[j] = h[k] + z[j]
          /\ e[j] = e[k] + v[j] /\ v[j] = x[j] - y[j] - z[j]
          /\ x[j] \in Nat /\ y[j] \in Nat /\ z[j] \in Nat
      BY <2>3, <2>4 DEF j
    <2>6. e[j] = f[j] - g[j] - h[j]
      BY <2>2, <2>3, <2>5
    <2> QED
      BY <2>6 DEF j
  <1> HIDE DEF T
  <1>3. Threads \in T
    BY <1>1, <1>2, NumbersInduction, ThreadsAreCounted
  <1> QED
    BY <1>3, ThreadsAreCounted DEF T

\* h has a sequence of each thread, of the length x.
Pieces(h, x, V) ==
  /\ h \in Seq(Seq(V)) /\ Len(h) = Threads /\ x \in [Workers -> Nat]
  /\ \A w \in Workers : x[w] = Len(h[w])

\* Sequences put together have the sum of their lengths.
LEMMA LengthsAddUp ==
  ASSUME NEW V, NEW h, NEW x, Pieces(h, x, V), NEW f, Adds(f, x)
  PROVE  FlattenSeq(h) \in Seq(V) /\ Len(FlattenSeq(h)) = f[Threads]
  <1> DEFINE step == [y \in (1..Threads) \X Seq(V) |-> y[2] \o h[y[1]]]
             Q == Seq(V)
             nothing == << >>
  <1> USE DEF Pieces
  <1>1. \A k \in 1..Threads : h[k] \in Seq(V)
    BY LenProperties, ElementOfSeq
  <1>2. step \in [(1..Threads) \X Q -> Q] /\ nothing \in Q
    <2>1. ASSUME NEW y \in (1..Threads) \X Seq(V) PROVE y[2] \o h[y[1]] \in Seq(V)
      BY <1>1, ConcatProperties
    <2> QED
      BY <2>1, EmptySeq
  <1>3. \A k \in 1..Threads, s \in Q : step[<<k, s>>] = s \o h[k]
    OBVIOUS
  <1> HIDE DEF step, Q, nothing
  <1>4. PICK g : IsLoop(g, Threads, Q, nothing, step)
    BY <1>2, ThreadsAreCounted, LoopExists
  <1>5. ASSUME NEW k \in 1..Threads
        PROVE  g[k - 1] \in Q /\ g[k] = g[k - 1] \o h[k]
    <2>1. k - 1 \in 0..Threads
      BY ThreadsAreCounted
    <2>2. g[k] = step[<<k, g[k - 1]>>] /\ g[k - 1] \in Q
      BY <1>4, <2>1 DEF IsLoop
    <2> QED
      BY <1>3, <2>2
  <1>6. g \in [0..Threads -> Seq(V)] /\ g[0] = << >>
    BY <1>4 DEF IsLoop, Q, nothing
  <1>7. Joins(g, h, V)
    BY <1>5, <1>6 DEF Joins
  <1>8. FlattenSeq(h) = g[Threads]
    BY <1>7, FlattenIsLoop
  <1> DEFINE T == {k \in Nat : k <= Threads => Len(g[k]) = f[k]}
  <1>9. 0 \in T
    BY <1>6, EmptySeq DEF Adds
  <1>10. ASSUME NEW k \in Nat, k \in T PROVE k + 1 \in T
    <2> SUFFICES ASSUME k + 1 <= Threads PROVE Len(g[k + 1]) = f[k + 1]
      OBVIOUS
    <2>1. k + 1 \in Workers /\ k + 1 \in 1..Threads /\ (k + 1) - 1 = k /\ k <= Threads
      BY ThreadsAreCounted
    <2>2. Len(g[k]) = f[k]
      BY <1>10, <2>1
    <2>3. g[k] \in Seq(V) /\ g[k + 1] = g[k] \o h[k + 1] /\ h[k + 1] \in Seq(V)
      BY <1>1, <1>5, <2>1 DEF Q
    <2>4. Len(g[k + 1]) = Len(g[k]) + Len(h[k + 1])
      BY <2>3, ConcatProperties
    <2>5. f[k + 1] = f[k] + x[k + 1]
      BY <2>1 DEF Adds
    <2> QED
      BY <2>1, <2>2, <2>4, <2>5
  <1> HIDE DEF T
  <1>11. Threads \in T
    BY <1>9, <1>10, NumbersInduction, ThreadsAreCounted
  <1>12. g[Threads] \in Seq(V)
    BY <1>6, ThreadsAreCounted
  <1> QED
    BY <1>8, <1>11, <1>12, ThreadsAreCounted DEF T

\* Once the report is written, every connection's counts are final.
LEMMA ConnectionsAddUp ==
  ASSUME BenchInv, run.reported, NEW w \in Workers
  PROVE  LET c == conn[w]
             s == sentIn[w]
             a == answers[w]
         IN /\ IsFiniteSet(s) /\ c \in ConnStates /\ c.count.lost \in Nat
            /\ c.count.sent = Cardinality(s)
            /\ c.count.acked = Cardinality(s \cap a.ack)
            /\ c.count.nacked = Cardinality(s \cap a.nack)
            /\ c.count.lost = c.count.sent - c.count.acked - c.count.nacked
            /\ Len(c.lats) = c.count.acked
            /\ ~c.ready => s = {}
  <1> DEFINE c == conn[w]
             s == sentIn[w]
             a == answers[w]
             m == s \cap a.ack
             n == s \cap a.nack
  <1>1. c \in ConnStates /\ Accounted("done", c, s, a) /\ c.seq \in Nat /\ c.count.lost \in Nat
    <2>1. c \in ConnStates /\ Accounted("done", c, s, a)
      BY DEF BenchInv, BenchTypes, CpuCounted, CpuIsOfTheRun
    <2> HIDE DEF c
    <2>2. c.seq \in Nat /\ c.count.lost \in Nat
      BY <2>1 DEF ConnStates
    <2> QED
      BY <2>1, <2>2
  <1> HIDE DEF c, a, s
  <1>2. IsFiniteSet(s)
    <2>1. IsFiniteSet(1..c.seq)
      BY <1>1, MessagesAreFinite
    <2>2. s \subseteq 1..c.seq
      BY <1>1 DEF Accounted
    <2> QED
      BY <2>1, <2>2, FS_Subset
  <1>3. m \cap n = {} /\ s \cap (m \cup n) = m \cup n /\ c.pending = s \ (m \cup n)
    BY <1>1 DEF Accounted
  <1> HIDE DEF m, n
  <1>4. IsFiniteSet(m) /\ IsFiniteSet(n)
    BY <1>2, FS_Intersection DEF m, n
  <1>5. Cardinality(m \cup n) = Cardinality(m) + Cardinality(n)
    <2>1. Cardinality(m \cup n) = Cardinality(m) + Cardinality(n) - Cardinality({})
      BY <1>3, <1>4, FS_Union
    <2>2. Cardinality(m) \in Nat /\ Cardinality(n) \in Nat /\ Cardinality({}) = 0
      BY <1>4, FS_CardinalityType, FS_EmptySet
    <2> QED
      BY <2>1, <2>2
  <1>6. Cardinality(c.pending) = Cardinality(s) - Cardinality(m \cup n)
    BY <1>2, <1>3, FS_Difference
  <1>7. Cardinality(s) \in Nat /\ Cardinality(m) \in Nat /\ Cardinality(n) \in Nat
    BY <1>2, <1>4, FS_CardinalityType
  <1>8. /\ c.count.sent = Cardinality(s) /\ c.count.acked = Cardinality(m)
        /\ c.count.nacked = Cardinality(n) /\ c.count.lost = Cardinality(c.pending)
        /\ Len(c.lats) = c.count.acked /\ (~c.ready => s = {})
    BY <1>1 DEF Accounted, m, n
  <1>9. c.count.lost = c.count.sent - c.count.acked - c.count.nacked
    BY <1>5, <1>6, <1>7, <1>8
  <1> QED
    BY <1>1, <1>2, <1>8, <1>9 DEF c, s, a, m, n

\* A counter's total is the number of the messages that it counts.
LEMMA TotalIsNumber ==
  ASSUME NEW field, NEW A, NEW x \in [Workers -> Nat], Counts(x, field),
         \A w \in Workers : IsFiniteSet(A[w]) /\ x[w] = Cardinality(A[w]),
         NEW f, Adds(f, x)
  PROVE  /\ Total(field) = f[Threads]
         /\ f[Threads] = Cardinality(UNION {{w} \X A[w] : w \in Workers})
  BY TotalIsLast, SizesAddUp

\* The samples are latencies, as many as there are acknowledgements.
LEMMA SamplesAddUp ==
  ASSUME BenchInv, run.reported, NEW x \in [Workers -> Nat], NEW f, Adds(f, x),
         \A w \in Workers : x[w] = Cardinality(sentIn[w] \cap answers[w].ack)
  PROVE  Samples \in Seq(LatencyValues) /\ Len(Samples) = f[Threads]
  <1> DEFINE h == [t \in Workers |-> IF conn[t].ready THEN conn[t].lats ELSE << >>]
             V == LatencyValues
  <1>1. ASSUME NEW w \in Workers
        PROVE  h[w] \in Seq(V) /\ Len(h[w]) = x[w]
    <2>1. /\ conn[w] \in ConnStates /\ Len(conn[w].lats) = conn[w].count.acked
          /\ conn[w].count.acked = Cardinality(sentIn[w] \cap answers[w].ack)
          /\ (~conn[w].ready => sentIn[w] = {})
      BY ConnectionsAddUp
    <2>2. conn[w].lats \in Seq(V) /\ conn[w].ready \in BOOLEAN
      BY <2>1 DEF ConnStates
    <2>3. CASE conn[w].ready
      BY <2>1, <2>2, <2>3
    <2>4. CASE ~conn[w].ready
      <3>1. x[w] = 0
        <4>1. sentIn[w] \cap answers[w].ack = {}
          BY <2>1, <2>4
        <4> QED
          BY <4>1, FS_EmptySet
      <3>2. h[w] = << >>
        BY <2>4
      <3> HIDE DEF h
      <3> QED
        BY <3>1, <3>2, EmptySeq
    <2> QED
      BY <2>3, <2>4
  <1>2. h \in [1..Threads -> Seq(V)]
    <2>1. h = [t \in 1..Threads |-> h[t]]
      BY ThreadsAreCounted
    <2> HIDE DEF h
    <2> QED
      BY <1>1, <2>1, ThreadsAreCounted
  <1>3. h \in Seq(Seq(V)) /\ Len(h) = Threads
    <2> HIDE DEF h
    <2> QED
      BY <1>2, ThreadsAreCounted, LenProperties
  <1>4. Samples = FlattenSeq(h)
    BY DEF Samples
  <1> HIDE DEF h, V
  <1>5. FlattenSeq(h) \in Seq(V) /\ Len(FlattenSeq(h)) = f[Threads]
    <2>1. Pieces(h, x, V)
      BY <1>1, <1>3 DEF Pieces
    <2> QED
      BY <2>1, LengthsAddUp
  <1> QED
    BY <1>4, <1>5 DEF V

LEMMA CountsAreTrue == BenchInv => ReportAddsUp
  <1> SUFFICES ASSUME BenchInv, run.reported
               PROVE  LET Number(messages) ==
                            Cardinality(UNION {{w} \X messages[w] : w \in Workers})
                      IN /\ Total("sent") = Number(sentIn)
                         /\ Total("acked")
                              = Number([w \in Workers |-> sentIn[w] \cap answers[w].ack])
                         /\ Total("nacked")
                              = Number([w \in Workers |-> sentIn[w] \cap answers[w].nack])
                         /\ Total("lost") = Total("sent") - Total("acked") - Total("nacked")
                         /\ Len(Samples) = Total("acked")
    BY DEF ReportAddsUp
  <1> DEFINE A == [w \in Workers |-> sentIn[w] \cap answers[w].ack]
             N == [w \in Workers |-> sentIn[w] \cap answers[w].nack]
             Number(messages) == Cardinality(UNION {{w} \X messages[w] : w \in Workers})
  <1>1. \A w \in Workers : A[w] = sentIn[w] \cap answers[w].ack
                           /\ N[w] = sentIn[w] \cap answers[w].nack
    OBVIOUS
  <1> HIDE DEF A, N
  <1> DEFINE Of(field) == [w \in Workers |-> IF conn[w].ready THEN conn[w].count[field] ELSE 0]
             x == Of("sent")
             y == Of("acked")
             z == Of("nacked")
             v == Of("lost")
  <1>2. Counts(x, "sent") /\ Counts(y, "acked") /\ Counts(z, "nacked") /\ Counts(v, "lost")
    BY DEF Counts
  <1>3. ASSUME NEW w \in Workers
        PROVE  /\ IsFiniteSet(sentIn[w]) /\ x[w] = Cardinality(sentIn[w])
               /\ IsFiniteSet(A[w]) /\ y[w] = Cardinality(A[w])
               /\ IsFiniteSet(N[w]) /\ z[w] = Cardinality(N[w])
               /\ v[w] = x[w] - y[w] - z[w] /\ v[w] \in Nat
               /\ x[w] \in Nat /\ y[w] \in Nat /\ z[w] \in Nat
    <2> DEFINE c == conn[w]
    <2>1. /\ IsFiniteSet(sentIn[w]) /\ c.count.lost \in Nat
          /\ c.count.sent = Cardinality(sentIn[w])
          /\ c.count.acked = Cardinality(sentIn[w] \cap answers[w].ack)
          /\ c.count.nacked = Cardinality(sentIn[w] \cap answers[w].nack)
          /\ c.count.lost = c.count.sent - c.count.acked - c.count.nacked
          /\ ~c.ready => sentIn[w] = {}
      BY ConnectionsAddUp
    <2>2. c.count.acked = Cardinality(A[w]) /\ c.count.nacked = Cardinality(N[w])
      BY <1>1, <2>1
    <2>3. IsFiniteSet(A[w]) /\ IsFiniteSet(N[w])
      <3>1. A[w] \in SUBSET sentIn[w] /\ N[w] \in SUBSET sentIn[w]
        BY <1>1
      <3> QED
        BY <2>1, <3>1, FS_Subset
    <2>4. /\ Cardinality(sentIn[w]) \in Nat /\ Cardinality(A[w]) \in Nat
          /\ Cardinality(N[w]) \in Nat
      BY <2>1, <2>3, FS_CardinalityType
    <2>5. CASE c.ready
      <3>1. x[w] = c.count.sent /\ y[w] = c.count.acked /\ z[w] = c.count.nacked
            /\ v[w] = c.count.lost
        BY <2>5
      <3> HIDE DEF x, y, z, v, c
      <3> QED
        BY <2>1, <2>2, <2>3, <2>4, <3>1
    <2>6. CASE ~c.ready
      <3>1. x[w] = 0 /\ y[w] = 0 /\ z[w] = 0 /\ v[w] = 0
        BY <2>6
      <3>2. sentIn[w] = {} /\ A[w] = {} /\ N[w] = {}
        BY <1>1, <2>1, <2>6
      <3> HIDE DEF x, y, z, v, c
      <3> QED
        BY <2>1, <2>2, <2>3, <3>1, <3>2, FS_EmptySet
    <2> QED
      BY <2>5, <2>6
  <1>4. /\ x \in [Workers -> Nat] /\ y \in [Workers -> Nat] /\ z \in [Workers -> Nat]
        /\ v \in [Workers -> Nat]
    BY <1>3
  <1> HIDE DEF x, y, z, v
  <1>5. PICK f : Adds(f, x)
    BY <1>4, AddsExists
  <1>6. PICK g : Adds(g, y)
    BY <1>4, AddsExists
  <1>7. PICK h : Adds(h, z)
    BY <1>4, AddsExists
  <1>8. PICK e : Adds(e, v)
    BY <1>4, AddsExists
  <1>9. Total("sent") = f[Threads] /\ f[Threads] = Number(sentIn)
    <2>1. \A w \in Workers : IsFiniteSet(sentIn[w]) /\ x[w] = Cardinality(sentIn[w])
      BY <1>3
    <2> QED
      BY <1>2, <1>4, <1>5, <2>1, TotalIsNumber
  <1>10. Total("acked") = g[Threads] /\ g[Threads] = Number(A)
    <2>1. \A w \in Workers : IsFiniteSet(A[w]) /\ y[w] = Cardinality(A[w])
      BY <1>3
    <2> QED
      BY <1>2, <1>4, <1>6, <2>1, TotalIsNumber
  <1>11. Total("nacked") = h[Threads] /\ h[Threads] = Number(N)
    <2>1. \A w \in Workers : IsFiniteSet(N[w]) /\ z[w] = Cardinality(N[w])
      BY <1>3
    <2> QED
      BY <1>2, <1>4, <1>7, <2>1, TotalIsNumber
  <1>12. Total("lost") = e[Threads]
    BY <1>2, <1>4, <1>8, TotalIsLast
  <1>13. e[Threads] = f[Threads] - g[Threads] - h[Threads]
    <2>1. Rests(x, y, z, v)
      BY <1>3, <1>4 DEF Rests
    <2> QED
      BY <1>5, <1>6, <1>7, <1>8, <2>1, RestsAddUp
  <1>14. Len(Samples) = g[Threads]
    <2>1. \A w \in Workers : y[w] = Cardinality(sentIn[w] \cap answers[w].ack)
      BY <1>1, <1>3
    <2> QED
      BY <1>4, <1>6, <2>1, SamplesAddUp
  <1> QED
    BY <1>9, <1>10, <1>11, <1>12, <1>13, <1>14 DEF A, N

\* Numbers can be put in order, the least of the rest first.
LEMMA OrderExists ==
  ASSUME NEW n \in Nat, NEW v \in [1..n -> Nat]
  PROVE  \E p \in Bijection(1..n, 1..n) : \A i, j \in 1..n : i < j => v[p[i]] <= v[p[j]]
  <1> DEFINE D == 1..n
             First(p, k) == \A i, j \in D : i < j /\ i <= k => v[p[i]] <= v[p[j]]
             T == {k \in Nat : k <= n => \E p \in Bijection(D, D) : First(p, k)}
  <1>1. 0 \in T
    <2> DEFINE p == [i \in D |-> i]
    <2>1. p \in Bijection(D, D)
      BY DEF Bijection, Injection, Surjection, IsInjective
    <2>2. First(p, 0)
      OBVIOUS
    <2> HIDE DEF p, First, D
    <2> QED
      BY <2>1, <2>2
  <1>2. ASSUME NEW k \in Nat, k \in T, k + 1 <= n
        PROVE  \E q \in Bijection(D, D) : First(q, k + 1)
    <2>1. PICK p \in Bijection(D, D) : First(p, k)
      BY <1>2
    <2>2. /\ p \in [D -> D] /\ \A a, b \in D : p[a] = p[b] => a = b
          /\ \A d \in D : \E a \in D : p[a] = d
      BY <2>1 DEF Bijection, Injection, Surjection, IsInjective
    <2> DEFINE Rest == {i \in D : k < i}
               V == {v[p[i]] : i \in Rest}
               c == k + 1
    <2>3. c \in Rest /\ Rest \subseteq D /\ V \in SUBSET Nat
      BY <1>2, <2>2
    <2>4. V # {}
      BY <2>3
    <2>5. PICK least \in V : \A y \in V : least <= y
      BY <2>3, <2>4, LeastNumber
    <2>6. PICK m \in Rest : v[p[m]] = least
      BY <2>5
    <2>7. \A i \in Rest : v[p[m]] <= v[p[i]]
      BY <2>5, <2>6
    <2> DEFINE At(i) == IF i = c THEN m ELSE IF i = m THEN c ELSE i
               q == [i \in D |-> p[At(i)]]
    <2>8. \A i \in D : At(i) \in D /\ At(At(i)) = i
      BY <2>3
    <2>9. \A i, j \in D : At(i) = At(j) => i = j
      BY <2>8
    <2>10. \A i \in D : (i \in Rest <=> At(i) \in Rest) /\ (i \notin Rest => At(i) = i)
      BY <2>3
    <2>11. At(c) = m
      OBVIOUS
    <2> HIDE DEF At
    <2>12. q \in Bijection(D, D)
      <3>1. q \in [D -> D]
        BY <2>2, <2>8
      <3>2. \A i, j \in D : q[i] = q[j] => i = j
        BY <2>2, <2>8, <2>9
      <3>3. ASSUME NEW d \in D PROVE \E i \in D : q[i] = d
        <4>1. PICK a \in D : p[a] = d
          BY <2>2
        <4>2. At(a) \in D /\ q[At(a)] = d
          BY <2>8, <4>1
        <4> QED
          BY <4>2
      <3> HIDE DEF q, D
      <3> QED
        BY <3>1, <3>2, <3>3 DEF Bijection, Injection, Surjection, IsInjective
    <2>13. ASSUME NEW i \in D, NEW j \in D, i < j, i <= k + 1
           PROVE  v[q[i]] <= v[q[j]]
      <3>1. q[i] = p[At(i)] /\ q[j] = p[At(j)]
        OBVIOUS
      <3>2. CASE i \in Rest
        <4>1. i = c /\ j \in Rest
          BY <2>13, <3>2
        <4>2. At(i) = m /\ At(j) \in Rest
          BY <2>10, <2>11, <4>1
        <4> QED
          BY <2>7, <3>1, <4>2
      <3>3. CASE i \notin Rest
        <4>1. i <= k /\ At(i) = i /\ At(j) \in D
          BY <2>8, <2>10, <3>3
        <4>2. i < At(j)
          <5>1. CASE j \in Rest
            <6>1. At(j) \in Rest
              BY <2>10, <5>1
            <6> QED
              BY <4>1, <6>1
          <5>2. CASE j \notin Rest
            BY <2>10, <2>13, <5>2
          <5> QED
            BY <5>1, <5>2
        <4> QED
          BY <2>1, <3>1, <4>1, <4>2
      <3> QED
        BY <3>2, <3>3
    <2>14. First(q, k + 1)
      BY <2>13
    <2> HIDE DEF q, First, D
    <2> QED
      BY <2>12, <2>14
  <1>3. \A k \in Nat : k \in T => k + 1 \in T
    <2> HIDE DEF First, D
    <2> QED
      BY <1>2
  <1> HIDE DEF T
  <1>4. n \in T
    BY <1>1, <1>3, NumbersInduction
  <1>5. PICK p \in Bijection(D, D) : First(p, n)
    BY <1>4 DEF T
  <1> QED
    BY <1>5

\* The samples of v under the latency c, and over it.
Under(v, c) == {i \in 1..Len(v) : v[i] < c}
Over(v, c) == {i \in 1..Len(v) : v[i] > c}

\* The sample at rank k: how many are under and over it.
Ranked(v, k) ==
  LET c == Sorted(v)[k]
  IN /\ c \in Nat
     /\ \E i \in 1..Len(v) : v[i] = c
     /\ \A j \in 1..Len(v) : k <= j => c <= Sorted(v)[j]
     /\ Cardinality(Under(v, c)) \in Nat /\ Cardinality(Under(v, c)) <= k - 1
     /\ Cardinality(Over(v, c)) \in Nat /\ Cardinality(Over(v, c)) <= Len(v) - k

LEMMA RanksAreHeld ==
  ASSUME NEW v \in Seq(Nat), NEW k \in 1..Len(v)
  PROVE  Ranked(v, k)
  <1> DEFINE n == Len(v)
             D == 1..n
             order == CHOOSE p \in Bijection(D, D) :
                        \A i, j \in D : i < j => v[p[i]] <= v[p[j]]
             s == Sorted(v)
  <1>1. n \in Nat /\ v \in [D -> Nat] /\ DOMAIN v = D /\ k \in D
    BY LenProperties
  <1>2. s = [i \in D |-> v[order[i]]]
    BY <1>1 DEF Sorted
  <1> HIDE DEF n, s
  <1>3. order \in Bijection(D, D) /\ \A i, j \in D : i < j => v[order[i]] <= v[order[j]]
    BY <1>1, OrderExists
  <1> HIDE DEF order
  <1>4. order \in [D -> D] /\ \A d \in D : \E i \in D : order[i] = d
    BY <1>3 DEF Bijection, Surjection
  <1>5. \A i \in D : s[i] = v[order[i]] /\ s[i] \in Nat
    BY <1>1, <1>2, <1>4
  <1>6. \A i, j \in D : i <= j => s[i] <= s[j]
    <2> SUFFICES ASSUME NEW i \in D, NEW j \in D, i <= j PROVE s[i] <= s[j]
      OBVIOUS
    <2>1. CASE i = j
      BY <1>5, <2>1
    <2>2. CASE i # j
      <3>1. i < j
        BY <1>1, <2>2
      <3> QED
        BY <1>3, <1>5, <3>1
    <2> QED
      BY <2>1, <2>2
  <1>7. ASSUME NEW a \in Int, NEW b \in Int, NEW S \in SUBSET D,
               \A i \in D : order[i] \in S => a <= i /\ i <= b, a <= b + 1
        PROVE  Cardinality(S) \in Nat /\ Cardinality(S) <= b - a + 1
    <2> DEFINE J == {i \in D : order[i] \in S}
               f == [i \in J |-> order[i]]
    <2>1. f \in Surjection(J, S)
      <3>1. f \in [J -> S]
        OBVIOUS
      <3>2. ASSUME NEW x \in S PROVE \E i \in J : f[i] = x
        BY <1>4
      <3> HIDE DEF f, J
      <3> QED
        BY <3>1, <3>2 DEF Surjection
    <2>2. J \in SUBSET (a..b)
      BY <1>1, <1>7
    <2>3. IsFiniteSet(a..b) /\ Cardinality(a..b) = b - a + 1
      BY <1>7, FS_Interval
    <2> HIDE DEF J, f
    <2>4. IsFiniteSet(J) /\ Cardinality(J) <= Cardinality(a..b)
      BY <2>2, <2>3, FS_Subset
    <2>5. IsFiniteSet(S) /\ Cardinality(S) <= Cardinality(J)
      BY <2>1, <2>4, FS_Surjection
    <2>6. Cardinality(S) \in Nat /\ Cardinality(J) \in Nat
      BY <2>4, <2>5, FS_CardinalityType
    <2> QED
      BY <2>3, <2>4, <2>5, <2>6
  <1> DEFINE below == {i \in D : v[i] < s[k]}
             above == {i \in D : v[i] > s[k]}
  <1>8. Cardinality(below) \in Nat /\ Cardinality(below) <= k - 1
    <2>1. ASSUME NEW i \in D, order[i] \in below PROVE 1 <= i /\ i <= k - 1
      <3>1. s[i] < s[k]
        BY <1>5, <2>1
      <3>2. ~(k <= i)
        BY <1>1, <1>5, <1>6, <3>1
      <3> QED
        BY <1>1, <3>2
    <2> HIDE DEF below
    <2>2. below \in SUBSET D /\ 1 \in Int /\ k - 1 \in Int /\ 1 <= (k - 1) + 1
      BY <1>1 DEF below
    <2>3. Cardinality(below) \in Nat /\ Cardinality(below) <= (k - 1) - 1 + 1
      BY <1>7, <2>1, <2>2
    <2> QED
      BY <1>1, <2>3
  <1>9. Cardinality(above) \in Nat /\ Cardinality(above) <= n - k
    <2>1. ASSUME NEW i \in D, order[i] \in above PROVE k + 1 <= i /\ i <= n
      <3>1. s[k] < s[i]
        BY <1>5, <2>1
      <3>2. ~(i <= k)
        BY <1>1, <1>5, <1>6, <3>1
      <3> QED
        BY <1>1, <3>2
    <2> HIDE DEF above
    <2>2. above \in SUBSET D /\ k + 1 \in Int /\ n \in Int /\ k + 1 <= n + 1
      BY <1>1 DEF above
    <2>3. Cardinality(above) \in Nat /\ Cardinality(above) <= n - (k + 1) + 1
      BY <1>7, <2>1, <2>2
    <2> QED
      BY <1>1, <2>3
  <1>10. \E i \in D : v[i] = s[k]
    BY <1>1, <1>4, <1>5
  <1> QED
    BY <1>1, <1>5, <1>6, <1>8, <1>9, <1>10 DEF n, s, Under, Over, Ranked

\* A part of a step is not below nothing and not above the step.
LEMMA PartOfStep ==
  ASSUME NEW d \in Nat, NEW r \in 0..99
  PROVE  d * r \in Nat /\ d * r <= 100 * d /\ (r = 0 => d * r = 0)
  <1>1. d * r \in Nat /\ d * (100 - r) \in Nat
    OBVIOUS
  <1>2. d * r + d * (100 - r) = 100 * d
    OBVIOUS
  <1> QED
    BY <1>1, <1>2

LEMMA Hundredfold ==
  /\ \A m, n, y \in Nat : 100 * m < y /\ y <= 100 * n => m < n
  /\ \A m, n, y \in Nat : 100 * n <= y /\ y < 100 * m => n < m
  OBVIOUS

\* Sets of samples of which one has all that the other has.
LEMMA FewerSamples ==
  ASSUME NEW n \in Nat, NEW S \in SUBSET (1..n), NEW T \in SUBSET S
  PROVE  Cardinality(T) \in Nat /\ Cardinality(T) <= Cardinality(S)
  <1>1. IsFiniteSet(1..n)
    BY MessagesAreFinite
  <1>2. IsFiniteSet(S)
    BY <1>1, FS_Subset
  <1> QED
    BY <1>2, FS_Subset, FS_CardinalityType

\* What PercentilesSplit says of the samples v.
Splits(v, p) ==
  LET x == Percentile(v, p)
      below == {i \in DOMAIN v : 100 * v[i] < x}
      above == {i \in DOMAIN v : 100 * v[i] > x}
  IN /\ 100 * Cardinality(below) <= (Len(v) - 1) * p + 99
     /\ 100 * Cardinality(above) <= (Len(v) - 1) * (100 - p) + 99
     /\ below # DOMAIN v /\ above # DOMAIN v

LEMMA PercentileSplits ==
  ASSUME NEW v \in Seq(Nat), v # << >>, NEW p \in {50, 90, 99}
  PROVE  Splits(v, p)
  <1> DEFINE n == Len(v)
             D == 1..n
             s == Sorted(v)
             k == (n - 1) * p
             lo == k \div 100
             hi == IF lo + 1 < n THEN lo + 1 ELSE lo
             r == k % 100
             a == s[lo + 1]
             b == s[hi + 1]
             d == b - a
             x == 100 * a + d * r
             below == {i \in D : 100 * v[i] < x}
             above == {i \in D : 100 * v[i] > x}
  <1>1. n \in Nat \ {0} /\ DOMAIN v = D /\ \A i \in D : v[i] \in Nat
    BY LenProperties, EmptySeq, ElementOfSeq
  <1>2. Percentile(v, p) = x
    BY DEF Percentile
  <1> HIDE DEF n, s
  <1>3. /\ k \in Nat /\ lo \in Nat /\ r \in 0..99 /\ k = 100 * lo + r
        /\ lo + 1 \in D /\ (lo + 1 < n \/ r = 0)
        /\ (n - 1) * (100 - p) = 100 * (n - 1) - k
    <2>1. CASE p = 50
      BY <1>1, <2>1
    <2>2. CASE p = 90
      BY <1>1, <2>2
    <2>3. CASE p = 99
      BY <1>1, <2>3
    <2> QED
      BY <2>1, <2>2, <2>3
  <1> HIDE DEF k, lo, r
  <1>4. hi + 1 \in D /\ lo + 1 <= hi + 1 /\ (r # 0 => hi = lo + 1)
    BY <1>1, <1>3
  <1> HIDE DEF hi
  <1>5. \A j \in D : /\ s[j] \in Nat /\ \E i \in D : v[i] = s[j]
                     /\ \A l \in D : j <= l => s[j] <= s[l]
                     /\ Cardinality(Under(v, s[j])) \in Nat
                     /\ Cardinality(Under(v, s[j])) <= j - 1
                     /\ Cardinality(Over(v, s[j])) \in Nat
                     /\ Cardinality(Over(v, s[j])) <= n - j
    <2> SUFFICES ASSUME NEW j \in D
                 PROVE  /\ s[j] \in Nat /\ \E i \in D : v[i] = s[j]
                        /\ \A l \in D : j <= l => s[j] <= s[l]
                        /\ Cardinality(Under(v, s[j])) \in Nat
                        /\ Cardinality(Under(v, s[j])) <= j - 1
                        /\ Cardinality(Over(v, s[j])) \in Nat
                        /\ Cardinality(Over(v, s[j])) <= n - j
      OBVIOUS
    <2>1. Ranked(v, j)
      BY RanksAreHeld DEF n
    <2> QED
      BY <2>1 DEF n, s, Ranked
  <1>6. /\ a \in Nat /\ b \in Nat /\ a <= b
        /\ Cardinality(Under(v, a)) \in Nat /\ Cardinality(Under(v, a)) <= lo
        /\ Cardinality(Under(v, b)) \in Nat /\ Cardinality(Under(v, b)) <= hi
        /\ Cardinality(Over(v, a)) \in Nat /\ Cardinality(Over(v, a)) <= n - (lo + 1)
        /\ (\E i \in D : v[i] = a) /\ (\E i \in D : v[i] = b)
    <2>1. lo + 1 \in D /\ hi + 1 \in D /\ lo + 1 <= hi + 1 /\ (lo + 1) - 1 = lo
          /\ (hi + 1) - 1 = hi
      BY <1>1, <1>3, <1>4 DEF hi
    <2> HIDE DEF D
    <2>2. /\ a \in Nat /\ (\E i \in D : v[i] = a) /\ a <= b
          /\ Cardinality(Under(v, a)) \in Nat /\ Cardinality(Under(v, a)) <= (lo + 1) - 1
          /\ Cardinality(Over(v, a)) \in Nat /\ Cardinality(Over(v, a)) <= n - (lo + 1)
      BY <1>5, <2>1
    <2>3. /\ b \in Nat /\ (\E i \in D : v[i] = b)
          /\ Cardinality(Under(v, b)) \in Nat /\ Cardinality(Under(v, b)) <= (hi + 1) - 1
      BY <1>5, <2>1
    <2> QED
      BY <2>1, <2>2, <2>3
  <1> HIDE DEF a, b
  <1>7. d \in Nat /\ d * r \in Nat /\ d * r <= 100 * d /\ (r = 0 => d * r = 0)
    <2>1. d \in Nat
      BY <1>6
    <2> HIDE DEF d
    <2> QED
      BY <1>3, <2>1, PartOfStep
  <1>8. x \in Nat /\ 100 * a <= x /\ x <= 100 * b /\ (r = 0 => x = 100 * a)
    <2> DEFINE e == d * r
    <2> HIDE DEF e
    <2>1. e \in Nat /\ e <= 100 * (b - a) /\ (r = 0 => e = 0) /\ x = 100 * a + e
      BY <1>7 DEF e
    <2> HIDE DEF x
    <2> QED
      BY <1>6, <2>1
  <1> HIDE DEF x
  <1>9. 100 * Cardinality(below) <= k + 99
    <2> DEFINE c == Cardinality(below)
    <2> SUFFICES 100 * c <= k + 99
      OBVIOUS
    <2>1. CASE r = 0
      <3>1. below \subseteq Under(v, a)
        <4>1. ASSUME NEW i \in D, 100 * v[i] < x PROVE v[i] < a
          <5> DEFINE l == v[i]
          <5>1. l \in Nat /\ a \in Nat /\ x \in Nat /\ x <= 100 * a /\ 100 * l < x
            BY <1>1, <1>6, <1>8, <2>1, <4>1
          <5> HIDE DEF l
          <5>2. l < a
            BY <5>1, Hundredfold
          <5> QED
            BY <5>2 DEF l
        <4> QED
          BY <4>1 DEF Under, n
      <3>2. c \in Nat /\ c <= Cardinality(Under(v, a))
        BY <1>1, <3>1, FewerSamples DEF Under, n
      <3> HIDE DEF c
      <3>3. c <= lo
        BY <1>3, <1>6, <3>2
      <3> QED
        BY <1>3, <2>1, <3>2, <3>3
    <2>2. CASE r # 0
      <3>1. below \subseteq Under(v, b)
        <4>1. ASSUME NEW i \in D, 100 * v[i] < x PROVE v[i] < b
          <5> DEFINE l == v[i]
          <5>1. l \in Nat /\ b \in Nat /\ x \in Nat /\ x <= 100 * b /\ 100 * l < x
            BY <1>1, <1>6, <1>8, <4>1
          <5> HIDE DEF l
          <5>2. l < b
            BY <5>1, Hundredfold
          <5> QED
            BY <5>2 DEF l
        <4> QED
          BY <4>1 DEF Under, n
      <3>2. c \in Nat /\ c <= Cardinality(Under(v, b))
        BY <1>1, <3>1, FewerSamples DEF Under, n
      <3>3. hi = lo + 1 /\ 1 <= r /\ r <= 99
        BY <1>3, <1>4, <2>2
      <3> HIDE DEF c
      <3>4. c <= lo + 1
        BY <1>3, <1>6, <3>2, <3>3
      <3> QED
        BY <1>3, <3>2, <3>3, <3>4
    <2> QED
      BY <2>1, <2>2
  <1>10. 100 * Cardinality(above) <= 100 * (n - 1) - k + 99
    <2>1. above \subseteq Over(v, a)
      <3>1. ASSUME NEW i \in D, 100 * v[i] > x PROVE v[i] > a
        <4> DEFINE l == v[i]
        <4>1. l \in Nat /\ a \in Nat /\ x \in Nat /\ 100 * a <= x /\ 100 * l > x
          BY <1>1, <1>6, <1>8, <3>1
        <4> HIDE DEF l
        <4>2. l > a
          BY <4>1, Hundredfold
        <4> QED
          BY <4>2 DEF l
      <3> QED
        BY <3>1 DEF Over, n
    <2>2. Cardinality(above) \in Nat /\ Cardinality(above) <= Cardinality(Over(v, a))
      BY <1>1, <2>1, FewerSamples DEF Over, n
    <2> DEFINE c == Cardinality(above)
    <2>3. c \in Nat /\ c <= n - (lo + 1)
      <3> HIDE DEF above
      <3> QED
        BY <1>1, <1>3, <1>6, <2>2
    <2>4. k = 100 * lo + r /\ r \in 0..99 /\ lo \in Nat /\ n \in Nat
      BY <1>1, <1>3
    <2> HIDE DEF c
    <2>5. 100 * c <= 100 * (n - 1) - k + 99
      BY <2>3, <2>4
    <2> QED
      BY <2>5 DEF c
  <1>11. above # D
    <2>1. PICK i \in D : v[i] = a
      BY <1>6
    <2>2. i \notin above
      BY <1>6, <1>8, <2>1
    <2> QED
      BY <2>2
  <1>12. below # D
    <2>1. PICK i \in D : v[i] = b
      BY <1>6
    <2>2. i \notin below
      BY <1>6, <1>8, <2>1
    <2> QED
      BY <2>2
  <1>13. 100 * Cardinality(above) <= (n - 1) * (100 - p) + 99
    BY <1>3, <1>10
  <1> HIDE DEF D
  <1>14. /\ below = {i \in DOMAIN v : 100 * v[i] < x}
         /\ above = {i \in DOMAIN v : 100 * v[i] > x}
    BY <1>1
  <1> HIDE DEF below, above
  <1> QED
    BY <1>1, <1>2, <1>9, <1>11, <1>12, <1>13, <1>14 DEF n, k, Splits

\* For any number of threads and whatever the server answers: the counts, the
\* percentiles and the processor time of the report are those of the run
\* (worker_fn, drain_conn, percentile, ProcSampler, main).
THEOREM ReportsAreTrue == BenchSpec => []ReportIsTrue
  <1>1. BenchInv => PercentilesSplit
    <2> SUFFICES ASSUME BenchInv, run.reported PROVE PercentilesSplit
      BY DEF PercentilesSplit
    <2>1. Samples \in Seq(Nat)
      <3> DEFINE x == [w \in Workers |-> Cardinality(sentIn[w] \cap answers[w].ack)]
      <3>1. \A w \in Workers : IsFiniteSet(sentIn[w])
        BY ConnectionsAddUp
      <3>2. x \in [Workers -> Nat]
        <4>1. \A w \in Workers : Cardinality(sentIn[w] \cap answers[w].ack) \in Nat
          BY <3>1, FS_Subset, FS_CardinalityType
        <4> QED
          BY <4>1
      <3>3. \A w \in Workers : x[w] = Cardinality(sentIn[w] \cap answers[w].ack)
        OBVIOUS
      <3> HIDE DEF x
      <3>4. PICK f : Adds(f, x)
        BY <3>2, AddsExists
      <3>5. Samples \in Seq(LatencyValues)
        BY <3>2, <3>3, <3>4, SamplesAddUp
      <3> DEFINE v == Samples
      <3> HIDE DEF v
      <3>6. v \in [1..Len(v) -> LatencyValues] /\ Len(v) \in Nat
        BY <3>5, LenProperties DEF v
      <3>7. v \in [1..Len(v) -> Nat]
        BY <3>6, ThreadsAreCounted
      <3> QED
        BY <3>6, <3>7 DEF v
    <2>2. \A p \in {50, 90, 99} : Samples # << >> => Splits(Samples, p)
      BY <2>1, PercentileSplits
    <2> QED
      BY <2>2 DEF PercentilesSplit, Splits
  <1>2. BenchInv => CpuIsOfTheRun
    BY DEF BenchInv, CpuCounted, CpuIsOfTheRun
  <1>3. BenchInv => ReportIsTrue
    BY <1>1, <1>2, CountsAreTrue DEF ReportIsTrue
  <1> QED
    BY <1>3, BenchStarts, BenchKeeps, PTL DEF BenchSpec
=============================================================================
