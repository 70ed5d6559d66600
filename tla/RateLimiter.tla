----------------------------- MODULE RateLimiter -----------------------------
(***************************************************************************)
(* chat::KeyedRateLimiter and its callers, src/src/rate_limiter.cpp: a     *)
(* token bucket per key.  allow holds the mutex from its first to its last *)
(* statement, but the callers (acceptLoop, *_HELLO, doMessage) read the    *)
(* clock before, so that calls may come with their times swapped.  Tokens  *)
(* are counted in parts of 1/Unit, so that Rate parts per clock tick are   *)
(* whole; the tolerance of 1e-9 is for rounding only.                      *)
(***************************************************************************)
EXTENDS Integers, FiniteSetsExt

CONSTANTS Rate, Burst, Unit, MaxKeys, IdleGc

ASSUME RateLimiterAssumption ==
  /\ {Rate, Burst, Unit, MaxKeys, IdleGc} \subseteq Nat
  /\ Unit > 0
  /\ MaxKeys > 1    \* 10000: half of the keys is at least one

\* An entry that insert has just made: a full bucket that was never refilled.
Entry(now) == [tokens |-> Burst, refilled |-> 0, seen |-> now]

\* Bug: a clock that went back is refilled from, too.
Bug_RefillAbsolute(b, now) ==
  LET add == (IF now > b.refilled THEN now - b.refilled
              ELSE b.refilled - now) * Rate
  IN [b EXCEPT !.tokens = IF @ + add > Burst THEN Burst ELSE @ + add,
               !.refilled = now]

\* TokenBucket::refill: no refill for a clock that stands still or goes back.
Refill(b, now) ==
  IF now <= b.refilled THEN b
  ELSE [b EXCEPT !.tokens = IF @ + (now - b.refilled) * Rate > Burst
                            THEN Burst ELSE @ + (now - b.refilled) * Rate,
                 !.refilled = now]

\* KeyedRateLimiter::gc_locked, first loop: the keys that stay.
Recent(table, now) ==
  {k \in DOMAIN table : ~(now - table[k].seen > IdleGc)}

\* gc_locked, second loop: the first half of the keys, in key order, when
\* none could be spared.
FirstHalf(keys) ==
  {k \in keys : Cardinality({j \in keys : j < k}) < Cardinality(keys) \div 2}

\* Bug: only idle keys are dropped.
Bug_EvictNothing(table, now) == {}

\* What gc_locked drops although it is in use.
Forced(table, now) ==
  IF Cardinality(Recent(table, now)) >= MaxKeys
  THEN FirstHalf(Recent(table, now)) ELSE {}

\* gc_locked.
AfterGc(table, now) ==
  [k \in Recent(table, now) \ Forced(table, now) |-> table[k]]

\* The table in which allow finds its key.
WithKey(table, key, now) ==
  LET room == IF Cardinality(DOMAIN table) >= MaxKeys
              THEN AfterGc(table, now) ELSE table
  IN IF key \in DOMAIN table THEN table
     ELSE [k \in DOMAIN room \cup {key} |->
             IF k = key THEN Entry(now) ELSE room[k]]

\* allow, and with it try_consume: the verdict and the table afterwards.
Allow(table, key, now) ==
  LET found == WithKey(table, key, now)
      b == Refill(found[key], now)
      ok == b.tokens >= Unit
  IN [ok |-> ok,
      table |-> [found EXCEPT ![key] =
        [tokens |-> IF ok THEN b.tokens - Unit ELSE b.tokens,
         refilled |-> b.refilled, seen |-> now]]]

-----------------------------------------------------------------------------
(* A limiter and its callers                                               *)

CONSTANTS
  Keys,      \* addresses or user names, ordered as std::map orders them
  Start,     \* the time of the first call, later than the clock's zero
  MaxTime,   \* bound of the model: the clock
  Skew,      \* bound of the model: how late a call reaches the mutex
  MaxCalls   \* bound of the model: calls of allow

ASSUME CallersAssumption ==
  /\ Keys \subseteq Nat /\ Start \in Nat \ {0} /\ MaxTime \in Nat /\ Skew \in Nat
  /\ MaxCalls \in Nat

VARIABLES
  clock,      \* now_ms() / 1000.0
  table,      \* table_
  granted,    \* history: calls of each key that were let through
  early,      \* history: how often each key was dropped before its bucket
              \* was full again
  calls       \* hits_ + rejects_

limiterVars == <<clock, table, granted, early, calls>>

LimiterInit ==
  /\ clock = Start
  /\ table = << >>
  /\ granted = [k \in Keys |-> 0]
  /\ early = [k \in Keys |-> 0]
  /\ calls = 0

Tick ==
  /\ clock < MaxTime
  /\ clock' = clock + 1
  /\ UNCHANGED <<table, granted, early, calls>>

\* At time t a bucket is full, whether or not refill has been called.
Full(b, t) == b.tokens + (t - b.refilled) * Rate >= Burst

\* A call of allow whose caller read the clock at "now".
Call(key, now) ==
  LET r == Allow(table, key, now)
  IN /\ now \in Start..clock /\ now >= clock - Skew
     /\ calls < MaxCalls /\ calls' = calls + 1
     /\ table' = r.table
     /\ granted' = [granted EXCEPT ![key] = IF r.ok THEN @ + 1 ELSE @]
     /\ early' = [k \in Keys |->
          IF k \in DOMAIN table \ DOMAIN r.table /\ ~Full(table[k], clock - Skew)
          THEN early[k] + 1 ELSE early[k]]
     /\ UNCHANGED clock

LimiterNext ==
  \/ Tick
  \/ \E key \in Keys, now \in Start..MaxTime : Call(key, now)

LimiterSpec == LimiterInit /\ [][LimiterNext]_limiterVars

-----------------------------------------------------------------------------
(* Properties                                                              *)

\* The table never has more than max_keys_ entries, whatever keys call:
\* gc_locked always makes room (insert in allow).
TableIsBounded == Cardinality(DOMAIN table) <= MaxKeys

\* No key gets more than its burst and what its rate has earned since the
\* start, except that each time gc_locked dropped it before its bucket was full
\* it starts with a fresh burst, and at a time that may lie Skew ago.  Apart from
\* that neither swapped times nor the collection of keys gives anything away.
GrantsAreEarned ==
  \A k \in Keys :
    granted[k] * Unit <= (1 + early[k]) * Burst
                         + (clock - Start + early[k] * Skew) * Rate

\* A key that gc_locked drops as idle loses nothing, where a bucket fills while
\* its key is idle: at 50 tokens a second with a burst of 100 and at 20 with a
\* burst of 40 it does, for a key idle for 30 s; main takes any other values.
IdleBucketsAreFull ==
  (IdleGc + 1 - 2 * Skew) * Rate >= Burst =>
    \A k \in DOMAIN table, now \in Start..clock :
      k \notin Recent(table, now) => Full(table[k], clock - Skew)

\* The limiter holds its rates in a table that stays bounded, whatever keys call
\* in whatever order (allow, gc_locked).
LimiterKeepsItsRates == TableIsBounded /\ GrantsAreEarned
=============================================================================
