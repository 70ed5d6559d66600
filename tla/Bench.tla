-------------------------------- MODULE Bench --------------------------------
(***************************************************************************)
(* The load generator, src/tools/bench_client.cpp: what its report says of *)
(* the messages it sent.  A worker thread has one connection here; in the  *)
(* code it serves several in one loop, which share nothing but the loop's  *)
(* phase.  The server is whatever answers on the other end, in order, or    *)
(* never: a connection may break with messages on their way.               *)
(***************************************************************************)
EXTENDS Integers, Sequences, FiniteSets, SequencesExt

CONSTANTS
  Threads,      \* worker threads: their number
  LatencyValues,\* latencies of an answer, in milliseconds
  MaxSends,     \* bound of the model: messages of each connection
  MaxJiffies    \* bound of the model: processor time of the server

ASSUME BenchAssumption ==
  /\ Threads \in Nat /\ LatencyValues \subseteq Nat
  /\ MaxSends \in [1..Threads -> Nat] /\ MaxJiffies \in Nat

\* per_thread: the threads, each with its connection.
Workers == 1..Threads

VARIABLES
  stage,    \* where each worker stands
  conn,     \* its Conn: ready, seq, pending, the counters, the samples
  coming,   \* the answers that it will read, in order
  sentIn,   \* history: the messages sent in the measured window
  answers,  \* history: the answers read since, by message
  run,      \* main's go and stop, and whether it has reported
  proc      \* ProcSampler, and the server's processor time; "missed" is history:
            \* the first reading came to nothing although the server was up

benchVars == <<stage, conn, coming, sentIn, answers, run, proc>>

Counters == [sent |-> 0, acked |-> 0, nacked |-> 0, lost |-> 0]

BenchInit ==
  /\ stage = [w \in Workers |-> "register"]
  /\ conn = [w \in Workers |-> [ready |-> FALSE, tries |-> 0, seq |-> 0,
                                pending |-> {}, count |-> Counters,
                                lats |-> << >>]]
  /\ coming = [w \in Workers |-> << >>]
  /\ sentIn = [w \in Workers |-> {}]
  /\ answers = [w \in Workers |-> [ack |-> {}, nack |-> {}]]
  /\ run = [go |-> FALSE, stop |-> FALSE, reported |-> FALSE]
  /\ proc = [used |-> 1, up |-> TRUE, atGo |-> 0, first |-> -1, last |-> 0,
             cpu |-> 0, missed |-> FALSE]

-----------------------------------------------------------------------------
(* setup_conn                                                              *)

Stays == UNCHANGED <<coming, sentIn, answers, run, proc>>

\* Every false of setup_conn: a wrong address, no answer, an unexpected ERR.
SetupFails(w) ==
  /\ stage[w] \in {"register", "login", "room"}
  /\ stage' = [stage EXCEPT ![w] = "wait"]
  /\ conn' = [conn EXCEPT ![w].tries = 0]
  /\ Stays

\* REGISTER_OK, or E1001 of an earlier run.
Registered(w) ==
  /\ stage[w] = "register"
  /\ stage' = [stage EXCEPT ![w] = "login"]
  /\ Stays /\ UNCHANGED conn

LoggedIn(w) ==
  /\ stage[w] = "login"
  /\ stage' = [stage EXCEPT ![w] = "room"]
  /\ conn' = [conn EXCEPT ![w].tries = 0]
  /\ Stays

\* E1004: the connection of an earlier run is still known.  The fourth attempt
\* is the last: SetupFails.
StillOnline(w) ==
  /\ stage[w] = "login"
  /\ conn[w].tries < 3
  /\ conn' = [conn EXCEPT ![w].tries = @ + 1]
  /\ UNCHANGED stage
  /\ Stays

\* CREATE, whatever it says, and JOIN_OK.
JoinedRoom(w) ==
  /\ stage[w] = "room"
  /\ stage' = [stage EXCEPT ![w] = "wait"]
  /\ conn' = [conn EXCEPT ![w].ready = TRUE]
  /\ Stays

-----------------------------------------------------------------------------
(* worker_fn, after setup                                                  *)

Begin(w) ==
  /\ stage[w] = "wait" /\ run.go
  /\ stage' = [stage EXCEPT ![w] = "warmup"]
  /\ Stays /\ UNCHANGED conn

\* The warm-up's counts are thrown away; the sequence goes on.
Measure(w) ==
  /\ stage[w] = "warmup" /\ ~run.stop
  /\ stage' = [stage EXCEPT ![w] = "measure"]
  /\ conn' = [conn EXCEPT ![w].count = Counters, ![w].pending = {},
                          ![w].lats = << >>]
  /\ Stays

\* A MESSAGE that is due.  On a connection that is broken send fails, or
\* succeeds and the message is lost; on another the server will answer.
SendMessage(w) ==
  /\ stage[w] \in {"warmup", "measure"} /\ ~run.stop
  /\ conn[w].ready /\ conn[w].seq < MaxSends[w]
  /\ LET n == conn[w].seq + 1
         counts == stage[w] = "measure"
     IN \/ /\ conn' = [conn EXCEPT ![w].seq = n,
                 ![w].count.sent = IF counts THEN @ + 1 ELSE @,
                 ![w].pending = IF counts THEN @ \cup {n} ELSE @]
           /\ \/ \E type \in {"ACK", "NACK"} :
                   coming' = [coming EXCEPT ![w] =
                                Append(@, [type |-> type, seq |-> n])]
              \/ UNCHANGED coming
           /\ sentIn' = [sentIn EXCEPT ![w] = IF counts THEN @ \cup {n} ELSE @]
        \/ /\ conn' = [conn EXCEPT ![w].seq = n]
           /\ UNCHANGED <<coming, sentIn>>
  /\ UNCHANGED <<stage, answers, run, proc>>

\* Bug: every ACK is counted, also those of the warm-up.
Bug_Acked(c, n, ms) ==
  [c EXCEPT !.pending = @ \ {n}, !.count.acked = @ + 1,
            !.lats = Append(@, ms)]

\* drain_conn: an ACK of message n, ms after it was sent.
Acked(c, n, ms) ==
  IF n \in c.pending
  THEN [c EXCEPT !.pending = @ \ {n}, !.count.acked = @ + 1,
                 !.lats = Append(@, ms)]
  ELSE c

Nacked(c, n) ==
  IF n \in c.pending
  THEN [c EXCEPT !.pending = @ \ {n}, !.count.nacked = @ + 1] ELSE c

DrainConn(w) ==
  /\ stage[w] \in {"warmup", "measure", "tail"} /\ conn[w].ready
  /\ coming[w] # << >>
  /\ coming' = [coming EXCEPT ![w] = Tail(@)]
  /\ LET f == Head(coming[w])
     IN IF f.type = "ACK"
        THEN /\ \E ms \in LatencyValues :
                  conn' = [conn EXCEPT ![w] = Acked(@, f.seq, ms)]
             /\ answers' = [answers EXCEPT ![w].ack = @ \cup {f.seq}]
        ELSE /\ conn' = [conn EXCEPT ![w] = Nacked(@, f.seq)]
             /\ answers' = [answers EXCEPT ![w].nack = @ \cup {f.seq}]
  /\ UNCHANGED <<stage, sentIn, run, proc>>

\* The window is over, or there is nothing to measure.
WindowEnds(w) ==
  /\ stage[w] \in {"warmup", "measure"}
  /\ stage' = [stage EXCEPT ![w] = "tail"]
  /\ Stays /\ UNCHANGED conn

\* The 1.5 s for late answers are over, too.
Finished(w) ==
  /\ stage[w] = "tail"
  /\ stage' = [stage EXCEPT ![w] = "done"]
  /\ conn' = [conn EXCEPT ![w].count.lost = Cardinality(conn[w].pending)]
  /\ Stays

-----------------------------------------------------------------------------
(* main, ProcSampler, and the server                                       *)

\* ready_count
ReadyCount == Cardinality({w \in Workers : conn[w].ready})

Go ==
  /\ ~run.go /\ \A w \in Workers : stage[w] = "wait"
  /\ run' = [run EXCEPT !.go = TRUE, !.stop = ReadyCount = 0]
  /\ proc' = [proc EXCEPT !.atGo = proc.used]
  /\ UNCHANGED <<stage, conn, coming, sentIn, answers>>

\* What /proc/<pid>/stat may say: the time the server has used, or 0 when it
\* cannot be opened or parsed, which is always so when the server has ended.
Readings(p) == {0} \cup (IF p.up THEN {p.used} ELSE {})

\* Bug: the first sample is not remembered.
Bug_ReadOnce(p, jiffies) == [p EXCEPT !.first = 0, !.last = jiffies]

\* ProcSampler::read_once; a reading that fails is taken for one of 0.
ReadOnce(p, jiffies) ==
  [p EXCEPT !.first = IF p.first < 0 THEN jiffies ELSE @,
            !.last = jiffies,
            !.missed = @ \/ (p.first < 0 /\ p.up /\ jiffies # p.used)]

\* The sampling thread.  Of its readings only the first and stop_and_sum's
\* last are used for the processor time.
Sample ==
  /\ run.go /\ ~run.stop /\ ~run.reported /\ proc.first < 0
  /\ \E jiffies \in Readings(proc) : proc' = ReadOnce(proc, jiffies)
  /\ UNCHANGED <<stage, conn, coming, sentIn, answers, run>>

\* The workers are joined; stop_and_sum and the summary follow.
Report ==
  /\ run.go /\ ~run.stop /\ ~run.reported
  /\ \A w \in Workers : stage[w] = "done"
  /\ run' = [run EXCEPT !.reported = TRUE]
  /\ \E jiffies \in Readings(proc) :
       LET p == ReadOnce(proc, jiffies)
       IN proc' = [p EXCEPT !.cpu = IF p.last > p.first THEN p.last - p.first ELSE 0]
  /\ UNCHANGED <<stage, conn, coming, sentIn, answers>>

\* What the summary adds up, thread by thread: a counter of the connections
\* that were ready.
Total(field) ==
  LET sum[t \in 0..Threads] ==
        IF t = 0 THEN 0
        ELSE sum[t - 1] + (IF conn[t].ready THEN conn[t].count[field] ELSE 0)
  IN sum[Threads]

\* And their samples, put together.
Samples ==
  FlattenSeq([t \in Workers |-> IF conn[t].ready THEN conn[t].lats ELSE << >>])

\* std::sort
Sorted(v) ==
  LET order == CHOOSE p \in Bijection(DOMAIN v, DOMAIN v) :
                 \A i, j \in DOMAIN v : i < j => v[p[i]] <= v[p[j]]
  IN [i \in DOMAIN v |-> v[order[i]]]

\* Bug: the position is that of n samples, not of n - 1 steps between them.
Bug_Percentile(v, p) ==
  LET sorted == Sorted(v)
      k == Len(v) * p
      lo == k \div 100
      hi == IF lo + 1 < Len(v) THEN lo + 1 ELSE lo
      Value(i) == sorted[IF i < Len(v) THEN i + 1 ELSE Len(v)]
  IN IF v = << >> THEN 0
     ELSE 100 * Value(lo) + (Value(hi) - Value(lo)) * (k % 100)

\* percentile, times 100: between two samples it interpolates.
Percentile(v, p) ==
  LET sorted == Sorted(v)
      k == (Len(v) - 1) * p
      lo == k \div 100
      hi == IF lo + 1 < Len(v) THEN lo + 1 ELSE lo
  IN IF v = << >> THEN 0
     ELSE 100 * sorted[lo + 1] + (sorted[hi + 1] - sorted[lo + 1]) * (k % 100)

ServerWorks ==
  /\ proc.up /\ run.go /\ ~run.reported
  /\ \/ proc.used < MaxJiffies /\ proc' = [proc EXCEPT !.used = @ + 1]
     \/ proc' = [proc EXCEPT !.up = FALSE]
  /\ UNCHANGED <<stage, conn, coming, sentIn, answers, run>>

BenchNext ==
  \/ \E w \in Workers :
       \/ SetupFails(w) \/ Registered(w) \/ LoggedIn(w) \/ StillOnline(w)
       \/ JoinedRoom(w) \/ Begin(w) \/ Measure(w) \/ SendMessage(w) \/ DrainConn(w)
       \/ WindowEnds(w) \/ Finished(w)
  \/ Go \/ Sample \/ Report \/ ServerWorks

-----------------------------------------------------------------------------
(* Properties                                                              *)

\* The report accounts for every message that was sent in the window, once:
\* acknowledged, refused or lost, whatever answers to messages of the warm-up
\* arrive in the window, and whatever connections break (drain_conn and the
\* summary of main).
ReportAddsUp ==
  run.reported =>
    LET Number(messages) == Cardinality(UNION {{w} \X messages[w] : w \in Workers})
    IN /\ Total("sent") = Number(sentIn)
       /\ Total("acked") = Number([w \in Workers |-> sentIn[w] \cap answers[w].ack])
       /\ Total("nacked") = Number([w \in Workers |-> sentIn[w] \cap answers[w].nack])
       /\ Total("lost") = Total("sent") - Total("acked") - Total("nacked")
       /\ Len(Samples) = Total("acked")

\* The processor time of the report is time the server used during the run,
\* also when it ends in the middle of it and when readings fail, but for one:
\* after a first reading that failed it may be all the time the server has
\* ever used (ProcSampler).
CpuIsOfTheRun ==
  run.reported =>
    proc.cpu <= (IF proc.missed THEN proc.used ELSE proc.used - proc.atGo)

\* A percentile of the report has at most its share of the samples below it
\* and at most the rest above it, and no percentile leaves the samples' range
\* (percentile).
PercentilesSplit ==
  run.reported =>
    \A p \in {50, 90, 99} :
      LET v == Samples
          x == Percentile(v, p)
          below == {i \in DOMAIN v : 100 * v[i] < x}
          above == {i \in DOMAIN v : 100 * v[i] > x}
      IN v # << >> =>
           /\ 100 * Cardinality(below) <= (Len(v) - 1) * p + 99
           /\ 100 * Cardinality(above) <= (Len(v) - 1) * (100 - p) + 99
           /\ below # DOMAIN v /\ above # DOMAIN v

\* What the load generator reports is true of the run it was started for: its
\* counts, its percentiles and its processor time (the summary of main).
ReportIsTrue == ReportAddsUp /\ PercentilesSplit /\ CpuIsOfTheRun
=============================================================================
