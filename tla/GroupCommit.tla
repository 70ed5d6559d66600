----------------------------- MODULE GroupCommit -----------------------------
(***************************************************************************)
(* The group-commit protocol of src/src/database.cpp.                      *)
(*                                                                         *)
(* Connection threads share one SQLite connection behind one mutex m_ and  *)
(* one condition variable cv_.  A message writer (insert_room_msg,         *)
(* insert_private_msg) either opens a batch transaction and becomes its    *)
(* starter, or joins the open one; the starter may leave the batch open    *)
(* for a 2 ms window, then commits or rolls back and wakes the joiners,    *)
(* which read the shared result tx_ok_.  Other writers (create_user,       *)
(* create_room, insert_offline, mark_delivered) wait until no batch is     *)
(* open and then autocommit one statement.                                 *)
(*                                                                         *)
(* A step is what one thread does between two statements that touch SQLite *)
(* or the mutex.  A row is <<t, n>>: what the n-th call of thread t writes.*)
(***************************************************************************)
EXTENDS Integers, FiniteSets

CONSTANTS
  Writers,      \* threads calling insert_room_msg / insert_private_msg
  Others,       \* threads calling the writers that stay outside batches
  KBatchMax,    \* kBatchMax: rows a batch may hold (32 in the code)
  KBatchNeed,   \* kBatchNeed: writers at the door that justify the window (4)
  GenMax,       \* largest value of the int tx_gen_ (2^31 - 1 in the code)
  Faults,       \* failures this instance lets SQLite report, see FaultKinds
  MaxCalls,     \* bound of the model: calls each thread makes
  MaxCrashes,   \* bound of the model: process crashes
  NoOne         \* "the mutex is free"

Threads == Writers \cup Others

\* "begin": BEGIN IMMEDIATE fails; "stmt": one statement fails and SQLite keeps
\* the transaction; "fatal": it fails and SQLite rolls the transaction back by
\* itself (disk full, I/O error); "commit": COMMIT fails; "id": the INSERT
\* succeeds and the SELECT of last_insert_id after it fails.
FaultKinds == {"begin", "stmt", "fatal", "commit", "id"}

ASSUME GroupCommitAssumption ==
  /\ Writers \cap Others = {}
  /\ NoOne \notin Threads
  /\ KBatchMax \in Nat \ {0}
  /\ KBatchNeed \in Nat
  /\ GenMax \in Nat
  /\ Faults \subseteq FaultKinds
  /\ MaxCalls \in Nat
  /\ MaxCrashes \in Nat

VARIABLES
  mutex,        \* holder of m_, or NoOne
  asleep,       \* threads blocked inside cv_.wait / cv_.wait_for
  pc, role, myGen, calls,             \* each thread's locals
  inTx, txPending, txGen, txOk,       \* in_tx_, tx_pending_, tx_gen_, tx_ok_
  costly,       \* commit_cost_ns_ >= kCommitCostlyNs
  sqlTx,        \* SQLite itself has an open transaction
  tentative,    \* rows inside that transaction
  durable,      \* rows a crash cannot lose
  acked,        \* history: rows whose call returned an id / success
  nacked,       \* history: rows whose call returned a failure
  late,         \* history: rows answered from a later batch's tx_ok_
  unread,       \* history: rows inserted by a call that could not read their id
  stray,        \* history: rows of a batch inserted after SQLite dropped its
                \* transaction, hence autocommitted
  crashes

threadVars == <<pc, role, myGen, calls>>
batchVars  == <<inTx, txPending, txGen, txOk>>
diskVars   == <<sqlTx, tentative, durable>>
slipVars   == <<late, unread, stray>>
replyVars  == <<acked, nacked, slipVars>>
vars == <<mutex, asleep, threadVars, batchVars, costly, diskVars, replyVars,
          crashes>>

Rows == Threads \X (1..MaxCalls)
Row(t) == <<t, calls[t]>>

Init ==
  /\ mutex = NoOne /\ asleep = {}
  /\ pc = [t \in Threads |-> "idle"]
  /\ role = [t \in Threads |-> "none"]
  /\ myGen = [t \in Threads |-> 0]
  /\ calls = [t \in Threads |-> 0]
  /\ inTx = FALSE /\ txPending = 0 /\ txGen = 0 /\ txOk = TRUE
  /\ costly = FALSE
  /\ sqlTx = FALSE /\ tentative = {} /\ durable = {}
  /\ acked = {} /\ nacked = {} /\ late = {} /\ unread = {} /\ stray = {}
  /\ crashes = 0

-----------------------------------------------------------------------------
(* Steps shared by the operations.                                         *)

\* writers_waiting_: every message writer between WriterProbe's constructor and
\* its destructor, the starter and the joiners of the open batch included.
WritersWaiting == Cardinality({w \in Writers : pc[w] # "idle"})

\* ++tx_gen_ on an int that wraps.
NextGen == IF txGen = GenMax THEN -(GenMax + 1) ELSE txGen + 1

\* cv_.wait: release m_ and block until a notify_all.
Sleep(t) == mutex' = NoOne /\ asleep' = asleep \cup {t}

\* The call returns: m_ is released, the locals are gone, the caller learns the
\* outcome.
Answer(t, ok) ==
  /\ mutex' = NoOne
  /\ role' = [role EXCEPT ![t] = "none"]
  /\ myGen' = [myGen EXCEPT ![t] = 0]
  /\ pc' = [pc EXCEPT ![t] = IF t \in Writers THEN "leave" ELSE "idle"]
  /\ acked' = IF ok THEN acked \cup {Row(t)} ELSE acked
  /\ nacked' = IF ok THEN nacked ELSE nacked \cup {Row(t)}

\* Bug: the result of COMMIT is not looked at.
Bug_ResolveAlwaysOk(committed) ==
  /\ durable' = IF committed THEN durable \cup tentative ELSE durable
  /\ tentative' = {} /\ sqlTx' = FALSE
  /\ inTx' = FALSE /\ txPending' = 0 /\ txOk' = TRUE
  /\ txGen' = NextGen
  /\ asleep' = {}

\* Bug: nobody is woken.
Bug_ResolveSilently(committed) ==
  /\ durable' = IF committed THEN durable \cup tentative ELSE durable
  /\ tentative' = {} /\ sqlTx' = FALSE
  /\ inTx' = FALSE /\ txPending' = 0 /\ txOk' = committed
  /\ txGen' = NextGen
  /\ UNCHANGED asleep

\* resolve_tx_locked: the batch ends, its rows are kept or dropped together,
\* and everybody waiting on cv_ is woken.
Resolve(committed) ==
  /\ durable' = IF committed THEN durable \cup tentative ELSE durable
  /\ tentative' = {} /\ sqlTx' = FALSE
  /\ inTx' = FALSE /\ txPending' = 0 /\ txOk' = committed
  /\ txGen' = NextGen
  /\ asleep' = {}

\* A successful INSERT: into the open transaction, else durable at once.
Store(r) ==
  /\ tentative' = IF sqlTx THEN tentative \cup {r} ELSE tentative
  /\ durable' = IF sqlTx THEN durable ELSE durable \cup {r}
  /\ UNCHANGED sqlTx

\* The same for a message.  A batch whose transaction SQLite has dropped does
\* not know it.
StoreMessage(r) ==
  /\ Store(r)
  /\ stray' = IF inTx /\ ~sqlTx THEN stray \cup {r} ELSE stray

Arrive(t) ==
  /\ pc[t] = "idle" /\ calls[t] < MaxCalls
  /\ pc' = [pc EXCEPT ![t] = "enter"]
  /\ calls' = [calls EXCEPT ![t] = @ + 1]
  /\ UNCHANGED <<mutex, asleep, role, myGen, batchVars, costly, diskVars,
                 replyVars, crashes>>

\* A thread that needs m_ and is not blocked on cv_ gets it.
Lock(t) ==
  /\ mutex = NoOne /\ t \notin asleep
  /\ pc[t] \in {"enter", "window", "commit", "await"}
  /\ mutex' = t
  /\ UNCHANGED <<asleep, threadVars, batchVars, costly, diskVars, replyVars,
                 crashes>>

-----------------------------------------------------------------------------
(* enter_batch_locked                                                      *)

EnterFull(w) ==
  /\ mutex = w /\ pc[w] = "enter" /\ inTx /\ txPending >= KBatchMax
  /\ Sleep(w)
  /\ UNCHANGED <<threadVars, batchVars, costly, diskVars, replyVars, crashes>>

\* Bug: kBatchMax is not enforced.
Bug_JoinFullBatch(w) ==
  /\ mutex = w /\ pc[w] = "enter" /\ inTx
  /\ txPending' = txPending + 1
  /\ asleep' = {}
  /\ role' = [role EXCEPT ![w] = "joiner"]
  /\ myGen' = [myGen EXCEPT ![w] = txGen]
  /\ pc' = [pc EXCEPT ![w] = "insert"]
  /\ UNCHANGED <<mutex, calls, inTx, txGen, txOk, costly, diskVars, replyVars,
                 crashes>>

EnterJoin(w) ==
  /\ mutex = w /\ pc[w] = "enter" /\ inTx /\ txPending < KBatchMax
  /\ txPending' = txPending + 1
  /\ asleep' = {}
  /\ role' = [role EXCEPT ![w] = "joiner"]
  /\ myGen' = [myGen EXCEPT ![w] = txGen]
  /\ pc' = [pc EXCEPT ![w] = "insert"]
  /\ UNCHANGED <<mutex, calls, inTx, txGen, txOk, costly, diskVars, replyVars,
                 crashes>>

EnterStart(w) ==
  /\ mutex = w /\ pc[w] = "enter" /\ ~inTx
  /\ inTx' = TRUE /\ txPending' = 1 /\ sqlTx' = TRUE
  /\ role' = [role EXCEPT ![w] = "starter"]
  /\ myGen' = [myGen EXCEPT ![w] = txGen]
  /\ pc' = [pc EXCEPT ![w] = "insert"]
  /\ UNCHANGED <<mutex, asleep, calls, txGen, txOk, costly, tentative, durable,
                 replyVars, crashes>>

EnterBeginFails(w) ==
  /\ "begin" \in Faults
  /\ mutex = w /\ pc[w] = "enter" /\ ~inTx
  /\ role' = [role EXCEPT ![w] = "auto"]
  /\ myGen' = [myGen EXCEPT ![w] = -1]
  /\ pc' = [pc EXCEPT ![w] = "insert"]
  /\ UNCHANGED <<mutex, asleep, calls, batchVars, costly, diskVars, replyVars,
                 crashes>>

-----------------------------------------------------------------------------
(* The INSERT of insert_room_msg / insert_private_msg, and its failures.   *)

Insert(w) ==
  /\ mutex = w /\ pc[w] = "insert"
  /\ StoreMessage(Row(w))
  /\ pc' = [pc EXCEPT ![w] = "finish"]
  /\ UNCHANGED <<mutex, asleep, role, myGen, calls, batchVars, costly, acked,
                 nacked, late, unread, crashes>>

\* Bug: a starter whose INSERT failed returns without ending its batch.
Bug_StarterLeavesBatchOpen(w) ==
  /\ Faults \cap {"stmt", "fatal"} # {}
  /\ mutex = w /\ pc[w] = "insert" /\ role[w] = "starter"
  /\ Answer(w, FALSE)
  /\ UNCHANGED <<asleep, calls, batchVars, costly, diskVars, slipVars,
                 crashes>>

\* Bug: a starter that could not read its row's id commits its batch.
Bug_StarterCommitsUnread(w) ==
  /\ "id" \in Faults
  /\ mutex = w /\ pc[w] = "insert" /\ role[w] = "starter"
  /\ durable' = durable \cup {Row(w)}
  /\ tentative' = {} /\ sqlTx' = FALSE
  /\ inTx' = FALSE /\ txPending' = 0 /\ txOk' = TRUE
  /\ txGen' = NextGen
  /\ asleep' = {}
  /\ Answer(w, FALSE)
  /\ UNCHANGED <<calls, costly, slipVars, crashes>>

\* id < 0 && starter: the starter rolls its batch back, with its own row if
\* only the id could not be read, and returns -1.
StarterInsertFails(w) ==
  /\ Faults \cap {"stmt", "fatal", "id"} # {}
  /\ mutex = w /\ pc[w] = "insert" /\ role[w] = "starter"
  /\ Resolve(FALSE)
  /\ Answer(w, FALSE)
  /\ UNCHANGED <<calls, costly, slipVars, crashes>>

\* id < 0, not the starter: only this call fails, the batch stays open.  A
\* fatal error has made SQLite drop the transaction the batch believes in.
JoinerInsertFails(w) ==
  /\ mutex = w /\ pc[w] = "insert" /\ role[w] # "starter"
  /\ \/ "stmt" \in Faults /\ UNCHANGED <<sqlTx, tentative>>
     \/ "fatal" \in Faults /\ sqlTx' = FALSE /\ tentative' = {}
  /\ Answer(w, FALSE)
  /\ UNCHANGED <<asleep, calls, batchVars, costly, durable, slipVars, crashes>>

\* The INSERT succeeds and last_insert_id fails: -1 all the same, with the row
\* left in the open batch, or on disk when there is no transaction.
IdUnread(w) ==
  /\ "id" \in Faults
  /\ mutex = w /\ pc[w] = "insert" /\ role[w] # "starter"
  /\ StoreMessage(Row(w))
  /\ unread' = unread \cup {Row(w)}
  /\ Answer(w, FALSE)
  /\ UNCHANGED <<asleep, calls, batchVars, costly, late, crashes>>

-----------------------------------------------------------------------------
(* finish_batch_locked                                                     *)

\* Bug: the fallback reports failure for a row that autocommit has stored.
Bug_FallbackFails(w) ==
  /\ mutex = w /\ pc[w] = "finish" /\ myGen[w] < 0
  /\ Answer(w, FALSE)
  /\ UNCHANGED <<asleep, calls, batchVars, costly, diskVars, slipVars,
                 crashes>>

\* my_gen < 0: the fallback without a transaction; the row is already stored.
FinishAuto(w) ==
  /\ mutex = w /\ pc[w] = "finish" /\ myGen[w] < 0
  /\ Answer(w, TRUE)
  /\ UNCHANGED <<asleep, calls, batchVars, costly, diskVars, slipVars,
                 crashes>>

\* Bug: a joiner does not wait for the COMMIT.
Bug_JoinerDoesNotWait(w) ==
  /\ mutex = w /\ pc[w] = "finish" /\ myGen[w] >= 0 /\ role[w] # "starter"
  /\ Answer(w, TRUE)
  /\ UNCHANGED <<asleep, calls, batchVars, costly, diskVars, slipVars,
                 crashes>>

FinishJoiner(w) ==
  /\ mutex = w /\ pc[w] = "finish" /\ myGen[w] >= 0 /\ role[w] # "starter"
  /\ pc' = [pc EXCEPT ![w] = "await"]
  /\ UNCHANGED <<mutex, asleep, role, myGen, calls, batchVars, costly,
                 diskVars, replyVars, crashes>>

\* Two gates: enough writers at the door, and the last COMMITs were costly.
FinishStarter(w) ==
  /\ mutex = w /\ pc[w] = "finish" /\ myGen[w] >= 0 /\ role[w] = "starter"
  /\ pc' = [pc EXCEPT ![w] = IF WritersWaiting >= KBatchNeed /\ costly
                             THEN "window" ELSE "commit"]
  /\ UNCHANGED <<mutex, asleep, role, myGen, calls, batchVars, costly,
                 diskVars, replyVars, crashes>>

\* cv_.wait_for's predicate: a full batch ends the window at once.
Window(w) ==
  /\ mutex = w /\ pc[w] = "window"
  /\ \/ /\ txPending >= KBatchMax
        /\ pc' = [pc EXCEPT ![w] = "commit"]
        /\ UNCHANGED <<mutex, asleep>>
     \/ txPending < KBatchMax /\ Sleep(w) /\ UNCHANGED pc
  /\ UNCHANGED <<role, myGen, calls, batchVars, costly, diskVars, replyVars,
                 crashes>>

\* kBatchWaitMs have passed.
WindowTimeout(w) ==
  /\ pc[w] = "window" /\ w \in asleep
  /\ asleep' = asleep \ {w}
  /\ pc' = [pc EXCEPT ![w] = "commit"]
  /\ UNCHANGED <<mutex, role, myGen, calls, batchVars, costly, diskVars,
                 replyVars, crashes>>

\* resolve_tx_locked(true).  COMMIT cannot succeed once SQLite has rolled the
\* transaction back by itself; a failed COMMIT is followed by ROLLBACK.
Commit(w) ==
  /\ mutex = w /\ pc[w] = "commit"
  /\ \/ sqlTx /\ Resolve(TRUE)
     \/ ("commit" \in Faults \/ ~sqlTx) /\ Resolve(FALSE)
  /\ costly' \in BOOLEAN
  /\ pc' = [pc EXCEPT ![w] = "report"]
  /\ UNCHANGED <<mutex, role, myGen, calls, replyVars, crashes>>

\* The starter's return tx_ok_: m_ has been held since Commit.
Report(w) ==
  /\ mutex = w /\ pc[w] = "report"
  /\ Answer(w, txOk)
  /\ UNCHANGED <<asleep, calls, batchVars, costly, diskVars, slipVars,
                 crashes>>

\* cv_.wait(lk, tx_gen_ != my_gen)
AwaitSleep(w) ==
  /\ mutex = w /\ pc[w] = "await" /\ txGen = myGen[w]
  /\ Sleep(w)
  /\ UNCHANGED <<threadVars, batchVars, costly, diskVars, replyVars, crashes>>

\* A joiner's return tx_ok_: whatever the last batch to resolve left there.
AwaitReturn(w) ==
  /\ mutex = w /\ pc[w] = "await" /\ txGen # myGen[w]
  /\ Answer(w, txOk)
  /\ late' = IF txGen = myGen[w] + 1 THEN late ELSE late \cup {Row(w)}
  /\ UNCHANGED <<asleep, calls, batchVars, costly, diskVars, unread, stray,
                 crashes>>

\* ~WriterProbe, after the mutex has been released.
Leave(w) ==
  /\ pc[w] = "leave"
  /\ pc' = [pc EXCEPT ![w] = "idle"]
  /\ UNCHANGED <<mutex, asleep, role, myGen, calls, batchVars, costly,
                 diskVars, replyVars, crashes>>

-----------------------------------------------------------------------------
(* create_user, create_room, insert_offline, mark_delivered                *)

\* wait_tx_idle
OtherWait(o) ==
  /\ mutex = o /\ pc[o] = "enter" /\ inTx
  /\ Sleep(o)
  /\ UNCHANGED <<threadVars, batchVars, costly, diskVars, replyVars, crashes>>

\* Bug: wait_tx_idle is missing.
Bug_OtherRidesBatch(o) ==
  /\ mutex = o /\ pc[o] = "enter"
  /\ Store(Row(o)) /\ Answer(o, TRUE)
  /\ UNCHANGED <<asleep, calls, batchVars, costly, slipVars, crashes>>

OtherWrite(o) ==
  /\ mutex = o /\ pc[o] = "enter" /\ ~inTx
  /\ \/ Store(Row(o)) /\ Answer(o, TRUE)
     \/ /\ Faults \cap {"stmt", "fatal"} # {}
        /\ Answer(o, FALSE)
        /\ UNCHANGED diskVars
  /\ UNCHANGED <<asleep, calls, batchVars, costly, slipVars, crashes>>

-----------------------------------------------------------------------------
\* The process dies and restarts: only what SQLite has committed survives.
Crash ==
  /\ crashes < MaxCrashes
  /\ crashes' = crashes + 1
  /\ mutex' = NoOne /\ asleep' = {}
  /\ pc' = [t \in Threads |-> "idle"]
  /\ role' = [t \in Threads |-> "none"]
  /\ myGen' = [t \in Threads |-> 0]
  /\ inTx' = FALSE /\ txPending' = 0 /\ txGen' = 0 /\ txOk' = TRUE
  /\ costly' = FALSE
  /\ sqlTx' = FALSE /\ tentative' = {}
  /\ UNCHANGED <<calls, durable, replyVars>>

\* Every thread has made its calls (the bound of the model) and is idle.
Done ==
  /\ \A t \in Threads : pc[t] = "idle" /\ calls[t] = MaxCalls
  /\ UNCHANGED vars

WriterStep(w) ==
  \/ EnterFull(w) \/ EnterJoin(w) \/ EnterStart(w) \/ EnterBeginFails(w)
  \/ Insert(w) \/ StarterInsertFails(w) \/ JoinerInsertFails(w) \/ IdUnread(w)
  \/ FinishAuto(w) \/ FinishJoiner(w) \/ FinishStarter(w)
  \/ Window(w) \/ WindowTimeout(w) \/ Commit(w) \/ Report(w)
  \/ AwaitSleep(w) \/ AwaitReturn(w) \/ Leave(w)

OtherStep(o) == OtherWait(o) \/ OtherWrite(o)

Next ==
  \/ \E t \in Threads : Arrive(t) \/ Lock(t)
  \/ \E w \in Writers : WriterStep(w)
  \/ \E o \in Others : OtherStep(o)
  \/ Crash
  \/ Done

Spec == Init /\ [][Next]_vars

\* The scheduler runs every runnable thread: one that can go on does, one that
\* waits for a free mutex gets it unless others take it forever.  Arrivals and
\* crashes are not promised.
Fairness ==
  /\ \A t \in Threads : WF_vars(Lock(t))
  /\ \A w \in Writers : WF_vars(WriterStep(w))
  /\ \A o \in Others : WF_vars(OtherStep(o))

FairSpec == Spec /\ Fairness
-----------------------------------------------------------------------------
(* Properties                                                              *)

PcValues == {"idle", "enter", "insert", "finish", "window", "commit",
             "report", "await", "leave"}

\* Every variable stays within its C++ type and its role in the protocol.
TypeOK ==
  /\ mutex \in Threads \cup {NoOne}
  /\ asleep \subseteq Threads
  /\ pc \in [Threads -> PcValues]
  /\ role \in [Threads -> {"none", "starter", "joiner", "auto"}]
  /\ myGen \in [Threads -> Int]
  /\ calls \in [Threads -> Nat]
  /\ inTx \in BOOLEAN /\ txPending \in 0..KBatchMax
  /\ txGen \in Int /\ txOk \in BOOLEAN
  /\ costly \in BOOLEAN /\ sqlTx \in BOOLEAN
  /\ tentative \subseteq Threads \X Nat /\ durable \subseteq Threads \X Nat
  /\ acked \subseteq Threads \X Nat /\ nacked \subseteq Threads \X Nat
  /\ late \subseteq Threads \X Nat /\ unread \subseteq Threads \X Nat
  /\ stray \subseteq Threads \X Nat
  /\ crashes \in Nat

\* "An id is returned only after the batch has been committed" (database.cpp
\* line 19): a call that succeeded has its row on disk, crashes included.
AckIsDurable == acked \subseteq durable

\* The only way to be told "stored" for a row that is not: a joiner that woke
\* so late that another batch had already overwritten tx_ok_.
FalseAckIsLate == acked \ durable \subseteq late

\* The converse: a caller told "failed" (and free to send again under a new
\* seq) has no row on disk, except in three ways: it woke late, only the id of
\* its row could not be read, or its INSERT ran outside the transaction its
\* batch still believed in.
NackIsNotDurable == nacked \cap durable \subseteq late \cup unread \cup stray

\* The threads between opening a batch and resolving it.
Committers == {w \in Writers : /\ role[w] = "starter"
                               /\ pc[w] \in {"insert", "finish", "window",
                                             "commit"}}

\* While a batch is open exactly one thread is committed to resolve it, and no
\* thread is once it is closed: no batch is orphaned, none resolved twice (the
\* early return of resolve_tx_locked never happens).
OpenBatchHasOneStarter ==
  IF inTx THEN \E w \in Writers : Committers = {w} ELSE Committers = {}

\* A batch holds at most kBatchMax rows, all of message writers still inside
\* their call or gone without the id of their row: users, rooms and offline
\* rows never ride in a batch.
BatchIsBounded ==
  /\ Cardinality(tentative) <= txPending /\ txPending <= KBatchMax
  /\ \A r \in tentative :
       /\ r[1] \in Writers
       /\ \/ r \in unread
          \/ /\ r = Row(r[1])
             /\ pc[r[1]] \in {"finish", "window", "commit", "await"}

\* The caller of every insert gets an answer: nobody sleeps on cv_ forever.
EveryCallReturns == \A t \in Threads : pc[t] = "enter" ~> pc[t] = "idle"

\* The protocol keeps the promise of MessageStore: only a call that woke late or
\* could not read the id of its row is refused without being sure.
Promise == INSTANCE MessageStore
  WITH Items <- Rows, stored <- durable, accepted <- acked, refused <- nacked,
       unsure <- nacked \cap (late \cup unread)
KeepsStorePromise == Promise!Spec
=============================================================================
