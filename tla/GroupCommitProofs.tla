-------------------------- MODULE GroupCommitProofs --------------------------
(***************************************************************************)
(* Theorems about GroupCommit, for any number of threads, any batch size,  *)
(* any mix of failures and any number of crashes.                          *)
(*                                                                         *)
(* Typing is inductive by itself.  The safety theorems rest on IInv, which *)
(* says where each thread of a batch stands and what that implies for the  *)
(* shared state.  IInv is inductive as long as the int tx_gen_ has not     *)
(* wrapped (NoWrap): a joiner recognises its batch by that number only.    *)
(*                                                                         *)
(* CallsInv adds that a row is that of a call made, and is answered after  *)
(* it was written; with it SizeInv counts the rows of a batch, NackInv     *)
(* says that a failure leaves none, and the refinement of MessageStore     *)
(* goes through action by action.                                          *)
(***************************************************************************)
EXTENDS GroupCommit, FiniteSetTheorems, TLAPS

\* tx_gen_ has not overflowed.
NoWrap == txGen >= 0

-----------------------------------------------------------------------------
(* The inductive invariant.                                                *)

\* Locals of a call exist only while it is inside the protocol, and its place
\* there fits its role.
LocalsInv ==
  \A t \in Threads :
    /\ t \in Others => pc[t] \in {"idle", "enter"}
    /\ pc[t] \in {"idle", "enter", "leave"} <=> role[t] = "none"
    /\ pc[t] \in {"window", "commit", "report"} => role[t] = "starter"
    /\ pc[t] = "await" => role[t] = "joiner"

\* Between two releases of m_ a thread is its holder, and a holder is awake.
MutexInv ==
  \A t \in Threads :
    /\ pc[t] \in {"insert", "finish", "report"} => mutex = t
    /\ mutex = t => t \notin asleep

\* A starter between BEGIN and COMMIT belongs to the open batch; no two threads
\* are there together, and one is there while a batch is open.
StarterInv ==
  /\ \A w \in Committers : inTx /\ myGen[w] = txGen
  /\ \A v, w \in Committers : v = w
  /\ inTx => Committers # {}

\* A joiner belongs to the open batch, or waits for the result of a closed one.
JoinerInv ==
  \A w \in Writers :
    role[w] = "joiner" =>
      /\ 0 <= myGen[w] /\ myGen[w] <= txGen
      /\ myGen[w] = txGen => inTx
      /\ pc[w] \in {"insert", "finish"} => myGen[w] = txGen

\* The fallback writer works outside any transaction.
AutoInv ==
  \A w \in Writers :
    role[w] = "auto" => myGen[w] < 0 /\ ~inTx

\* SQLite's transaction exists only inside a batch, and holds all the rows that
\* are not yet durable.
SqlInv == (sqlTx => inTx) /\ (tentative # {} => sqlTx)

\* The batch's members that have executed their INSERT.
Inserted(w) ==
  /\ role[w] \in {"starter", "joiner"}
  /\ pc[w] \in {"finish", "window", "commit", "await"}
  /\ myGen[w] = txGen

\* While SQLite keeps the transaction, it holds their rows.
RowInv == \A w \in Writers : sqlTx /\ Inserted(w) => Row(w) \in tentative

\* What tx_ok_ tells those entitled to read it is true.
ResultInv ==
  \A w \in Writers :
    /\ pc[w] = "report" /\ txOk => Row(w) \in durable
    /\ pc[w] = "await" /\ txGen = myGen[w] + 1 /\ txOk => Row(w) \in durable
    /\ pc[w] = "finish" /\ role[w] = "auto" => Row(w) \in durable

IInv ==
  /\ LocalsInv /\ MutexInv /\ StarterInv /\ JoinerInv /\ AutoInv
  /\ SqlInv /\ RowInv /\ ResultInv /\ FalseAckIsLate

-----------------------------------------------------------------------------
(* Type correctness.                                                       *)

LEMMA InitTypeOK == Init => TypeOK
  <1> SUFFICES ASSUME Init PROVE TypeOK
    OBVIOUS
  <1>1. txPending \in 0..KBatchMax /\ txGen \in Int
    BY GroupCommitAssumption DEF Init
  <1>2. /\ inTx \in BOOLEAN /\ txOk \in BOOLEAN
        /\ costly \in BOOLEAN /\ sqlTx \in BOOLEAN
    BY DEF Init
  <1>3. /\ tentative \subseteq Threads \X Nat
        /\ durable \subseteq Threads \X Nat
        /\ acked \subseteq Threads \X Nat
        /\ nacked \subseteq Threads \X Nat
        /\ late \subseteq Threads \X Nat
        /\ unread \subseteq Threads \X Nat
        /\ stray \subseteq Threads \X Nat
    BY DEF Init
  <1>4. /\ pc \in [Threads -> PcValues]
        /\ role \in [Threads -> {"none", "starter", "joiner", "auto"}]
        /\ myGen \in [Threads -> Int]
        /\ calls \in [Threads -> Nat]
    BY DEF Init, PcValues
  <1>5. mutex \in Threads \cup {NoOne} /\ asleep \subseteq Threads /\ crashes \in Nat
    BY DEF Init
  <1> QED
    BY <1>1, <1>2, <1>3, <1>4, <1>5, Zenon DEF TypeOK

LEMMA AnswerTypeOK ==
  ASSUME TypeOK, NEW t \in Threads, NEW ok \in BOOLEAN, Answer(t, ok)
  PROVE  /\ mutex' \in Threads \cup {NoOne}
         /\ pc' \in [Threads -> PcValues]
         /\ role' \in [Threads -> {"none", "starter", "joiner", "auto"}]
         /\ myGen' \in [Threads -> Int]
         /\ acked' \subseteq Threads \X Nat /\ nacked' \subseteq Threads \X Nat
  BY DEF TypeOK, Answer, Row, PcValues

LEMMA ResolveTypeOK ==
  ASSUME TypeOK, NEW committed \in BOOLEAN, Resolve(committed)
  PROVE  /\ durable' \subseteq Threads \X Nat
         /\ tentative' \subseteq Threads \X Nat
         /\ sqlTx' \in BOOLEAN /\ inTx' \in BOOLEAN /\ txOk' \in BOOLEAN
         /\ txPending' \in 0..KBatchMax /\ txGen' \in Int
         /\ asleep' \subseteq Threads
  <1>1. txPending' \in 0..KBatchMax /\ txGen' \in Int
    BY GroupCommitAssumption DEF TypeOK, Resolve, NextGen
  <1>2. /\ durable' \subseteq Threads \X Nat /\ tentative' \subseteq Threads \X Nat
        /\ asleep' \subseteq Threads
    BY DEF TypeOK, Resolve
  <1>3. sqlTx' \in BOOLEAN /\ inTx' \in BOOLEAN /\ txOk' \in BOOLEAN
    BY DEF Resolve
  <1> QED
    BY <1>1, <1>2, <1>3

LEMMA MessageTypeOK ==
  ASSUME TypeOK, NEW r \in Threads \X Nat, StoreMessage(r)
  PROVE  /\ durable' \subseteq Threads \X Nat /\ tentative' \subseteq Threads \X Nat
         /\ stray' \subseteq Threads \X Nat
         /\ sqlTx' \in BOOLEAN
  BY DEF TypeOK, StoreMessage, Store

LEMMA WriterStepTypeOK ==
  ASSUME TypeOK, NEW w \in Writers, WriterStep(w)
  PROVE  TypeOK'
  <1>t. w \in Threads  BY DEF Threads
  <1> USE <1>t, GroupCommitAssumption
  <1>1. CASE EnterFull(w)
    BY <1>1 DEF TypeOK, EnterFull, Sleep, threadVars, batchVars, diskVars, replyVars, slipVars
  <1>2. CASE EnterJoin(w)
    BY <1>2 DEF TypeOK, PcValues, EnterJoin, diskVars, replyVars, slipVars
  <1>3. CASE EnterStart(w)
    BY <1>3 DEF TypeOK, PcValues, EnterStart, replyVars, slipVars
  <1>4. CASE EnterBeginFails(w)
    BY <1>4 DEF TypeOK, PcValues, EnterBeginFails, batchVars, diskVars, replyVars, slipVars
  <1>5. CASE Insert(w)
    BY <1>5, MessageTypeOK DEF TypeOK, PcValues, Insert, Row, batchVars
  <1>6. CASE StarterInsertFails(w)
    BY <1>6, AnswerTypeOK, ResolveTypeOK DEF TypeOK, StarterInsertFails, slipVars
  <1>7. CASE JoinerInsertFails(w)
    BY <1>7, AnswerTypeOK DEF TypeOK, JoinerInsertFails, batchVars, slipVars
  <1>8. CASE FinishAuto(w)
    BY <1>8, AnswerTypeOK DEF TypeOK, FinishAuto, batchVars, diskVars, slipVars
  <1>9. CASE FinishJoiner(w)
    BY <1>9 DEF TypeOK, PcValues, FinishJoiner, batchVars, diskVars, replyVars, slipVars
  <1>10. CASE FinishStarter(w)
    BY <1>10 DEF TypeOK, PcValues, FinishStarter, batchVars, diskVars, replyVars, slipVars
  <1>11. CASE Window(w)
    BY <1>11 DEF TypeOK, PcValues, Window, Sleep, batchVars, diskVars, replyVars, slipVars
  <1>12. CASE WindowTimeout(w)
    BY <1>12 DEF TypeOK, PcValues, WindowTimeout, batchVars, diskVars, replyVars, slipVars
  <1>13. CASE Commit(w)
    BY <1>13, ResolveTypeOK DEF TypeOK, PcValues, Commit, replyVars, slipVars
  <1>14. CASE Report(w)
    BY <1>14, AnswerTypeOK DEF TypeOK, Report, batchVars, diskVars, slipVars
  <1>15. CASE AwaitSleep(w)
    BY <1>15 DEF TypeOK, AwaitSleep, Sleep, threadVars, batchVars, diskVars, replyVars, slipVars
  <1>16. CASE AwaitReturn(w)
    BY <1>16, AnswerTypeOK DEF TypeOK, AwaitReturn, Row, batchVars, diskVars
  <1>17. CASE Leave(w)
    BY <1>17 DEF TypeOK, PcValues, Leave, batchVars, diskVars, replyVars, slipVars
  <1>18. CASE IdUnread(w)
    <2>1. Row(w) \in Threads \X Nat
      BY DEF TypeOK, Row
    <2>2. Answer(w, FALSE) /\ StoreMessage(Row(w)) /\ unread' = unread \cup {Row(w)}
      BY <1>18 DEF IdUnread
    <2>3. unread' \subseteq Threads \X Nat
      BY <2>1, <2>2 DEF TypeOK
    <2> QED
      BY <1>18, <2>1, <2>2, <2>3, AnswerTypeOK, MessageTypeOK
      DEF TypeOK, IdUnread, batchVars
  <1> QED
    BY <1>1, <1>2, <1>3, <1>4, <1>5, <1>6, <1>7, <1>8, <1>9, <1>10, <1>11, <1>12,
       <1>13, <1>14, <1>15, <1>16, <1>17, <1>18 DEF WriterStep

LEMMA NextTypeOK == TypeOK /\ [Next]_vars => TypeOK'
  <1> SUFFICES ASSUME TypeOK, [Next]_vars PROVE TypeOK'
    OBVIOUS
  <1> USE GroupCommitAssumption
  <1>1. ASSUME NEW t \in Threads, Arrive(t) PROVE TypeOK'
    BY <1>1 DEF TypeOK, PcValues, Arrive, batchVars, diskVars, replyVars, slipVars
  <1>2. ASSUME NEW t \in Threads, Lock(t) PROVE TypeOK'
    BY <1>2 DEF TypeOK, Lock, threadVars, batchVars, diskVars, replyVars, slipVars
  <1>3. ASSUME NEW w \in Writers, WriterStep(w) PROVE TypeOK'
    BY <1>3, WriterStepTypeOK
  <1>4. ASSUME NEW o \in Others, OtherWait(o) PROVE TypeOK'
    BY <1>4 DEF Threads, TypeOK, OtherWait, Sleep, threadVars, batchVars, diskVars,
                replyVars, slipVars
  <1>5. ASSUME NEW o \in Others, OtherWrite(o) PROVE TypeOK'
    <2>t. o \in Threads
      BY DEF Threads
    <2>1. Answer(o, TRUE) \/ Answer(o, FALSE)
      BY <1>5 DEF OtherWrite
    <2>2. durable' \subseteq Threads \X Nat /\ tentative' \subseteq Threads \X Nat
      <3>1. Row(o) \in Threads \X Nat
        BY <2>t DEF TypeOK, Row
      <3>2. Store(Row(o)) \/ UNCHANGED diskVars
        BY <1>5 DEF OtherWrite
      <3>3. CASE Store(Row(o))
        BY <3>1, <3>3 DEF TypeOK, Store
      <3>4. CASE UNCHANGED diskVars
        BY <3>4 DEF TypeOK, diskVars
      <3> QED
        BY <3>2, <3>3, <3>4
    <2>3. UNCHANGED sqlTx
      BY <1>5 DEF OtherWrite, Store, diskVars
    <2> QED
      BY <1>5, <2>t, <2>1, <2>2, <2>3, AnswerTypeOK
      DEF TypeOK, OtherWrite, batchVars, slipVars
  <1>6. CASE Crash
    <2>1. inTx' \in BOOLEAN /\ txOk' \in BOOLEAN /\ costly' \in BOOLEAN /\ sqlTx' \in BOOLEAN
      BY <1>6 DEF Crash
    <2>2. txPending' \in 0..KBatchMax /\ txGen' \in Int /\ crashes' \in Nat
      BY <1>6 DEF TypeOK, Crash
    <2>3. /\ pc' \in [Threads -> PcValues]
          /\ role' \in [Threads -> {"none", "starter", "joiner", "auto"}]
          /\ myGen' \in [Threads -> Int]
      BY <1>6 DEF PcValues, Crash
    <2>4. /\ mutex' \in Threads \cup {NoOne} /\ asleep' \subseteq Threads
          /\ tentative' \subseteq Threads \X Nat
      BY <1>6 DEF Crash
    <2>5. UNCHANGED <<calls, durable, acked, nacked, late, unread, stray>>
      BY <1>6 DEF Crash, replyVars, slipVars
    <2> QED
      BY <2>1, <2>2, <2>3, <2>4, <2>5 DEF TypeOK
  <1>7. CASE UNCHANGED vars
    BY <1>7 DEF TypeOK, vars, threadVars, batchVars, diskVars, replyVars, slipVars
  <1> QED
    BY <1>1, <1>2, <1>3, <1>4, <1>5, <1>6, <1>7 DEF Next, OtherStep, Done

\* Every variable of the protocol keeps its type: in particular tx_pending_
\* never exceeds kBatchMax, whatever fails and whenever the process dies.
THEOREM TypeCorrect == Spec => []TypeOK
  BY InitTypeOK, NextTypeOK, PTL DEF Spec

-----------------------------------------------------------------------------
(* IInv is inductive while tx_gen_ has not wrapped.                        *)

LEMMA InitIInv == Init => IInv
  BY GroupCommitAssumption
  DEF Init, IInv, LocalsInv, MutexInv, StarterInv, JoinerInv, AutoInv, SqlInv,
      RowInv, Inserted, ResultInv, FalseAckIsLate, Committers, Threads

\* A thread that goes to wait for the result is a joiner: only the fallback has
\* a negative generation.
LEMMA FinishJoinerRole ==
  ASSUME TypeOK, IInv, NEW w \in Writers, FinishJoiner(w)
  PROVE  role[w] = "joiner"
  BY DEF TypeOK, IInv, LocalsInv, AutoInv, FinishJoiner, Threads

LEMMA WriterStepIInv ==
  ASSUME TypeOK, IInv, NoWrap, NoWrap', NEW w \in Writers, WriterStep(w)
  PROVE  IInv'
  <1> USE GroupCommitAssumption, SMTT(20)
      DEF TypeOK, IInv, LocalsInv, MutexInv, StarterInv, JoinerInv, AutoInv,
          SqlInv, RowInv, Inserted, ResultInv, FalseAckIsLate, Committers,
          Threads, Row, NoWrap, threadVars, batchVars, diskVars, replyVars, slipVars
  \* Entering: the batch gets its starter, or one more joiner of its generation.
  <1>1. CASE EnterFull(w)           BY <1>1 DEF EnterFull, Sleep
  <1>2. CASE EnterJoin(w)           BY <1>2 DEF EnterJoin
  <1>3. CASE EnterStart(w)          BY <1>3 DEF EnterStart, PcValues
  <1>4. CASE EnterBeginFails(w)     BY <1>4 DEF EnterBeginFails
  \* The INSERT: the row is in the transaction, or the call is over.
  <1>5. CASE Insert(w)              BY <1>5 DEF Insert, StoreMessage, Store
  <1>6. CASE StarterInsertFails(w)
    BY <1>6 DEF StarterInsertFails, Answer, Resolve, NextGen
  <1>7. CASE JoinerInsertFails(w)   BY <1>7 DEF JoinerInsertFails, Answer
  \* Waiting: only the place of the thread changes.
  <1>8. CASE FinishAuto(w)          BY <1>8 DEF FinishAuto, Answer
  <1>9. CASE FinishJoiner(w)        BY <1>9, FinishJoinerRole DEF FinishJoiner
  <1>10. CASE FinishStarter(w)      BY <1>10 DEF FinishStarter
  <1>11. CASE Window(w)             BY <1>11 DEF Window, Sleep
  <1>12. CASE WindowTimeout(w)      BY <1>12 DEF WindowTimeout
  \* The batch ends: its joiners now stand one generation behind, and tx_ok_
  \* says whether their rows, all of them in the transaction, are durable.
  <1>13. CASE Commit(w)             BY <1>13 DEF Commit, Resolve, NextGen
  <1>14. CASE Report(w)             BY <1>14 DEF Report, Answer
  <1>15. CASE AwaitSleep(w)         BY <1>15 DEF AwaitSleep, Sleep
  <1>16. CASE AwaitReturn(w)        BY <1>16 DEF AwaitReturn, Answer
  <1>17. CASE Leave(w)              BY <1>17 DEF Leave
  <1>18. CASE IdUnread(w)
    BY <1>18 DEF IdUnread, StoreMessage, Store, Answer
  <1> HIDE DEF TypeOK, IInv, NoWrap
  <1> QED
    BY <1>1, <1>2, <1>3, <1>4, <1>5, <1>6, <1>7, <1>8, <1>9, <1>10, <1>11,
       <1>12, <1>13, <1>14, <1>15, <1>16, <1>17, <1>18 DEF WriterStep

LEMMA NextIInv == TypeOK /\ IInv /\ NoWrap /\ NoWrap' /\ [Next]_vars => IInv'
  <1> SUFFICES ASSUME TypeOK, IInv, NoWrap, NoWrap', [Next]_vars PROVE IInv'
    OBVIOUS
  <1>1. ASSUME NEW w \in Writers, WriterStep(w) PROVE IInv'
    BY <1>1, WriterStepIInv
  <1> USE GroupCommitAssumption
      DEF TypeOK, IInv, LocalsInv, MutexInv, StarterInv, JoinerInv, AutoInv,
          SqlInv, RowInv, Inserted, ResultInv, FalseAckIsLate, Committers,
          Threads, Row, threadVars, batchVars, diskVars, replyVars, slipVars
  <1>2. ASSUME NEW t \in Threads, Arrive(t) PROVE IInv'
    BY <1>2 DEF Arrive
  <1>3. ASSUME NEW t \in Threads, Lock(t) PROVE IInv'
    BY <1>3 DEF Lock
  <1>4. ASSUME NEW o \in Others, OtherWait(o) PROVE IInv'
    BY <1>4 DEF OtherWait, Sleep
  \* No batch is open, hence no SQLite transaction: the row is durable at once.
  <1>5. ASSUME NEW o \in Others, OtherWrite(o) PROVE IInv'
    BY <1>5 DEF OtherWrite, Store, Answer
  <1>6. CASE Crash
    BY <1>6 DEF Crash
  <1>7. CASE UNCHANGED vars
    BY <1>7 DEF vars
  <1> HIDE DEF TypeOK, IInv
  <1> QED
    BY <1>1, <1>2, <1>3, <1>4, <1>5, <1>6, <1>7 DEF Next, OtherStep, Done

LEMMA IInvHolds == Spec /\ []NoWrap => []IInv
  BY TypeCorrect, InitIInv, NextIInv, PTL DEF Spec

\* A call may be told "stored" for a row that is not durable in one way only: it
\* joined a batch and read tx_ok_ after a later batch had overwritten it.
THEOREM FalseAcksAreLate == Spec /\ []NoWrap => []FalseAckIsLate
  <1>1. IInv => FalseAckIsLate
    BY DEF IInv
  <1> QED
    BY <1>1, IInvHolds, PTL

\* An open batch has exactly one thread that will resolve it, a closed one none.
THEOREM BatchHasOneStarter == Spec /\ []NoWrap => []OpenBatchHasOneStarter
  <1>1. IInv => OpenBatchHasOneStarter
    <2> SUFFICES ASSUME IInv PROVE OpenBatchHasOneStarter
      OBVIOUS
    <2>1. CASE inTx
      <3>1. PICK w \in Committers : TRUE
        BY <2>1 DEF IInv, StarterInv
      <3>2. w \in Writers /\ Committers = {w}
        BY <3>1 DEF IInv, StarterInv, Committers
      <3> QED
        BY <2>1, <3>2 DEF OpenBatchHasOneStarter
    <2>2. CASE ~inTx
      BY <2>2 DEF IInv, StarterInv, OpenBatchHasOneStarter
    <2> QED
      BY <2>1, <2>2
  <1> QED
    BY <1>1, IInvHolds, PTL

-----------------------------------------------------------------------------
(* Without failing COMMITs there are no false ACKs.                        *)

\* SQLite never rolls a batch back after another writer has joined it.
NoCommitFaults == Faults \cap {"fatal", "commit"} = {}

\* Then a batch keeps its transaction, nobody has joined it while its starter
\* may still roll it back, and a joiner left waiting has its row on disk.
SureInv ==
  /\ inTx => sqlTx
  /\ \A v, w \in Writers :
       /\ role[v] = "starter" /\ pc[v] = "insert"
       /\ role[w] = "joiner" /\ pc[w] = "await"
       => myGen[w] # txGen
  /\ \A w \in Writers :
       role[w] = "joiner" /\ pc[w] = "await" /\ myGen[w] # txGen
         => Row(w) \in durable
  /\ stray = {}
  /\ AckIsDurable

LEMMA InitSure == Init => SureInv
  BY DEF Init, SureInv, AckIsDurable, Threads

LEMMA WriterStepSure ==
  ASSUME NoCommitFaults, TypeOK, IInv, SureInv, NoWrap, NoWrap',
         NEW w \in Writers, WriterStep(w)
  PROVE  SureInv'
  <1> USE GroupCommitAssumption, SMTT(20)
      DEF NoCommitFaults, SureInv, AckIsDurable, TypeOK, IInv, LocalsInv,
          MutexInv, StarterInv, JoinerInv, AutoInv, SqlInv, RowInv, Inserted,
          ResultInv, Committers, Threads, Row, NoWrap, threadVars, batchVars,
          diskVars, replyVars, slipVars
  <1>1. CASE EnterFull(w)           BY <1>1 DEF EnterFull, Sleep
  <1>2. CASE EnterJoin(w)           BY <1>2 DEF EnterJoin
  <1>3. CASE EnterStart(w)          BY <1>3 DEF EnterStart
  <1>4. CASE EnterBeginFails(w)     BY <1>4 DEF EnterBeginFails
  <1>5. CASE Insert(w)              BY <1>5 DEF Insert, StoreMessage, Store
  <1>6. CASE StarterInsertFails(w)
    BY <1>6 DEF StarterInsertFails, Answer, Resolve, NextGen
  <1>7. CASE JoinerInsertFails(w)   BY <1>7 DEF JoinerInsertFails, Answer
  <1>8. CASE FinishAuto(w)          BY <1>8 DEF FinishAuto, Answer
  <1>9. CASE FinishJoiner(w)        BY <1>9 DEF FinishJoiner
  <1>10. CASE FinishStarter(w)      BY <1>10 DEF FinishStarter
  <1>11. CASE Window(w)             BY <1>11 DEF Window, Sleep
  <1>12. CASE WindowTimeout(w)      BY <1>12 DEF WindowTimeout
  <1>13. CASE Commit(w)             BY <1>13 DEF Commit, Resolve, NextGen
  <1>14. CASE Report(w)             BY <1>14 DEF Report, Answer
  <1>15. CASE AwaitSleep(w)         BY <1>15 DEF AwaitSleep, Sleep
  <1>16. CASE AwaitReturn(w)        BY <1>16 DEF AwaitReturn, Answer
  <1>17. CASE Leave(w)              BY <1>17 DEF Leave
  <1>18. CASE IdUnread(w)
    BY <1>18 DEF IdUnread, StoreMessage, Store, Answer
  <1> HIDE DEF TypeOK, IInv, SureInv, NoCommitFaults, NoWrap
  <1> QED
    BY <1>1, <1>2, <1>3, <1>4, <1>5, <1>6, <1>7, <1>8, <1>9, <1>10, <1>11,
       <1>12, <1>13, <1>14, <1>15, <1>16, <1>17, <1>18 DEF WriterStep

LEMMA NextSure ==
  ASSUME NoCommitFaults
  PROVE  TypeOK /\ IInv /\ SureInv /\ NoWrap /\ NoWrap' /\ [Next]_vars => SureInv'
  <1> SUFFICES ASSUME TypeOK, IInv, SureInv, NoWrap, NoWrap', [Next]_vars
               PROVE  SureInv'
    OBVIOUS
  <1>1. ASSUME NEW w \in Writers, WriterStep(w) PROVE SureInv'
    BY <1>1, WriterStepSure
  <1> USE GroupCommitAssumption
      DEF SureInv, AckIsDurable, TypeOK, IInv, LocalsInv, SqlInv, Threads, Row,
          threadVars, batchVars, diskVars, replyVars, slipVars
  <1>2. ASSUME NEW t \in Threads, Arrive(t) PROVE SureInv'
    BY <1>2 DEF Arrive
  <1>3. ASSUME NEW t \in Threads, Lock(t) PROVE SureInv'
    BY <1>3 DEF Lock
  <1>4. ASSUME NEW o \in Others, OtherWait(o) PROVE SureInv'
    BY <1>4 DEF OtherWait, Sleep
  <1>5. ASSUME NEW o \in Others, OtherWrite(o) PROVE SureInv'
    BY <1>5 DEF OtherWrite, Store, Answer
  <1>6. CASE Crash
    BY <1>6 DEF Crash
  <1>7. CASE UNCHANGED vars
    BY <1>7 DEF vars
  <1> HIDE DEF TypeOK, IInv, SureInv
  <1> QED
    BY <1>1, <1>2, <1>3, <1>4, <1>5, <1>6, <1>7 DEF Next, OtherStep, Done

\* "An id is returned only after the batch has been committed": true of every
\* call, across crashes, as long as no COMMIT fails and SQLite does not roll a
\* transaction back by itself.
THEOREM AcksAreDurable ==
  ASSUME NoCommitFaults
  PROVE  Spec /\ []NoWrap => []AckIsDurable
  <1>1. SureInv => AckIsDurable
    BY DEF SureInv
  <1>2. TypeOK /\ IInv /\ SureInv /\ NoWrap /\ NoWrap' /\ [Next]_vars => SureInv'
    BY NextSure
  <1> QED
    BY <1>1, <1>2, TypeCorrect, IInvHolds, InitSure, PTL DEF Spec

-----------------------------------------------------------------------------
(* Rows and calls: a row belongs to one call, and nobody is answered twice. *)

Answered == acked \cup nacked

\* A row is that of a call already made; the row of a call in progress has not
\* been answered, and before its INSERT it is nowhere.  Only answered calls were
\* late or without an id.
CallsInv ==
  /\ \A r \in tentative \cup durable \cup Answered : r[2] \in 1..calls[r[1]]
  /\ \A t \in Threads :
       /\ calls[t] <= MaxCalls
       /\ pc[t] # "idle" => calls[t] >= 1
       /\ pc[t] \notin {"idle", "leave"} => Row(t) \notin Answered
       /\ pc[t] \in {"enter", "insert"} => Row(t) \notin durable \cup tentative
  /\ late \subseteq Answered /\ unread \subseteq nacked

\* The rows in SQLite's transaction are those of the batch's members and those
\* whose writer has left without their id.
MembersInv ==
  \A r \in tentative :
    /\ r[1] \in Writers
    /\ r \in unread \/ (r = Row(r[1]) /\ Inserted(r[1]))

LEMMA InitCalls == Init => CallsInv /\ MembersInv
  BY GroupCommitAssumption DEF Init, CallsInv, MembersInv, Answered, Threads

LEMMA WriterStepCalls ==
  ASSUME TypeOK, IInv, CallsInv, NoWrap, NEW w \in Writers, WriterStep(w)
  PROVE  CallsInv'
  <1> USE GroupCommitAssumption, SMTT(20)
      DEF TypeOK, IInv, LocalsInv, CallsInv, Answered, Threads, Row,
          threadVars, batchVars, diskVars, replyVars, slipVars
  <1>1. CASE EnterFull(w)           BY <1>1 DEF EnterFull, Sleep
  <1>2. CASE EnterJoin(w)           BY <1>2 DEF EnterJoin
  <1>3. CASE EnterStart(w)          BY <1>3 DEF EnterStart
  <1>4. CASE EnterBeginFails(w)     BY <1>4 DEF EnterBeginFails
  <1>5. CASE Insert(w)              BY <1>5 DEF Insert, StoreMessage, Store
  <1>6. CASE StarterInsertFails(w)
    BY <1>6 DEF StarterInsertFails, Answer, Resolve
  <1>7. CASE JoinerInsertFails(w)   BY <1>7 DEF JoinerInsertFails, Answer
  <1>8. CASE FinishAuto(w)          BY <1>8 DEF FinishAuto, Answer
  <1>9. CASE FinishJoiner(w)        BY <1>9 DEF FinishJoiner
  <1>10. CASE FinishStarter(w)      BY <1>10 DEF FinishStarter
  <1>11. CASE Window(w)             BY <1>11 DEF Window, Sleep
  <1>12. CASE WindowTimeout(w)      BY <1>12 DEF WindowTimeout
  <1>13. CASE Commit(w)             BY <1>13 DEF Commit, Resolve
  <1>14. CASE Report(w)             BY <1>14 DEF Report, Answer
  <1>15. CASE AwaitSleep(w)         BY <1>15 DEF AwaitSleep, Sleep
  <1>16. CASE AwaitReturn(w)        BY <1>16 DEF AwaitReturn, Answer
  <1>17. CASE Leave(w)              BY <1>17 DEF Leave
  <1>18. CASE IdUnread(w)
    BY <1>18 DEF IdUnread, StoreMessage, Store, Answer
  <1> HIDE DEF TypeOK, IInv, CallsInv
  <1> QED
    BY <1>1, <1>2, <1>3, <1>4, <1>5, <1>6, <1>7, <1>8, <1>9, <1>10, <1>11,
       <1>12, <1>13, <1>14, <1>15, <1>16, <1>17, <1>18 DEF WriterStep

LEMMA WriterStepMembers ==
  ASSUME TypeOK, IInv, MembersInv, NoWrap, NEW w \in Writers, WriterStep(w)
  PROVE  MembersInv'
  <1> USE GroupCommitAssumption, SMTT(20)
      DEF TypeOK, IInv, LocalsInv, MutexInv, StarterInv, JoinerInv, AutoInv,
          SqlInv, Committers, MembersInv, Inserted, NoWrap, Threads, Row,
          threadVars, batchVars, diskVars, replyVars, slipVars
  <1>1. CASE EnterFull(w)           BY <1>1 DEF EnterFull, Sleep
  <1>2. CASE EnterJoin(w)           BY <1>2 DEF EnterJoin
  \* No batch, no transaction, no rows in it.
  <1>3. CASE EnterStart(w)          BY <1>3 DEF EnterStart
  <1>4. CASE EnterBeginFails(w)     BY <1>4 DEF EnterBeginFails
  <1>5. CASE Insert(w)              BY <1>5 DEF Insert, StoreMessage, Store
  <1>6. CASE StarterInsertFails(w)
    BY <1>6 DEF StarterInsertFails, Resolve, Answer
  <1>7. CASE JoinerInsertFails(w)   BY <1>7 DEF JoinerInsertFails, Answer
  <1>8. CASE FinishAuto(w)          BY <1>8 DEF FinishAuto, Answer
  <1>9. CASE FinishJoiner(w)        BY <1>9 DEF FinishJoiner
  <1>10. CASE FinishStarter(w)      BY <1>10 DEF FinishStarter
  <1>11. CASE Window(w)             BY <1>11 DEF Window, Sleep
  <1>12. CASE WindowTimeout(w)      BY <1>12 DEF WindowTimeout
  <1>13. CASE Commit(w)             BY <1>13 DEF Commit, Resolve
  <1>14. CASE Report(w)             BY <1>14 DEF Report, Answer
  <1>15. CASE AwaitSleep(w)         BY <1>15 DEF AwaitSleep, Sleep
  <1>16. CASE AwaitReturn(w)        BY <1>16 DEF AwaitReturn, Answer
  <1>17. CASE Leave(w)              BY <1>17 DEF Leave
  <1>18. CASE IdUnread(w)
    BY <1>18 DEF IdUnread, StoreMessage, Store, Answer
  <1> HIDE DEF TypeOK, IInv, MembersInv, NoWrap
  <1> QED
    BY <1>1, <1>2, <1>3, <1>4, <1>5, <1>6, <1>7, <1>8, <1>9, <1>10, <1>11,
       <1>12, <1>13, <1>14, <1>15, <1>16, <1>17, <1>18 DEF WriterStep

LEMMA NextCalls ==
  TypeOK /\ IInv /\ CallsInv /\ MembersInv /\ NoWrap /\ [Next]_vars
    => CallsInv' /\ MembersInv'
  <1> SUFFICES ASSUME TypeOK, IInv, CallsInv, MembersInv, NoWrap, [Next]_vars
               PROVE  CallsInv' /\ MembersInv'
    OBVIOUS
  <1>1. ASSUME NEW w \in Writers, WriterStep(w) PROVE CallsInv' /\ MembersInv'
    BY <1>1, WriterStepCalls, WriterStepMembers
  <1> USE GroupCommitAssumption, SMTT(20)
      DEF TypeOK, IInv, LocalsInv, SqlInv, CallsInv, MembersInv, Inserted, Answered,
          Threads, Row, threadVars, batchVars, diskVars, replyVars, slipVars
  <1>2. ASSUME NEW t \in Threads, Arrive(t) PROVE CallsInv' /\ MembersInv'
    <2>1. CallsInv'    BY <1>2 DEF Arrive
    <2>2. MembersInv'  BY <1>2 DEF Arrive
    <2> QED            BY <2>1, <2>2
  <1>3. ASSUME NEW t \in Threads, Lock(t) PROVE CallsInv' /\ MembersInv'
    BY <1>3 DEF Lock
  <1>4. ASSUME NEW o \in Others, OtherWait(o) PROVE CallsInv' /\ MembersInv'
    BY <1>4 DEF OtherWait, Sleep
  <1>5. ASSUME NEW o \in Others, OtherWrite(o) PROVE CallsInv' /\ MembersInv'
    <2>1. CallsInv'    BY <1>5 DEF OtherWrite, Store, Answer
    <2>2. MembersInv'  BY <1>5 DEF OtherWrite, Store, Answer
    <2> QED            BY <2>1, <2>2
  <1>6. CASE Crash
    <2>1. /\ \A t \in Threads : pc'[t] = "idle"
          /\ tentative' = {} /\ UNCHANGED <<calls, durable, acked, nacked, late, unread>>
      BY <1>6 DEF Crash
    <2> QED
      BY <2>1
  <1>7. CASE UNCHANGED vars
    BY <1>7 DEF vars
  <1> HIDE DEF TypeOK, IInv, CallsInv, MembersInv
  <1> QED
    BY <1>1, <1>2, <1>3, <1>4, <1>5, <1>6, <1>7 DEF Next, OtherStep, Done

LEMMA CallsHold == Spec /\ []NoWrap => [](CallsInv /\ MembersInv)
  BY TypeCorrect, IInvHolds, InitCalls, NextCalls, PTL DEF Spec


-----------------------------------------------------------------------------
(* How much a batch holds.                                                 *)

\* Whoever is at its INSERT inside a batch has been counted and has no row yet.
SizeInv ==
  /\ IsFiniteSet(tentative) /\ Cardinality(tentative) <= txPending
  /\ \A w \in Writers : pc[w] = "insert" /\ role[w] # "auto"
                          => Cardinality(tentative) < txPending

LEMMA InitSize == Init => SizeInv
  BY FS_EmptySet DEF Init, SizeInv, Threads

\* The step that adds a row to the transaction.
LEMMA InsertSize ==
  ASSUME TypeOK, IInv, SizeInv, NEW w \in Writers, Insert(w) \/ IdUnread(w)
  PROVE  SizeInv'
  <1>1. /\ mutex = w /\ pc[w] = "insert" /\ txPending' = txPending
        /\ pc' = [pc EXCEPT ![w] = "finish"] \/ pc' = [pc EXCEPT ![w] = "leave"]
        /\ Store(Row(w))
    BY DEF Insert, IdUnread, StoreMessage, Answer, batchVars
  <1>2. \A v \in Writers : pc'[v] # "insert"
    BY <1>1, GroupCommitAssumption
    DEF TypeOK, IInv, MutexInv, Threads
  <1>3. Cardinality(tentative) \in Nat
    BY FS_CardinalityType DEF SizeInv
  <1>4. CASE sqlTx
    <2>1. tentative' = tentative \cup {Row(w)}
      BY <1>1, <1>4 DEF Store
    <2>2. IsFiniteSet(tentative') /\ Cardinality(tentative') <= Cardinality(tentative) + 1
      <3>1. IsFiniteSet(tentative)
        BY DEF SizeInv
      <3>2. /\ IsFiniteSet(tentative \cup {Row(w)})
            /\ Cardinality(tentative \cup {Row(w)}) =
                 IF Row(w) \in tentative THEN Cardinality(tentative)
                 ELSE Cardinality(tentative) + 1
        BY <3>1, FS_AddElement, Zenon
      <3> QED
        BY <2>1, <1>3, <3>2
    <2>3. Cardinality(tentative) < txPending
      BY <1>4, <1>1 DEF SizeInv, IInv, AutoInv, SqlInv
    <2>4. Cardinality(tentative') \in Nat
      BY <2>2, FS_CardinalityType
    <2> QED
      BY <1>1, <1>2, <1>3, <2>2, <2>3, <2>4 DEF SizeInv, TypeOK
  <1>5. CASE ~sqlTx
    BY <1>1, <1>2, <1>5 DEF Store, SizeInv
  <1> QED
    BY <1>4, <1>5

LEMMA NextSize ==
  TypeOK /\ IInv /\ SizeInv /\ [Next]_vars => SizeInv'
  <1> SUFFICES ASSUME TypeOK, IInv, SizeInv, [Next]_vars PROVE SizeInv'
    OBVIOUS
  <1>c. Cardinality(tentative) \in Nat
    BY FS_CardinalityType DEF SizeInv
  \* Nothing was added, and nobody has arrived at an INSERT.
  <1>s. ASSUME tentative' = tentative, txPending' = txPending,
               \A w \in Writers : pc'[w] = "insert" => pc[w] = "insert" /\ role'[w] = role[w]
        PROVE  SizeInv'
    BY <1>s DEF SizeInv
  \* The batch is over, or was never there.
  <1>e. ASSUME tentative' = {}, txPending' \in Nat,
               \A w \in Writers : pc'[w] = "insert" /\ role'[w] # "auto" => txPending' > 0
        PROVE  SizeInv'
    BY <1>e, FS_EmptySet DEF SizeInv
  <1> USE GroupCommitAssumption DEF TypeOK, IInv, LocalsInv, MutexInv, SqlInv, AutoInv,
          Threads, threadVars, batchVars, diskVars
  <1>1. ASSUME NEW w \in Writers, WriterStep(w) PROVE SizeInv'
    <2>1. CASE EnterFull(w) \/ AwaitSleep(w)
      BY <2>1, <1>s DEF EnterFull, AwaitSleep
    <2>2. CASE EnterJoin(w)
      BY <2>2, <1>c DEF EnterJoin, SizeInv
    <2>3. CASE EnterStart(w)
      BY <2>3, <1>e DEF EnterStart
    <2>4. CASE EnterBeginFails(w)
      BY <2>4 DEF EnterBeginFails, SizeInv
    <2>5. CASE Insert(w) \/ IdUnread(w)
      BY <2>5, InsertSize
    <2>6. CASE StarterInsertFails(w)
      BY <2>6, <1>e DEF StarterInsertFails, Resolve, Answer
    <2>7. CASE JoinerInsertFails(w)
      <3>1. /\ txPending' = txPending
            /\ \A v \in Writers : pc'[v] # "insert"
            /\ tentative' = tentative \/ tentative' = {}
        BY <2>7 DEF JoinerInsertFails, Answer
      <3> QED
        BY <3>1, <1>s, <1>e
    <2>8. CASE FinishAuto(w) \/ Report(w) \/ AwaitReturn(w)
      BY <2>8, <1>s DEF FinishAuto, Report, AwaitReturn, Answer
    <2>9. CASE FinishJoiner(w) \/ FinishStarter(w)
      BY <2>9, <1>s DEF FinishJoiner, FinishStarter
    <2>10. CASE Window(w) \/ WindowTimeout(w) \/ Leave(w)
      BY <2>10, <1>s DEF Window, WindowTimeout, Leave
    <2>11. CASE Commit(w)
      BY <2>11, <1>e DEF Commit, Resolve
    <2> QED
      BY <1>1, <2>1, <2>2, <2>3, <2>4, <2>5, <2>6, <2>7, <2>8, <2>9, <2>10, <2>11
      DEF WriterStep
  <1>2. ASSUME NEW t \in Threads, Arrive(t) \/ Lock(t) PROVE SizeInv'
    BY <1>2, <1>s DEF Arrive, Lock
  <1>3. ASSUME NEW o \in Others, OtherStep(o) PROVE SizeInv'
    <2>1. CASE OtherWait(o)
      BY <2>1, <1>s DEF OtherWait
    \* No batch is open, hence no transaction.
    <2>2. CASE OtherWrite(o)
      BY <2>2, <1>s DEF OtherWrite, Store, Answer
    <2> QED
      BY <1>3, <2>1, <2>2 DEF OtherStep
  <1>4. CASE Crash
    BY <1>4, <1>e DEF Crash
  <1>5. CASE UNCHANGED vars
    BY <1>5, <1>s DEF vars
  <1> QED
    BY <1>1, <1>2, <1>3, <1>4, <1>5 DEF Next, Done

\* A batch never holds more rows than it has counted, nor more than kBatchMax,
\* and every one belongs to a message writer still inside the call that wrote
\* it, or gone without its id, whatever fails and whenever the process dies.
THEOREM BatchesAreBounded == Spec /\ []NoWrap => []BatchIsBounded
  <1>1. TypeOK /\ MembersInv /\ SizeInv => BatchIsBounded
    BY DEF TypeOK, MembersInv, SizeInv, Inserted, BatchIsBounded
  <1>2. Spec /\ []NoWrap => []SizeInv
    BY TypeCorrect, IInvHolds, InitSize, NextSize, PTL DEF Spec
  <1> QED
    BY <1>1, <1>2, TypeCorrect, CallsHold, PTL


-----------------------------------------------------------------------------
(* A failure is no half success.                                           *)

\* A row that its batch may still drop, or has dropped.
Droppable(r) == r \notin durable \/ r \in stray

\* As long as SQLite keeps the transaction a member's row is in it and not on
\* disk; once it has dropped it, a row on disk is a stray one.  So a false tx_ok_
\* is true of those entitled to read it, but for strays.
NackInv ==
  /\ \A w \in Writers :
       /\ Inserted(w) => Droppable(Row(w))
       /\ pc[w] = "report" /\ ~txOk => Droppable(Row(w))
       /\ pc[w] = "await" /\ txGen = myGen[w] + 1 /\ ~txOk => Droppable(Row(w))
  /\ NackIsNotDurable

LEMMA InitNack == Init => NackInv
  BY DEF Init, NackInv, Inserted, Droppable, NackIsNotDurable, Threads

LEMMA WriterStepNack ==
  ASSUME TypeOK, IInv, CallsInv, MembersInv, NackInv, NoWrap, NoWrap',
         NEW w \in Writers, WriterStep(w)
  PROVE  NackInv'
  <1> USE GroupCommitAssumption, SMTT(30)
      DEF NackInv, Droppable, NackIsNotDurable, TypeOK, IInv, LocalsInv,
          MutexInv, StarterInv, JoinerInv, AutoInv, SqlInv, Inserted, CallsInv,
          MembersInv, Answered, Committers, Threads, Row, NoWrap, threadVars,
          batchVars, diskVars, replyVars, slipVars
  <1>1. CASE EnterFull(w)           BY <1>1 DEF EnterFull, Sleep
  <1>2. CASE EnterJoin(w)           BY <1>2 DEF EnterJoin
  <1>3. CASE EnterStart(w)          BY <1>3 DEF EnterStart
  <1>4. CASE EnterBeginFails(w)     BY <1>4 DEF EnterBeginFails
  <1>5. CASE Insert(w)              BY <1>5 DEF Insert, StoreMessage, Store
  <1>6. CASE StarterInsertFails(w)
    BY <1>6 DEF StarterInsertFails, Answer, Resolve, NextGen
  <1>7. CASE JoinerInsertFails(w)   BY <1>7 DEF JoinerInsertFails, Answer
  <1>8. CASE FinishAuto(w)          BY <1>8 DEF FinishAuto, Answer
  <1>9. CASE FinishJoiner(w)        BY <1>9 DEF FinishJoiner
  <1>10. CASE FinishStarter(w)      BY <1>10 DEF FinishStarter
  <1>11. CASE Window(w)             BY <1>11 DEF Window, Sleep
  <1>12. CASE WindowTimeout(w)      BY <1>12 DEF WindowTimeout
  \* The rows that become durable are those of members, none of them answered.
  <1>13. CASE Commit(w)             BY <1>13 DEF Commit, Resolve, NextGen
  <1>14. CASE Report(w)             BY <1>14 DEF Report, Answer
  <1>15. CASE AwaitSleep(w)         BY <1>15 DEF AwaitSleep, Sleep
  <1>16. CASE AwaitReturn(w)        BY <1>16 DEF AwaitReturn, Answer
  <1>17. CASE Leave(w)              BY <1>17 DEF Leave
  <1>18. CASE IdUnread(w)
    BY <1>18 DEF IdUnread, StoreMessage, Store, Answer
  <1> HIDE DEF TypeOK, IInv, CallsInv, MembersInv, NackInv, NoWrap
  <1> QED
    BY <1>1, <1>2, <1>3, <1>4, <1>5, <1>6, <1>7, <1>8, <1>9, <1>10, <1>11,
       <1>12, <1>13, <1>14, <1>15, <1>16, <1>17, <1>18 DEF WriterStep

LEMMA NextNack ==
  TypeOK /\ IInv /\ CallsInv /\ MembersInv /\ NackInv /\ NoWrap /\ NoWrap'
    /\ [Next]_vars => NackInv'
  <1> SUFFICES ASSUME TypeOK, IInv, CallsInv, MembersInv, NackInv, NoWrap, NoWrap',
                      [Next]_vars
               PROVE  NackInv'
    OBVIOUS
  <1>1. ASSUME NEW w \in Writers, WriterStep(w) PROVE NackInv'
    BY <1>1, WriterStepNack
  <1> USE GroupCommitAssumption, SMTT(20)
      DEF NackInv, Droppable, NackIsNotDurable, TypeOK, IInv, LocalsInv, SqlInv, Inserted,
          CallsInv, Answered, Threads, Row, threadVars, batchVars, diskVars, replyVars, slipVars
  <1>2. ASSUME NEW t \in Threads, Arrive(t) PROVE NackInv'
    BY <1>2 DEF Arrive
  <1>3. ASSUME NEW t \in Threads, Lock(t) PROVE NackInv'
    BY <1>3 DEF Lock
  <1>4. ASSUME NEW o \in Others, OtherWait(o) PROVE NackInv'
    BY <1>4 DEF OtherWait, Sleep
  <1>5. ASSUME NEW o \in Others, OtherWrite(o) PROVE NackInv'
    BY <1>5 DEF OtherWrite, Store, Answer
  <1>6. CASE Crash
    <2>1. /\ \A t \in Threads : pc'[t] = "idle"
          /\ UNCHANGED <<durable, nacked, late, unread, stray>>
      BY <1>6 DEF Crash
    <2> QED
      BY <2>1
  <1>7. CASE UNCHANGED vars
    BY <1>7 DEF vars
  <1> HIDE DEF TypeOK, IInv, CallsInv, NackInv
  <1> QED
    BY <1>1, <1>2, <1>3, <1>4, <1>5, <1>6, <1>7 DEF Next, OtherStep, Done

LEMMA NackHolds == Spec /\ []NoWrap => []NackInv
  BY TypeCorrect, IInvHolds, CallsHold, InitNack, NextNack, PTL DEF Spec

\* A call that was told "failed" has left no row behind, so that its caller may
\* send again, whatever fails and whenever the process dies.  The exceptions are
\* all there are: a joiner that woke late, a row whose id could not be read, a
\* row inserted after SQLite had dropped the batch's transaction.
THEOREM NacksAreNotDurable == Spec /\ []NoWrap => []NackIsNotDurable
  <1>1. NackInv => NackIsNotDurable
    BY DEF NackInv
  <1> QED
    BY <1>1, NackHolds, PTL

-----------------------------------------------------------------------------
(* The protocol implements MessageStore.                                   *)

\* A call that returns answers a row of its own that had no answer.
LEMMA AnswerIsOne ==
  ASSUME TypeOK, CallsInv, NEW t \in Threads, pc[t] \notin {"idle", "leave"},
         NEW ok \in BOOLEAN, Answer(t, ok)
  PROVE  /\ Row(t) \in Rows \ Answered
         /\ acked' = IF ok THEN acked \cup {Row(t)} ELSE acked
         /\ nacked' = IF ok THEN nacked ELSE nacked \cup {Row(t)}
  BY GroupCommitAssumption DEF TypeOK, CallsInv, Row, Rows, Answer

\* What MessageStore sees of the protocol.
Unsure == nacked \cap (late \cup unread)
Shown == <<durable, acked, nacked, Unsure>>

LEMMA StoreInit == Init => Promise!Init
  BY DEF Init, Promise!Init

\* The rows are those of calls within the bound.
LEMMA RowsOfCalls ==
  ASSUME TypeOK, CallsInv
  PROVE  durable \cup tentative \subseteq Rows
  BY GroupCommitAssumption DEF TypeOK, CallsInv, Rows

\* Rows that reach the disk without an answer being given.
LEMMA StepPersists ==
  ASSUME TypeOK, CallsInv, NEW new \in SUBSET Rows, new \cap nacked \subseteq unread,
         durable' = durable \cup new, UNCHANGED <<acked, nacked, late, unread>>
  PROVE  Promise!Next
  <1>1. durable \cup new \subseteq Rows
    BY RowsOfCalls
  <1>2. ((durable \cup new) \ durable) \cap (nacked \ (nacked \cap (late \cup unread))) = {}
    OBVIOUS
  <1>3. Promise!Persist
    BY <1>1, <1>2 DEF Promise!Persist
  <1> QED
    BY <1>3 DEF Promise!Next

\* A positive answer for a row on disk.
LEMMA StepAccepts ==
  ASSUME TypeOK, CallsInv, NEW t \in Threads, pc[t] \notin {"idle", "leave"},
         Answer(t, TRUE), Row(t) \in durable,
         UNCHANGED <<durable, unread>>, late' \in {late, late \cup {Row(t)}}
  PROVE  Promise!Next
  <1>1. Row(t) \in Rows \ Answered /\ acked' = acked \cup {Row(t)} /\ nacked' = nacked
    BY AnswerIsOne
  <1>2. nacked' \cap (late' \cup unread') = nacked \cap (late \cup unread)
    BY <1>1 DEF Answered
  <1>3. Promise!Accept(Row(t))
    BY <1>1, <1>2 DEF Promise!Accept, Promise!Answered, Answered
  <1> QED
    BY <1>1, <1>3 DEF Promise!Next

\* A negative answer, sure or not.
LEMMA StepRefuses ==
  ASSUME TypeOK, CallsInv, NEW t \in Threads, pc[t] \notin {"idle", "leave"},
         Answer(t, FALSE), Row(t) \notin durable, UNCHANGED <<durable, late, unread>>
  PROVE  Promise!Next
  <1>1. Row(t) \in Rows \ Answered /\ acked' = acked /\ nacked' = nacked \cup {Row(t)}
    BY AnswerIsOne
  <1>2. nacked' \cap (late' \cup unread') = nacked \cap (late \cup unread)
    BY <1>1 DEF Answered, CallsInv
  <1>3. Promise!Refuse(Row(t))
    BY <1>1, <1>2 DEF Promise!Refuse, Promise!Answered, Answered
  <1> QED
    BY <1>1, <1>3 DEF Promise!Next

LEMMA StepRefusesUnsure ==
  ASSUME TypeOK, CallsInv, NEW t \in Threads, pc[t] \notin {"idle", "leave"},
         Answer(t, FALSE), durable' \in {durable, durable \cup {Row(t)}},
         late' \cup unread' = late \cup unread \cup {Row(t)}
  PROVE  Promise!Next
  <1>1. Row(t) \in Rows \ Answered /\ acked' = acked /\ nacked' = nacked \cup {Row(t)}
    BY AnswerIsOne
  <1>2. nacked' \cap (late' \cup unread') = (nacked \cap (late \cup unread)) \cup {Row(t)}
    BY <1>1 DEF Answered, CallsInv
  <1>3. Promise!RefuseUnsure(Row(t))
    BY <1>1, <1>2 DEF Promise!RefuseUnsure, Promise!Answered, Answered
  <1> QED
    BY <1>1, <1>3 DEF Promise!Next

LEMMA WriterStepStores ==
  ASSUME NoCommitFaults, TypeOK, IInv, CallsInv, MembersInv, SureInv, SureInv',
         NackInv, NoWrap, NEW w \in Writers, WriterStep(w)
  PROVE  [Promise!Next]_Shown
  <1>t. w \in Threads
    BY DEF Threads
  \* Neither the disk nor what the callers know has changed.
  <1>s. ASSUME UNCHANGED <<durable, acked, nacked, late, unread>>
        PROVE  [Promise!Next]_Shown
    BY <1>s DEF Shown, Unsure
  <1>w. Row(w) \in Rows \ Answered \/ pc[w] \in {"idle", "leave"}
    BY <1>t, GroupCommitAssumption DEF TypeOK, CallsInv, Row, Rows
  <1>1. CASE \/ EnterFull(w) \/ EnterJoin(w) \/ EnterStart(w) \/ EnterBeginFails(w)
             \/ FinishJoiner(w) \/ FinishStarter(w) \/ Window(w) \/ WindowTimeout(w)
             \/ AwaitSleep(w) \/ Leave(w)
    BY <1>1, <1>s
    DEF EnterFull, EnterJoin, EnterStart, EnterBeginFails, FinishJoiner, FinishStarter,
        Window, WindowTimeout, AwaitSleep, Leave, diskVars, replyVars, slipVars
  \* The row of an open call, alone or with those of the batch.
  <1>2. CASE Insert(w)
    <2>1. {Row(w)} \subseteq Rows /\ {Row(w)} \cap nacked = {}
      BY <1>2, <1>w DEF Insert, Answered
    <2>2. UNCHANGED <<acked, nacked, late, unread>>
      BY <1>2 DEF Insert
    <2>3. CASE durable' = durable \cup {Row(w)}
      BY <2>1, <2>2, <2>3, StepPersists
    <2>4. CASE durable' = durable
      BY <2>2, <2>4, <1>s
    <2> QED
      BY <1>2, <2>3, <2>4 DEF Insert, StoreMessage, Store
  <1>3. CASE Commit(w)
    <2>1. tentative \subseteq Rows /\ tentative \cap nacked \subseteq unread
      BY RowsOfCalls DEF CallsInv, MembersInv, Inserted, Threads, Answered
    <2>2. UNCHANGED <<acked, nacked, late, unread>>
      BY <1>3 DEF Commit, replyVars, slipVars
    <2>3. CASE durable' = durable \cup tentative
      BY <2>1, <2>2, <2>3, StepPersists
    <2>4. CASE durable' = durable
      BY <2>2, <2>4, <1>s
    <2> QED
      BY <1>3, <2>3, <2>4 DEF Commit, Resolve
  \* A call returns.
  <1>4. CASE StarterInsertFails(w)
    <2>1. pc[w] = "insert" /\ Answer(w, FALSE) /\ UNCHANGED <<durable, late, unread>>
      BY <1>4 DEF StarterInsertFails, Resolve, slipVars
    <2> QED
      BY <2>1, <1>t, StepRefuses DEF CallsInv
  <1>5. CASE JoinerInsertFails(w)
    <2>1. pc[w] = "insert" /\ Answer(w, FALSE) /\ UNCHANGED <<durable, late, unread>>
      BY <1>5 DEF JoinerInsertFails, slipVars
    <2> QED
      BY <2>1, <1>t, StepRefuses DEF CallsInv
  <1>6. CASE FinishAuto(w)
    <2>1. pc[w] = "finish" /\ Answer(w, TRUE) /\ UNCHANGED <<durable, late, unread>>
      BY <1>6 DEF FinishAuto, diskVars, slipVars
    <2>2. Row(w) \in acked'
      BY <2>1 DEF Answer
    <2> QED
      BY <2>1, <2>2, <1>t, StepAccepts DEF SureInv, AckIsDurable
  <1>7. CASE Report(w)
    <2>1. pc[w] = "report" /\ Answer(w, txOk) /\ UNCHANGED <<durable, late, unread>>
      BY <1>7 DEF Report, diskVars, slipVars
    <2>2. CASE txOk = TRUE
      <3>1. Row(w) \in acked'
        BY <2>1, <2>2 DEF Answer
      <3> QED
        BY <2>1, <2>2, <3>1, <1>t, StepAccepts DEF SureInv, AckIsDurable
    <2>3. CASE txOk = FALSE
      <3>1. Row(w) \notin durable
        BY <2>1, <2>3 DEF NackInv, Droppable, SureInv
      <3> QED
        BY <2>1, <2>3, <3>1, <1>t, StepRefuses
    <2> QED
      BY <2>2, <2>3 DEF TypeOK
  <1>8. CASE AwaitReturn(w)
    <2>1. /\ pc[w] = "await" /\ Answer(w, txOk) /\ UNCHANGED <<durable, unread>>
          /\ late' = IF txGen = myGen[w] + 1 THEN late ELSE late \cup {Row(w)}
      BY <1>8 DEF AwaitReturn, diskVars
    <2>2. CASE txOk = TRUE
      <3>1. Row(w) \in acked'
        BY <2>1, <2>2 DEF Answer
      <3> QED
        BY <2>1, <2>2, <3>1, <1>t, StepAccepts DEF SureInv, AckIsDurable
    <2>3. CASE txOk = FALSE /\ txGen = myGen[w] + 1
      <3>1. Row(w) \notin durable
        BY <2>1, <2>3 DEF NackInv, Droppable, SureInv
      <3> QED
        BY <2>1, <2>3, <3>1, <1>t, StepRefuses
    <2>4. CASE txOk = FALSE /\ txGen # myGen[w] + 1
      BY <2>1, <2>4, <1>t, StepRefusesUnsure
    <2> QED
      BY <2>2, <2>3, <2>4 DEF TypeOK
  <1>9. CASE IdUnread(w)
    <2>1. /\ pc[w] = "insert" /\ Answer(w, FALSE) /\ late' = late
          /\ unread' = unread \cup {Row(w)}
          /\ durable' \in {durable, durable \cup {Row(w)}}
      BY <1>9 DEF IdUnread, StoreMessage, Store
    <2> QED
      BY <2>1, <1>t, StepRefusesUnsure
  <1> QED
    BY <1>1, <1>2, <1>3, <1>4, <1>5, <1>6, <1>7, <1>8, <1>9 DEF WriterStep

LEMMA OtherWriteStores ==
  ASSUME NoCommitFaults, TypeOK, IInv, CallsInv, NEW o \in Others, OtherWrite(o)
  PROVE  Promise!Next
  <1>1. o \in Threads /\ pc[o] = "enter" /\ ~sqlTx /\ UNCHANGED <<late, unread>>
    BY DEF Threads, OtherWrite, IInv, SqlInv, slipVars
  <1>2. Row(o) \in Rows \ (Answered \cup durable)
    BY <1>1, GroupCommitAssumption DEF TypeOK, CallsInv, Row, Rows
  <1>3. CASE Store(Row(o)) /\ Answer(o, TRUE)
    <2>1. nacked' \cap (late' \cup unread') = nacked \cap (late \cup unread)
      BY <1>1, <1>3 DEF Answer
    <2>2. Promise!PersistAndAccept(Row(o))
      BY <1>1, <1>2, <1>3, <2>1
      DEF Store, Answer, Promise!PersistAndAccept, Promise!Answered, Answered
    <2> QED
      BY <1>2, <2>2 DEF Promise!Next
  <1>4. CASE Answer(o, FALSE) /\ UNCHANGED diskVars
    BY <1>1, <1>2, <1>4, StepRefuses DEF diskVars
  <1> QED
    BY <1>3, <1>4 DEF OtherWrite

LEMMA NextStores ==
  ASSUME NoCommitFaults
  PROVE  TypeOK /\ IInv /\ CallsInv /\ MembersInv /\ SureInv /\ SureInv' /\ NackInv
           /\ NoWrap /\ [Next]_vars => [Promise!Next]_Shown
  <1> SUFFICES ASSUME TypeOK, IInv, CallsInv, MembersInv, SureInv, SureInv', NackInv,
                      NoWrap, [Next]_vars
               PROVE  [Promise!Next]_Shown
    OBVIOUS
  <1>s. UNCHANGED <<durable, acked, nacked, late, unread>> => UNCHANGED Shown
    BY DEF Shown, Unsure
  <1>1. ASSUME NEW w \in Writers, WriterStep(w)
        PROVE  [Promise!Next]_Shown
    BY <1>1, WriterStepStores
  <1>2. ASSUME NEW t \in Threads, Arrive(t) \/ Lock(t)
        PROVE  UNCHANGED Shown
    BY <1>2, <1>s DEF Arrive, Lock, diskVars, replyVars, slipVars
  <1>3. ASSUME NEW o \in Others, OtherWrite(o) PROVE Promise!Next
    BY <1>3, OtherWriteStores
  <1>4. ASSUME NEW o \in Others, OtherWait(o) PROVE UNCHANGED Shown
    BY <1>4, <1>s DEF OtherWait, diskVars, replyVars, slipVars
  <1>5. Crash \/ UNCHANGED vars => UNCHANGED Shown
    BY <1>s DEF Crash, vars, diskVars, replyVars, slipVars
  <1> QED
    BY <1>1, <1>2, <1>3, <1>4, <1>5 DEF Next, OtherStep, Done

\* The group-commit protocol keeps the promise of MessageStore: behind the
\* batches, the windows and the wake-ups, a call is answered once, positively
\* only when its row is on disk, and no row refused for sure is there or appears
\* later; the unsure refusals are those of joiners that woke late and of calls
\* that could not read the id of their row.
THEOREM StorePromiseIsKept ==
  ASSUME NoCommitFaults
  PROVE  Spec /\ []NoWrap => KeepsStorePromise
  <1>1. TypeOK /\ IInv /\ SureInv /\ NoWrap /\ NoWrap' /\ [Next]_vars => SureInv'
    BY NextSure
  <1>2. TypeOK /\ IInv /\ CallsInv /\ MembersInv /\ SureInv /\ SureInv' /\ NackInv
          /\ NoWrap /\ [Next]_vars => [Promise!Next]_Shown
    BY NextStores
  <1> QED
    BY <1>1, <1>2, TypeCorrect, IInvHolds, CallsHold, NackHolds, InitSure, StoreInit, PTL
    DEF Spec, KeepsStorePromise, Promise!Spec, Promise!svars, Shown, Unsure
=============================================================================
