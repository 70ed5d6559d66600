--------------------------------- MODULE Log ---------------------------------
(***************************************************************************)
(* The file channel of the log, src/src/log.cpp: one file a day.  Every    *)
(* call holds the mutex, so that a call is one step; the line's date is    *)
(* read under it.                                                          *)
(***************************************************************************)
EXTENDS Integers, FiniteSets

CONSTANTS
  Levels,             \* L_DEBUG to L_ERROR: 0..3
  Dirs, NoDir,        \* directories for the files; the empty string
  MaxDay, MaxLines    \* bounds of the model: days, lines that differ

ASSUME LogAssumption ==
  /\ Levels \subseteq Nat /\ NoDir \notin Dirs
  /\ MaxDay \in Nat \ {0} /\ MaxLines \in Nat

VARIABLES
  day,        \* the date of now_stamp; the clock may be set back
  dir,        \* State::dir
  level,      \* file_level
  opened,     \* out: the directory and date of the open file, or NoFile
  openDate,   \* open_date
  good,       \* out's state is good: no write has failed since it was opened
  lines       \* history: where each line went: its level, date, file

logVars == <<day, dir, level, opened, openDate, good, lines>>

NoFile == [dir |-> NoDir, date |-> 0]

LogInit ==
  /\ day = 1 /\ dir = NoDir /\ level = 0
  /\ opened = NoFile /\ openDate = 0 /\ good = TRUE /\ lines = {}

\* Bug: a file that is open is used, whatever its date.
Bug_Ensure(d, ok) ==
  IF d = NoDir \/ opened # NoFile
  THEN [opened |-> opened, openDate |-> openDate, good |-> good]
  ELSE [opened |-> IF ok THEN [dir |-> d, date |-> day] ELSE NoFile,
        openDate |-> day, good |-> ok]

\* ensure_file_locked; "ok" when the file can be opened.
Ensure(d, ok) ==
  IF d = NoDir \/ (opened # NoFile /\ openDate = day)
  THEN [opened |-> opened, openDate |-> openDate, good |-> good]
  ELSE [opened |-> IF ok THEN [dir |-> d, date |-> day] ELSE NoFile,
        openDate |-> day, good |-> ok]

\* init.
LogSetup(d, lv, ok) ==
  LET f == Ensure(d, ok) IN
  /\ dir' = d /\ level' = lv
  /\ opened' = f.opened /\ openDate' = f.openDate /\ good' = f.good
  /\ UNCHANGED <<day, lines>>

\* shutdown.
LogShutdown ==
  /\ opened' = NoFile
  /\ UNCHANGED <<day, dir, level, openDate, good, lines>>

\* write; "stored" when the disk takes the line.  A stream that has failed once
\* takes no line until it is opened again.
LogWrite(lv, ok, stored) ==
  LET f == Ensure(dir, ok) IN
  /\ dir # NoDir /\ lv >= level
  /\ opened' = f.opened /\ openDate' = f.openDate
  /\ good' = (f.good /\ (f.opened = NoFile \/ stored))
  /\ lines' = IF f.opened # NoFile /\ f.good /\ stored
              THEN lines \cup {[level |-> lv, date |-> day, file |-> f.opened]}
              ELSE lines
  /\ UNCHANGED <<day, dir, level>>

\* Midnight, or a clock that is set back.
DayChanges(d) == day' = d /\ UNCHANGED <<dir, level, opened, openDate, good, lines>>

LogNext ==
  \/ \E d \in Dirs \cup {NoDir}, lv \in Levels, ok \in BOOLEAN : LogSetup(d, lv, ok)
  \/ LogShutdown
  \/ \E lv \in Levels, ok, stored \in BOOLEAN :
       Cardinality(lines) < MaxLines /\ LogWrite(lv, ok, stored)
  \/ \E d \in 1..MaxDay : DayChanges(d)

-----------------------------------------------------------------------------
(* Properties                                                              *)

\* Every line that is kept is in the file of the day it was written on, across
\* midnights, clocks that go back, files that cannot be opened and a new init
\* (ensure_file_locked: "按天切分：日期变了就关旧文件").
LinesAreInTheirDaysFile ==
  \A l \in lines : l.file.date = l.date /\ l.file.dir # NoDir
=============================================================================
