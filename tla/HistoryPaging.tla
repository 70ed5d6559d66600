---------------------------- MODULE HistoryPaging ----------------------------
(***************************************************************************)
(* HIST and INBOX: one client that pages backwards through its room's      *)
(* history while others write (src/src/server.cpp doHist, doInbox;         *)
(* src/src/database.cpp history_*, inbox_*; client/chat_client_v4.py).     *)
(*                                                                         *)
(* The server handles one connection's frames one after the other, and     *)
(* frames are not reordered; a query is one critical section of the        *)
(* database, which sees the rows of a batch that is not committed yet.  A  *)
(* row's ts is the sender's, so new rows are not the newest ones.  A page  *)
(* that is too large for a frame is not sent at all.                       *)
(***************************************************************************)
EXTENDS Integers, SequencesExt

CONSTANTS
  Rooms,
  Written,      \* bound of the model: the rooms rows are written to, or Inbox
  PageSize,     \* kHistPageSize
  FrameSize,    \* how many ordinary rows fit in a frame
  MaxTs, MaxRows, MaxBig, MaxRequests   \* bounds of the model

ASSUME HistoryPagingAssumption ==
  /\ {"INBOX", "none"} \cap Rooms = {} /\ Written \subseteq Rooms \cup {"INBOX"}
  /\ {PageSize, FrameSize, MaxTs, MaxRows, MaxBig, MaxRequests} \subseteq Nat
  /\ PageSize > 0

\* A client's inbox is one more place rows belong to.
Inbox  == "INBOX"
NoRoom == "none"
First  == [ts |-> 0, id |-> 0]       \* the cursor "": from the newest row on

VARIABLES
  table,      \* messages: the rows, in the order of their ids
  dirty,      \* how many of them belong to the batch that is open
  room,       \* router_: the client's room
  up, down,   \* frames on their way to the server and to the client
  cur,        \* current_room
  cursor,     \* _hist_cursor, First if it is ""
  busy, pos,  \* _hist_busy, _pending_hist_pos
  connected,
  view,       \* history: the rows on_history got since cur was entered ...
  base,       \*   ... the rows that were there when the first was read ...
  ended,      \*   ... whether the last page was the last of all ...
  entered,    \*   ... and whether the newest page was among them
  requests

serverVars  == <<table, dirty, room>>
clientVars  == <<cur, cursor, busy, pos>>
historyVars == <<view, base, ended, entered>>
vars == <<serverVars, up, down, clientVars, connected, historyVars, requests>>

Init ==
  /\ table = <<>> /\ dirty = 0 /\ room = NoRoom
  /\ up = <<>> /\ down = <<>> /\ connected = TRUE
  /\ cur = NoRoom /\ cursor = First /\ busy = FALSE /\ pos = "append"
  /\ view = <<>> /\ base = {} /\ ended = FALSE /\ entered = FALSE
  /\ requests = 0

-----------------------------------------------------------------------------
(* The table                                                               *)

\* A row as a query returns it.
Row(id) == [ts |-> table[id].ts, id |-> id, place |-> table[id].place,
            size |-> table[id].size]
Key(r) == [ts |-> r.ts, id |-> r.id]

\* Bug: ids are not compared, and rows of the cursor's second are passed over.
Bug_Before(r, c) == r.ts < c.ts

\* Bug: the cursor's own row is read again.
Bug_BeforeOrAt(r, c) == r.ts < c.ts \/ (r.ts = c.ts /\ r.id <= c.id)

\* The row value comparison (ts, id) < (?, ?).
Before(r, c) == r.ts < c.ts \/ (r.ts = c.ts /\ r.id < c.id)

\* Bug: the condition on room_id is missing.
Bug_RowsOf(place) == {Row(id) : id \in DOMAIN table}

RowsOf(place) == {Row(id) : id \in {i \in DOMAIN table : table[i].place = place}}

\* ORDER BY ts DESC, id DESC: the n-th row is the one with n - 1 newer ones.
NewestFirst(rows) ==
  [n \in 1..Cardinality(rows) |->
     CHOOSE r \in rows : Cardinality({s \in rows : Before(r, s)}) = n - 1]

\* history_latest, history_before, inbox_latest, inbox_before: newest first,
\* and one row more than a page holds.
Query(place, c) ==
  LET desc == NewestFirst({r \in RowsOf(place) : c = First \/ Before(r, c)})
  IN SubSeq(desc, 1, IF Len(desc) > PageSize + 1 THEN PageSize + 1 ELSE Len(desc))

\* doHist, doInbox: rows.resize.
Cut(rows) == IF Len(rows) > PageSize THEN SubSeq(rows, 1, PageSize) ELSE rows

\* sendHistPage: oldest first; the cursor is the oldest row's.
Page(kind, place, c) ==
  LET rows == Query(place, c)
  IN [type |-> kind, rows |-> Reverse(Cut(rows)), more |-> Len(rows) > PageSize,
      cursor |-> IF rows = <<>> THEN First ELSE Key(Last(Cut(rows))),
      first |-> c = First, there |-> RowsOf(place), room |-> place]

\* sendFrame refuses a body larger than kMaxFrame; doHist does not look.
Fits(page) == FoldSeq(LAMBDA r, n : r.size + n, 0, page.rows) <= FrameSize

\* doMessage of somebody: a row in the batch that is open.
Write(place, ts, size) ==
  /\ Len(table) < MaxRows
  /\ size > 1 => Cardinality({i \in DOMAIN table : table[i].size > 1}) < MaxBig
  /\ table' = Append(table, [place |-> place, ts |-> ts, size |-> size])
  /\ dirty' = dirty + 1
  /\ UNCHANGED <<room, up, down, clientVars, connected, historyVars, requests>>

\* COMMIT; or ROLLBACK, after which the ids are given out again.
Resolve ==
  /\ dirty > 0 /\ dirty' = 0
  /\ \/ UNCHANGED <<table, base>>
     \/ /\ table' = SubSeq(table, 1, Len(table) - dirty)
        /\ base' = {r \in base : r.id <= Len(table')}
  /\ UNCHANGED <<room, up, down, clientVars, connected, view, ended, entered,
                 requests>>

-----------------------------------------------------------------------------
(* The server                                                              *)

Reply(frame) == down' = Append(down, frame)

\* doJoin, doLeave, doHist, doInbox.
Serve ==
  /\ up # <<>> /\ up' = Tail(up)
  /\ LET f == Head(up)
     IN \/ /\ f.type = "JOIN"
           /\ room' = f.room /\ Reply([type |-> "JOIN_OK", room |-> f.room])
        \/ /\ f.type = "LEAVE" /\ room' = NoRoom
           /\ Reply([type |-> IF room = NoRoom THEN "ERR" ELSE "LEAVE_OK"])
        \/ /\ f.type = "HIST" /\ room = NoRoom                \* E2003
           /\ Reply([type |-> "ERR"]) /\ UNCHANGED room
        \/ /\ f.type = "HIST" /\ room # NoRoom
           /\ LET page == Page("HISTORY", room, f.cursor)
              IN IF Fits(page) THEN Reply(page) ELSE UNCHANGED down
           /\ UNCHANGED room
        \/ /\ f.type = "INBOX"
           /\ LET page == Page("INBOX", Inbox, First)
              IN IF Fits(page) THEN Reply(page) ELSE UNCHANGED down
           /\ UNCHANGED room
  /\ UNCHANGED <<table, dirty, clientVars, connected, historyVars, requests>>

-----------------------------------------------------------------------------
(* The client                                                              *)

Send(frame) ==
  /\ requests < MaxRequests /\ requests' = requests + 1
  /\ up' = Append(up, frame)

\* join_room: the cursor is emptied, whether JOIN can be sent or not.
JoinRoom(r) ==
  /\ cursor' = First
  /\ IF connected THEN Send([type |-> "JOIN", room |-> r])
                  ELSE cursor # First /\ UNCHANGED <<up, requests>>
  /\ UNCHANGED <<serverVars, down, cur, busy, pos, connected, historyVars>>

\* leave_room.
LeaveRoom ==
  /\ connected /\ Send([type |-> "LEAVE"])
  /\ UNCHANGED <<serverVars, down, clientVars, connected, historyVars>>

\* fetch_history and fetch_inbox: not while an answer is awaited.
Fetch(frame, position) ==
  /\ connected /\ ~busy
  /\ Send(frame) /\ busy' = TRUE /\ pos' = position

\* fetch_older, at the top of the log.
FetchOlder ==
  /\ cursor # First /\ Fetch([type |-> "HIST", cursor |-> cursor], "prepend")
  /\ UNCHANGED <<serverVars, down, cur, cursor, connected, historyVars>>

FetchInbox ==
  /\ Fetch([type |-> "INBOX"], "append")
  /\ UNCHANGED <<serverVars, down, cur, cursor, connected, historyVars>>

\* A room is entered or left: the log goes on with nothing of it.
Enter(r) ==
  /\ cur' = r /\ cursor' = First
  /\ view' = <<>> /\ base' = {} /\ ended' = FALSE /\ entered' = FALSE

\* _dispatch, JOIN_OK: the newest page is asked for if nothing else is.
JoinOk(f) ==
  /\ f.type = "JOIN_OK" /\ Enter(f.room)
  /\ IF busy THEN UNCHANGED <<up, busy, pos>>
     ELSE /\ up' = Append(up, [type |-> "HIST", cursor |-> First])
          /\ busy' = TRUE /\ pos' = "append"

\* _dispatch, LEAVE_OK.
LeaveOk(f) == f.type = "LEAVE_OK" /\ Enter(NoRoom) /\ UNCHANGED <<up, busy, pos>>

\* Bug: an earlier page goes below what is there.
Bug_Show(rows) == view \o rows

\* on_history: an earlier page goes above what is there.
Show(rows) == IF pos = "prepend" THEN rows \o view ELSE view \o rows

\* _handle_history.
History(f) ==
  /\ f.type = "HISTORY" /\ busy' = FALSE /\ pos' = "append"
  /\ cursor' = IF f.more THEN f.cursor ELSE First
  /\ view' = Show(f.rows) /\ ended' = ~f.more
  /\ base' = IF view = <<>> THEN f.there \cap RowsOf(f.room) ELSE base
  /\ entered' = (entered \/ f.first)
  /\ UNCHANGED <<up, cur>>

InboxPage(f) ==
  /\ f.type = "INBOX" /\ busy' = FALSE /\ pos' = "append"
  /\ UNCHANGED <<up, cur, cursor, historyVars>>

\* _handle_err: nothing that concerns a page.
Err(f) == f.type = "ERR" /\ UNCHANGED <<up, clientVars, historyVars>>

Receive ==
  /\ down # <<>> /\ down' = Tail(down)
  /\ LET f == Head(down)
     IN JoinOk(f) \/ LeaveOk(f) \/ History(f) \/ InboxPage(f) \/ Err(f)
  /\ UNCHANGED <<serverVars, connected, requests>>

\* The connection breaks, with what is on its way.  _conn_loop empties
\* current_room and nothing else; dropConn takes the client out of its room
\* unless the client is back before the server has noticed.
Break ==
  /\ connected /\ connected' = FALSE
  /\ up' = <<>> /\ down' = <<>> /\ room' \in {room, NoRoom}
  /\ cur' = NoRoom /\ view' = <<>> /\ base' = {} /\ ended' = FALSE /\ entered' = FALSE
  /\ UNCHANGED <<table, dirty, cursor, busy, pos, requests>>

\* The AUTH_OK of a connection that takes a room over is treated as JOIN_OK is.
Reconnect ==
  /\ ~connected /\ connected' = TRUE
  /\ down' = IF room = NoRoom THEN <<>> ELSE <<[type |-> "JOIN_OK", room |-> room]>>
  /\ UNCHANGED <<serverVars, up, clientVars, historyVars, requests>>

Next ==
  \/ \E p \in Written, t \in 1..MaxTs, s \in {1, FrameSize} : Write(p, t, s)
  \/ Resolve \/ Serve \/ Receive \/ LeaveRoom
  \/ \E r \in Rooms : JoinRoom(r)
  \/ FetchOlder \/ FetchInbox \/ Break \/ Reconnect

Spec == Init /\ [][Next]_vars

-----------------------------------------------------------------------------
(* Properties                                                              *)

\* The order a log is read in.
Older(r, s) == r.ts < s.ts \/ (r.ts = s.ts /\ r.id < s.id)

\* Every variable keeps its type; no page holds more than kHistPageSize rows
\* (doHist, doInbox), and the client awaits at most one (_hist_busy).
TypeOK ==
  /\ dirty \in 0..Len(table) /\ room \in Rooms \cup {NoRoom}
  /\ cur \in Rooms \cup {NoRoom} /\ busy \in BOOLEAN /\ pos \in {"append", "prepend"}
  /\ \A n \in DOMAIN down : down[n].type \in {"HISTORY", "INBOX"} =>
       Len(down[n].rows) <= PageSize
  /\ LET asked    == {n \in DOMAIN up : up[n].type \in {"HIST", "INBOX"}}
         answered == {n \in DOMAIN down : down[n].type \in {"HISTORY", "INBOX"}}
     IN Cardinality(asked) + Cardinality(answered) <= IF busy THEN 1 ELSE 0

\* The log is oldest first without repetition, page above page, although rows
\* with any ts are written meanwhile and batches are rolled back ("翻页不重不漏",
\* PROTOCOL.md 6.3).
PagesRepeatNothing ==
  \A i, j \in DOMAIN view : i < j => Older(Key(view[i]), Key(view[j]))

\* Between the newest row shown and the oldest, no row is missing that was there
\* from the first page on; nor is any older one once the last page has said so.
PagesSkipNothing ==
  view # <<>> =>
    \A r \in base :
      /\ Older(r, Key(Last(view)))
      /\ ended \/ Older(Key(Head(view)), r)
      => r \in Range(view)

\* What is shown was written to the room that is shown, however JOIN, LEAVE,
\* pages and reconnections follow each other (doHist, _dispatch).
PagesAreOfTheRoom == \A i \in DOMAIN view : view[i].place = cur

\* The log a client shows is the part of its room's history that it spans:
\* nothing twice, nothing missing, nothing else (doHist, doInbox, _dispatch).
PagesAreExact == PagesRepeatNothing /\ PagesSkipNothing /\ PagesAreOfTheRoom

\* Who enters a room gets its newest page ("进房自动拉最近 50 条", README.md):
\* not once everything sent has arrived and it has not been shown.
EnteringShowsNewest ==
  connected /\ up = <<>> /\ down = <<>> /\ cur # NoRoom => entered
=============================================================================
