------------------------------- MODULE Delivery -------------------------------
(***************************************************************************)
(* The life of a MESSAGE: the client's pending store and retransmissions,  *)
(* doMessage with the (user, seq) window of SeqDeduper, the messages and   *)
(* offline_messages tables, and pushOffline when the receiver logs in.     *)
(*                                                                         *)
(* One sender sends the messages 1, 2, ... (a message is its seq); some    *)
(* are private, for one receiver, the others go to the sender's room.      *)
(* Every connection of the sender has a handler thread of its own, which   *)
(* may still be at work when the client is already on its next connection. *)
(* An insert into messages is one step here; GroupCommit has its details.  *)
(***************************************************************************)
EXTENDS Naturals, Sequences, FiniteSets

CONSTANTS
  NumMsgs,      \* bound of the model: messages the sender has
  Private,      \* the private ones
  MaxAttempts,  \* MAX_ATTEMPTS of the client (8)
  MaxEntries,   \* max_entries of SeqDeduper (500000)
  Faults,       \* what may fail in this instance, see FaultKinds
  MaxLinks,     \* bound of the model: connections of the sender
  MaxSessions,  \* bound of the model: connections of the receiver
  MaxRetries,   \* bound of the model: /retry commands
  MaxCrashes    \* bound of the model: crashes of the server

Msgs == 1..NumMsgs
Links == 1..MaxLinks
Group == Msgs \ Private

\* "limit": the rate limiter or the word filter rejects; "insert": the insert
\* into messages answers -1, as a rule without a row; "offline": a write of
\* offline_messages fails.
FaultKinds == {"limit", "insert", "offline"}

ASSUME DeliveryAssumption ==
  /\ {NumMsgs, MaxEntries, MaxLinks, MaxSessions, MaxRetries,
      MaxCrashes} \subseteq Nat
  /\ MaxAttempts \in Nat \ {0}
  /\ Private \subseteq Msgs
  /\ Faults \subseteq FaultKinds

VARIABLES
  pend,         \* client: "none", "sending", "failed", "acked" (removed)
  attempts,     \* client: PendingItem.attempts
  link,         \* client: the connection it is on, 0 when it has none
  links, retries,
  up, down,     \* frames in flight on each connection
  inRoom,       \* the router has a room for the sender
  window,       \* SeqDeduper.table_
  pc, cur, tgt, \* handler threads: place, message, the receiver's session
  stored,       \* rows of each message in messages
  offline,      \* each message's row in offline_messages
  onl, open,    \* receiver: online_ entry and open socket, a session or 0
  session,      \* receiver: sessions so far
  rpc, rlist, rcur, \* receiver: its thread in pushOffline, rows, current row
  crashes,
  acked,        \* history: messages the server has sent an ACK for
  refused,      \* history: messages given a NACK after taking a window slot
  forgotten,    \* history: how often the window lost a message
  relayed,      \* history: private messages sendRelay has taken for a session of
                \* the receiver (written, or queued in its outbuf)
  caught,       \* history: messages a handler was at work on in a crash
  unfiled,      \* history: messages whose insert_offline has failed
  denied        \* history: messages with a row whose insert answered -1

clientVars == <<pend, attempts, link, links, retries>>
recvVars   == <<onl, open, session, rpc, rlist, rcur>>
threadVars == <<pc, cur, tgt>>
tableVars  == <<stored, offline, unfiled, denied>>
replyVars  == <<acked, refused>>
vars == <<clientVars, up, down, inRoom, window, threadVars, tableVars,
          recvVars, crashes, replyVars, forgotten, relayed, caught>>

Init ==
  /\ pend = [m \in Msgs |-> "none"] /\ attempts = [m \in Msgs |-> 0]
  /\ link = 0 /\ links = 0 /\ retries = 0
  /\ up = [l \in Links |-> << >>] /\ down = [l \in Links |-> << >>]
  /\ inRoom = FALSE /\ window = {}
  /\ pc = [l \in Links |-> "recv"] /\ cur = [l \in Links |-> 0]
  /\ tgt = [l \in Links |-> 0]
  /\ stored = [m \in Msgs |-> 0] /\ offline = [m \in Msgs |-> "none"]
  /\ onl = 0 /\ open = 0 /\ session = 0 /\ rpc = "idle" /\ rlist = {}
  /\ rcur = 0
  /\ crashes = 0
  /\ acked = {} /\ refused = {} /\ relayed = {} /\ caught = {}
  /\ unfiled = {} /\ denied = {}
  /\ forgotten = [m \in Msgs |-> 0]

serverVars == <<inRoom, window, threadVars, tableVars, recvVars, crashes,
                replyVars, forgotten, relayed, caught>>
-----------------------------------------------------------------------------
(* The sender's client                                                     *)

\* _try_send_item: give up after MAX_ATTEMPTS, stay queued without a socket.
TrySend(m) ==
  IF attempts[m] >= MaxAttempts
  THEN pend' = [pend EXCEPT ![m] = "failed"] /\ UNCHANGED <<attempts, up>>
  ELSE /\ pend' = [pend EXCEPT ![m] = "sending"]
       /\ IF link = 0 THEN UNCHANGED <<attempts, up>>
          ELSE /\ attempts' = [attempts EXCEPT ![m] = @ + 1]
               /\ up' = [up EXCEPT ![link] = Append(@, m)]

\* send(): seqs are allocated in increasing order.
ClientSend(m) ==
  /\ pend[m] = "none" /\ \A k \in 1..(m - 1) : pend[k] # "none"
  /\ TrySend(m)
  /\ UNCHANGED <<link, links, retries, down, serverVars>>

\* The heartbeat thread: no answer within ack_timeout, same seq again.
Retransmit(m) ==
  /\ link # 0 /\ pend[m] = "sending" /\ attempts[m] > 0
  /\ TrySend(m)
  /\ UNCHANGED <<link, links, retries, down, serverVars>>

\* retry_failed: the same seq, with a new budget of attempts.
Retry(m) ==
  /\ retries < MaxRetries /\ pend[m] = "failed"
  /\ retries' = retries + 1
  /\ pend' = [pend EXCEPT ![m] = "sending"]
  /\ IF link = 0
     THEN attempts' = [attempts EXCEPT ![m] = 0] /\ UNCHANGED up
     ELSE /\ attempts' = [attempts EXCEPT ![m] = 1]
          /\ up' = [up EXCEPT ![link] = Append(@, m)]
  /\ UNCHANGED <<link, links, down, serverVars>>

\* _flush_pending: what its loop over the first m messages sends again.
Sendable(m) == pend[m] = "sending" /\ attempts[m] < MaxAttempts

Flushed[m \in 0..NumMsgs] ==
  IF m = 0 THEN << >>
  ELSE IF Sendable(m) THEN Append(Flushed[m - 1], m) ELSE Flushed[m - 1]

\* A new connection is authenticated; _flush_pending in the order of seq.
Connect ==
  /\ link = 0 /\ links < MaxLinks
  /\ link' = links + 1 /\ links' = links + 1
  /\ up' = [up EXCEPT ![links + 1] = Flushed[NumMsgs]]
  /\ attempts' = [m \in Msgs |-> attempts[m] + IF Sendable(m) THEN 1 ELSE 0]
  /\ pend' = [m \in Msgs |-> IF pend[m] = "sending" /\ ~Sendable(m)
                             THEN "failed" ELSE pend[m]]
  /\ UNCHANGED <<retries, down, serverVars>>

\* The connection breaks: the server has received some prefix of what was sent,
\* and no answer will arrive.
Disconnect ==
  /\ link # 0
  /\ link' = 0
  /\ \E k \in 0..Len(up[link]) : up' = [up EXCEPT ![link] = SubSeq(@, 1, k)]
  /\ down' = [down EXCEPT ![link] = << >>]
  /\ UNCHANGED <<pend, attempts, links, retries, serverVars>>

\* _dispatch of ACK and NACK.
ClientReply ==
  /\ link # 0 /\ down[link] # << >>
  /\ LET r == Head(down[link]) IN
       pend' = [pend EXCEPT ![r.msg] = IF r.type = "ACK" THEN "acked"
                                       ELSE IF @ = "acked" THEN @ ELSE "failed"]
  /\ down' = [down EXCEPT ![link] = Tail(@)]
  /\ UNCHANGED <<attempts, link, links, retries, up, serverVars>>

-----------------------------------------------------------------------------
(* doMessage                                                               *)

\* An answer; the client's end of l is gone once the client has moved on.
Answer(l, m, type) ==
  down' = IF l = link THEN [down EXCEPT ![l] = Append(@, [type |-> type, msg |-> m])]
          ELSE down

Ack(l, m) ==
  /\ Answer(l, m, "ACK")
  /\ acked' = acked \cup {m} /\ UNCHANGED refused

\* A NACK after the window slot has been taken: the slot stays taken.
Refuse(l, m) ==
  /\ Answer(l, m, "NACK")
  /\ refused' = refused \cup {m} /\ UNCHANGED acked

\* The handler of l starts its next frame, which holds m.
Frame(l, m) ==
  /\ pc[l] = "recv" /\ up[l] # << >> /\ m = Head(up[l])
  /\ up' = [up EXCEPT ![l] = Tail(@)]
  /\ UNCHANGED <<clientVars, inRoom, tgt, tableVars, recvVars, crashes, relayed,
                 caught>>

\* The handler of l goes on with m, from one place to the next.
Step(l, m, from, to) ==
  /\ pc[l] = from /\ cur[l] = m
  /\ pc' = [pc EXCEPT ![l] = to]
  /\ cur' = [cur EXCEPT ![l] = IF to = "recv" THEN 0 ELSE m]
  /\ UNCHANGED <<clientVars, up, inRoom, window, session, rpc, rlist, rcur, open,
                 crashes, forgotten, caught>>

\* Bug: the window is consulted before the limiter.
Bug_LimitedTakesSlot(l, m) ==
  /\ "limit" \in Faults
  /\ Frame(l, m)
  /\ Answer(l, m, "NACK")
  /\ window' = window \cup {m}
  /\ UNCHANGED <<pc, cur, forgotten, replyVars>>

\* The limiter or the word filter refuses, before the window is consulted.
Limited(l, m) ==
  /\ "limit" \in Faults
  /\ Frame(l, m)
  /\ Answer(l, m, "NACK")
  /\ UNCHANGED <<window, pc, cur, forgotten, replyVars>>

\* check_and_add returns false: only an ACK.
Duplicate(l, m) ==
  /\ Frame(l, m) /\ m \in window
  /\ Ack(l, m)
  /\ UNCHANGED <<window, pc, cur, forgotten>>

\* Bug: the window is not consulted.
Bug_EveryFrameIsFirst(l, m) ==
  /\ Frame(l, m)
  /\ window' = window \cup {m}
  /\ pc' = [pc EXCEPT ![l] = "route"] /\ cur' = [cur EXCEPT ![l] = m]
  /\ UNCHANGED <<down, replyVars, forgotten>>

\* check_and_add returns true: a full table is cleared, a slot is taken.
First(l, m) ==
  /\ Frame(l, m) /\ m \notin window
  /\ window' = {m} \cup IF Cardinality(window) >= MaxEntries THEN {} ELSE window
  /\ forgotten' = [k \in Msgs |-> forgotten[k]
                                  + IF k \in window \ window' THEN 1 ELSE 0]
  /\ pc' = [pc EXCEPT ![l] = "route"] /\ cur' = [cur EXCEPT ![l] = m]
  /\ UNCHANGED <<down, replyVars>>

\* Bug: the result of the insert is not looked at.
Bug_AckAnyway(l, m) ==
  /\ Step(l, m, "route", "recv")
  /\ (m \in Group /\ ~inRoom) \/ "insert" \in Faults
  /\ Ack(l, m)
  /\ UNCHANGED <<tgt, tableVars, onl, relayed>>

\* Not in a room, or the insert fails.
RouteRefused(l, m) ==
  /\ Step(l, m, "route", "recv")
  /\ (m \in Group /\ ~inRoom) \/ "insert" \in Faults
  /\ Refuse(l, m)
  /\ UNCHANGED <<tgt, tableVars, onl, relayed>>

\* The insert answers -1 for a row that is in messages or still on its way there
\* (GroupCommit: its id could not be read, its writer woke late, or its batch
\* had lost the transaction).
RouteDenied(l, m) ==
  /\ Step(l, m, "route", "recv")
  /\ m \in Private \/ inRoom
  /\ "insert" \in Faults
  /\ stored' = [stored EXCEPT ![m] = @ + 1]
  /\ denied' = denied \cup {m}
  /\ Refuse(l, m)
  /\ UNCHANGED <<tgt, offline, unfiled, onl, relayed>>

\* The row is in messages and, in the code's order, a private message is
\* acknowledged at once, a room message after the relays to the members.
RoutePrivate(l, m) ==
  /\ Step(l, m, "route", "lookup") /\ m \in Private
  /\ stored' = [stored EXCEPT ![m] = @ + 1]
  /\ Ack(l, m)
  /\ UNCHANGED <<tgt, offline, unfiled, denied, onl, relayed>>

RouteGroup(l, m) ==
  /\ Step(l, m, "route", "broadcast") /\ m \in Group /\ inRoom
  /\ stored' = [stored EXCEPT ![m] = @ + 1]
  /\ UNCHANGED <<down, replyVars, tgt, offline, unfiled, denied, onl, relayed>>

Broadcast(l, m) ==
  /\ Step(l, m, "broadcast", "recv")
  /\ Ack(l, m)
  /\ UNCHANGED <<tgt, tableVars, onl, relayed>>

\* Under g_m_: the receiver's connection, if it is online.
Lookup(l, m) ==
  /\ Step(l, m, "lookup", IF onl = 0 THEN "store" ELSE "relay")
  /\ tgt' = [tgt EXCEPT ![l] = onl]
  /\ UNCHANGED <<down, replyVars, tableVars, onl, relayed>>

\* sendRelay takes the message.
Relayed(l, m) ==
  /\ Step(l, m, "relay", "recv") /\ open = tgt[l]
  /\ relayed' = relayed \cup {m}
  /\ tgt' = [tgt EXCEPT ![l] = 0]
  /\ UNCHANGED <<down, replyVars, tableVars, onl>>

\* The socket is closed, or its queue is full.
RelayFails(l, m) ==
  /\ Step(l, m, "relay", "store")
  /\ UNCHANGED <<down, replyVars, tgt, tableVars, onl, relayed>>

\* Bug: only a message for a user who was offline is kept.
Bug_FailedRelayIsForgotten(l, m) ==
  /\ Step(l, m, "store", "recv")
  /\ offline' = IF tgt[l] = 0 THEN [offline EXCEPT ![m] = "pending"] ELSE offline
  /\ onl' = IF onl = tgt[l] THEN 0 ELSE onl
  /\ tgt' = [tgt EXCEPT ![l] = 0]
  /\ UNCHANGED <<down, replyVars, stored, unfiled, denied, relayed>>

\* insert_offline, whose failure nobody learns of; then kickConn of the
\* connection that could not take the relay.
StoreOffline(l, m) ==
  /\ Step(l, m, "store", "recv")
  /\ \/ offline' = [offline EXCEPT ![m] = "pending"] /\ UNCHANGED unfiled
     \/ "offline" \in Faults /\ unfiled' = unfiled \cup {m} /\ UNCHANGED offline
  /\ onl' = IF onl = tgt[l] THEN 0 ELSE onl
  /\ tgt' = [tgt EXCEPT ![l] = 0]
  /\ UNCHANGED <<down, replyVars, stored, denied, relayed>>

Handle(l, m) ==
  \/ Limited(l, m) \/ Duplicate(l, m) \/ First(l, m)
  \/ RouteRefused(l, m) \/ RouteDenied(l, m) \/ RoutePrivate(l, m) \/ RouteGroup(l, m)
  \/ Broadcast(l, m) \/ Lookup(l, m) \/ Relayed(l, m) \/ RelayFails(l, m)
  \/ StoreOffline(l, m)

-----------------------------------------------------------------------------
(* The receiver, one connection at a time (Sessions has takeovers)         *)

envVars == <<clientVars, up, down, inRoom, window, threadVars, stored, unfiled,
             denied, crashes, replyVars, forgotten, caught>>

\* The receiver logs in; finishAuth goes on to pushOffline.
Online ==
  /\ session < MaxSessions /\ onl = 0 /\ open = 0
  /\ session' = session + 1 /\ onl' = session + 1 /\ open' = session + 1
  /\ rpc' = "query"
  /\ UNCHANGED <<envVars, offline, rlist, rcur, relayed>>

\* undelivered()
PushQuery ==
  /\ rpc = "query"
  /\ rlist' = {m \in Private : offline[m] = "pending"}
  /\ rpc' = "push"
  /\ UNCHANGED <<envVars, offline, onl, open, session, rcur, relayed>>

\* Bug: a row whose relay failed is marked all the same.
Bug_PushMarksUnsent(m) ==
  /\ rpc = "push" /\ m \in rlist
  /\ rcur' = m /\ rpc' = "mark"
  /\ UNCHANGED <<envVars, offline, onl, open, session, rlist, relayed>>

\* sendRelay of the next row.
PushRow(m) ==
  /\ rpc = "push" /\ m \in rlist
  /\ relayed' = relayed \cup {m}
  /\ rcur' = m /\ rpc' = "mark"
  /\ UNCHANGED <<envVars, offline, onl, open, session, rlist>>

\* mark_delivered, whose failure nobody learns of.
PushMark ==
  /\ rpc = "mark"
  /\ \/ offline' = [offline EXCEPT ![rcur] = "delivered"]
     \/ "offline" \in Faults /\ UNCHANGED offline
  /\ rlist' = rlist \ {rcur} /\ rcur' = 0 /\ rpc' = "push"
  /\ UNCHANGED <<envVars, onl, open, session, relayed>>

\* Every row has been pushed, or a relay failed and the rest waits for the next
\* login.
PushEnd ==
  /\ rpc = "push"
  /\ rlist' = {} /\ rpc' = "idle"
  /\ UNCHANGED <<envVars, offline, onl, open, session, rcur, relayed>>

\* The receiver's connection ends: dropConn, then closeConn.
Offline ==
  /\ rpc = "idle" /\ onl # 0
  /\ onl' = 0
  /\ UNCHANGED <<envVars, offline, open, session, rpc, rlist, rcur, relayed>>

CloseSocket ==
  /\ rpc = "idle" /\ onl = 0 /\ open # 0
  /\ open' = 0
  /\ UNCHANGED <<envVars, offline, onl, session, rpc, rlist, rcur, relayed>>

Receiver ==
  \/ Online \/ PushQuery \/ PushMark \/ PushEnd \/ Offline \/ CloseSocket
  \/ \E m \in Private : PushRow(m)

-----------------------------------------------------------------------------
\* The sender joins or leaves a room, between two of its messages.
Roam ==
  /\ link # 0 /\ pc[link] = "recv"
  /\ inRoom' = ~inRoom
  /\ UNCHANGED <<clientVars, up, down, window, threadVars, tableVars, recvVars,
                 crashes, replyVars, forgotten, relayed, caught>>

\* The server dies and restarts: the window, the sessions and the rooms are
\* gone, the tables are not, the client keeps its pending store.
Crash ==
  /\ crashes < MaxCrashes
  /\ crashes' = crashes + 1
  /\ link' = 0
  /\ up' = [l \in Links |-> << >>] /\ down' = [l \in Links |-> << >>]
  /\ inRoom' = FALSE
  /\ window' = {}
  /\ forgotten' = [m \in Msgs |-> forgotten[m] + IF m \in window THEN 1 ELSE 0]
  /\ caught' = caught \cup {cur[l] : l \in {k \in Links : pc[k] # "recv"}}
  /\ pc' = [l \in Links |-> "recv"]
  /\ cur' = [l \in Links |-> 0] /\ tgt' = [l \in Links |-> 0]
  /\ onl' = 0 /\ open' = 0 /\ rpc' = "idle" /\ rlist' = {} /\ rcur' = 0
  /\ UNCHANGED <<pend, attempts, links, retries, tableVars, session, replyVars,
                 relayed>>

\* The server has nothing to do until somebody sends something.
Quiet ==
  /\ \A l \in Links : pc[l] = "recv" /\ up[l] = << >>
  /\ rpc = "idle"
  /\ UNCHANGED vars

Next ==
  \/ \E m \in Msgs : ClientSend(m) \/ Retransmit(m) \/ Retry(m)
  \/ Connect \/ Disconnect \/ ClientReply
  \/ \E l \in Links, m \in Msgs : Handle(l, m)
  \/ Receiver
  \/ Roam \/ Crash \/ Quiet

Spec == Init /\ [][Next]_vars
-----------------------------------------------------------------------------
(* Properties                                                              *)

TypeOK ==
  /\ pend \in [Msgs -> {"none", "sending", "failed", "acked"}]
  /\ attempts \in [Msgs -> 0..MaxAttempts]
  /\ link \in 0..MaxLinks /\ links \in 0..MaxLinks /\ retries \in 0..MaxRetries
  /\ up \in [Links -> Seq(Msgs)]
  /\ down \in [Links -> Seq([type : {"ACK", "NACK"}, msg : Msgs])]
  /\ inRoom \in BOOLEAN /\ window \subseteq Msgs
  /\ pc \in [Links -> {"recv", "route", "broadcast", "lookup", "relay", "store"}]
  /\ cur \in [Links -> 0..NumMsgs] /\ tgt \in [Links -> 0..MaxSessions]
  /\ stored \in [Msgs -> Nat]
  /\ offline \in [Msgs -> {"none", "pending", "delivered"}]
  /\ {onl, open, session} \subseteq 0..MaxSessions
  /\ rpc \in {"idle", "query", "push", "mark"}
  /\ rlist \subseteq Private /\ rcur \in 0..NumMsgs
  /\ crashes \in 0..MaxCrashes
  /\ UNION {acked, refused, relayed, caught, unfiled, denied} \subseteq Msgs
  /\ forgotten \in [Msgs -> Nat]

\* A handler is at work on m.
InHand(m) == \E l \in Links : cur[l] = m

\* However often the client sends a message, on however many connections, it
\* has one row, plus one for each time the window lost it (a restart, or the
\* clearing of a full table).
StoredOncePerWindow == \A m \in Msgs : stored[m] <= 1 + forgotten[m]

\* A rejection by the limiter or the filter does not use up the seq (comment at
\* server.cpp line 1039): the window holds only messages that were stored, are
\* being handled, or were refused further on.
SlotMeansRouted ==
  \A m \in window : stored[m] > 0 \/ InHand(m) \/ m \in refused

\* An ACK for a message without a row can only be the answer to a repetition:
\* of a message refused after it took its slot, or one still being handled.
RowlessAckIsRepeat ==
  \A m \in acked : stored[m] > 0 \/ m \in refused \/ InHand(m) \/ m \in caught

\* A stored private message is not forgotten on its way: as soon as no handler
\* works on it, it has been relayed to a session of the receiver or has an
\* offline row; a crash loses only what a handler was at work on, insert_offline
\* only what it failed to insert, and a refusal only what has a row all the same.
StoredIsRouted ==
  \A m \in Private : stored[m] > 0
     => \/ m \in relayed \/ offline[m] # "none" \/ InHand(m)
        \/ m \in caught \/ m \in unfiled \/ m \in denied

\* A row of offline_messages is retired only once sendRelay has taken it: a push
\* that is interrupted leaves the rest for the next login.
RetiredWasRelayed == \A m \in Msgs : offline[m] = "delivered" => m \in relayed

\* "Delivered means stored" (VERIFY.md, README.md, server.cpp line 1112): a
\* message whose sender was sent an ACK has a row.
AckMeansStored == \A m \in acked : stored[m] > 0

\* server.cpp line 1112, "delivered means stored: history and, if needed, the
\* offline row": no acknowledged message is left without either.
AckMeansRouted ==
  \A m \in acked \cap Private :
     m \in relayed \/ offline[m] # "none" \/ InHand(m)
=============================================================================
