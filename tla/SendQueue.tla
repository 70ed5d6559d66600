------------------------------ MODULE SendQueue ------------------------------
(***************************************************************************)
(* One connection's send side: c->outbuf, the socket behind it and the     *)
(* threads that write to it (src/src/server.cpp, "背压发送").              *)
(*                                                                         *)
(* Every write happens under send_m, so sendFrame, sendRelay, the          *)
(* monitor's drain, kickConn's shutdown and closeConn are one step each.   *)
(* A byte is <<k, i>>, the i-th byte of the k-th frame appended; the bytes *)
(* of an over-pressure notice are <<0, i>>.                                *)
(***************************************************************************)
EXTENDS Naturals, SequencesExt

CONSTANTS
  Sizes,       \* lengths of the frames the handlers send
  Cap,         \* kSendQueueCap
  MaxBody,     \* kMaxFrame: longer frames are refused before the queue
  KernelCap,   \* room in the socket's send buffer
  NoticeLen,   \* length of the E4004 frame
  MaxSends     \* bound of the model: frames appended

ASSUME SendQueueAssumption ==
  /\ Sizes \subseteq Nat \ {0}
  /\ {Cap, MaxBody, KernelCap, NoticeLen, MaxSends} \subseteq Nat \ {0}

VARIABLES
  tls,      \* c->tls is set
  served,   \* c is in conns_
  fd,       \* "open", "shut" down by either side, "closed" (fd = -1)
  stalled,  \* the client reads no more
  sizes,    \* the frames appended to outbuf so far
  q,        \* outbuf and what became of the bytes taken out of it
  pc        \* the connection's own thread, one that relays to it, the monitor

vars == <<tls, served, fd, stalled, sizes, q, pc>>

Threads == {"own", "relay", "mon"}

\* The bytes of a frame of length n, as the k-th frame.
Bytes(k, n) == [i \in 1..n |-> <<k, i>>]

Init ==
  /\ tls \in BOOLEAN
  /\ served = TRUE /\ fd = "open" /\ stalled = FALSE
  /\ sizes = <<>>
  /\ q = [out |-> <<>>,     \* c->outbuf
          wpend |-> 0,      \* bytes of it that SSL_write has already sent
          retry |-> FALSE,  \* SSL_write must be called again for it
          moved |-> FALSE,  \* outbuf has grown since, and may have moved
          kernel |-> <<>>,  \* the socket's send buffer
          got |-> <<>>]     \* what the client has read
  /\ pc = [own |-> "recv", relay |-> "idle", mon |-> "sleep"]

-----------------------------------------------------------------------------
(* Writing to the socket                                                   *)

Least(a, b) == IF a < b THEN a ELSE b

Room(b) == KernelCap - Len(b.kernel)

\* How many of n bytes a writer may get rid of: what fits into the send
\* buffer, and more if the client reads in the meantime.
Accepts(b, n) ==
  {m \in 0..n : m = Least(Room(b), n) \/ (m > Room(b) /\ ~stalled)}

\* bytes have been accepted; those beyond the send buffer's room were read.
Pour(b, bytes) ==
  LET all == b.kernel \o bytes
      read == IF Len(all) > KernelCap THEN Len(all) - KernelCap ELSE 0
  IN [b EXCEPT !.kernel = SubSeq(all, read + 1, Len(all)),
               !.got = @ \o SubSeq(all, 1, read)]

\* sock_send_nb until EAGAIN.
PlainDrains(b) ==
  {[q |-> [Pour(b, SubSeq(b.out, 1, m)) EXCEPT
             !.out = SubSeq(@, m + 1, Len(@))],
    ok |-> TRUE] : m \in Accepts(b, Len(b.out))}

\* TlsConn::write_progress.  SSL_write gives back nothing until all of outbuf
\* is sent; a retry from another address is an error (the context does not
\* set SSL_MODE_ACCEPT_MOVING_WRITE_BUFFER).
TlsDrains(b) ==
  {LET sent == b.wpend + m
       poured == Pour(b, SubSeq(b.out, b.wpend + 1, sent))
   IN [q |-> IF sent = Len(b.out)
             THEN [poured EXCEPT !.out = <<>>, !.wpend = 0,
                                 !.retry = FALSE, !.moved = FALSE]
             ELSE [poured EXCEPT !.wpend = sent, !.retry = TRUE],
       ok |-> TRUE] : m \in Accepts(b, Len(b.out) - b.wpend)}
  \cup (IF b.retry /\ b.moved THEN {[q |-> b, ok |-> FALSE]} ELSE {})

\* Bug: the bytes written stay in outbuf when some are left.
Bug_PartialWriteKept(b) ==
  IF b.out = <<>> THEN {[q |-> b, ok |-> TRUE]}
  ELSE IF fd # "open" THEN {[q |-> b, ok |-> FALSE]}
  ELSE IF tls THEN TlsDrains(b)
  ELSE {[d EXCEPT !.q.out = IF @ = <<>> THEN @ ELSE b.out] :
          d \in PlainDrains(b)}

\* Bug: drainOutLocked reports success and leaves the queue to somebody else.
Bug_DrainNothing(b) ==
  {[q |-> b, ok |-> fd = "open"]}

\* drainOutLocked: its result and the queue it leaves.
Drains(b) ==
  IF b.out = <<>> THEN {[q |-> b, ok |-> TRUE]}
  ELSE IF fd # "open" THEN {[q |-> b, ok |-> FALSE]}
  ELSE IF tls THEN TlsDrains(b) ELSE PlainDrains(b)

\* Bug: notifyOverpressure trusts that the socket is still there.
Bug_NoticeAnyway(b) ==
  [b EXCEPT !.kernel =
     @ \o SubSeq(Bytes(0, NoticeLen), 1, Least(Room(b), NoticeLen))]

\* notifyOverpressure: whatever fits, past outbuf and past TLS.
Notice(b) ==
  IF fd # "open" THEN b
  ELSE [b EXCEPT !.kernel =
          @ \o SubSeq(Bytes(0, NoticeLen), 1, Least(Room(b), NoticeLen))]

\* The frame of length n is behind outbuf.
Appended(n) ==
  [q EXCEPT !.out = @ \o Bytes(Len(sizes) + 1, n), !.moved = q.retry]

\* sendFrame, sendRelay and sendLocked: what a send of n bytes can lead to.
Sends(n) ==
  LET b == Appended(n)
  IN IF fd = "closed" \/ n > MaxBody THEN {[q |-> q, ok |-> FALSE]}
     ELSE IF Len(b.out) > Cap THEN {[q |-> Notice(b), ok |-> FALSE]}
     ELSE IF tls /\ q.out # <<>> THEN {[q |-> b, ok |-> TRUE]}
     ELSE Drains(b)

Send(n, ok) ==
  /\ Len(sizes) < MaxSends
  /\ \E r \in Sends(n) : r.ok = ok /\ q' = r.q
  /\ sizes' = IF fd = "closed" \/ n > MaxBody THEN sizes ELSE Append(sizes, n)
  /\ UNCHANGED <<tls, served, fd, stalled>>

-----------------------------------------------------------------------------
(* The threads                                                             *)

Goto(t, where) == pc' = [pc EXCEPT ![t] = where]

\* A handler of this connection answers (PONG, ACK, ERR, a page, a list): the
\* result of sendFrame is ignored, also when the cap was exceeded.
Reply ==
  /\ pc["own"] = "recv"
  /\ \E n \in Sizes, ok \in BOOLEAN : Send(n, ok)
  /\ UNCHANGED pc

\* A handler of another connection finds this one (roomConns, online_) ...
Lookup ==
  /\ pc["relay"] = "idle" /\ served
  /\ Goto("relay", "held")
  /\ UNCHANGED <<tls, served, fd, stalled, sizes, q>>

\* ... and relays to it, and kicks it if that fails.
Relay ==
  /\ pc["relay"] = "held"
  /\ \E n \in Sizes, ok \in BOOLEAN :
       /\ Send(n, ok)
       /\ Goto("relay", IF ok THEN "idle" ELSE "drop")

\* ... or sends a notice or the list of its room's users, and does not look at
\* what sendFrame says.
Broadcast ==
  /\ pc["relay"] = "held"
  /\ \E n \in Sizes, ok \in BOOLEAN : Send(n, ok)
  /\ Goto("relay", "idle")

\* The monitor finds bytes waiting in outbuf ...
Collect ==
  /\ pc["mon"] = "sleep" /\ served /\ q.out # <<>>
  /\ Goto("mon", "held")
  /\ UNCHANGED <<tls, served, fd, stalled, sizes, q>>

\* Bug: the queue is drained and a failure or a full queue goes unnoticed.
Bug_MonDrainOnly ==
  /\ pc["mon"] = "held"
  /\ \E d \in Drains(q) : q' = d.q
  /\ Goto("mon", "sleep")
  /\ UNCHANGED <<tls, served, fd, stalled, sizes>>

\* ... drains it, and kicks the connection if that fails or leaves too much.
MonDrain ==
  /\ pc["mon"] = "held"
  /\ \E d \in Drains(q) :
       LET ok == d.ok /\ Len(d.q.out) <= Cap
       IN /\ q' = IF ok THEN d.q ELSE Notice(d.q)
          /\ Goto("mon", IF ok THEN "sleep" ELSE "drop")
  /\ UNCHANGED <<tls, served, fd, stalled, sizes>>

\* kickConn: dropConn ...
KickDrop(t) ==
  /\ pc[t] = "drop" /\ t # "own"
  /\ served' = FALSE
  /\ Goto(t, "shut")
  /\ UNCHANGED <<tls, fd, stalled, sizes, q>>

\* ... and the shutdown.
KickShut(t) ==
  /\ pc[t] = "shut"
  /\ fd' = IF fd = "open" THEN "shut" ELSE fd
  /\ Goto(t, IF t = "mon" THEN "sleep" ELSE "idle")
  /\ UNCHANGED <<tls, served, stalled, sizes, q>>

\* The TLS handshake fails, before the first frame.
HandshakeFails ==
  /\ pc["own"] = "recv" /\ tls /\ sizes = <<>>
  /\ served' = FALSE
  /\ Goto("own", "close")
  /\ UNCHANGED <<tls, fd, stalled, sizes, q>>

\* The connection's thread reads end of file, or an error ...
OwnEnd ==
  /\ pc["own"] = "recv" /\ fd # "open"
  /\ served' = FALSE
  /\ Goto("own", "close")
  /\ UNCHANGED <<tls, fd, stalled, sizes, q>>

\* ... and closes the socket: what is left in outbuf is lost.
Close ==
  /\ pc["own"] = "close"
  /\ fd' = "closed"
  /\ Goto("own", "ended")
  /\ UNCHANGED <<tls, served, stalled, sizes, q>>

-----------------------------------------------------------------------------
(* The client                                                              *)

\* It reads a byte; one that is no TLS record ends a TLS connection.
ClientRead ==
  /\ ~stalled /\ q.kernel # <<>>
  /\ q' = [q EXCEPT !.kernel = Tail(@), !.got = Append(@, Head(q.kernel))]
  /\ IF tls /\ Head(q.kernel)[1] = 0
     THEN stalled' = TRUE /\ fd' = IF fd = "open" THEN "shut" ELSE fd
     ELSE UNCHANGED <<stalled, fd>>
  /\ UNCHANGED <<tls, served, sizes, pc>>

\* It stops reading.
Stall ==
  /\ ~stalled
  /\ stalled' = TRUE
  /\ UNCHANGED <<tls, served, fd, sizes, q, pc>>

\* It goes away.
HangUp ==
  /\ fd = "open"
  /\ fd' = "shut" /\ stalled' = TRUE
  /\ UNCHANGED <<tls, served, sizes, q, pc>>

\* Nothing is on its way and nobody owes anything: the model may stop.
Quiet ==
  /\ Len(sizes) = MaxSends \/ pc["own"] = "ended"
  /\ pc["mon"] = "sleep" /\ pc["relay"] \in {"idle", "held"}
  /\ UNCHANGED vars

Kick(t) == KickDrop(t) \/ KickShut(t)

Next ==
  \/ Reply \/ Lookup \/ Relay \/ Broadcast \/ Collect \/ MonDrain
  \/ \E t \in Threads : Kick(t)
  \/ HandshakeFails \/ OwnEnd \/ Close
  \/ ClientRead \/ Stall \/ HangUp
  \/ Quiet

Spec == Init /\ [][Next]_vars

\* The monitor and the kicks go on, the thread of a broken connection notices,
\* and a client that has not stopped reading reads.
FairSpec ==
  /\ Spec
  /\ WF_vars(Collect) /\ WF_vars(MonDrain)
  /\ \A t \in Threads : WF_vars(Kick(t))
  /\ WF_vars(OwnEnd) /\ WF_vars(Close) /\ WF_vars(ClientRead)

-----------------------------------------------------------------------------
(* Properties                                                              *)

\* Every variable keeps its type; SSL_write only owes bytes under TLS, and
\* only bytes that are still in outbuf (write_progress, erase).
TypeOK ==
  /\ tls \in BOOLEAN /\ served \in BOOLEAN /\ stalled \in BOOLEAN
  /\ fd \in {"open", "shut", "closed"}
  /\ sizes \in Seq(Sizes)
  /\ pc \in [Threads -> {"recv", "idle", "held", "sleep", "drop", "shut",
                         "close", "ended"}]
  /\ q.wpend \in 0..Len(q.out) /\ (q.wpend > 0 => tls /\ q.retry)
  /\ Len(q.kernel) <= KernelCap

\* The bytes that were written or wait to be written, in the order they arrive.
Stream(b) == b.got \o b.kernel \o SubSeq(b.out, b.wpend + 1, Len(b.out))

\* stream holds every byte of the frames, once and in order, among notices.
WholeStream(stream, frames) ==
  /\ \A k \in DOMAIN frames : \A i \in 1..frames[k] :
       \E p \in DOMAIN stream : stream[p] = <<k, i>>
  /\ \A p \in DOMAIN stream : stream[p][1] # 0 =>
       stream[p][1] \in DOMAIN frames /\ stream[p][2] \in 1..frames[stream[p][1]]
  /\ \A p, r \in DOMAIN stream :
       p < r /\ stream[p][1] # 0 /\ stream[r][1] # 0 =>
         \/ stream[p][1] < stream[r][1]
         \/ stream[p][1] = stream[r][1] /\ stream[p][2] < stream[r][2]

\* What the client has read, what is in flight and what waits in outbuf,
\* without notices, are all the bytes of all frames appended, in that order:
\* no short write, retry or slow state loses, repeats or swaps a byte, and
\* a frame that sendRelay took is lost only with the connection.
StreamIsWhole == WholeStream(Stream(q), sizes)

\* No byte is written to a socket number that closeConn has given back to the
\* system, where it may belong to another connection by now.
NeverWritesClosedFd ==
  [][Len(q'.got) + Len(q'.kernel) > Len(q.got) + Len(q.kernel)
       => fd = "open"]_vars

\* A queue over the cap is drained below it or its connection is dropped,
\* though the handlers of that connection ignore that their frames are
\* refused: the monitor does what they do not.
OverCapIsKicked == Len(q.out) > Cap ~> (Len(q.out) <= Cap \/ ~served)

\* What waits in outbuf leaves it while the client reads, or the connection
\* is dropped; under TLS nobody but the monitor empties a queue.
QueuedLeaves == q.out # <<>> ~> (q.out = <<>> \/ stalled \/ ~served)

\* Whatever is queued on a connection is on its way out, or the connection is:
\* neither below the cap nor above it does anything wait for ever (the drains
\* of sendLocked and of monitorLoop, kickConn).
QueueIsDrained == OverCapIsKicked /\ QueuedLeaves

\* E4004 says "读取过慢" (PROTOCOL.md, 6.4): it is for clients that have left
\* something unread.
OnlySlowClientsAreRefused ==
  [][Len(q'.out) > Cap => q.out # <<>> \/ q.kernel # <<>>]_vars
=============================================================================
