------------------------------- MODULE Sessions -------------------------------
(***************************************************************************)
(* Connections, sessions and presence of src/src/server.cpp.               *)
(*                                                                         *)
(* Each connection c has a thread (handleClient) that executes its frames  *)
(* one after the other; any such thread, and the monitor thread, may kick  *)
(* another connection.  conns_ and online_ are guarded by g_m_, the router *)
(* by its own mutex; a step is one of those critical sections, or what a   *)
(* thread does between two of them.                                        *)
(***************************************************************************)
EXTENDS RoomRouter, Naturals, FiniteSets

CONSTANTS
  MaxConns,     \* bound of the model: connections the listener accepts
  MaxFrames,    \* bound of the model: frames the clients send, all together
  NoUser

ASSUME SessionsAssumption ==
  /\ NoUser \notin Users
  /\ MaxConns \in Nat /\ MaxFrames \in Nat

\* Connections are numbered by ++next_id_, so 0 is no connection.
Conns == 1..MaxConns
NoConn == 0

VARIABLES
  conns,        \* conns_: connections the server still serves
  online,       \* online_[u]: u's connection, or NoConn
  name, authed, \* c->username, c->authed
  sock,         \* c->fd: "none", "open", "shut" down locally, "closed"
  silent,       \* connections whose client has vanished without closing
  pc, arg, old, \* the connection thread: where it is, the user or room its
                \* frame names, and the connection it is about to kick
  frames,       \* frames received so far, for the bound
  tokens,       \* users that hold a token the token book accepts
  monPc, victims, victim, \* the monitor thread
  overtaken     \* history: connections that a password LOGIN has replaced as
                \* their user's current one, which E1004 means to exclude

sessionVars == <<conns, online, name, authed>>
threadVars  == <<pc, arg, old>>
clientVars  == <<silent, frames, tokens>>
monVars     == <<monPc, victims, victim>>
vars == <<routerVars, sessionVars, sock, threadVars, clientVars, monVars,
          overtaken>>

Init ==
  /\ rooms = Rooms
  /\ members = [r \in Rooms |-> {}]
  /\ userRoom = [u \in Users |-> NoRoom]
  /\ conns = {}
  /\ online = [u \in Users |-> NoConn]
  /\ name = [c \in Conns |-> NoUser]
  /\ authed = [c \in Conns |-> FALSE]
  /\ sock = [c \in Conns |-> "none"]
  /\ silent = {}
  /\ pc = [c \in Conns |-> "none"]
  /\ arg = [c \in Conns |-> NoUser]
  /\ old = [c \in Conns |-> NoConn]
  /\ frames = 0
  /\ tokens \in SUBSET Users     \* issued on earlier connections
  /\ monPc = "sleep" /\ victims = {} /\ victim = NoConn
  /\ overtaken = {}

-----------------------------------------------------------------------------
(* dropConn and kickConn                                                   *)

Goto(c, where) == pc' = [pc EXCEPT ![c] = where]

\* Back to recv: the frame's locals are gone.
FrameDone(c) ==
  /\ Goto(c, "recv")
  /\ arg' = [arg EXCEPT ![c] = NoUser]

\* Bug: online_ is cleaned although it names another connection.
Bug_DropWhoeverIsOnline(c) ==
  IF c \notin conns THEN UNCHANGED <<sessionVars, routerVars>> ELSE
  /\ conns' = conns \ {c}
  /\ authed' = [authed EXCEPT ![c] = FALSE]
  /\ IF authed[c]
     THEN /\ online' = [online EXCEPT ![name[c]] = NoConn]
          /\ Leave(name[c])
     ELSE UNCHANGED <<online, routerVars>>
  /\ UNCHANGED name

\* Bug: c->authed is reset but the entry in online_ stays.
Bug_DropKeepsOnline(c) ==
  IF c \notin conns THEN UNCHANGED <<sessionVars, routerVars>> ELSE
  /\ conns' = conns \ {c}
  /\ authed' = [authed EXCEPT ![c] = FALSE]
  /\ UNCHANGED <<online, name, routerVars>>

\* Bug: only a user's current connection can be dropped.
Bug_DropOnlyCurrent(c) ==
  IF c \notin conns \/ (authed[c] /\ online[name[c]] # c)
  THEN UNCHANGED <<sessionVars, routerVars>> ELSE
  /\ conns' = conns \ {c}
  /\ authed' = [authed EXCEPT ![c] = FALSE]
  /\ IF authed[c]
     THEN /\ online' = [online EXCEPT ![name[c]] = NoConn]
          /\ Leave(name[c])
     ELSE UNCHANGED <<online, routerVars>>
  /\ UNCHANGED name

\* dropConn: the first caller takes c out of conns_; if c is its user's
\* current connection the user goes offline and leaves its room.
Drop(c) ==
  IF c \notin conns THEN UNCHANGED <<sessionVars, routerVars>> ELSE
  /\ conns' = conns \ {c}
  /\ authed' = [authed EXCEPT ![c] = FALSE]
  /\ IF authed[c] /\ online[name[c]] = c
     THEN /\ online' = [online EXCEPT ![name[c]] = NoConn]
          /\ Leave(name[c])
     ELSE UNCHANGED <<online, routerVars>>
  /\ UNCHANGED name

\* Bug: the connection is taken out of the tables and left at that.
Bug_ShutNothing(c) == UNCHANGED sock

\* The rest of kickConn, under send_m: c's thread will read end of file.
Shut(c) == sock' = [sock EXCEPT ![c] = IF @ = "open" THEN "shut" ELSE @]

-----------------------------------------------------------------------------
(* The listener and the clients                                            *)

Accept(c) ==
  /\ sock[c] = "none" /\ \A b \in 1..(c - 1) : sock[b] # "none"
  /\ conns' = conns \cup {c}
  /\ sock' = [sock EXCEPT ![c] = "open"]
  /\ Goto(c, "recv")
  /\ UNCHANGED <<routerVars, online, name, authed, arg, old, clientVars,
                 monVars, overtaken>>

\* The client is gone and no frame, not even an end of file, will ever arrive.
Vanish(c) ==
  /\ c \in conns \ silent
  /\ silent' = silent \cup {c}
  /\ UNCHANGED <<routerVars, sessionVars, sock, threadVars, frames,
                 tokens, monVars, overtaken>>

\* recv returns the client's next frame, which names the user or room "what"
\* and, for a frame that leads to a kick, its target.  Frames that had arrived
\* before a local shutdown are still processed.
Receive(c, where, what, target) ==
  /\ pc[c] = "recv" /\ c \notin silent /\ frames < MaxFrames
  /\ frames' = frames + 1
  /\ Goto(c, where)
  /\ arg' = [arg EXCEPT ![c] = what]
  /\ old' = [old EXCEPT ![c] = target]
  /\ UNCHANGED <<routerVars, sessionVars, sock, silent, tokens, monVars,
                 overtaken>>

-----------------------------------------------------------------------------
(* LOGIN and AUTH                                                          *)

\* doLogin up to the first critical section: not authenticated, proof accepted.
RecvLogin(c, u) == ~authed[c] /\ Receive(c, "login", u, NoConn)

\* First critical section: a user found online is refused (E1004).
LoginCheck(c) ==
  /\ pc[c] = "login"
  /\ IF online[arg[c]] = NoConn THEN Goto(c, "loginSet") /\ UNCHANGED arg
     ELSE FrameDone(c)
  /\ UNCHANGED <<routerVars, sessionVars, sock, old, clientVars, monVars,
                 overtaken>>

\* c becomes a connection of u, and the one u is reached on.
SignOn(c, u) ==
  /\ name' = [name EXCEPT ![c] = u]
  /\ authed' = [authed EXCEPT ![c] = TRUE]
  /\ online' = [online EXCEPT ![u] = c]
  /\ Goto(c, "authOk")
  /\ UNCHANGED <<routerVars, conns, sock, arg, clientVars, monVars>>

\* Second critical section: whoever has come online since the first is replaced.
LoginSet(c) ==
  /\ pc[c] = "loginSet"
  /\ SignOn(c, arg[c])
  /\ overtaken' = overtaken \cup ({online[arg[c]]} \ {c, NoConn})
  /\ UNCHANGED old

\* doAuth up to its critical section: the token is good.
RecvAuth(c, u) == ~authed[c] /\ u \in tokens /\ Receive(c, "auth", u, NoConn)

\* Bug: the connection that is replaced is not looked up.
Bug_AuthSet(c) ==
  /\ pc[c] = "auth"
  /\ old' = [old EXCEPT ![c] = NoConn]
  /\ SignOn(c, arg[c])
  /\ UNCHANGED overtaken

\* The critical section of doAuth: another connection of the user is replaced.
AuthSet(c) ==
  /\ pc[c] = "auth"
  /\ old' = [old EXCEPT ![c] = IF online[arg[c]] = c THEN NoConn
                               ELSE online[arg[c]]]
  /\ SignOn(c, arg[c])
  /\ UNCHANGED overtaken

\* finishAuth: AUTH_OK carries a token; a takeover goes on to kick the
\* connection it replaces.
AuthOk(c) ==
  /\ pc[c] = "authOk"
  /\ tokens' = tokens \cup {arg[c]}
  /\ IF old[c] = NoConn THEN FrameDone(c) ELSE Goto(c, "kick") /\ UNCHANGED arg
  /\ UNCHANGED <<routerVars, sessionVars, sock, old, silent, frames,
                 monVars, overtaken>>

\* A handler kicks old[c]: a takeover, or a relay its target cannot take.
KickDrop(c) ==
  /\ pc[c] = "kick"
  /\ Drop(old[c])
  /\ Goto(c, "kickShut")
  /\ UNCHANGED <<sock, arg, old, clientVars, monVars, overtaken>>

KickShut(c) ==
  /\ pc[c] = "kickShut"
  /\ Shut(old[c])
  /\ old' = [old EXCEPT ![c] = NoConn]
  /\ FrameDone(c)
  /\ UNCHANGED <<routerVars, sessionVars, clientVars, monVars, overtaken>>

-----------------------------------------------------------------------------
(* Frames of an authenticated connection.  handleBody looks at c->authed   *)
(* once; the handler then relies on c->username alone.                     *)

RecvJoin(c, r) == authed[c] /\ Receive(c, "join", r, NoConn)

DoJoin(c) ==
  /\ pc[c] = "join"
  /\ Join(name[c], arg[c])
  /\ FrameDone(c)
  /\ UNCHANGED <<sessionVars, sock, old, clientVars, monVars, overtaken>>

RecvLeave(c) == authed[c] /\ Receive(c, "leave", name[c], NoConn)

DoLeave(c) ==
  /\ pc[c] = "leave"
  /\ Leave(name[c])
  /\ FrameDone(c)
  /\ UNCHANGED <<sessionVars, sock, old, clientVars, monVars, overtaken>>

\* doMessage: a connection of an online user, looked up under g_m_, cannot take
\* the relay and is going to be kicked.  (The rest of doMessage is in Delivery.)
RecvMessage(c, t) ==
  /\ authed[c] /\ \E u \in Users : online[u] = t
  /\ Receive(c, "kick", NoUser, t)

-----------------------------------------------------------------------------
(* The end of a connection                                                 *)

\* LOGOUT, end of file (the client closes, or the socket was shut down), a bad
\* frame or a failed TLS handshake: the thread drops
\* its own connection and closes it, the only place where that is done.
End(c) ==
  /\ pc[c] = "recv"
  /\ sock[c] = "shut" \/ c \notin silent
  /\ Drop(c)
  /\ Goto(c, "close")
  /\ UNCHANGED <<sock, arg, old, clientVars, monVars, overtaken>>

Close(c) ==
  /\ pc[c] = "close"
  /\ sock' = [sock EXCEPT ![c] = "closed"]
  /\ silent' = silent \ {c}
  /\ Goto(c, "ended")
  /\ UNCHANGED <<routerVars, sessionVars, arg, old, frames, tokens, monVars,
                 overtaken>>

-----------------------------------------------------------------------------
(* The monitor                                                             *)

\* Bug: only authenticated connections time out.
Bug_ScanAuthed(T) ==
  /\ monPc = "sleep" /\ T # {} /\ T \subseteq {c \in conns : authed[c]}
  /\ victims' = T /\ monPc' = "drop"
  /\ UNCHANGED <<routerVars, sessionVars, sock, threadVars,
                 clientVars, victim, overtaken>>

\* Under g_m_: the connections that have been idle too long, or whose outbuf
\* is over the cap.
Scan(T) ==
  /\ monPc = "sleep" /\ T # {} /\ T \subseteq conns
  /\ victims' = T /\ monPc' = "drop"
  /\ UNCHANGED <<routerVars, sessionVars, sock, threadVars,
                 clientVars, victim, overtaken>>

MonDrop(v) ==
  /\ monPc = "drop" /\ v \in victims
  /\ Drop(v)
  /\ victims' = victims \ {v} /\ victim' = v /\ monPc' = "shut"
  /\ UNCHANGED <<sock, threadVars, clientVars, overtaken>>

MonShut ==
  /\ monPc = "shut"
  /\ Shut(victim)
  /\ victim' = NoConn
  /\ monPc' = IF victims = {} THEN "sleep" ELSE "drop"
  /\ UNCHANGED <<routerVars, sessionVars, threadVars, clientVars,
                 victims, overtaken>>

-----------------------------------------------------------------------------
\* Nothing but clients can make the server move.
Quiet ==
  /\ \A c \in Conns : pc[c] \in {"none", "ended"}
                       \/ (pc[c] = "recv" /\ sock[c] = "open")
  /\ monPc = "sleep"
  /\ UNCHANGED vars

Recv(c) ==
  \/ \E u \in Users : RecvLogin(c, u) \/ RecvAuth(c, u)
  \/ \E r \in Rooms : RecvJoin(c, r)
  \/ RecvLeave(c)
  \/ \E t \in Conns : RecvMessage(c, t)

Handle(c) ==
  \/ LoginCheck(c) \/ LoginSet(c) \/ AuthSet(c) \/ AuthOk(c)
  \/ KickDrop(c) \/ KickShut(c)
  \/ DoJoin(c) \/ DoLeave(c)
  \/ Close(c)

Next ==
  \/ \E c \in Conns : Accept(c) \/ Vanish(c) \/ Recv(c) \/ Handle(c) \/ End(c)
  \/ \E T \in SUBSET Conns : Scan(T)
  \/ \E v \in Conns : MonDrop(v)
  \/ MonShut
  \/ Quiet

Spec == Init /\ [][Next]_vars

\* A vanished client's connection, once idle_ms have passed, is in every scan.
ScanSilent ==
  \E T \in SUBSET Conns : silent \cap conns \subseteq T /\ Scan(T)

\* The scheduler runs every thread that is not blocked in recv; a thread in
\* recv is woken by end of file; the monitor wakes up every scan_ms.
Fairness ==
  /\ \A c \in Conns : /\ WF_vars(Handle(c))
                      /\ WF_vars(sock[c] = "shut" /\ End(c))
  /\ WF_vars(\E v \in Conns : MonDrop(v)) /\ WF_vars(MonShut)
  /\ WF_vars(ScanSilent)

FairSpec == Spec /\ Fairness
-----------------------------------------------------------------------------
(* Properties                                                              *)

TypeOK ==
  /\ RouterTypeOK
  /\ conns \subseteq Conns
  /\ online \in [Users -> Conns \cup {NoConn}]
  /\ name \in [Conns -> Users \cup {NoUser}]
  /\ authed \in [Conns -> BOOLEAN]
  /\ sock \in [Conns -> {"none", "open", "shut", "closed"}]
  /\ silent \subseteq Conns
  /\ pc \in [Conns -> {"none", "recv", "login", "loginSet", "auth", "authOk",
                       "kick", "kickShut", "join", "leave", "close", "ended"}]
  /\ arg \in [Conns -> Users \cup Rooms \cup {NoUser}]
  /\ old \in [Conns -> Conns \cup {NoConn}]
  /\ frames \in 0..MaxFrames
  /\ tokens \subseteq Users
  /\ monPc \in {"sleep", "drop", "shut"}
  /\ victims \subseteq Conns /\ victim \in Conns \cup {NoConn}
  /\ overtaken \subseteq Conns

\* What is sent to a user goes to a connection that proved to be that user.
OnlineIsAuthed ==
  \A u \in Users : online[u] # NoConn
                   => authed[online[u]] /\ name[online[u]] = u

\* "To others in the room the user never left" (server.cpp Q2, Q5): a user goes
\* offline, or out of every room, only by the end of its current connection or
\* by a LEAVE of its own; never by the end of a connection that was replaced.
PresenceOutlivesOldConns ==
  [][\A u \in Users :
       (online[u] # NoConn /\ online'[u] = NoConn)
       \/ (userRoom[u] # NoRoom /\ userRoom'[u] = NoRoom)
       => \/ online[u] \in conns \ conns'
          \/ \E c \in Conns : /\ pc[c] = "leave" /\ pc'[c] # "leave"
                              /\ name[c] = u /\ online'[u] = online[u]]_vars

\* c is still served as a connection of a user who is reached on another one, or
\* on none, and no password LOGIN is to blame.
Replaced(c) ==
  /\ c \in conns /\ authed[c] /\ online[name[c]] # c
  /\ c \notin overtaken

\* A user has no second live connection except while a takeover is about to kick
\* it: no order of logins, drops and takeovers leaves one that nobody will end,
\* but for two LOGINs that both pass the check of E1004 (server.cpp Q5).
ReplacedIsBeingKicked ==
  \A c \in Conns :
    Replaced(c) => \E d \in Conns : old[d] = c /\ pc[d] \in {"authOk", "kick"}

\* The takeover ends the connection it replaces, in the tables and in its thread,
\* whatever happens meanwhile to the connection that has taken over.
ReplacedConnEnds ==
  \A c \in Conns : Replaced(c) ~> c \notin conns /\ pc[c] = "ended"

\* online_ comes to name a connection that has been dropped only by a LOGIN or
\* AUTH which that connection's thread was executing: no other order of drops,
\* takeovers and kicks leaves a user online who is not connected (dropConn,
\* its early return, finishAuth).
GhostsAreLateLogins ==
  [][\A u \in Users, c \in Conns \ conns' :
       online'[u] = c => \/ online[u] = c /\ c \notin conns
                         \/ pc[c] \in {"auth", "loginSet"}]_vars

\* A connection whose client vanished without closing is found and dropped.
SilentConnIsDropped ==
  \A c \in Conns : c \in silent ~> c \notin conns

\* Whoever drops a connection, its thread ends and its socket is closed: no
\* thread is left in recv on a connection no table mentions any more.
DroppedConnEnds ==
  \A c \in Conns : pc[c] # "none" /\ c \notin conns ~> pc[c] = "ended"

\* server.cpp line 58: a password LOGIN for an account that is online is
\* refused (E1004), never accepted and never a takeover.
LoginRefusedWhenOnline ==
  [][\A c \in Conns : pc[c] = "loginSet" /\ pc'[c] = "authOk"
                      => online[arg[c]] = NoConn]_vars

\* server.cpp line 730: a normal login, of a user who is offline, should find no
\* room left over from an earlier connection.
LoginFindsNoRoom ==
  [][\A c \in Conns : pc[c] = "loginSet" /\ pc'[c] = "authOk"
                      /\ online[arg[c]] = NoConn
                      => userRoom[arg[c]] = NoRoom]_vars

\* server.cpp lines 61-62: a dead connection locks its user out at most until
\* the heartbeat timeout, so a connection that has ended is nobody's.
EndedConnIsOffline ==
  \A u \in Users : online[u] # NoConn => pc[online[u]] # "ended"
=============================================================================
