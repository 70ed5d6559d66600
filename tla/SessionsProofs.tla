---------------------------- MODULE SessionsProofs ----------------------------
(***************************************************************************)
(* Theorems about Sessions, for any users, rooms, number of connections    *)
(* and frames.  One inductive invariant carries them all: typing, what the *)
(* place of a thread says about its locals, the router's invariant, and    *)
(* OnlineIsAuthed.  The router comes first: its lemmas speak of one method *)
(* each, and the larger steps of Sessions that call the router cite them.  *)
(***************************************************************************)
EXTENDS Sessions, TLAPS

-----------------------------------------------------------------------------
(* The router.                                                             *)

RouterInv == RouterTypeOK /\ RoomsAgree

LEMMA InitRouterInv == RouterInit => RouterInv
  BY RoomRouterAssumption DEF RouterInit, RouterInv, RouterTypeOK, RoomsAgree

LEMMA CreateRouterInv ==
  ASSUME RouterInv, NEW r \in Rooms, Create(r)
  PROVE  RouterInv'
  BY DEF RouterInv, RouterTypeOK, RoomsAgree, Create

LEMMA JoinRouterInv ==
  ASSUME RouterInv, NEW u \in Users, NEW r \in Rooms, Join(u, r)
  PROVE  RouterInv'
  <1>1. CASE r \in rooms
    <2>1. RouterTypeOK'
      BY <1>1 DEF RouterInv, RouterTypeOK, Join
    <2>2. RoomsAgree'
      BY <1>1, RoomRouterAssumption, SMTT(20)
         DEF RouterInv, RouterTypeOK, RoomsAgree, Join
    <2> QED
      BY <2>1, <2>2 DEF RouterInv
  <1>2. CASE r \notin rooms
    BY <1>2 DEF RouterInv, RouterTypeOK, RoomsAgree, Join, routerVars
  <1> QED
    BY <1>1, <1>2

LEMMA LeaveRouterInv ==
  ASSUME RouterInv, NEW u \in Users, Leave(u)
  PROVE  RouterInv'
  <1>1. RouterTypeOK'
    BY DEF RouterInv, RouterTypeOK, Leave
  <1>2. RoomsAgree'
    BY RoomRouterAssumption, SMTT(20)
       DEF RouterInv, RouterTypeOK, RoomsAgree, Leave
  <1> QED
    BY <1>1, <1>2 DEF RouterInv

LEMMA StutterRouterInv ==
  ASSUME RouterInv, UNCHANGED routerVars
  PROVE  RouterInv'
  BY DEF RouterInv, RouterTypeOK, RoomsAgree, routerVars

\* Whatever create, join and leave are called, in any order and by any thread,
\* a user is a member of exactly the room the other map gives it.
THEOREM RouterKeepsRoomsAgree == RouterSpec => []RoomsAgree
  <1>1. RouterInv /\ [RouterNext]_routerVars => RouterInv'
    BY CreateRouterInv, JoinRouterInv, LeaveRouterInv, StutterRouterInv
       DEF RouterNext
  <1>2. RouterInv => RoomsAgree
    BY DEF RouterInv
  <1> QED
    BY InitRouterInv, <1>1, <1>2, PTL DEF RouterSpec

-----------------------------------------------------------------------------
(* The sessions.                                                           *)

\* What a thread's place says about its locals.  A connection is not
\* authenticated while it executes a LOGIN or AUTH, because only its own thread
\* ever authenticates it: this is what makes SignOn safe.
LocalsInv ==
  /\ \A c \in Conns :
       /\ pc[c] \in {"login", "loginSet", "auth"} => ~authed[c]
       /\ pc[c] \in {"login", "loginSet", "auth", "authOk"} => arg[c] \in Users
       /\ pc[c] = "join" => arg[c] \in Rooms
       /\ pc[c] \in {"join", "leave"} => name[c] \in Users
       /\ pc[c] \in {"kick", "kickShut"} => old[c] \in Conns
       /\ authed[c] => name[c] \in Users
  /\ monPc = "shut" => victim \in Conns

IInv == TypeOK /\ LocalsInv /\ RoomsAgree /\ OnlineIsAuthed

-----------------------------------------------------------------------------
LEMMA ConnsAreNumbers == Conns \subseteq Nat /\ NoConn \notin Conns
  BY SessionsAssumption DEF Conns, NoConn

LEMMA InitIInv == Init => IInv
  <1> SUFFICES ASSUME Init PROVE IInv
    OBVIOUS
  <1>1. TypeOK
    BY SessionsAssumption, RoomRouterAssumption
       DEF Init, TypeOK, RouterTypeOK
  <1>2. LocalsInv
    BY DEF Init, LocalsInv
  <1>3. RoomsAgree
    BY RoomRouterAssumption DEF Init, RoomsAgree
  <1>4. OnlineIsAuthed
    BY DEF Init, OnlineIsAuthed
  <1> QED
    BY <1>1, <1>2, <1>3, <1>4 DEF IInv

-----------------------------------------------------------------------------
(* What the shared pieces of the steps do.                                 *)

\* dropConn keeps the session tables and the router in order.
LEMMA DropKeeps ==
  ASSUME IInv, NEW x \in Conns, Drop(x)
  PROVE  /\ conns' \subseteq Conns
         /\ online' \in [Users -> Conns \cup {NoConn}]
         /\ authed' \in [Conns -> BOOLEAN]
         /\ \A c \in Conns : authed'[c] => authed[c]
         /\ name' = name
         /\ OnlineIsAuthed'
         /\ RouterTypeOK' /\ RoomsAgree'
  <1>1. CASE x \notin conns
    BY <1>1 DEF Drop, IInv, TypeOK, RouterTypeOK, RoomsAgree, OnlineIsAuthed,
                sessionVars, routerVars
  <1>2. CASE x \in conns
    <2>1. /\ conns' \subseteq Conns
          /\ online' \in [Users -> Conns \cup {NoConn}]
          /\ authed' \in [Conns -> BOOLEAN]
          /\ \A c \in Conns : authed'[c] => authed[c]
          /\ name' = name
      BY <1>2 DEF Drop, IInv, TypeOK
    <2>2. OnlineIsAuthed'
      <3> SUFFICES ASSUME NEW u \in Users, online'[u] # NoConn
                   PROVE  authed'[online'[u]] /\ name'[online'[u]] = u
        BY DEF OnlineIsAuthed
      <3>1. online'[u] = online[u] /\ online[u] \in Conns
        BY <1>2 DEF Drop, IInv, TypeOK
      <3>2. authed[online[u]] /\ name[online[u]] = u
        BY <3>1 DEF IInv, OnlineIsAuthed
      <3>3. online[u] # x
        <4> SUFFICES ASSUME online[u] = x PROVE FALSE
          OBVIOUS
        <4>1. online'[u] = NoConn
          BY <1>2, <3>2 DEF Drop, IInv, TypeOK
        <4> QED
          BY <4>1
      <3>4. authed'[online[u]] = authed[online[u]]
        BY <1>2, <3>1, <3>3 DEF Drop, IInv, TypeOK
      <3> QED
        BY <2>1, <3>1, <3>2, <3>4
    <2>3. RouterTypeOK' /\ RoomsAgree'
      <3>1. RouterInv
        BY DEF IInv, TypeOK, RouterInv
      <3>2. CASE authed[x] /\ online[name[x]] = x
        <4>1. name[x] \in Users /\ Leave(name[x])
          BY <1>2, <3>2 DEF Drop, IInv, LocalsInv
        <4> QED
          BY <3>1, <4>1, LeaveRouterInv DEF RouterInv
      <3>3. CASE ~(authed[x] /\ online[name[x]] = x)
        BY <1>2, <3>1, <3>3, StutterRouterInv DEF Drop, RouterInv, routerVars
      <3> QED
        BY <3>2, <3>3
    <2> QED
      BY <2>1, <2>2, <2>3
  <1> QED
    BY <1>1, <1>2

\* A step that leaves sessions and router alone keeps their invariants.
LEMMA SessionsUntouched ==
  ASSUME IInv, UNCHANGED <<routerVars, sessionVars>>
  PROVE  /\ RouterTypeOK' /\ RoomsAgree' /\ OnlineIsAuthed'
         /\ conns' \subseteq Conns
         /\ online' \in [Users -> Conns \cup {NoConn}]
         /\ name' \in [Conns -> Users \cup {NoUser}]
         /\ authed' \in [Conns -> BOOLEAN]
  BY DEF IInv, TypeOK, RouterTypeOK, RoomsAgree, OnlineIsAuthed, routerVars,
         sessionVars

-----------------------------------------------------------------------------
(* The steps, by what they touch.                                          *)

LEMMA ReceiveKeeps ==
  ASSUME IInv, NEW c \in Conns, Recv(c)
  PROVE  IInv'
  <1> USE DEF Receive, Goto, threadVars, clientVars, monVars
  <1>1. ASSUME NEW u \in Users, RecvLogin(c, u) \/ RecvAuth(c, u) PROVE IInv'
    <2>1. UNCHANGED <<routerVars, sessionVars>>
      BY <1>1 DEF RecvLogin, RecvAuth
    <2>2. TypeOK'
      BY <1>1, <2>1, SessionsUntouched, SessionsAssumption, SMTT(20)
         DEF RecvLogin, RecvAuth, IInv, TypeOK
    <2>3. LocalsInv'
      BY <1>1 DEF RecvLogin, RecvAuth, IInv, TypeOK, LocalsInv, sessionVars
    <2> QED
      BY <2>1, <2>2, <2>3, SessionsUntouched DEF IInv
  <1>2. ASSUME NEW r \in Rooms, RecvJoin(c, r) PROVE IInv'
    <2>1. UNCHANGED <<routerVars, sessionVars>>
      BY <1>2 DEF RecvJoin
    <2>2. TypeOK'
      BY <1>2, <2>1, SessionsUntouched, SessionsAssumption, SMTT(20)
         DEF RecvJoin, IInv, TypeOK
    <2>3. LocalsInv'
      BY <1>2 DEF RecvJoin, IInv, TypeOK, LocalsInv, sessionVars
    <2> QED
      BY <2>1, <2>2, <2>3, SessionsUntouched DEF IInv
  <1>3. ASSUME RecvLeave(c) PROVE IInv'
    <2>1. UNCHANGED <<routerVars, sessionVars>>
      BY <1>3 DEF RecvLeave
    <2>2. TypeOK'
      BY <1>3, <2>1, SessionsUntouched, SessionsAssumption, SMTT(20)
         DEF RecvLeave, IInv, TypeOK, LocalsInv
    <2>3. LocalsInv'
      BY <1>3 DEF RecvLeave, IInv, TypeOK, LocalsInv, sessionVars
    <2> QED
      BY <2>1, <2>2, <2>3, SessionsUntouched DEF IInv
  <1>4. ASSUME NEW t \in Conns, RecvMessage(c, t) PROVE IInv'
    <2>1. UNCHANGED <<routerVars, sessionVars>>
      BY <1>4 DEF RecvMessage
    <2>2. TypeOK'
      BY <1>4, <2>1, SessionsUntouched, SessionsAssumption, SMTT(20)
         DEF RecvMessage, IInv, TypeOK
    <2>3. LocalsInv'
      BY <1>4 DEF RecvMessage, IInv, TypeOK, LocalsInv, sessionVars
    <2> QED
      BY <2>1, <2>2, <2>3, SessionsUntouched DEF IInv
  <1> QED
    BY <1>1, <1>2, <1>3, <1>4 DEF Recv

LEMMA SignOnKeeps ==
  ASSUME IInv, NEW c \in Conns, LoginSet(c) \/ AuthSet(c)
  PROVE  IInv'
  <1> USE DEF Goto, clientVars, monVars, routerVars
  <1>1. arg[c] \in Users /\ ~authed[c] /\ SignOn(c, arg[c])
    BY DEF IInv, LocalsInv, LoginSet, AuthSet
  <1>2. old' \in [Conns -> Conns \cup {NoConn}]
    BY <1>1 DEF IInv, TypeOK, LoginSet, AuthSet
  <1>3. TypeOK'
    <2>1. authed' \in [Conns -> BOOLEAN]
      BY <1>1 DEF IInv, TypeOK, SignOn
    <2>2. /\ name' \in [Conns -> Users \cup {NoUser}]
          /\ online' \in [Users -> Conns \cup {NoConn}]
          /\ pc' \in [Conns -> {"none", "recv", "login", "loginSet", "auth",
                                "authOk", "kick", "kickShut", "join", "leave",
                                "close", "ended"}]
      BY <1>1 DEF IInv, TypeOK, SignOn
    <2>3. RouterTypeOK'
      BY <1>1 DEF IInv, TypeOK, RouterTypeOK, SignOn
    <2>4. overtaken' \subseteq Conns
      <3>1. overtaken \subseteq Conns /\ online[arg[c]] \in Conns \cup {NoConn}
        BY <1>1 DEF IInv, TypeOK
      <3> QED
        BY <3>1 DEF LoginSet, AuthSet
    <2> QED
      BY <1>1, <1>2, <2>1, <2>2, <2>3, <2>4 DEF IInv, TypeOK, SignOn
  <1>4. LocalsInv'
    <2>1. \A d \in Conns \ {c} : /\ pc'[d] = pc[d] /\ arg'[d] = arg[d]
                                 /\ name'[d] = name[d] /\ old'[d] = old[d]
                                 /\ authed'[d] = authed[d]
      BY <1>1 DEF IInv, TypeOK, SignOn, LoginSet, AuthSet
    <2>2. pc'[c] = "authOk" /\ arg'[c] = arg[c] /\ name'[c] = arg[c]
      BY <1>1 DEF IInv, TypeOK, SignOn
    <2>3. monPc' = monPc /\ victim' = victim
      BY <1>1 DEF SignOn
    <2> QED
      BY <1>1, <2>1, <2>2, <2>3 DEF IInv, LocalsInv
  <1>5. RoomsAgree'
    BY <1>1 DEF IInv, RoomsAgree, SignOn
  <1>6. OnlineIsAuthed'
    BY <1>1, ConnsAreNumbers DEF IInv, TypeOK, OnlineIsAuthed, SignOn
  <1> QED
    BY <1>3, <1>4, <1>5, <1>6 DEF IInv

\* Steps of a thread that change neither sessions nor router.
LEMMA QuietStepKeeps ==
  ASSUME IInv, NEW c \in Conns,
         LoginCheck(c) \/ AuthOk(c) \/ KickShut(c) \/ Close(c) \/ Vanish(c)
  PROVE  IInv'
  <1> USE DEF Goto, FrameDone, threadVars, clientVars, monVars
  <1>1. UNCHANGED <<routerVars, sessionVars, monVars, overtaken>>
    BY DEF LoginCheck, AuthOk, KickShut, Close, Vanish
  <1>2. tokens' \subseteq Users /\ silent' \subseteq Conns /\ frames' \in 0..MaxFrames
    BY DEF LoginCheck, AuthOk, KickShut, Close, Vanish, IInv, TypeOK, LocalsInv
  <1>3. /\ arg' \in [Conns -> Users \cup Rooms \cup {NoUser}]
        /\ old' \in [Conns -> Conns \cup {NoConn}]
        /\ sock' \in [Conns -> {"none", "open", "shut", "closed"}]
        /\ pc' \in [Conns -> {"none", "recv", "login", "loginSet", "auth",
                              "authOk", "kick", "kickShut", "join", "leave",
                              "close", "ended"}]
    BY SMTT(20)
       DEF LoginCheck, AuthOk, KickShut, Shut, Close, Vanish, IInv, TypeOK
  <1>4. TypeOK'
    BY <1>1, <1>2, <1>3, SessionsUntouched DEF IInv, TypeOK
  <1>5. LocalsInv'
    BY <1>1, SMTT(20) DEF LoginCheck, AuthOk, KickShut, Close, Vanish, IInv,
                          TypeOK, LocalsInv, sessionVars
  <1> QED
    BY <1>1, <1>4, <1>5, SessionsUntouched DEF IInv

\* A thread or the monitor drops a connection.
LEMMA DropStepKeeps ==
  ASSUME IInv, NEW c \in Conns, KickDrop(c) \/ End(c) \/ MonDrop(c)
  PROVE  IInv'
  <1> USE DEF Goto, clientVars, monVars, threadVars
  <1>1. PICK x \in Conns : Drop(x)
    BY DEF KickDrop, End, MonDrop, IInv, TypeOK, LocalsInv
  <1>2. UNCHANGED <<sock, arg, old, clientVars, overtaken>>
    BY DEF KickDrop, End, MonDrop
  <1>3. pc' \in [Conns -> {"none", "recv", "login", "loginSet", "auth",
                           "authOk", "kick", "kickShut", "join", "leave",
                           "close", "ended"}]
    BY DEF KickDrop, End, MonDrop, IInv, TypeOK
  <1>4. /\ monPc' \in {"sleep", "drop", "shut"}
        /\ victims' \subseteq Conns /\ victim' \in Conns \cup {NoConn}
        /\ monPc' = "shut" => victim' \in Conns
    BY DEF KickDrop, End, MonDrop, IInv, TypeOK, LocalsInv
  <1>5. TypeOK'
    BY <1>1, <1>2, <1>3, <1>4, DropKeeps DEF IInv, TypeOK
  <1>6. \A d \in Conns : \/ pc'[d] = pc[d]
                         \/ pc[d] = "kick" /\ pc'[d] = "kickShut"
                         \/ pc'[d] = "close"
    BY DEF KickDrop, End, MonDrop, IInv, TypeOK
  <1>7. LocalsInv'
    BY <1>1, <1>2, <1>4, <1>6, DropKeeps, SMTT(20) DEF IInv, LocalsInv
  <1> QED
    BY <1>1, <1>5, <1>7, DropKeeps DEF IInv

\* JOIN and LEAVE.
LEMMA RoomStepKeeps ==
  ASSUME IInv, NEW c \in Conns, DoJoin(c) \/ DoLeave(c)
  PROVE  IInv'
  <1> USE DEF Goto, FrameDone, clientVars, monVars, sessionVars
  <1>1. RouterInv
    BY DEF IInv, TypeOK, RouterInv
  <1>2. RouterInv'
    <2>1. CASE DoJoin(c)
      BY <1>1, <2>1, JoinRouterInv DEF DoJoin, IInv, LocalsInv
    <2>2. CASE DoLeave(c)
      BY <1>1, <2>2, LeaveRouterInv DEF DoLeave, IInv, LocalsInv
    <2> QED
      BY <2>1, <2>2
  <1>3. TypeOK'
    BY <1>2 DEF DoJoin, DoLeave, IInv, TypeOK, RouterInv
  <1>4. LocalsInv'
    BY DEF DoJoin, DoLeave, IInv, TypeOK, LocalsInv
  <1>5. OnlineIsAuthed'
    BY DEF DoJoin, DoLeave, IInv, OnlineIsAuthed
  <1> QED
    BY <1>2, <1>3, <1>4, <1>5 DEF IInv, RouterInv

LEMMA AcceptKeeps ==
  ASSUME IInv, NEW c \in Conns, Accept(c)
  PROVE  IInv'
  <1> USE DEF Goto, Accept, clientVars, monVars, routerVars
  <1>1. TypeOK'
    BY DEF IInv, TypeOK, RouterTypeOK
  <1>2. LocalsInv'
    BY DEF IInv, TypeOK, LocalsInv
  <1>3. RoomsAgree' /\ OnlineIsAuthed'
    BY DEF IInv, RoomsAgree, OnlineIsAuthed
  <1> QED
    BY <1>1, <1>2, <1>3 DEF IInv

\* The rest of the monitor, and stuttering.
LEMMA MonitorKeeps ==
  ASSUME IInv,
         (\E T \in SUBSET Conns : Scan(T)) \/ MonShut \/ UNCHANGED vars
  PROVE  IInv'
  <1> USE DEF threadVars, clientVars, monVars, vars
  <1>1. UNCHANGED <<routerVars, sessionVars, threadVars, clientVars>>
    BY DEF Scan, MonShut
  <1>2. TypeOK'
    BY <1>1, SessionsUntouched, SMTT(20) DEF Scan, MonShut, Shut, IInv, TypeOK
  <1>3. LocalsInv'
    BY <1>1 DEF Scan, MonShut, IInv, LocalsInv, sessionVars
  <1> QED
    BY <1>1, <1>2, <1>3, SessionsUntouched DEF IInv

LEMMA NextKeepsIInv == IInv /\ [Next]_vars => IInv'
  BY ReceiveKeeps, SignOnKeeps, QuietStepKeeps, DropStepKeeps, RoomStepKeeps,
     AcceptKeeps, MonitorKeeps DEF Next, Handle, Quiet

LEMMA AlwaysIInv == Spec => []IInv
  BY InitIInv, NextKeepsIInv, PTL DEF Spec

-----------------------------------------------------------------------------
\* Every variable keeps its type, on any number of connections.
THEOREM SessionsTypeCorrect == Spec => []TypeOK
  <1>1. IInv => TypeOK
    BY DEF IInv
  <1> QED
    BY AlwaysIInv, <1>1, PTL

\* A broadcast reaches every member of the room once: the router's maps agree
\* although threads and the monitor call it in any order.
THEOREM RoomsAlwaysAgree == Spec => []RoomsAgree
  <1>1. IInv => RoomsAgree
    BY DEF IInv
  <1> QED
    BY AlwaysIInv, <1>1, PTL

\* What is sent to a user goes to a connection authenticated as that user.
THEOREM OnlineUsersAreAuthed == Spec => []OnlineIsAuthed
  <1>1. IInv => OnlineIsAuthed
    BY DEF IInv
  <1> QED
    BY AlwaysIInv, <1>1, PTL

-----------------------------------------------------------------------------
\* One step never takes a user offline, or out of its room, by the end of a
\* connection that is not the user's current one.
LEMMA StepKeepsPresence ==
  ASSUME IInv, Next, NEW u \in Users,
         \/ online[u] # NoConn /\ online'[u] = NoConn
         \/ userRoom[u] # NoRoom /\ userRoom'[u] = NoRoom
  PROVE  \/ online[u] \in conns \ conns'
         \/ \E c \in Conns : /\ pc[c] = "leave" /\ pc'[c] # "leave"
                             /\ name[c] = u /\ online'[u] = online[u]
  <1> DEFINE Lost == \/ online[u] # NoConn /\ online'[u] = NoConn
                     \/ userRoom[u] # NoRoom /\ userRoom'[u] = NoRoom
             Fate == \/ online[u] \in conns \ conns'
                     \/ \E c \in Conns : /\ pc[c] = "leave" /\ pc'[c] # "leave"
                                         /\ name[c] = u /\ online'[u] = online[u]
  <1>1. ASSUME NEW x \in Conns, Drop(x) PROVE Fate
    BY <1>1 DEF Drop, Leave, IInv, TypeOK, RouterTypeOK, sessionVars, routerVars
  <1>2. ASSUME NEW c \in Conns, LoginSet(c) \/ AuthSet(c) PROVE FALSE
    <2>1. arg[c] \in Users /\ SignOn(c, arg[c])
      BY <1>2 DEF IInv, LocalsInv, LoginSet, AuthSet
    <2> QED
      BY <2>1, ConnsAreNumbers DEF SignOn, IInv, TypeOK, routerVars
  <1>3. ASSUME NEW c \in Conns, DoJoin(c) PROVE FALSE
    <2>1. arg[c] \in Rooms /\ name[c] \in Users /\ Join(name[c], arg[c])
      BY <1>3 DEF DoJoin, IInv, LocalsInv
    <2> QED
      BY <1>3, <2>1, RoomRouterAssumption
         DEF DoJoin, Join, IInv, TypeOK, RouterTypeOK, sessionVars, routerVars
  <1>4. ASSUME NEW c \in Conns, DoLeave(c) PROVE Fate
    <2>1. pc[c] = "leave" /\ pc'[c] = "recv"
      BY <1>4 DEF DoLeave, FrameDone, Goto, IInv, TypeOK
    <2>2. online' = online /\ Leave(name[c])
      BY <1>4 DEF DoLeave, sessionVars
    <2>3. name[c] = u
      BY <2>2 DEF Leave, IInv, TypeOK, RouterTypeOK
    <2> QED
      BY <2>1, <2>2, <2>3
  <1>5. ASSUME UNCHANGED <<online, userRoom>> PROVE FALSE
    BY <1>5
  <1>6. ASSUME NEW c \in Conns, Accept(c) \/ Vanish(c) \/ Recv(c) PROVE Fate
    BY <1>5, <1>6 DEF Accept, Vanish, Recv, RecvLogin, RecvAuth, RecvJoin,
                      RecvLeave, RecvMessage, Receive, sessionVars, routerVars
  <1>7. ASSUME NEW c \in Conns, Handle(c) PROVE Fate
    <2>1. ASSUME LoginCheck(c) \/ AuthOk(c) \/ KickShut(c) \/ Close(c) PROVE Fate
      BY <1>5, <2>1 DEF LoginCheck, AuthOk, KickShut, Close, sessionVars, routerVars
    <2>2. ASSUME KickDrop(c) PROVE Fate
      BY <1>1, <2>2 DEF KickDrop, IInv, LocalsInv
    <2> QED
      BY <1>2, <1>3, <1>4, <1>7, <2>1, <2>2 DEF Handle
  <1>8. ASSUME NEW c \in Conns, End(c) \/ MonDrop(c) PROVE Fate
    BY <1>1, <1>8 DEF End, MonDrop
  <1>9. ASSUME (\E T \in SUBSET Conns : Scan(T)) \/ MonShut \/ Quiet PROVE Fate
    BY <1>5, <1>9 DEF Scan, MonShut, Quiet, vars, sessionVars, routerVars
  <1> QED
    BY <1>6, <1>7, <1>8, <1>9 DEF Next

\* To others in its room a user never left while its session moved from one
\* connection to another, whoever kicks whom and when.
THEOREM PresenceIsKept == Spec => PresenceOutlivesOldConns
  <1> DEFINE Kept ==
        \A u \in Users :
          (online[u] # NoConn /\ online'[u] = NoConn)
          \/ (userRoom[u] # NoRoom /\ userRoom'[u] = NoRoom)
          => \/ online[u] \in conns \ conns'
             \/ \E c \in Conns : /\ pc[c] = "leave" /\ pc'[c] # "leave"
                                 /\ name[c] = u /\ online'[u] = online[u]
  <1>1. IInv /\ [Next]_vars => [Kept]_vars
    BY StepKeepsPresence
  <1>2. [][Kept]_vars => PresenceOutlivesOldConns
    BY PTL DEF PresenceOutlivesOldConns
  <1> QED
    BY AlwaysIInv, <1>1, <1>2, PTL DEF Spec

-----------------------------------------------------------------------------
\* online_ comes to name a connection in a LOGIN or AUTH of that connection's
\* own thread, and nowhere else.
LEMMA StepBringsOnline ==
  ASSUME IInv, Next, NEW u \in Users, NEW c \in Conns,
         online[u] # c, online'[u] = c
  PROVE  /\ LoginSet(c) \/ AuthSet(c)
         /\ arg[c] = u
  <1> DEFINE Brought == (LoginSet(c) \/ AuthSet(c)) /\ arg[c] = u
  <1>1. ASSUME UNCHANGED online PROVE FALSE
    BY <1>1
  <1>2. ASSUME NEW x \in Conns, Drop(x) PROVE FALSE
    BY <1>2, ConnsAreNumbers DEF Drop, IInv, TypeOK, sessionVars
  <1>3. ASSUME NEW d \in Conns, LoginSet(d) \/ AuthSet(d) PROVE Brought
    <2>1. arg[d] \in Users /\ SignOn(d, arg[d])
      BY <1>3 DEF IInv, LocalsInv, LoginSet, AuthSet
    <2>2. online' = [online EXCEPT ![arg[d]] = d]
      BY <2>1 DEF SignOn
    <2>3. arg[d] = u /\ c = d
      BY <2>1, <2>2 DEF IInv, TypeOK
    <2> QED
      BY <1>3, <2>3
  <1>4. ASSUME NEW d \in Conns, Accept(d) \/ Vanish(d) \/ Recv(d) PROVE Brought
    BY <1>1, <1>4 DEF Accept, Vanish, Recv, RecvLogin, RecvAuth, RecvJoin,
                      RecvLeave, RecvMessage, Receive, sessionVars
  <1>5. ASSUME NEW d \in Conns, Handle(d) PROVE Brought
    <2>1. ASSUME \/ LoginCheck(d) \/ AuthOk(d) \/ KickShut(d) \/ Close(d)
                 \/ DoJoin(d) \/ DoLeave(d)
          PROVE Brought
      BY <1>1, <2>1 DEF LoginCheck, AuthOk, KickShut, Close, DoJoin, DoLeave,
                        sessionVars
    <2>2. ASSUME KickDrop(d) PROVE Brought
      BY <1>2, <2>2 DEF KickDrop, IInv, LocalsInv
    <2> QED
      BY <1>3, <1>5, <2>1, <2>2 DEF Handle
  <1>6. ASSUME NEW d \in Conns, End(d) \/ MonDrop(d) PROVE Brought
    BY <1>2, <1>6 DEF End, MonDrop
  <1>7. ASSUME (\E T \in SUBSET Conns : Scan(T)) \/ MonShut \/ Quiet
        PROVE Brought
    BY <1>1, <1>7 DEF Scan, MonShut, Quiet, vars, sessionVars
  <1> QED
    BY <1>4, <1>5, <1>6, <1>7 DEF Next

-----------------------------------------------------------------------------
(* Takeovers.                                                              *)

\* A connection nobody has accepted yet has no thread and no user.
FreshInv == \A c \in Conns : sock[c] = "none" => pc[c] = "none" /\ ~authed[c]

KickInv == FreshInv /\ ReplacedIsBeingKicked

LEMMA InitKick == Init => KickInv
  BY DEF Init, KickInv, FreshInv, ReplacedIsBeingKicked, Replaced

\* dropConn makes no connection a replaced one: it takes its own out of conns_,
\* and every other keeps its user and what online_ says of it.
LEMMA DropReplacesNone ==
  ASSUME IInv, NEW x \in Conns, Drop(x), UNCHANGED overtaken
  PROVE  \A c \in Conns : Replaced(c)' => Replaced(c) /\ c # x
  <1>1. CASE x \notin conns
    BY <1>1 DEF Drop, Replaced, sessionVars
  <1>2. CASE x \in conns
    <2> SUFFICES ASSUME NEW c \in Conns, Replaced(c)' PROVE Replaced(c) /\ c # x
      OBVIOUS
    <2>1. c \in conns /\ c # x /\ authed'[c] = authed[c] /\ name' = name
      BY <1>2 DEF Drop, Replaced, IInv, TypeOK
    <2>2. authed[c] /\ name[c] \in Users /\ online'[name[c]] # c
      BY <2>1 DEF Replaced, IInv, LocalsInv
    <2>3. online[name[c]] # c
      BY <1>2, <2>1, <2>2 DEF Drop, IInv, TypeOK
    <2> QED
      BY <2>1, <2>2, <2>3 DEF Replaced
  <1> QED
    BY <1>1, <1>2

\* A sign-on by AUTH remembers whom it replaces, and has yet to kick it; one by
\* LOGIN is to blame for it.
LEMMA SignOnKick ==
  ASSUME IInv, KickInv, NEW c \in Conns, LoginSet(c) \/ AuthSet(c)
  PROVE  KickInv'
  <1>1. /\ arg[c] \in Users /\ SignOn(c, arg[c]) /\ pc[c] \in {"loginSet", "auth"}
    BY DEF IInv, LocalsInv, LoginSet, AuthSet
  <1>2. FreshInv'
    BY <1>1 DEF KickInv, FreshInv, SignOn, Goto, IInv, TypeOK
  <1>3. ASSUME NEW b \in Conns, Replaced(b)'
        PROVE  \E d \in Conns : old'[d] = b /\ pc'[d] \in {"authOk", "kick"}
    <2>1. b # c
      BY <1>1, <1>3 DEF Replaced, SignOn, IInv, TypeOK
    <2>2. /\ name'[b] = name[b] /\ authed'[b] = authed[b] /\ conns' = conns
          /\ pc'[c] = "authOk"
          /\ \A d \in Conns \ {c} : pc'[d] = pc[d]
      BY <1>1, <2>1 DEF SignOn, Goto, IInv, TypeOK
    <2>3. \A d \in Conns \ {c} : old'[d] = old[d]
      BY DEF LoginSet, AuthSet, IInv, TypeOK
    <2>4. b \in conns /\ authed[b] /\ name[b] \in Users /\ b \notin overtaken
      BY <1>3, <2>2 DEF Replaced, IInv, LocalsInv, LoginSet, AuthSet
    <2>5. CASE online[name[b]] # b
      <3>1. Replaced(b)
        BY <2>4, <2>5 DEF Replaced
      <3>2. PICK d \in Conns : old[d] = b /\ pc[d] \in {"authOk", "kick"}
        BY <3>1 DEF KickInv, ReplacedIsBeingKicked
      <3>3. d # c
        BY <1>1, <3>2
      <3> QED
        BY <2>2, <2>3, <3>2, <3>3
    <2>6. CASE online[name[b]] = b
      <3>1. arg[c] = name[b]
        BY <1>1, <1>3, <2>2, <2>4, <2>6 DEF Replaced, SignOn, IInv, TypeOK
      <3>2. CASE LoginSet(c)
        <4>1. b # NoConn
          BY ConnsAreNumbers
        <4>2. b \in overtaken'
          BY <2>1, <2>6, <3>1, <3>2, <4>1 DEF LoginSet
        <4> QED
          BY <1>3, <4>2 DEF Replaced
      <3>3. CASE AuthSet(c)
        <4>1. old'[c] = b
          BY <2>1, <2>6, <3>1, <3>3 DEF AuthSet, IInv, TypeOK
        <4> QED
          BY <2>2, <4>1
      <3> QED
        BY <3>2, <3>3
    <2> QED
      BY <2>5, <2>6
  <1> QED
    BY <1>2, <1>3 DEF KickInv, ReplacedIsBeingKicked

\* Whoever is about to kick stays so until it has.
LEMMA NextKick == IInv /\ KickInv /\ [Next]_vars => KickInv'
  <1> SUFFICES ASSUME IInv, KickInv, [Next]_vars PROVE KickInv'
    OBVIOUS
  \* A step after which no more connections are replaced, and which takes none of
  \* their kickers away.
  <1>k. ASSUME \A c \in Conns : Replaced(c)' => Replaced(c),
               \A c, d \in Conns : /\ Replaced(c)'
                                   /\ old[d] = c /\ pc[d] \in {"authOk", "kick"}
                                   => old'[d] = c /\ pc'[d] \in {"authOk", "kick"},
               FreshInv'
        PROVE  KickInv'
    BY <1>k DEF KickInv, ReplacedIsBeingKicked
  <1> USE DEF Goto, FrameDone, threadVars, sessionVars
  <1>1. ASSUME NEW c \in Conns, Accept(c) PROVE KickInv'
    <2>1. ~authed[c] /\ sock[c] = "none" /\ pc[c] = "none"
      BY <1>1 DEF Accept, KickInv, FreshInv
    <2>2. \A b \in Conns : Replaced(b)' => Replaced(b)
      BY <1>1, <2>1 DEF Accept, Replaced
    <2>3. FreshInv'
      BY <1>1 DEF Accept, KickInv, FreshInv, IInv, TypeOK
    <2>4. \A d \in Conns : old'[d] = old[d] /\ (d # c => pc'[d] = pc[d])
      BY <1>1 DEF Accept, IInv, TypeOK
    <2> QED
      BY <1>k, <2>1, <2>2, <2>3, <2>4
  <1>2. ASSUME NEW c \in Conns, Vanish(c) PROVE KickInv'
    BY <1>2, <1>k DEF Vanish, Replaced, KickInv, FreshInv
  <1>3. ASSUME NEW c \in Conns, Recv(c) PROVE KickInv'
    <2>1. /\ pc[c] = "recv" /\ UNCHANGED <<sessionVars, sock, overtaken>>
          /\ \A d \in Conns \ {c} : pc'[d] = pc[d] /\ old'[d] = old[d]
      BY <1>3 DEF Recv, RecvLogin, RecvAuth, RecvJoin, RecvLeave, RecvMessage, Receive,
                  IInv, TypeOK
    <2>2. FreshInv'
      BY <2>1 DEF KickInv, FreshInv
    <2> QED
      BY <1>k, <2>1, <2>2 DEF Replaced
  <1>4. ASSUME NEW c \in Conns, LoginSet(c) \/ AuthSet(c) PROVE KickInv'
    BY <1>4, SignOnKick
  <1>5. ASSUME NEW c \in Conns, LoginCheck(c) \/ DoJoin(c) \/ DoLeave(c) \/ Close(c)
        PROVE  KickInv'
    <2>1. /\ pc[c] \in {"login", "join", "leave", "close"} /\ old' = old
          /\ \A d \in Conns \ {c} : pc'[d] = pc[d]
          /\ UNCHANGED <<sessionVars, overtaken>>
          /\ \A d \in Conns \ {c} : sock'[d] = sock[d]
      BY <1>5 DEF LoginCheck, DoJoin, DoLeave, Close, IInv, TypeOK
    <2>2. sock[c] # "none" /\ sock'[c] \in {sock[c], "closed"}
      BY <1>5, <2>1 DEF LoginCheck, DoJoin, DoLeave, Close, IInv, TypeOK, KickInv, FreshInv
    <2>3. FreshInv'
      BY <2>1, <2>2 DEF KickInv, FreshInv
    <2> QED
      BY <1>k, <2>1, <2>3 DEF Replaced
  <1>6. ASSUME NEW c \in Conns, AuthOk(c) PROVE KickInv'
    <2>1. /\ pc[c] = "authOk" /\ UNCHANGED <<old, sock, overtaken, sessionVars>>
          /\ \A d \in Conns \ {c} : pc'[d] = pc[d]
          /\ old[c] # NoConn => pc'[c] = "kick"
      BY <1>6 DEF AuthOk, IInv, TypeOK
    <2>2. FreshInv'
      BY <2>1 DEF KickInv, FreshInv
    <2> QED
      BY <1>k, <2>1, <2>2, ConnsAreNumbers DEF Replaced
  <1>7. ASSUME NEW c \in Conns, KickDrop(c) PROVE KickInv'
    <2>1. /\ pc[c] = "kick" /\ Drop(old[c]) /\ old[c] \in Conns
          /\ UNCHANGED <<old, sock, overtaken>>
          /\ \A d \in Conns \ {c} : pc'[d] = pc[d]
      BY <1>7 DEF KickDrop, IInv, LocalsInv, TypeOK
    <2>2. \A b \in Conns : Replaced(b)' => Replaced(b) /\ b # old[c]
      BY <2>1, DropReplacesNone
    <2>3. FreshInv'
      BY <2>1, DropKeeps DEF KickInv, FreshInv
    <2> QED
      BY <1>k, <2>1, <2>2, <2>3
  <1>8. ASSUME NEW c \in Conns, KickShut(c) PROVE KickInv'
    <2>1. /\ pc[c] = "kickShut" /\ UNCHANGED <<overtaken, sessionVars>>
          /\ \A d \in Conns \ {c} : pc'[d] = pc[d] /\ old'[d] = old[d]
      BY <1>8 DEF KickShut, IInv, TypeOK
    <2>2. \A d \in Conns : sock'[d] = "none" => sock[d] = "none"
      BY <1>8 DEF KickShut, Shut, IInv, TypeOK
    <2>3. FreshInv'
      BY <2>1, <2>2 DEF KickInv, FreshInv
    <2> QED
      BY <1>k, <2>1, <2>3 DEF Replaced
  <1>9. ASSUME NEW c \in Conns, End(c) \/ MonDrop(c) PROVE KickInv'
    <2>1. /\ Drop(c) /\ UNCHANGED <<old, sock, overtaken>>
          /\ \A d \in Conns : pc'[d] = pc[d] \/ (d = c /\ pc[d] = "recv")
      BY <1>9 DEF End, MonDrop, IInv, TypeOK
    <2>2. \A b \in Conns : Replaced(b)' => Replaced(b)
      BY <2>1, DropReplacesNone
    <2>3. FreshInv'
      BY <2>1, DropKeeps DEF KickInv, FreshInv
    <2> QED
      BY <1>k, <2>1, <2>2, <2>3
  <1>10. ASSUME (\E T \in SUBSET Conns : Scan(T)) \/ MonShut \/ UNCHANGED vars
         PROVE  KickInv'
    <2>1. UNCHANGED <<threadVars, sessionVars, overtaken>>
      BY <1>10 DEF Scan, MonShut, vars
    <2>2. \A d \in Conns : sock'[d] = "none" => sock[d] = "none"
      BY <1>10 DEF Scan, MonShut, Shut, vars, IInv, TypeOK
    <2>3. FreshInv'
      BY <2>1, <2>2 DEF KickInv, FreshInv
    <2> QED
      BY <1>k, <2>1, <2>3 DEF Replaced
  <1> QED
    BY <1>1, <1>2, <1>3, <1>4, <1>5, <1>6, <1>7, <1>8, <1>9, <1>10
    DEF Next, Handle, Quiet

\* Besides the connection it is reached on, a user has no live one that is not
\* about to be kicked by a takeover, whoever drops whom and when (doLogin, doAuth,
\* finishAuth, dropConn); two LOGINs that both passed their check are the
\* exception.
THEOREM TakeoversKickTheReplaced == Spec => []ReplacedIsBeingKicked
  <1>1. KickInv => ReplacedIsBeingKicked
    BY DEF KickInv
  <1> QED
    BY <1>1, AlwaysIInv, InitKick, NextKick, PTL DEF Spec

-----------------------------------------------------------------------------
\* A user is online on a connection that was dropped only when that connection
\* was dropped in the middle of its own LOGIN or AUTH.
THEOREM GhostsCameLate == Spec => GhostsAreLateLogins
  <1> DEFINE Late ==
        \A u \in Users, c \in Conns \ conns' :
          online'[u] = c => \/ online[u] = c /\ c \notin conns
                            \/ pc[c] \in {"auth", "loginSet"}
  <1>1. ASSUME IInv, Next PROVE Late
    <2> SUFFICES ASSUME NEW u \in Users, NEW c \in Conns,
                        c \notin conns', online'[u] = c
                 PROVE  \/ online[u] = c /\ c \notin conns
                        \/ pc[c] \in {"auth", "loginSet"}
      OBVIOUS
    <2>1. CASE online[u] # c
      <3>1. LoginSet(c) \/ AuthSet(c)
        BY <1>1, <2>1, StepBringsOnline
      <3> QED
        BY <3>1 DEF LoginSet, AuthSet
    <2>2. CASE online[u] = c
      <3>1. authed[c] /\ name[c] = u
        BY <1>1, <2>2, ConnsAreNumbers DEF IInv, OnlineIsAuthed
      <3>2. ASSUME NEW x \in Conns, Drop(x), c \in conns PROVE FALSE
        <4>1. x = c
          BY <3>2 DEF Drop, sessionVars
        <4> QED
          BY <1>1, <2>2, <3>1, <3>2, <4>1, ConnsAreNumbers
             DEF Drop, IInv, TypeOK
      <3>3. ASSUME c \in conns PROVE FALSE
        <4>1. ~(conns \subseteq conns')
          BY <3>3
        <4>2. \E x \in Conns : Drop(x)
          BY <1>1, <4>1
             DEF Next, Accept, Vanish, Recv, RecvLogin, RecvAuth, RecvJoin,
                 RecvLeave, RecvMessage, Receive, Handle, LoginCheck, LoginSet,
                 AuthSet, SignOn, AuthOk, KickDrop, KickShut, DoJoin, DoLeave,
                 Close, End, Scan, MonDrop, MonShut, Quiet, vars, sessionVars,
                 IInv, LocalsInv
        <4> QED
          BY <3>2, <3>3, <4>2
      <3> QED
        BY <2>2, <3>3
    <2> QED
      BY <2>1, <2>2
  <1>2. ASSUME IInv, UNCHANGED vars PROVE [Late]_vars
    BY <1>2
  <1>3. IInv /\ [Next]_vars => [Late]_vars
    BY <1>1, <1>2
  <1>4. [][Late]_vars => GhostsAreLateLogins
    BY PTL DEF GhostsAreLateLogins
  <1> QED
    BY AlwaysIInv, <1>3, <1>4, PTL DEF Spec
=============================================================================
