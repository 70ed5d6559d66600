------------------------------- MODULE Startup -------------------------------
(***************************************************************************)
(* One server process after the other on one database and one pepper file: *)
(* main, ChatServer::start, Database::open, and CREATE with the rooms that *)
(* a start loads again.                                                    *)
(*                                                                         *)
(* A step is one call that reaches the disk, and the process may be killed *)
(* between any two of them: what it held in memory is gone, every          *)
(* statement outside a batch was committed on its own.  The calls named in *)
(* Faults may fail.  While the server is down its operator may put another *)
(* pepper file in place.  The word file and the command line, which no     *)
(* step below depends on, are left out.                                    *)
(***************************************************************************)
EXTENDS Integers, FiniteSetsExt

CONSTANTS
  Users,
  Names, Lobby,             \* valid room names; "lobby"
  Faults,                   \* calls that may fail
  MaxPeppers, MaxLaunches   \* bounds of the model

FaultPoints == {"open", "schema", "ver_get", "ver_set", "count", "write",
                "pid_get", "pid_set", "tls", "list", "insert", "find", "listen"}

ASSUME StartupAssumption ==
  /\ Lobby \in Names /\ "none" \notin Users
  /\ {MaxPeppers, MaxLaunches} \subseteq Nat
  /\ Faults \subseteq FaultPoints

Server == "SERVER"
NoMark == ""                \* what meta_get returns for a key that is not there
NoRoom == [id |-> 0, owner |-> "none"]

\* Peppers are numbered as they are drawn; their fingerprints differ.
None    == 0
Bare    == -1              \* a version 1 row holds the key as it is
Short   == -2              \* a pepper file that is not 64 hex digits long
Swapped == MaxPeppers + 1  \* the pepper the operator installs

VARIABLES
  \* the disk
  ver, pid,    \* meta['schema_ver'] (NoMark if not there) and ['pepper_id']
  users,       \* the pepper each user's row was blinded with
  rooms,       \* the rooms table
  file,        \* the pepper file: None, Short, or the pepper in it
  \* the process
  pc,          \* the next call of the main thread
  pepper,      \* pepper_hex_
  router,      \* router_: the room of each name, NoRoom if there is none
  lsock,       \* listen_fd_: "none", "open", "shut"
  running,     \* running_
  mon,         \* the monitor thread: "none", "runs", "done"
  making,      \* doCreate of each user: its next step, its room, the id found
  \* history
  peppers, launches,
  told,        \* the rooms somebody got a CREATE_OK for, with their owners
  heard,       \* a signal came while running_ was set
  refused,     \* the last start was refused by a gate
  strange      \* the database or the pepper file is not this server's work

disk    == <<ver, pid, users, rooms, file>>
memory  == <<pepper, router, lsock, running, mon, making, heard>>
history == <<peppers, launches, told, refused, strange>>
vars    == <<disk, pc, memory, history>>

Fails(call) == call \in Faults

Idle == [step |-> "none", room |-> Lobby, id |-> 0]
Stored(r) == rooms[r] # NoRoom
Routed(r) == router[r] # NoRoom

\* A first database, one of version 1, or one of a later version.
Init ==
  /\ \/ ver = NoMark /\ users = [u \in Users |-> None] /\ strange = FALSE
     \/ ver = NoMark /\ users = [u \in Users |-> Bare] /\ strange = TRUE
     \/ ver = "3" /\ users = [u \in Users |-> None] /\ strange = TRUE
  /\ pid = None /\ file \in {None, Swapped} /\ rooms = [r \in Names |-> NoRoom]
  /\ pc = "off"
  /\ pepper = None /\ router = [r \in Names |-> NoRoom] /\ lsock = "none"
  /\ running = FALSE /\ mon = "none" /\ making = [u \in Users |-> Idle]
  /\ peppers = 0 /\ launches = 0 /\ told = {} /\ heard = FALSE /\ refused = FALSE

\* The process is gone, and its memory with it.
Gone ==
  /\ pc' = "off"
  /\ pepper' = None /\ router' = [r \in Names |-> NoRoom] /\ lsock' = "none"
  /\ running' = FALSE /\ mon' = "none" /\ making' = [u \in Users |-> Idle]
  /\ heard' = FALSE

\* The main thread goes on, and only what is named here has changed with it.
GoTo(next) == pc' = next /\ UNCHANGED memory

\* A call that ends the start when it fails.
CallOrEnd(call, next) ==
  /\ GoTo(next) \/ (Fails(call) /\ Gone)
  /\ UNCHANGED history

\* The gates: start returns false, or abort.
Refuse == Gone /\ refused' = TRUE /\ UNCHANGED <<peppers, launches, told, strange>>

\* meta_get and count_users return nothing when the statement fails.
Reads(value, nothing, call) ==
  {value} \cup (IF Fails(call) THEN {nothing} ELSE {})

-----------------------------------------------------------------------------
(* start                                                                   *)

Launch ==
  /\ pc = "off" /\ launches < MaxLaunches
  /\ launches' = launches + 1 /\ refused' = FALSE
  /\ GoTo("open")
  /\ UNCHANGED <<disk, peppers, told, strange>>

\* Database::open: the file, then the tables that are not there yet.
OpenFile == pc = "open" /\ CallOrEnd("open", "schema") /\ UNCHANGED disk
MakeTables == pc = "schema" /\ CallOrEnd("schema", "version") /\ UNCHANGED disk

\* Database::open, the gate: no mark and users is version 1.
CheckVersion ==
  /\ pc = "version"
  /\ \E v \in Reads(ver, NoMark, "ver_get"),
        some \in Reads(\E u \in Users : users[u] # None, FALSE, "count") :
       IF v = "2" THEN GoTo("pepper") /\ UNCHANGED history
       ELSE IF v = NoMark /\ ~some THEN GoTo("mark") /\ UNCHANGED history
       ELSE Refuse
  /\ UNCHANGED disk

\* Bug: a new database is not marked.
Bug_MarkVersion == pc = "mark" /\ CallOrEnd("ver_set", "pepper") /\ UNCHANGED disk

\* Database::open, the last statement.
MarkVersion ==
  /\ pc = "mark"
  /\ CallOrEnd("ver_set", "pepper")
  /\ ver' = IF pc' = "off" THEN ver ELSE "2"
  /\ UNCHANGED <<pid, users, rooms, file>>

\* load_or_create_pepper: fopen leaves an empty file ...
LoadPepper ==
  /\ pc = "pepper"
  /\ CASE file = Short -> Refuse /\ UNCHANGED file
       [] file = None -> /\ peppers < MaxPeppers
                         /\ GoTo("write") /\ file' = Short /\ UNCHANGED history
       [] OTHER -> /\ pc' = "bind" /\ pepper' = file
                   /\ UNCHANGED <<router, lsock, running, mon, making, heard,
                                  file, history>>
  /\ UNCHANGED <<ver, pid, users, rooms>>

\* ... and nobody looks at what fwrite returns.
WritePepper ==
  /\ pc = "write" /\ pc' = "bind"
  /\ peppers' = peppers + 1 /\ pepper' = peppers'
  /\ file' \in {peppers'} \cup (IF Fails("write") THEN {Short} ELSE {})
  /\ UNCHANGED <<ver, pid, users, rooms, router, lsock, running, mon, making,
                 heard, launches, told, refused, strange>>

\* Bug: the fingerprint is only written, never compared.
Bug_CheckPepper ==
  /\ pc = "bind" /\ GoTo("set_pid")
  /\ UNCHANGED <<disk, history>>

\* start, the gate: the fingerprint in the database ...
CheckPepper ==
  /\ pc = "bind"
  /\ \E p \in Reads(pid, None, "pid_get") :
       IF p = None THEN GoTo("set_pid") /\ UNCHANGED history
       ELSE IF p = pepper THEN GoTo("tls") /\ UNCHANGED history
       ELSE Refuse
  /\ UNCHANGED disk

\* ... is written by the first start, which does not look at the result.
BindPepper ==
  /\ pc = "set_pid" /\ GoTo("tls")
  /\ pid' \in {pepper} \cup (IF Fails("pid_set") THEN {pid} ELSE {})
  /\ UNCHANGED <<ver, users, rooms, file, history>>

\* TlsContext::init_server, when --tls is given.
InitTls == pc = "tls" /\ CallOrEnd("tls", "rooms") /\ UNCHANGED disk

-----------------------------------------------------------------------------
(* The rooms                                                               *)

\* AUTOINCREMENT.
NextId == 1 + Max({rooms[r].id : r \in Names})

\* Bug: INSERT OR REPLACE.
Bug_CreateRoom(r, owner, rc) ==
  rc = "ok" /\ rooms' = [rooms EXCEPT ![r] = [id |-> NextId, owner |-> owner]]

\* create_room; UNIQUE decides between two creators.
CreateRoom(r, owner, rc) ==
  \/ /\ ~Stored(r) /\ rc = "ok"
     /\ rooms' = [rooms EXCEPT ![r] = [id |-> NextId, owner |-> owner]]
  \/ Stored(r) /\ rc = "exists" /\ UNCHANGED rooms
  \/ Fails("insert") /\ rc = "error" /\ UNCHANGED rooms

\* Bug: the last row's id is taken for this row's.
Bug_FindRoomId(r) == {NextId - 1}

\* find_room_id.
FindRoomId(r) == Reads(rooms[r].id, 0, "find")

\* router_.create: the first room of a name stays.
Route(r, id, owner) ==
  router' = [router EXCEPT ![r] = IF Routed(r) THEN @
                                  ELSE [id |-> id, owner |-> owner]]

\* loadOrCreateLobby: list_rooms into the router ...
LoadRooms ==
  /\ pc = "rooms"
  /\ router' \in Reads(rooms, [r \in Names |-> NoRoom], "list")
  /\ pc' = IF router'[Lobby] = NoRoom THEN "lobby" ELSE "listen"
  /\ UNCHANGED <<disk, pepper, lsock, running, mon, making, heard, history>>

\* ... and the lobby if it was not among them; without one if that fails.
CreateLobby ==
  /\ pc = "lobby"
  /\ \E rc \in {"ok", "exists", "error"} :
       /\ CreateRoom(Lobby, Server, rc)
       /\ GoTo(IF rc = "error" THEN "listen" ELSE "lobby_id")
  /\ UNCHANGED <<ver, pid, users, file, history>>

RouteLobby ==
  /\ pc = "lobby_id" /\ pc' = "listen"
  /\ \E id \in FindRoomId(Lobby) : Route(Lobby, id, Server)
  /\ UNCHANGED <<disk, pepper, lsock, running, mon, making, heard, history>>

\* doCreate, in three critical sections.
CreateInsert(u, r) ==
  /\ making[u] = Idle
  /\ \E rc \in {"ok", "exists", "error"} :
       /\ CreateRoom(r, u, rc)
       /\ making' = [making EXCEPT ![u] =
            IF rc = "ok" THEN [step |-> "find", room |-> r, id |-> 0] ELSE Idle]
  /\ UNCHANGED <<ver, pid, users, file, pc, pepper, router, lsock, running, mon,
                 heard, history>>

CreateFind(u) ==
  /\ making[u].step = "find"
  /\ \E id \in FindRoomId(making[u].room) :
       making' = [making EXCEPT ![u] =
                    [step |-> "route", room |-> making[u].room, id |-> id]]
  /\ UNCHANGED <<disk, pc, pepper, router, lsock, running, mon, heard, history>>

CreateRoute(u) ==
  /\ making[u].step = "route"
  /\ Route(making[u].room, making[u].id, u)
  /\ told' = told \cup {<<making[u].room, u>>}
  /\ making' = [making EXCEPT ![u] = Idle]
  /\ UNCHANGED <<disk, pc, pepper, lsock, running, mon, heard, peppers, launches,
                 refused, strange>>

\* doRegister's row, as far as the pepper goes (Challenge has the rest).
Register(u) ==
  /\ users[u] = None /\ users' = [users EXCEPT ![u] = pepper]
  /\ UNCHANGED <<ver, pid, rooms, file, pc, memory, history>>

-----------------------------------------------------------------------------
(* Running and stopping                                                    *)

\* startListen.
StartListen ==
  /\ pc = "listen"
  /\ \/ /\ pc' = "run" /\ lsock' = "open"
        /\ UNCHANGED <<pepper, router, running, mon, making, heard>>
     \/ Fails("listen") /\ Gone
  /\ UNCHANGED <<disk, history>>

\* start: running_ is set after the socket listens.
Run ==
  /\ pc = "run" /\ pc' = "check"
  /\ running' = TRUE /\ mon' = "runs"
  /\ UNCHANGED <<disk, pepper, router, lsock, making, heard, history>>

\* acceptLoop: the test, then accept, which waits for a connection.
AcceptTest ==
  /\ pc = "check" /\ GoTo(IF running THEN "accept" ELSE "shutdown")
  /\ UNCHANGED <<disk, history>>

AcceptFails ==
  /\ pc = "accept" /\ lsock = "shut" /\ GoTo("check")
  /\ UNCHANGED <<disk, history>>

AcceptConn ==
  /\ pc = "accept" /\ lsock = "open" /\ GoTo("check")
  /\ UNCHANGED <<disk, history>>

\* monitorLoop sees running_ within 100 ms, or at the end of its round.
MonitorEnds ==
  /\ mon = "runs" /\ ~running /\ mon' = "done"
  /\ UNCHANGED <<disk, pc, pepper, router, lsock, running, making, heard, history>>

\* shutdownAll joins the monitor; then start and main return.
ShutdownAll ==
  /\ pc = "shutdown" /\ mon = "done" /\ Gone
  /\ UNCHANGED <<disk, history>>

\* Bug: accept is not woken.
Bug_Signal ==
  /\ pc # "off"
  /\ running' = FALSE /\ heard' = (heard \/ running)
  /\ UNCHANGED <<disk, pc, pepper, router, lsock, mon, making, history>>

\* on_signal, requestStop.
Signal ==
  /\ pc # "off"
  /\ running' = FALSE /\ heard' = (heard \/ running)
  /\ lsock' = IF lsock = "open" THEN "shut" ELSE lsock
  /\ UNCHANGED <<disk, pc, pepper, router, mon, making, history>>

Crash == pc # "off" /\ Gone /\ UNCHANGED <<disk, history>>

\* The operator loses the pepper file, or puts another in its place.
Operator ==
  /\ pc = "off" /\ file' \in ({None, Swapped} \cup 1..peppers) \ {file}
  /\ strange' = TRUE
  /\ UNCHANGED <<ver, pid, users, rooms, pc, memory, peppers, launches, told, refused>>

\* Connection threads run from the first accept until the process ends.
Serving == pc \in {"check", "accept", "shutdown"}

Client(u) ==
  /\ Serving
  /\ \/ \E r \in Names : CreateInsert(u, r)
     \/ CreateFind(u) \/ CreateRoute(u) \/ Register(u)

Start ==
  \/ OpenFile \/ MakeTables \/ CheckVersion \/ MarkVersion
  \/ LoadPepper \/ WritePepper \/ CheckPepper \/ BindPepper \/ InitTls
  \/ LoadRooms \/ CreateLobby \/ RouteLobby \/ StartListen \/ Run

Main == Start \/ AcceptTest \/ AcceptFails \/ ShutdownAll

Next ==
  \/ Launch \/ Main \/ AcceptConn \/ MonitorEnds \/ Signal \/ Crash \/ Operator
  \/ \E u \in Users : Client(u)

Spec == Init /\ [][Next]_vars

\* A process that was started goes on, and so does its monitor; nobody has to
\* connect, to signal or to start anything.
FairSpec == Spec /\ WF_vars(Main) /\ WF_vars(MonitorEnds)

-----------------------------------------------------------------------------
(* Properties                                                              *)

Peppers == 1..Swapped
RoomRows == [id : Nat, owner : Users \cup {Server, "none"}]

\* Every variable keeps its type, and a process that is not there holds nothing
\* (start, main).
TypeOK ==
  /\ ver \in {NoMark, "2", "3"} /\ pid \in {None} \cup Peppers
  /\ users \in [Users -> {None, Bare} \cup Peppers]
  /\ file \in {None, Short} \cup Peppers
  /\ rooms \in [Names -> RoomRows] /\ router \in [Names -> RoomRows]
  /\ pc = "off" => ~running /\ mon = "none" /\ \A r \in Names : ~Routed(r)
  /\ running => Serving /\ mon = "runs" /\ lsock \in {"open", "shut"}

\* A room somebody was told is created is served under its owner by this process
\* and by every later one, whichever call it was killed in (doCreate,
\* create_room, loadOrCreateLobby): no second creator, restart or crash takes it
\* away or gives it to another.
CreatedRoomsAreServed ==
  Serving => \A t \in told : Routed(t[1]) /\ router[t[1]].owner = t[2]

\* The id a room's messages are stored under is the one a later start will read
\* them with: the router's rooms are rows of the table with the same id, however
\* the three sections of two CREATEs interleave (doCreate, find_room_id).
RoomsKeepTheirIds == \A r \in Names : Routed(r) => router[r] = rooms[r]

\* A room survives every order of CREATEs, crashes and restarts with its owner,
\* its id and so its history (doCreate, loadOrCreateLobby).
RoomsSurvive == CreatedRoomsAreServed /\ RoomsKeepTheirIds

\* No start ever serves users whose rows it cannot unblind: neither rows of
\* version 1 nor rows made with a pepper that is not the one it runs with
\* (the gates of Database::open and start).
ServedUsersFit == Serving => \A u \in Users : users[u] \in {None, pepper}

\* The gates shut out what is strange, never what an earlier start, killed
\* wherever it may be, has left behind: the only trace of a crash that a start
\* refuses is a pepper file that was not written to its end.
CrashesNeverLockOut == refused => strange \/ file = Short

\* The gates of a start refuse all that does not fit and nothing that an earlier
\* start left behind (Database::open, start).
GatesAreExact == ServedUsersFit /\ CrashesNeverLockOut

\* A signal that finds running_ set ends the process, even while accept waits
\* and nobody connects (requestStop, acceptLoop, shutdownAll).
StopIsObeyed == heard ~> pc = "off"

\* The pepper users are registered with is in the file ("自举写失败 → abort",
\* pepper.h): a start that could not write it does not serve.
ServedPepperIsStored == Serving => file = pepper
=============================================================================
