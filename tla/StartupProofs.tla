---------------------------- MODULE StartupProofs ----------------------------
(***************************************************************************)
(* Theorems about Startup, for any number of users, rooms, peppers and     *)
(* launches, and a kill between any two calls.                             *)
(*                                                                         *)
(* Each safety theorem names the calls whose failure it does not survive:  *)
(* a query of the gates, or one that reads the rooms, returns "nothing     *)
(* there" when its statement fails, and the code goes on with that.        *)
(***************************************************************************)
EXTENDS Startup, WellFoundedInduction, TLAPS

\* The gates' queries, and the statement that binds the pepper, do not fail.
GatesAreRead == Faults \cap {"ver_get", "count", "pid_get", "pid_set"} = {}

\* list_rooms and find_room_id do not fail.
RoomsAreRead == Faults \cap {"list", "find"} = {}

-----------------------------------------------------------------------------
(* The inductive invariants.                                               *)

\* Where the main thread is past the version gate, has a pepper, has bound it,
\* and has loaded the rooms.
Loaded   == {"lobby", "lobby_id", "listen", "run", "check", "accept", "shutdown"}
Bound    == {"tls", "rooms"} \cup Loaded
Peppered == {"bind", "set_pid"} \cup Bound
Gated    == {"pepper", "write"} \cup Peppered

TypeInv ==
  /\ pc \in {"off", "open", "schema", "version", "mark"} \cup Gated
  /\ ver \in {NoMark, "2", "3"} /\ pid \in {None} \cup Peppers
  /\ users \in [Users -> {None, Bare} \cup Peppers]
  /\ file \in {None, Short} \cup Peppers
  /\ peppers \in 0..MaxPeppers /\ (pc = "write" => peppers < MaxPeppers)
  /\ pc \in Peppered => pepper \in Peppers

\* The process is there from Launch to Gone, and running_ is set in between.
ProcessInv ==
  /\ running \in BOOLEAN
  /\ pc = "off" => ~running /\ mon = "none" /\ \A r \in Names : ~Routed(r)
  /\ pc = "run" => lsock \in {"open", "shut"}
  /\ running => Serving /\ mon = "runs" /\ lsock \in {"open", "shut"}

\* What the gates rely on: the mark stands for rows of one pepper, the one that
\* is bound, and what does not fit was not left behind by an earlier start.
GateInv ==
  /\ ver = "2" => \A u \in Users : users[u] \in {None, pid}
  /\ ver # "2" => pid = None
  /\ ver = "3" => strange
  /\ ver = NoMark => strange \/ \A u \in Users : users[u] = None
  /\ pc = "mark" => ver = NoMark /\ \A u \in Users : users[u] = None
  /\ pc \in Gated => ver = "2"
  /\ pc \in Peppered => file \in {pepper, Short}
  /\ pc = "write" => strange \/ pid = None
  /\ pc = "set_pid" => pid = None
  /\ pc \in Bound => pid = pepper
  /\ ~strange /\ pid # None => file \in {pid, Short}
  /\ refused => pc = "off" /\ (strange \/ file = Short)

RoomTypes ==
  /\ rooms \in [Names -> RoomRows] /\ router \in [Names -> RoomRows]
  /\ making \in [Users -> [step : {"none", "find", "route"}, room : Names, id : Nat]]
  /\ \E n \in Nat : \A r \in Names : rooms[r].id <= n

\* A creator between its calls: the row it made, and the id it found.
HasItsRow(u) == making[u].step # "none" =>
  /\ Stored(making[u].room) /\ rooms[making[u].room].owner = u
  /\ making[u].step = "route" => making[u].id = rooms[making[u].room].id

\* A creator on its way has its row, and has told nobody; who was told has a row,
\* and a room in the router from the moment the rooms are loaded.
RoomInv ==
  /\ RoomsKeepTheirIds
  /\ pc = "lobby" => ~Stored(Lobby)
  /\ pc = "lobby_id" => Stored(Lobby) /\ rooms[Lobby].owner = Server
  /\ \A u \in Users : HasItsRow(u)
  /\ \A t \in told :
       /\ t[1] \in Names /\ Stored(t[1]) /\ rooms[t[1]].owner = t[2]
       /\ pc \in Loaded => Routed(t[1])

-----------------------------------------------------------------------------
(* Numbers.                                                                *)

\* The least-number principle.
LEMMA LeastNumber ==
  ASSUME NEW T \in SUBSET Nat, T # {}
  PROVE  \E x \in T : \A y \in T : x <= y
  <1>1. PICK x \in T : \A y \in T : ~(<<y, x>> \in OpToRel(<, Nat))
    BY WFMin, NatLessThanWellFounded
  <1>2. ASSUME NEW y \in T
        PROVE  x <= y
    <2>1. ~(<<y, x>> \in OpToRel(<, Nat))
      BY <1>1
    <2>2. <<y, x>> \in Nat \X Nat /\ <<y, x>>[1] = y /\ <<y, x>>[2] = x
      OBVIOUS
    <2>3. ~(y < x)
      BY <2>1, <2>2 DEF OpToRel
    <2> QED
      BY <2>3
  <1> QED
    BY <1>2

\* Max of a set of ids is its largest member.
LEMMA MaxOfBounded ==
  ASSUME NEW S \in SUBSET Nat, S # {}, NEW n \in Nat, \A x \in S : x <= n
  PROVE  Max(S) \in S /\ \A y \in S : Max(S) >= y
  <1> DEFINE B == {b \in Nat : \A x \in S : x <= b}
  <1>1. PICK b \in Nat : b \in B /\ \A c \in B : b <= c
    <2>1. B \in SUBSET Nat /\ B # {}
      OBVIOUS
    <2> HIDE DEF B
    <2> QED
      BY <2>1, LeastNumber
  <1>2. \A x \in S : x <= b
    BY <1>1
  <1>3. b \in S
    <2> SUFFICES ASSUME b \notin S PROVE FALSE
      OBVIOUS
    <2>1. \A x \in S : x <= b - 1
      BY <1>2
    <2>2. b - 1 \in Nat
      <3>1. PICK x \in S : x <= b - 1
        BY <2>1
      <3> QED
        BY <3>1
    <2>3. b - 1 \in B
      BY <2>1, <2>2
    <2>4. b <= b - 1
      BY <1>1, <2>3, Zenon
    <2> QED
      BY <2>4
  <1> QED
    BY <1>2, <1>3 DEF Max

-----------------------------------------------------------------------------
(* Types.                                                                  *)

LEMMA PepperNumbers ==
  MaxPeppers \in Nat /\ Swapped \in Peppers /\ 1..MaxPeppers \subseteq Peppers
  BY StartupAssumption DEF Peppers, Swapped

LEMMA NoMarkIsNoVersion == NoMark # "2" /\ NoMark # "3"
  BY DEF NoMark

LEMMA InitTypeInv == Init => TypeInv /\ ProcessInv
  <1> SUFFICES ASSUME Init PROVE TypeInv /\ ProcessInv
    OBVIOUS
  <1>1. users \in [Users -> {None, Bare} \cup Peppers] /\ file \in {None, Short} \cup Peppers
    BY PepperNumbers DEF Init
  <1>2. TypeInv
    BY <1>1, PepperNumbers
    DEF Init, TypeInv, Gated, Peppered, Bound, Loaded
  <1>3. ProcessInv
    BY DEF Init, ProcessInv, Routed
  <1> QED
    BY <1>2, <1>3

\* The steps of doCreate touch the rooms and the router alone.
CreateStep(u) ==
  \/ \E r \in Names : CreateInsert(u, r)
  \/ CreateFind(u) \/ CreateRoute(u)

LEMMA CreateFrame ==
  ASSUME NEW u \in Users, CreateStep(u)
  PROVE  UNCHANGED <<ver, pid, users, file, pc, pepper, lsock, running, mon, heard,
                     peppers, launches, refused, strange>>
  <1> USE DEF disk, history
  <1>1. CASE \E r \in Names : CreateInsert(u, r)  BY <1>1 DEF CreateInsert
  <1>2. CASE CreateFind(u)                        BY <1>2 DEF CreateFind
  <1>3. CASE CreateRoute(u)                       BY <1>3 DEF CreateRoute
  <1> QED
    BY <1>1, <1>2, <1>3 DEF CreateStep

LEMMA GoneProcess == Gone => ProcessInv'
  BY DEF Gone, ProcessInv, Routed


\* The disk and the pepper keep their types.
LEMMA NextTypeInv ==
  ASSUME TypeInv, [Next]_vars
  PROVE  TypeInv'
  <1> USE PepperNumbers DEF TypeInv, Gated, Peppered, Bound, Loaded, Serving, disk, memory,
              history, GoTo, Gone
  <1>1. CASE Launch          BY <1>1 DEF Launch
  <1>2. CASE OpenFile        BY <1>2 DEF OpenFile, CallOrEnd
  <1>3. CASE MakeTables      BY <1>3 DEF MakeTables, CallOrEnd
  <1>4. CASE CheckVersion    BY <1>4 DEF CheckVersion, Refuse, Reads
  <1>5. CASE MarkVersion     BY <1>5 DEF MarkVersion, CallOrEnd
  <1>6. CASE LoadPepper      BY <1>6 DEF LoadPepper, Refuse
  <1>7. CASE WritePepper
    <2>1. pc = "write" /\ peppers' = peppers + 1 /\ pepper' = peppers'
          /\ pc' = "bind" /\ UNCHANGED <<ver, pid, users>>
      BY <1>7 DEF WritePepper
    <2>2. peppers' \in 0..MaxPeppers /\ peppers' \in Peppers
      <3>1. peppers' \in 1..MaxPeppers
        BY <2>1
      <3> QED
        BY <3>1
    <2>3. file' \in {peppers', Short}
      BY <1>7 DEF WritePepper
    <2> QED
      BY <2>1, <2>2, <2>3
  <1>8. CASE CheckPepper     BY <1>8 DEF CheckPepper, Refuse, Reads
  <1>9. CASE BindPepper      BY <1>9 DEF BindPepper
  <1>10. CASE InitTls        BY <1>10 DEF InitTls, CallOrEnd
  <1>11. CASE LoadRooms      BY <1>11 DEF LoadRooms, Reads
  <1>12. CASE CreateLobby    BY <1>12 DEF CreateLobby
  <1>13. CASE RouteLobby     BY <1>13 DEF RouteLobby
  <1>14. CASE StartListen    BY <1>14 DEF StartListen
  <1>15. CASE Run            BY <1>15 DEF Run
  <1>16. CASE AcceptTest     BY <1>16 DEF AcceptTest
  <1>17. CASE AcceptFails    BY <1>17 DEF AcceptFails
  <1>18. CASE AcceptConn     BY <1>18 DEF AcceptConn
  <1>19. CASE ShutdownAll    BY <1>19 DEF ShutdownAll
  <1>20. CASE MonitorEnds    BY <1>20 DEF MonitorEnds
  <1>21. CASE Signal         BY <1>21 DEF Signal
  <1>22. CASE Crash          BY <1>22 DEF Crash
  <1>23. CASE Operator
    <2>1. file' \in {None} \cup Peppers
      <3>1. file' \in {None, Swapped} \cup 1..peppers
        BY <1>23 DEF Operator
      <3>2. 1..peppers \subseteq Peppers
        <4>1. 1..peppers \subseteq 1..MaxPeppers
          OBVIOUS
        <4> QED
          BY <4>1, Zenon
      <3> QED
        BY <3>1, <3>2, PepperNumbers
    <2> QED
      BY <1>23, <2>1 DEF Operator
  <1>24. CASE \E u \in Users : Serving /\ CreateStep(u)
    BY <1>24, CreateFrame
  <1>25. CASE \E u \in Users : Serving /\ Register(u)
    BY <1>25 DEF Register
  <1>26. CASE UNCHANGED vars
    BY <1>26 DEF vars
  <1> QED
    BY <1>1, <1>2, <1>3, <1>4, <1>5, <1>6, <1>7, <1>8, <1>9, <1>10, <1>11, <1>12,
       <1>13, <1>14, <1>15, <1>16, <1>17, <1>18, <1>19, <1>20, <1>21, <1>22, <1>23,
       <1>24, <1>25, <1>26
    DEF Next, Main, Start, Client, CreateStep

\* What a process holds goes with it, and it runs between Run and a signal.
LEMMA NextProcessInv ==
  ASSUME TypeInv, ProcessInv, [Next]_vars
  PROVE  ProcessInv'
  <1> USE GoneProcess DEF ProcessInv, Serving, Routed, disk, memory, history, GoTo
  <1>1. CASE Launch          BY <1>1 DEF Launch
  <1>2. CASE OpenFile        BY <1>2 DEF OpenFile, CallOrEnd
  <1>3. CASE MakeTables      BY <1>3 DEF MakeTables, CallOrEnd
  <1>4. CASE CheckVersion    BY <1>4 DEF CheckVersion, Refuse, Reads
  <1>5. CASE MarkVersion     BY <1>5 DEF MarkVersion, CallOrEnd
  <1>6. CASE LoadPepper      BY <1>6 DEF LoadPepper, Refuse
  <1>7. CASE WritePepper     BY <1>7 DEF WritePepper
  <1>8. CASE CheckPepper     BY <1>8 DEF CheckPepper, Refuse, Reads
  <1>9. CASE BindPepper      BY <1>9 DEF BindPepper
  <1>10. CASE InitTls        BY <1>10 DEF InitTls, CallOrEnd
  <1>11. CASE LoadRooms      BY <1>11 DEF LoadRooms, Reads
  <1>12. CASE CreateLobby    BY <1>12 DEF CreateLobby
  <1>13. CASE RouteLobby     BY <1>13 DEF RouteLobby
  <1>14. CASE StartListen    BY <1>14 DEF StartListen
  <1>15. CASE Run            BY <1>15 DEF Run
  <1>16. CASE AcceptTest     BY <1>16 DEF AcceptTest
  <1>17. CASE AcceptFails    BY <1>17 DEF AcceptFails
  <1>18. CASE AcceptConn     BY <1>18 DEF AcceptConn
  <1>19. CASE ShutdownAll    BY <1>19 DEF ShutdownAll
  <1>20. CASE MonitorEnds    BY <1>20 DEF MonitorEnds
  <1>21. CASE Signal         BY <1>21 DEF Signal
  <1>22. CASE Crash          BY <1>22 DEF Crash
  <1>23. CASE Operator       BY <1>23 DEF Operator
  <1>24. CASE \E u \in Users : Serving /\ CreateStep(u)
    BY <1>24, CreateFrame
  <1>25. CASE \E u \in Users : Serving /\ Register(u)
    BY <1>25 DEF Register
  <1>26. CASE UNCHANGED vars
    BY <1>26 DEF vars
  <1> QED
    BY <1>1, <1>2, <1>3, <1>4, <1>5, <1>6, <1>7, <1>8, <1>9, <1>10, <1>11, <1>12,
       <1>13, <1>14, <1>15, <1>16, <1>17, <1>18, <1>19, <1>20, <1>21, <1>22, <1>23,
       <1>24, <1>25, <1>26
    DEF Next, Main, Start, Client, CreateStep


-----------------------------------------------------------------------------
(* The gates.                                                              *)

LEMMA InitGateInv == Init => GateInv
  BY StartupAssumption, NoMarkIsNoVersion DEF Init, GateInv, Gated, Peppered, Bound, Loaded, Short

\* A start leaves behind what the gates of the next one let pass.
LEMMA NextGateInv ==
  ASSUME GatesAreRead, TypeInv, GateInv, [Next]_vars
  PROVE  GateInv'
  <1> USE StartupAssumption, NoMarkIsNoVersion DEF GatesAreRead, TypeInv, GateInv, Fails, Peppers, Swapped, None, Bare, Short,
      Gated, Peppered, Bound, Loaded, Serving, disk, memory,
              history, GoTo, Gone
  <1>1. CASE Launch          BY <1>1 DEF Launch
  <1>2. CASE OpenFile        BY <1>2 DEF OpenFile, CallOrEnd
  <1>3. CASE MakeTables      BY <1>3 DEF MakeTables, CallOrEnd
  <1>4. CASE CheckVersion    BY <1>4 DEF CheckVersion, Refuse, Reads
  <1>5. CASE MarkVersion     BY <1>5 DEF MarkVersion, CallOrEnd
  <1>6. CASE LoadPepper      BY <1>6 DEF LoadPepper, Refuse
  <1>7. CASE WritePepper     BY <1>7 DEF WritePepper
  <1>8. CASE CheckPepper     BY <1>8 DEF CheckPepper, Refuse, Reads
  <1>9. CASE BindPepper      BY <1>9 DEF BindPepper
  <1>10. CASE InitTls        BY <1>10 DEF InitTls, CallOrEnd
  <1>11. CASE LoadRooms      BY <1>11 DEF LoadRooms, Reads
  <1>12. CASE CreateLobby    BY <1>12 DEF CreateLobby
  <1>13. CASE RouteLobby     BY <1>13 DEF RouteLobby
  <1>14. CASE StartListen    BY <1>14 DEF StartListen
  <1>15. CASE Run            BY <1>15 DEF Run
  <1>16. CASE AcceptTest     BY <1>16 DEF AcceptTest
  <1>17. CASE AcceptFails    BY <1>17 DEF AcceptFails
  <1>18. CASE AcceptConn     BY <1>18 DEF AcceptConn
  <1>19. CASE ShutdownAll    BY <1>19 DEF ShutdownAll
  <1>20. CASE MonitorEnds    BY <1>20 DEF MonitorEnds
  <1>21. CASE Signal         BY <1>21 DEF Signal
  <1>22. CASE Crash          BY <1>22 DEF Crash
  <1>23. CASE Operator       BY <1>23 DEF Operator
  <1>24. CASE \E u \in Users : Serving /\ CreateStep(u)
    BY <1>24, CreateFrame
  <1>25. ASSUME NEW u \in Users, Serving, Register(u)
        PROVE  GateInv'
    <2>1. /\ users' = [users EXCEPT ![u] = pepper] /\ pid = pepper /\ ver = "2"
          /\ pc \notin {"off", "mark", "write", "set_pid"}
          /\ UNCHANGED <<ver, pid, file, pc, pepper, refused, strange>>
      BY <1>25 DEF Register
    <2>2. \A v \in Users : users'[v] \in {None, pid'}
      BY <2>1
    <2> QED
      BY <2>1, <2>2
  <1>26. CASE UNCHANGED vars
    BY <1>26 DEF vars
  <1> QED
    BY <1>1, <1>2, <1>3, <1>4, <1>5, <1>6, <1>7, <1>8, <1>9, <1>10, <1>11, <1>12,
       <1>13, <1>14, <1>15, <1>16, <1>17, <1>18, <1>19, <1>20, <1>21, <1>22, <1>23,
       <1>24, <1>25, <1>26
    DEF Next, Main, Start, Client, CreateStep


-----------------------------------------------------------------------------
(* The rooms.                                                              *)

LEMMA NoRoomIsARow == NoRoom \in RoomRows /\ NoRoom.id = 0
  BY DEF NoRoom, RoomRows

\* AUTOINCREMENT gives a row an id above all that are there.
LEMMA NextIdIsNew ==
  ASSUME RoomTypes
  PROVE  NextId \in Nat /\ \A r \in Names : rooms[r].id < NextId
  <1> DEFINE S == {rooms[r].id : r \in Names}
  <1>1. S \in SUBSET Nat /\ S # {}
    BY StartupAssumption DEF RoomTypes, RoomRows
  <1>2. PICK n \in Nat : \A x \in S : x <= n
    BY DEF RoomTypes
  <1>3. \A r \in Names : rooms[r].id \in S
    OBVIOUS
  <1> HIDE DEF S
  <1>4. Max(S) \in S /\ \A y \in S : Max(S) >= y
    BY <1>1, <1>2, MaxOfBounded
  <1>5. NextId = 1 + Max(S)
    BY DEF NextId, S
  <1> QED
    BY <1>1, <1>3, <1>4, <1>5

\* create_room writes at most one new row, and only where there was none.
LEMMA CreateRoomWrites ==
  ASSUME RoomTypes, NEW r \in Names, NEW owner \in Users \cup {Server}, NEW rc,
         CreateRoom(r, owner, rc)
  PROVE  /\ rooms' \in [Names -> RoomRows]
         /\ \E n \in Nat : \A s \in Names : rooms'[s].id <= n
         /\ \A s \in Names : Stored(s) => rooms'[s] = rooms[s]
         /\ rc = "ok" => rooms'[r] # NoRoom /\ rooms'[r].owner = owner
         /\ rc = "exists" => Stored(r)
         /\ \A s \in Names \ {r} : rooms'[s] = rooms[s]
  <1>1. CASE UNCHANGED rooms /\ rc # "ok"
    BY <1>1 DEF RoomTypes, CreateRoom
  <1>2. CASE /\ ~Stored(r) /\ rc = "ok"
             /\ rooms' = [rooms EXCEPT ![r] = [id |-> NextId, owner |-> owner]]
    <2> DEFINE row == [id |-> NextId, owner |-> owner]
    <2>1. row \in RoomRows /\ row.owner = owner /\ row.id = NextId
      BY NextIdIsNew DEF RoomRows
    <2>2. NoRoom.owner = "none" /\ owner # "none"
      BY StartupAssumption DEF NoRoom, Server
    <2>3. row # NoRoom
      BY <2>1, <2>2
    <2> HIDE DEF row
    <2>4. rooms' = [rooms EXCEPT ![r] = row]
      BY <1>2 DEF row
    <2>5. rooms' \in [Names -> RoomRows] /\ rooms'[r] = row
          /\ \A s \in Names \ {r} : rooms'[s] = rooms[s]
      BY <2>1, <2>4 DEF RoomTypes
    <2>6. \A s \in Names : rooms'[s].id <= NextId
      <3>1. \A s \in Names : rooms[s].id \in Nat
        BY DEF RoomTypes, RoomRows
      <3> QED
        BY <2>1, <2>5, <3>1, NextIdIsNew
    <2>7. \A s \in Names : Stored(s) => rooms'[s] = rooms[s]
      BY <1>2, <2>5
    <2> QED
      BY <1>2, <2>1, <2>3, <2>5, <2>6, <2>7, NextIdIsNew
  <1> QED
    BY <1>1, <1>2 DEF CreateRoom

\* find_room_id finds a number.
LEMMA FoundIdIsNat ==
  ASSUME RoomTypes, NEW r \in Names, NEW id \in FindRoomId(r)
  PROVE  id \in Nat /\ (RoomsAreRead => id = rooms[r].id)
  <1>1. rooms[r].id \in Nat
    BY DEF RoomTypes, RoomRows
  <1> QED
    BY <1>1 DEF FindRoomId, Reads, Fails, RoomsAreRead

\* router_.create routes one name, and no other way than before.
LEMMA RouteWrites ==
  ASSUME RoomTypes, NEW r \in Names, NEW id \in Nat, NEW owner \in Users \cup {Server},
         Route(r, id, owner)
  PROVE  /\ router' \in [Names -> RoomRows]
         /\ router'[r] # NoRoom
         /\ \A s \in Names : \/ router'[s] = router[s]
                             \/ s = r /\ router'[s] = [id |-> id, owner |-> owner]
         /\ \A s \in Names : Routed(s) => router'[s] = router[s]
  <1> DEFINE room == [id |-> id, owner |-> owner]
  <1>1. room \in RoomRows /\ room.owner = owner
    BY DEF RoomRows
  <1>2. room # NoRoom
    <2>1. NoRoom.owner = "none" /\ owner # "none"
      BY StartupAssumption DEF NoRoom, Server
    <2> QED
      BY <1>1, <2>1
  <1>3. router' = [router EXCEPT ![r] = IF Routed(r) THEN router[r] ELSE room]
    BY DEF Route
  <1> HIDE DEF room
  <1>4. router' \in [Names -> RoomRows]
        /\ router'[r] = (IF Routed(r) THEN router[r] ELSE room)
        /\ \A s \in Names \ {r} : router'[s] = router[s]
    BY <1>1, <1>3 DEF RoomTypes
  <1> QED
    BY <1>2, <1>4 DEF Routed, room

LEMMA GoneRooms == Gone => /\ router' \in [Names -> RoomRows]
                           /\ making' = [u \in Users |-> Idle]
                           /\ \A r \in Names : router'[r] = NoRoom
  BY NoRoomIsARow DEF Gone

LEMMA IdleIsAPlace ==
  Idle \in [step : {"none", "find", "route"}, room : Names, id : Nat] /\ Idle.step = "none"
  BY StartupAssumption DEF Idle

\* A step that leaves the rooms as they are, and the start of a process that has
\* not loaded them yet.
RoomsQuiet ==
  /\ UNCHANGED <<rooms, router, making, told>>
  /\ pc' \notin {"lobby", "lobby_id"} \/ pc' = pc
  /\ pc' \in Loaded => pc \in Loaded

RoomsGone == UNCHANGED <<rooms, told>> /\ Gone

LEMMA RoomStepKinds ==
  ASSUME [Next]_vars
  PROVE  \/ RoomsQuiet \/ RoomsGone
         \/ LoadRooms \/ CreateLobby \/ RouteLobby
         \/ \E u \in Users : Serving /\ CreateStep(u)
  <1> USE DEF RoomsQuiet, RoomsGone, Loaded, disk, memory, history, GoTo
  <1>1. CASE Launch          BY <1>1 DEF Launch
  <1>2. CASE OpenFile        BY <1>2 DEF OpenFile, CallOrEnd
  <1>3. CASE MakeTables      BY <1>3 DEF MakeTables, CallOrEnd
  <1>4. CASE CheckVersion    BY <1>4 DEF CheckVersion, Refuse, Reads
  <1>5. CASE MarkVersion     BY <1>5 DEF MarkVersion, CallOrEnd
  <1>6. CASE LoadPepper      BY <1>6 DEF LoadPepper, Refuse
  <1>7. CASE WritePepper     BY <1>7 DEF WritePepper
  <1>8. CASE CheckPepper     BY <1>8 DEF CheckPepper, Refuse, Reads
  <1>9. CASE BindPepper      BY <1>9 DEF BindPepper
  <1>10. CASE InitTls        BY <1>10 DEF InitTls, CallOrEnd
  <1>11. CASE StartListen    BY <1>11 DEF StartListen
  <1>12. CASE Run            BY <1>12 DEF Run
  <1>13. CASE AcceptTest     BY <1>13 DEF AcceptTest
  <1>14. CASE AcceptFails    BY <1>14 DEF AcceptFails
  <1>15. CASE AcceptConn     BY <1>15 DEF AcceptConn
  <1>16. CASE ShutdownAll    BY <1>16 DEF ShutdownAll
  <1>17. CASE MonitorEnds    BY <1>17 DEF MonitorEnds
  <1>18. CASE Signal         BY <1>18 DEF Signal
  <1>19. CASE Crash          BY <1>19 DEF Crash
  <1>20. CASE Operator       BY <1>20 DEF Operator
  <1>21. CASE \E u \in Users : Serving /\ Register(u)
    BY <1>21 DEF Register
  <1>22. CASE UNCHANGED vars
    BY <1>22 DEF vars
  <1> QED
    BY <1>1, <1>2, <1>3, <1>4, <1>5, <1>6, <1>7, <1>8, <1>9, <1>10, <1>11, <1>12,
       <1>13, <1>14, <1>15, <1>16, <1>17, <1>18, <1>19, <1>20, <1>21, <1>22
    DEF Next, Main, Start, Client, CreateStep

LEMMA NextRoomTypes == RoomTypes /\ [Next]_vars => RoomTypes'
  <1> SUFFICES ASSUME RoomTypes, [Next]_vars PROVE RoomTypes'
    OBVIOUS
  <1>1. CASE RoomsQuiet
    BY <1>1 DEF RoomsQuiet, RoomTypes
  <1>2. CASE RoomsGone
    BY <1>2, GoneRooms, IdleIsAPlace DEF RoomsGone, RoomTypes
  <1>3. CASE LoadRooms
    <2>1. router' \in {rooms, [r \in Names |-> NoRoom]} /\ UNCHANGED <<rooms, making>>
      BY <1>3 DEF LoadRooms, Reads, disk
    <2>2. [r \in Names |-> NoRoom] \in [Names -> RoomRows]
      BY NoRoomIsARow
    <2> QED
      BY <2>1, <2>2 DEF RoomTypes
  <1>4. CASE CreateLobby
    <2>1. PICK rc : CreateRoom(Lobby, Server, rc)
      BY <1>4 DEF CreateLobby
    <2>2. UNCHANGED <<router, making>>
      BY <1>4 DEF CreateLobby, GoTo, memory
    <2> QED
      BY <2>1, <2>2, CreateRoomWrites, StartupAssumption DEF RoomTypes
  <1>5. CASE RouteLobby
    <2>1. PICK id \in FindRoomId(Lobby) : Route(Lobby, id, Server)
      BY <1>5 DEF RouteLobby
    <2>2. UNCHANGED <<rooms, making>>
      BY <1>5 DEF RouteLobby, disk
    <2>3. id \in Nat
      BY FoundIdIsNat, StartupAssumption
    <2> QED
      BY <2>1, <2>2, <2>3, RouteWrites, StartupAssumption DEF RoomTypes
  <1>6. ASSUME NEW u \in Users, NEW r \in Names, CreateInsert(u, r)
        PROVE  RoomTypes'
    <2>1. PICK rc : /\ CreateRoom(r, u, rc)
                    /\ making' = [making EXCEPT ![u] =
                         IF rc = "ok" THEN [step |-> "find", room |-> r, id |-> 0] ELSE Idle]
      BY <1>6 DEF CreateInsert
    <2>2. UNCHANGED router
      BY <1>6 DEF CreateInsert
    <2>3. making' \in [Users -> [step : {"none", "find", "route"}, room : Names, id : Nat]]
      BY <2>1, IdleIsAPlace DEF RoomTypes
    <2> QED
      BY <2>1, <2>2, <2>3, CreateRoomWrites DEF RoomTypes
  <1>7. ASSUME NEW u \in Users, CreateFind(u)
        PROVE  RoomTypes'
    <2>1. PICK id \in FindRoomId(making[u].room) :
            making' = [making EXCEPT ![u] =
                         [step |-> "route", room |-> making[u].room, id |-> id]]
      BY <1>7 DEF CreateFind
    <2>2. making[u].room \in Names
      BY DEF RoomTypes
    <2>3. id \in Nat
      BY <2>2, FoundIdIsNat
    <2>4. making' \in [Users -> [step : {"none", "find", "route"}, room : Names, id : Nat]]
      BY <2>1, <2>2, <2>3 DEF RoomTypes
    <2> QED
      BY <1>7, <2>4 DEF CreateFind, RoomTypes, disk
  <1>8. ASSUME NEW u \in Users, CreateRoute(u)
        PROVE  RoomTypes'
    <2>1. Route(making[u].room, making[u].id, u) /\ UNCHANGED rooms
          /\ making' = [making EXCEPT ![u] = Idle]
      BY <1>8 DEF CreateRoute, disk
    <2>2. making[u].room \in Names /\ making[u].id \in Nat
      BY DEF RoomTypes
    <2>3. router' \in [Names -> RoomRows]
      BY <2>1, <2>2, RouteWrites
    <2> QED
      BY <2>1, <2>3, IdleIsAPlace DEF RoomTypes
  <1> QED
    BY <1>1, <1>2, <1>3, <1>4, <1>5, <1>6, <1>7, <1>8, RoomStepKinds DEF CreateStep

\* Rooms are created by one process at a time, and not before it has loaded those
\* there are: a room keeps its row, and everybody who was told keeps his room.
LEMMA NextRoomInv ==
  ASSUME RoomsAreRead, RoomTypes, RoomInv, [Next]_vars
  PROVE  RoomInv'
  <1>1. CASE RoomsQuiet
    <2>1. /\ UNCHANGED <<rooms, router, making, told>>
          /\ pc' = "lobby" => pc = "lobby"
          /\ pc' = "lobby_id" => pc = "lobby_id"
          /\ pc' \in Loaded => pc \in Loaded
      BY <1>1 DEF RoomsQuiet
    <2> QED
      BY <2>1 DEF RoomInv, RoomsKeepTheirIds, Stored, Routed, HasItsRow
  <1>2. CASE RoomsGone
    <2>1. /\ UNCHANGED <<rooms, told>> /\ pc' = "off" /\ making' = [u \in Users |-> Idle]
          /\ \A r \in Names : ~Routed(r)'
      BY <1>2, GoneRooms DEF RoomsGone, Gone, Routed
    <2> QED
      BY <2>1, IdleIsAPlace DEF RoomInv, RoomsKeepTheirIds, Stored, Loaded, HasItsRow
  <1>3. CASE LoadRooms
    <2>1. /\ UNCHANGED <<rooms, making, told>> /\ router' = rooms
          /\ pc' = IF router'[Lobby] = NoRoom THEN "lobby" ELSE "listen"
      BY <1>3 DEF LoadRooms, disk, history, Reads, Fails, RoomsAreRead
    <2> QED
      BY <2>1 DEF RoomInv, RoomsKeepTheirIds, Stored, Routed, HasItsRow
  <1>4. CASE CreateLobby
    <2>1. PICK rc \in {"ok", "exists", "error"} :
            /\ CreateRoom(Lobby, Server, rc)
            /\ GoTo(IF rc = "error" THEN "listen" ELSE "lobby_id")
      BY <1>4 DEF CreateLobby
    <2>2. /\ UNCHANGED <<router, making, told>> /\ pc = "lobby"
          /\ pc' = IF rc = "error" THEN "listen" ELSE "lobby_id"
      BY <1>4, <2>1 DEF CreateLobby, GoTo, memory, history
    <2>3. /\ \A s \in Names : Stored(s) => rooms'[s] = rooms[s]
          /\ rc = "ok" => rooms'[Lobby] # NoRoom /\ rooms'[Lobby].owner = Server
          /\ rc = "exists" => Stored(Lobby)
      BY <2>1, CreateRoomWrites, StartupAssumption
    <2>4. ~Stored(Lobby)
      BY <2>2 DEF RoomInv
    <2>5. RoomsKeepTheirIds'
      BY <2>2, <2>3 DEF RoomInv, RoomsKeepTheirIds, Routed, Stored
    <2>6. \A s \in Names : Stored(s) => Stored(s)'
      BY <2>3 DEF Stored
    <2>7. \A u \in Users : making[u].room \in Names
      BY DEF RoomTypes
    <2> QED
      BY <2>2, <2>3, <2>4, <2>5, <2>6, <2>7 DEF RoomInv, Loaded, Routed, Stored, HasItsRow
  <1>5. CASE RouteLobby
    <2>1. PICK id \in FindRoomId(Lobby) : Route(Lobby, id, Server)
      BY <1>5 DEF RouteLobby
    <2>2. /\ UNCHANGED <<rooms, making, told>> /\ pc = "lobby_id" /\ pc' = "listen"
      BY <1>5 DEF RouteLobby, disk, history
    <2>3. id = rooms[Lobby].id /\ id \in Nat
      BY FoundIdIsNat, StartupAssumption
    <2>4. rooms[Lobby] = [id |-> id, owner |-> Server]
      <3>1. rooms[Lobby] \in RoomRows /\ rooms[Lobby].owner = Server
        BY <2>2, StartupAssumption DEF RoomTypes, RoomInv
      <3> QED
        BY <2>3, <3>1 DEF RoomRows
    <2>5. \A s \in Names : router'[s] = router[s] \/ router'[s] = rooms[s]
      <3>1. \A s \in Names : \/ router'[s] = router[s]
                             \/ s = Lobby /\ router'[s] = [id |-> id, owner |-> Server]
        BY <2>1, <2>3, RouteWrites, StartupAssumption
      <3>2. [id |-> id, owner |-> Server] = rooms[Lobby]
        BY <2>3, <2>4
      <3> QED
        BY <3>1, <3>2, Zenon
    <2>6. \A s \in Names : Routed(s) => Routed(s)'
      BY <2>1, <2>3, RouteWrites, StartupAssumption DEF Routed
    <2>7. RoomsKeepTheirIds'
      BY <2>2, <2>5 DEF RoomInv, RoomsKeepTheirIds, Routed
    <2> QED
      BY <2>2, <2>6, <2>7 DEF RoomInv, Stored, Loaded, HasItsRow
  <1>6. ASSUME NEW u \in Users, NEW r \in Names, Serving, CreateInsert(u, r)
        PROVE  RoomInv'
    <2>1. PICK rc : /\ CreateRoom(r, u, rc)
                    /\ making' = [making EXCEPT ![u] =
                         IF rc = "ok" THEN [step |-> "find", room |-> r, id |-> 0] ELSE Idle]
      BY <1>6 DEF CreateInsert
    <2>2. UNCHANGED <<router, told, pc>>
      BY <1>6 DEF CreateInsert, history
    <2>3. /\ \A s \in Names : Stored(s) => rooms'[s] = rooms[s]
          /\ rc = "ok" => rooms'[r] # NoRoom /\ rooms'[r].owner = u
      BY <2>1, CreateRoomWrites
    <2>4. RoomsKeepTheirIds'
      BY <2>2, <2>3 DEF RoomInv, RoomsKeepTheirIds, Routed, Stored
    <2>5. \A s \in Names : Stored(s) => Stored(s)'
      BY <2>3 DEF Stored
    <2>6. pc \notin {"lobby", "lobby_id"}
      BY <1>6 DEF Serving
    <2>7. ASSUME NEW v \in Users
          PROVE  HasItsRow(v)'
      <3>1. CASE v = u /\ rc = "ok"
        <4>1. making'[v] = [step |-> "find", room |-> r, id |-> 0]
          BY <2>1, <3>1 DEF RoomTypes
        <4>2. making'[v].step = "find" /\ making'[v].room = r
          BY <4>1
        <4>3. rooms'[r] # NoRoom /\ rooms'[r].owner = v
          BY <2>3, <3>1
        <4> QED
          BY <4>2, <4>3 DEF Stored, HasItsRow
      <3>2. CASE v = u /\ rc # "ok"
        <4>1. making'[v] = Idle
          BY <2>1, <3>2 DEF RoomTypes
        <4> QED
          BY <4>1, IdleIsAPlace DEF HasItsRow
      <3>3. CASE v # u
        <4>1. making'[v] = making[v] /\ making[v].room \in Names
          BY <2>1, <3>3 DEF RoomTypes
        <4>2. HasItsRow(v)
          BY DEF RoomInv
        <4> QED
          BY <2>3, <2>5, <4>1, <4>2 DEF HasItsRow
      <3> QED
        BY <3>1, <3>2, <3>3
    <2>8. ASSUME NEW t \in told
          PROVE  /\ t[1] \in Names /\ Stored(t[1])' /\ rooms'[t[1]].owner = t[2]
                 /\ pc' \in Loaded => Routed(t[1])'
      <3>1. /\ t[1] \in Names /\ Stored(t[1]) /\ rooms[t[1]].owner = t[2]
            /\ pc \in Loaded => Routed(t[1])
        BY DEF RoomInv
      <3>2. rooms'[t[1]] = rooms[t[1]]
        BY <2>3, <3>1
      <3> QED
        BY <2>2, <2>5, <3>1, <3>2 DEF Routed
    <2> QED
      BY <2>2, <2>4, <2>6, <2>7, <2>8 DEF RoomInv
  <1>7. ASSUME NEW u \in Users, Serving, CreateFind(u)
        PROVE  RoomInv'
    <2>1. PICK id \in FindRoomId(making[u].room) :
            making' = [making EXCEPT ![u] =
                         [step |-> "route", room |-> making[u].room, id |-> id]]
      BY <1>7 DEF CreateFind
    <2>2. UNCHANGED <<rooms, router, told, pc>> /\ making[u].step = "find"
      BY <1>7 DEF CreateFind, disk, history
    <2>3. making[u].room \in Names
      BY DEF RoomTypes
    <2>4. id = rooms[making[u].room].id
      BY <2>3, FoundIdIsNat
    <2>5. /\ making'[u] = [step |-> "route", room |-> making[u].room, id |-> id]
          /\ \A v \in Users \ {u} : making'[v] = making[v]
      BY <2>1 DEF RoomTypes
    <2>6. ASSUME NEW v \in Users
          PROVE  HasItsRow(v)'
      <3>0. HasItsRow(v)
        BY DEF RoomInv
      <3>1. CASE v = u
        <4>1. Stored(making[u].room) /\ rooms[making[u].room].owner = u
          BY <2>2, <3>0, <3>1 DEF HasItsRow
        <4>2. making'[v].room = making[u].room /\ making'[v].id = id
          BY <2>5, <3>1
        <4> QED
          BY <2>2, <2>4, <3>1, <4>1, <4>2 DEF HasItsRow, Stored
      <3>2. CASE v # u
        BY <2>2, <2>5, <3>0, <3>2 DEF HasItsRow, Stored
      <3> QED
        BY <3>1, <3>2
    <2>7. RoomsKeepTheirIds' /\ pc \notin {"lobby", "lobby_id"}
      BY <1>7, <2>2 DEF RoomInv, RoomsKeepTheirIds, Routed, Serving
    <2> QED
      BY <2>2, <2>6, <2>7 DEF RoomInv, Routed, Stored
  <1>8. ASSUME NEW u \in Users, Serving, CreateRoute(u)
        PROVE  RoomInv'
    <2> DEFINE r == making[u].room
    <2>1. /\ Route(r, making[u].id, u) /\ UNCHANGED <<rooms, pc>>
          /\ told' = told \cup {<<r, u>>}
          /\ making' = [making EXCEPT ![u] = Idle] /\ making[u].step = "route"
      BY <1>8 DEF CreateRoute, disk
    <2>2. r \in Names /\ making[u].id \in Nat
      BY DEF RoomTypes
    <2>3. Stored(r) /\ rooms[r].owner = u /\ making[u].id = rooms[r].id
      BY <2>1 DEF RoomInv, HasItsRow
    <2>4. rooms[r] = [id |-> making[u].id, owner |-> u]
      <3>1. rooms[r] \in RoomRows
        BY <2>2 DEF RoomTypes
      <3> QED
        BY <2>3, <3>1 DEF RoomRows
    <2> HIDE DEF r
    <2>5. /\ \A s \in Names : router'[s] = router[s] \/ router'[s] = rooms[s]
          /\ router'[r] # NoRoom
          /\ \A s \in Names : Routed(s) => Routed(s)'
      BY <2>1, <2>2, <2>4, RouteWrites DEF Routed
    <2>6. RoomsKeepTheirIds'
      BY <2>1, <2>5 DEF RoomInv, RoomsKeepTheirIds, Routed
    <2>7. ASSUME NEW v \in Users
          PROVE  HasItsRow(v)'
      <3>1. making'[v].step # "none" => making'[v] = making[v]
        BY <2>1, IdleIsAPlace DEF RoomTypes
      <3>2. HasItsRow(v)
        BY DEF RoomInv
      <3> QED
        BY <2>1, <3>1, <3>2 DEF HasItsRow, Stored
    <2>8. pc \notin {"lobby", "lobby_id"}
      BY <1>8 DEF Serving
    <2>9. \A t \in told' :
            /\ t[1] \in Names /\ Stored(t[1])' /\ rooms'[t[1]].owner = t[2]
            /\ pc' \in Loaded => Routed(t[1])'
      BY <2>1, <2>2, <2>3, <2>5 DEF RoomInv, Stored, Routed
    <2> QED
      BY <2>1, <2>6, <2>7, <2>8, <2>9 DEF RoomInv
  <1> QED
    BY <1>1, <1>2, <1>3, <1>4, <1>5, <1>6, <1>7, <1>8, RoomStepKinds DEF CreateStep

LEMMA InitRooms == Init => RoomTypes /\ RoomInv
  <1> SUFFICES ASSUME Init PROVE RoomTypes /\ RoomInv
    OBVIOUS
  <1>1. /\ rooms = [r \in Names |-> NoRoom] /\ router = [r \in Names |-> NoRoom]
        /\ making = [u \in Users |-> Idle] /\ told = {} /\ pc = "off"
    BY DEF Init
  <1>2. \A r \in Names : rooms[r].id <= 0
    BY <1>1, NoRoomIsARow
  <1>3. RoomTypes
    BY <1>1, <1>2, NoRoomIsARow, IdleIsAPlace DEF RoomTypes
  <1>4. RoomInv
    BY <1>1, IdleIsAPlace DEF RoomInv, RoomsKeepTheirIds, Routed, HasItsRow
  <1> QED
    BY <1>3, <1>4

-----------------------------------------------------------------------------
(* The theorems.                                                           *)

LEMMA InvariantHolds == Spec => [](TypeInv /\ ProcessInv /\ RoomTypes)
  <1>1. Init => TypeInv /\ ProcessInv /\ RoomTypes
    BY InitTypeInv, InitRooms
  <1>2. TypeInv /\ ProcessInv /\ RoomTypes /\ [Next]_vars
          => (TypeInv /\ ProcessInv /\ RoomTypes)'
    BY NextTypeInv, NextProcessInv, NextRoomTypes
  <1> QED
    BY <1>1, <1>2, PTL DEF Spec

\* Every variable keeps its type, and a process that is not there holds nothing
\* (start, main), whatever fails.
THEOREM TypeCorrect == Spec => []TypeOK
  <1>1. TypeInv /\ ProcessInv /\ RoomTypes => TypeOK
    BY DEF TypeInv, ProcessInv, RoomTypes, TypeOK
  <1> QED
    BY <1>1, InvariantHolds, PTL

\* While the queries of the gates answer, no start serves a user whose row it
\* cannot unblind, and none is refused for what an earlier one left behind, but
\* for a pepper file not written to its end (Database::open, start).
THEOREM GatesHold == ASSUME GatesAreRead PROVE Spec => []GatesAreExact
  <1>1. Init => GateInv
    BY InitGateInv
  <1>2. TypeInv /\ GateInv /\ [Next]_vars => GateInv'
    BY NextGateInv, GatesAreRead
  <1>3. TypeInv /\ GateInv => GatesAreExact
    <2> SUFFICES ASSUME TypeInv, GateInv PROVE GatesAreExact
      OBVIOUS
    <2>1. ServedUsersFit
      BY DEF GateInv, ServedUsersFit, Serving, Gated, Peppered, Bound, Loaded
    <2>2. CrashesNeverLockOut
      BY DEF GateInv, CrashesNeverLockOut
    <2> QED
      BY <2>1, <2>2 DEF GatesAreExact
  <1> QED
    BY <1>1, <1>2, <1>3, InvariantHolds, PTL DEF Spec

\* While the rooms can be read, a room somebody was told of is served under its
\* owner and its id by this process and every later one (doCreate,
\* loadOrCreateLobby), whatever else fails.
THEOREM CreatedRoomsSurvive == ASSUME RoomsAreRead PROVE Spec => []RoomsSurvive
  <1>1. Init => RoomInv
    BY InitRooms
  <1>2. RoomTypes /\ RoomInv /\ [Next]_vars => RoomInv'
    BY NextRoomInv, RoomsAreRead
  <1>3. RoomInv => RoomsSurvive
    <2> SUFFICES ASSUME RoomInv PROVE RoomsSurvive
      OBVIOUS
    <2>1. RoomsKeepTheirIds
      BY DEF RoomInv
    <2>2. CreatedRoomsAreServed
      <3> SUFFICES ASSUME Serving, NEW t \in told
                   PROVE  Routed(t[1]) /\ router[t[1]].owner = t[2]
        BY DEF CreatedRoomsAreServed
      <3>1. t[1] \in Names /\ rooms[t[1]].owner = t[2] /\ Routed(t[1])
        BY DEF RoomInv, Serving, Loaded
      <3> QED
        BY <2>1, <3>1 DEF RoomsKeepTheirIds
    <2> QED
      BY <2>1, <2>2 DEF RoomsSurvive
  <1> QED
    BY <1>1, <1>2, <1>3, InvariantHolds, PTL DEF Spec
=============================================================================
