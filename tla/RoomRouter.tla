------------------------------ MODULE RoomRouter ------------------------------
(***************************************************************************)
(* chat::RoomRouter, src/src/room_router.cpp: which rooms exist, who is in *)
(* each, and the room each user is in.  Members are user names, never      *)
(* connections.  Every method holds the router's mutex from its first to   *)
(* its last statement, so every method is one step.                        *)
(***************************************************************************)
CONSTANTS Users, Rooms, NoRoom

ASSUME RoomRouterAssumption == NoRoom \notin Rooms

VARIABLES
  rooms,      \* keys of rooms_
  members,    \* rooms_[r].members, empty for a room that does not exist
  userRoom    \* user_room_, NoRoom for a user without an entry

routerVars == <<rooms, members, userRoom>>

RouterInit ==
  /\ rooms = {}
  /\ members = [r \in Rooms |-> {}]
  /\ userRoom = [u \in Users |-> NoRoom]

\* create: an existing room is left alone.
Create(r) ==
  /\ rooms' = rooms \cup {r}
  /\ UNCHANGED <<members, userRoom>>

\* Bug: changing rooms does not remove the user from the old one.
Bug_JoinKeepsOldRoom(u, r) ==
  IF r \in rooms
  THEN /\ members' = [members EXCEPT ![r] = @ \cup {u}]
       /\ userRoom' = [userRoom EXCEPT ![u] = r]
       /\ UNCHANGED rooms
  ELSE UNCHANGED routerVars

\* Bug: the two arguments of user_room_[user] = room are swapped.
Bug_JoinSwapsArguments(u, r) ==
  IF r \in rooms
  THEN /\ members' = [members EXCEPT ![r] = @ \cup {u}]
       /\ userRoom' = [userRoom EXCEPT ![u] = u]
       /\ UNCHANGED rooms
  ELSE UNCHANGED routerVars

\* join: refused for a room that does not exist, otherwise the user leaves the
\* room it is in (joining that same room again changes nothing).
Join(u, r) ==
  IF r \in rooms
  THEN /\ members' = [q \in Rooms |-> IF q = r THEN members[q] \cup {u}
                                      ELSE IF q = userRoom[u]
                                           THEN members[q] \ {u}
                                           ELSE members[q]]
       /\ userRoom' = [userRoom EXCEPT ![u] = r]
       /\ UNCHANGED rooms
  ELSE UNCHANGED routerVars

\* leave: nothing to do for a user without a room.
Leave(u) ==
  /\ members' = [r \in Rooms |-> IF r = userRoom[u] THEN members[r] \ {u}
                                 ELSE members[r]]
  /\ userRoom' = [userRoom EXCEPT ![u] = NoRoom]
  /\ UNCHANGED rooms

RouterNext ==
  \/ \E r \in Rooms : Create(r)
  \/ \E u \in Users, r \in Rooms : Join(u, r)
  \/ \E u \in Users : Leave(u)

RouterSpec == RouterInit /\ [][RouterNext]_routerVars

RouterTypeOK ==
  /\ rooms \subseteq Rooms
  /\ members \in [Rooms -> SUBSET Users]
  /\ userRoom \in [Users -> Rooms \cup {NoRoom}]

\* The two maps say the same thing: a user is a member of the one room it is
\* in, which exists, and of no other; so a broadcast reaches every member once.
RoomsAgree ==
  /\ \A u \in Users, r \in Rooms : u \in members[r] <=> userRoom[u] = r
  /\ \A u \in Users : userRoom[u] # NoRoom => userRoom[u] \in rooms
=============================================================================
