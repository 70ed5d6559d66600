\* A login that races a kick of its own connection.
SPECIFICATION Spec
CONSTANTS
  NoUser = NoUser  NoRoom = NoRoom
  MaxConns = 2
  Users = {u1}
  Rooms = {lobby, den}
  MaxFrames = 2
INVARIANTS
  EndedConnIsOffline
