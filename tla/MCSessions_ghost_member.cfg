\* A JOIN that is executed after its connection was dropped, then a login.
SPECIFICATION Spec
CONSTANTS
  NoUser = NoUser  NoRoom = NoRoom
  MaxConns = 2
  Users = {u1}
  Rooms = {lobby, den}
  MaxFrames = 3
PROPERTIES
  LoginFindsNoRoom
