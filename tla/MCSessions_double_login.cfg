\* Two password logins of one user.
SPECIFICATION Spec
CONSTANTS
  NoUser = NoUser  NoRoom = NoRoom
  MaxConns = 2
  Users = {u1}
  Rooms = {lobby, den}
  MaxFrames = 2
PROPERTIES
  LoginRefusedWhenOnline
