\* Two connections of one user, every frame and every way to be kicked.
SPECIFICATION FairSpec
CONSTANTS
  NoUser = NoUser  NoRoom = NoRoom
  MaxConns = 2
  Users = {u1}
  Rooms = {lobby, den}
  MaxFrames = 4
INVARIANTS
  TypeOK
  RoomsAgree
  OnlineIsAuthed
  ReplacedIsBeingKicked
PROPERTIES
  PresenceOutlivesOldConns
  GhostsAreLateLogins
  SilentConnIsDropped
  DroppedConnEnds
  ReplacedConnEnds
