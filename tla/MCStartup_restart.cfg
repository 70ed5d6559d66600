\* Two users, the lobby and one more room, three processes; the statements of
\* CREATE, the start's own calls and the socket may fail.
SPECIFICATION FairSpec
CONSTANTS
  Users = {u1, u2}
  Names = {lobby, a}
  Lobby = lobby
  Faults = {"open", "schema", "ver_set", "tls", "insert", "listen"}
  MaxPeppers = 2
  MaxLaunches = 3
INVARIANTS
  RoomsSurvive
  GatesAreExact
PROPERTIES
  StopIsObeyed
CHECK_DEADLOCK FALSE
