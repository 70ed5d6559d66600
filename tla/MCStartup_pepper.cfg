\* A disk that takes no more bytes while the pepper file is written.
SPECIFICATION Spec
CONSTANTS
  Users = {u1}
  Names = {lobby}
  Lobby = lobby
  Faults = {"write"}
  MaxPeppers = 1
  MaxLaunches = 1
INVARIANTS
  ServedPepperIsStored
CHECK_DEADLOCK FALSE
