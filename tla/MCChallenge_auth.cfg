\* Two connections of one address, two names, two passwords, a restart.
SPECIFICATION Spec
CONSTANTS
  Conns = {c1, c2}
  Users = {u1, u2}
  Passwords = {p1, p2}
  ChalTtl = 2
  TokenTtl = 1
  GcSize = 1
  OldUsers = {u1}
  OldPassword = p1
  DbFaults = {"login", "insert"}
  MaxTime = 4
  MaxFresh = 4
  MaxRestarts = 1
SYMMETRY Symmetry
INVARIANTS
  NonceVerifiesOnce
  AcceptedAsIssued
  OnePasswordPerName
PROPERTIES
  TokensLiveTheirTime
