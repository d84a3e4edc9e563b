SPECIFICATION Spec
CONSTANTS
  u1 = u1
  u2 = u2
  c1 = c1
  c2 = c2
  cl = cl
  s1 = s1
  s2 = s2
  p1 = p1
  p2 = p2
  p3 = p3
  m1 = m1
  m2 = m2
  None = None
  Users = {u1, u2}
  Clients = {c1, c2}
  UserOf <- TwoUsers
  Cleaners = {}
  Sessions = {s1, s2}
  Procs = {p1, p2}
  Modes = {m1, m2}
  DefaultMode = m1
  MaxAsked = 1
SYMMETRY UsersAndNames
INVARIANT Isolation
INVARIANT ActivePointerLive
INVARIANT NoOrphanProcess
INVARIANT OneReadLoop
INVARIANT DroppedIsInert
INVARIANT DropIsAnnounced
