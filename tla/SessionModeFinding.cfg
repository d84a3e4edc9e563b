SPECIFICATION Spec
CONSTANTS
  u1 = u1
  u2 = u2
  c1 = c1
  c2 = c2
  cl = cl
  s1 = s1
  s2 = s2
  p1 = p1
  p2 = p2
  p3 = p3
  m1 = m1
  m2 = m2
  None = None
  Users = {u1}
  Clients = {c1}
  UserOf <- OneClient
  Cleaners = {}
  Sessions = {s1}
  Procs = {p1, p2, p3}
  Modes = {m1, m2}
  DefaultMode = m1
  MaxAsked = 1
PROPERTY ModeChangeRestarts
