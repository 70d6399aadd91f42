SPECIFICATION Spec
CONSTANTS
  i1 = i1
  i2 = i2
  h1 = h1
  h2 = h2
  h3 = h3
  c1 = c1
  c2 = c2
  c3 = c3
  r1 = r1
  r2 = r2
  v1 = v1
  v2 = v2
  Interrupts = {i1}
  Anonymous = {}
  Handlers = {h1, h2}
  Callers = {c1, c2}
  Requests = {r1}
  Values = {v1}
  MaxResumes = 2
  MaxGen = 2
  OverlappingPauses = FALSE
  CallersMayAbort = FALSE
  NoRequest = NoRequest
  Nobody = Nobody
  ResumeTo <- SelfLoop
SYMMETRY Symmetry
INVARIANTS
  ReplaySafe
CHECK_DEADLOCK FALSE
