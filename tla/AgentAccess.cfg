SPECIFICATION Spec
CONSTANTS
  t1 = t1
  t2 = t2
  t3 = t3
  a1 = a1
  a2 = a2
  h1 = h1
  h2 = h2
  x1 = x1
  x2 = x2
  Token = {t1, t2, t3}
  Admin = {a1, a2}
  Host = {h1, h2}
  Handler = {x1, x2}
  Scenes <- MCScenes
  Request = {"q1", "q2"}
  w1 = w1
  w2 = w2
  Worker = {w1, w2}
  Skew = 1
  TTL = 3
  Pause = 1
  Drift = 1
  MaxTime = 4
SYMMETRY MCSymmetry
INVARIANTS
  AccessTypeOK
  TokenIsOneTime
  OneUsableToken
  HandledOnce
