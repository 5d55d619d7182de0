SPECIFICATION Spec
CONSTANTS
  Ids = {t1, t2}
  Threads = {h1, h2}
  Instants = {m1, m2}
  NoTask = NoTask
  NoInstant = NoInstant
INVARIANT CompletedOnce
