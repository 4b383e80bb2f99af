\* pA and pB bonded as each other's metro remote, no capability refresh:
\* releaseClient decrements whatever plugin reads online, so two operations
\* can both release a count only one of them took.
CONSTANTS
  pA = pA
  pB = pB
  pC = pC
  t1 = t1
  t2 = t2
  t3 = t3
  t4 = t4
  Threads = {t1, t2}
  Plugins = {pA, pB}
  NoPlugin = NoPlugin
  Home <- AllOnA
  MetroRemote <- MetroPair
  MaxOps = 1
  RefreshEnabled = FALSE
SPECIFICATION SessionSpec
INVARIANTS
  CountNeverNegative
