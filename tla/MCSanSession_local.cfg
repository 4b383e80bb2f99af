\* A lone oceanstor-san backend pA used by three threads, beside a HyperMetro
\* pair pB/pC used by one thread, no capability refresh: the configurations
\* in which getClient/releaseClient are expected to count correctly.  On the
\* pair one operation runs at a time, with either login failing.
CONSTANTS
  pA = pA
  pB = pB
  pC = pC
  t1 = t1
  t2 = t2
  t3 = t3
  t4 = t4
  Threads = {t1, t2, t3, t4}
  Plugins = {pA, pB, pC}
  NoPlugin = NoPlugin
  Home <- T4OnPair
  MetroRemote <- LoneAndPair
  MaxOps = 2
  RefreshEnabled = FALSE
SPECIFICATION SessionSpec
SYMMETRY LoneThreadSymmetry
INVARIANTS
  TypeOK
  HeldSessionLoggedIn
  QuiescentLoggedOut
  CountMatchesHolders
PROPERTIES
  AbsSpec
