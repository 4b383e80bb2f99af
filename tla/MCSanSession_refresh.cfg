\* A lone backend with concurrent capability refresh: references may leak,
\* but no holder is ever logged out under.
CONSTANTS
  pA = pA
  pB = pB
  pC = pC
  t1 = t1
  t2 = t2
  t3 = t3
  t4 = t4
  Threads = {t1, t2, t3}
  Plugins = {pA}
  NoPlugin = NoPlugin
  Home <- AllOnA
  MetroRemote <- NoMetro
  MaxOps = 2
  RefreshEnabled = TRUE
SPECIFICATION SessionSpec
SYMMETRY ThreadSymmetry
INVARIANTS
  HeldSessionLoggedIn
