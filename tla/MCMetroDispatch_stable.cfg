\* storageOnline of the pair fixed for the whole run (any combination): every
\* branch of getLunInfo, handler and metroHandler with no flag changing under
\* a call.  A getClient/releaseClient user works on a lone third backend pC,
\* whose logins and releases touch no flag the RPCs read.
CONSTANTS
  pA = pA
  pB = pB
  pC = pC
  t1 = t1
  r1 = r1
  r2 = r2
  Threads = {t1}
  Rpcs = {r1, r2}
  Plugins = {pA, pB, pC}
  NoPlugin = NoPlugin
  RpcPlugin = pA
  Home <- AllOnC
  MetroRemote <- PairAndLone
  MaxOps = 1
  RefreshEnabled = FALSE
SPECIFICATION Spec
INVARIANTS
  NoNilClientCall
  DetachLeavesNoMapping
