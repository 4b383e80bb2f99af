\* A controller RPC with the capability refresh running: storageOnline may
\* turn true between AttachVolume's choice of clients and getLunInfo.
CONSTANTS
  pA = pA
  pB = pB
  pC = pC
  t1 = t1
  r1 = r1
  r2 = r2
  Threads = {}
  Rpcs = {r1}
  Plugins = {pA, pB}
  NoPlugin = NoPlugin
  RpcPlugin = pA
  Home <- AllOnA
  MetroRemote <- MetroPair
  MaxOps = 1
  RefreshEnabled = TRUE
SPECIFICATION Spec
INVARIANTS
  NoNilClientCall
