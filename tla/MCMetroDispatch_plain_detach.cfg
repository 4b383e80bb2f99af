\* A controller RPC with the capability refresh running: the local backend
\* may be flagged offline when a plain LUN is detached.
CONSTANTS
  pA = pA
  pB = pB
  pC = pC
  t1 = t1
  r1 = r1
  r2 = r2
  Threads = {}
  Rpcs = {r1}
  Plugins = {pA, pB}
  NoPlugin = NoPlugin
  RpcPlugin = pA
  Home <- AllOnA
  MetroRemote <- MetroPair
  MaxOps = 1
  RefreshEnabled = TRUE
SPECIFICATION Spec
INVARIANTS
  PlainDetachUnmaps
