\* A failed Init must not leave the tracked session open.
CONSTANTS
  c1 = c1
  Absent = Absent
  Scalar = Scalar
  Claims <- MCClaims
  Storages <- MCStorages
  Protocols <- MCProtocols
  PortalElems <- MCPortalElems
  ParentNames <- MCParentNames
  Products <- MCProducts
  MaxPortals = 2
SPECIFICATION Spec
INVARIANT NoLeakedSession
\* A claim's admission ends: rejected, failed, or registered and removed.
CHECK_DEADLOCK FALSE
