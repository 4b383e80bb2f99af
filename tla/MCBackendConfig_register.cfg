\* Admission of one claim of every configuration: Validate, then Init.
CONSTANTS
  c1 = c1
  Absent = Absent
  Scalar = Scalar
  Claims <- MCClaims
  Storages <- MCStorages
  Protocols <- MCProtocols
  PortalElems <- MCPortalElems
  ParentNames <- MCParentNames
  Products <- MCProducts
  MaxPortals = 2
SPECIFICATION Spec
INVARIANTS ConfigTypeOK RegisteredConfigValid
\* A claim's admission ends: rejected, failed, or registered and removed.
CHECK_DEADLOCK FALSE
