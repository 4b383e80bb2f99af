\* One backend of each plugin family with one volume each, snapshots of the
\* OceanStor SAN and dtree volumes, one claim size (6: whole sectors, not
\* whole MiB) and a limit below it, attachments of every volume, and one
\* registry change.  The orchestrator may have nothing left to do, so
\* deadlock is not checked.
CONSTANTS
  Backends = {"b1", "b2", "b3"}
  Vols = {"v1", "v2", "v3"}
  Snaps = {"s1", "s3"}
  Sizes = {6}
  LimitBytes = {0, 5}
  MaxRegistryChanges = 1
  StorageOf <- MCStorageOf
  VolBackend <- MCVolBackend
  SnapVol <- MCSnapVol
  Caps <- MCCaps
  InitSize = 4
  SectorSize = 2
  CapacityUnit = 4
  Provisioned = {"v3"}
  Replicated = {"v1"}
SPECIFICATION Spec
INVARIANTS
  ControllerTypeOK
  TeardownNeverLies
  RecordedCapacityOnArray
  ReplicatedVolumeHasPair
CHECK_DEADLOCK FALSE
