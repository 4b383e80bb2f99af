\* Two families of requests: every StorageClass parameter the checks read
\* varies (with no mount options), and mount options, content sources, PVC
\* annotations vary (with the checked parameters unset).  Collaborators
\* all succeed or one fails at a time; the provisioner retries until
\* success.  A successful CreateVolume is its last call for a PVC, so
\* deadlock is not checked.  Requests is replaced by the union of the two
\* families; the set constants only bound their parts.
CONSTANTS
  Absent = Absent
  Ranges <- MCRanges
  ModeSeqs <- ChecksModes
  MountOptionSeqs <- FlowMounts
  VolumeTypes <- ChecksVolumeTypes
  FsTypes <- ChecksFsTypes
  Permissions <- MCPermissions
  Ratios <- MCRatios
  Descriptions <- ChecksDescriptions
  NfsParams <- FlowNfsParams
  CloneSpeeds <- MCCloneSpeeds
  AllocTypes = {Absent, "thick"}
  QosParams = {Absent, "qos"}
  Sources <- FlowSources
  Annotations <- FlowAnnotations
  Envs <- MCEnvs
  Requests <- MCRequests
SPECIFICATION Spec
INVARIANT CreateTypeOK
INVARIANT ArrayCallOnlyForValidRequest
INVARIANT OutcomeMatchesReference
INVARIANT NfsProtocolFromMountOptions
INVARIANT ManagedCapacityIsActual
INVARIANT CloneSpeedToArray
CHECK_DEADLOCK FALSE
