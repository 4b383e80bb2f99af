-------------------------- MODULE CsiControllerRpc --------------------------
(***************************************************************************)
(* DeleteVolume, ControllerExpandVolume, CreateSnapshot and DeleteSnapshot *)
(* of the CSI controller (src/csi/driver/controller.go), with the plugin  *)
(* methods they reach: the OceanStor and FusionStorage SAN plugins and the *)
(* OceanStor dtree plugin.                                                 *)
(*                                                                         *)
(* The orchestrator calls the RPCs on the volumes and snapshots it knows   *)
(* (pvs, contents) and forgets an object when a delete returns success.    *)
(* Each RPC looks its backend up in the registry (GetBackendWithFresh,     *)
(* outside this repository); the registry may lose or regain a backend.    *)
(* The array is volSize (0: no such volume) and snapOn.  Sizes are in      *)
(* abstract bytes: SectorSize and CapacityUnit keep the plugins' units     *)
(* (512 B, 1 MiB) as small numbers with the same divisibility relation.    *)
(***************************************************************************)
EXTENDS Integers, FiniteSets

CONSTANTS
  Backends, StorageOf,   \* backend -> "oceanstor-san", "fusionstorage-san", "oceanstor-dtree"
  Vols, VolBackend,      \* volume -> its backend (the first part of its volume ID)
  Snaps, SnapVol,        \* snapshot -> its parent volume
  Sizes,                 \* sizes a user may resize a claim to
  LimitBytes,            \* CapacityRange.LimitBytes values (0: unset)
  InitSize,              \* size of every volume when the run starts
  SectorSize, CapacityUnit,
  MaxRegistryChanges,    \* bound: backends lost or regained
  Provisioned,           \* volumes that exist when the run starts
  Replicated             \* volumes whose StorageClass asks for replication

DTreeStorage == "oceanstor-dtree"

VARIABLES
  registered,   \* backends GetBackendWithFresh finds
  regChanges,
  volSize,      \* array: volume -> size in bytes, 0 when absent
  snapOn,       \* array: snapshots that exist
  pvs,          \* volumes the orchestrator knows
  capacity,     \* capacity the orchestrator recorded for each volume
  requested,    \* size the user asked for (the claim's spec)
  contents,     \* snapshots the orchestrator knows
  abandoned,    \* objects given up with "CAUTION ... manually delete"
  attachments,  \* volumes with a VolumeAttachment (publish asked, not yet undone)
  hostMapped,   \* array: volumes mapped to a host
  pending,      \* claims whose CreateVolume has not yet succeeded for the orchestrator
  pairOn        \* array: volumes with a replication pair

attachVars == <<attachments, hostMapped>>
createVars == <<pending, pairOn>>

vars == <<registered, regChanges, volSize, snapOn, pvs, capacity, requested,
          contents, abandoned, attachments, hostMapped,
          pending, pairOn>>

Init ==
  /\ registered = Backends /\ regChanges = 0
  /\ volSize = [v \in Vols |-> IF v \in Provisioned THEN InitSize ELSE 0]
  /\ snapOn = {}
  /\ pvs = Provisioned /\ pending = Vols \ Provisioned
  /\ capacity = [v \in Vols |-> InitSize]
  /\ requested \in {r \in [Vols -> Sizes \cup {InitSize}] :
                      \A v \in Provisioned : r[v] = InitSize}
  /\ pairOn = {}
  /\ contents = {} /\ abandoned = {}
  /\ attachments = {} /\ hostMapped = {}

ControllerTypeOK ==
  /\ registered \subseteq Backends /\ regChanges \in 0..MaxRegistryChanges
  /\ volSize \in [Vols -> {0} \cup Sizes \cup {InitSize}] /\ snapOn \subseteq Snaps
  /\ pvs \subseteq Vols /\ capacity \in [Vols -> Sizes \cup {InitSize}]
  /\ requested \in [Vols -> Sizes \cup {InitSize}]
  /\ contents \subseteq Snaps /\ abandoned \subseteq Vols \cup Snaps
  /\ attachments \subseteq Vols /\ hostMapped \subseteq Vols
  /\ pending \subseteq Vols /\ pairOn \subseteq Vols

-----------------------------------------------------------------------------
(* utils.IsCapacityAvailable(size, unit): size is a whole number of units *)
CapacityAvailable(size, unit) == size % unit = 0

(* The plugins.  A call the plugin does not implement fails ("not          *)
(* implement"); arrayOk is the array's answer to one that it does.         *)
Plugin(b) == StorageOf[b]

(* The plugin methods DeleteVolume routes to.  The SAN plugins hand the    *)
(* delete to their volume object; the dtree plugin's DeleteVolume and the  *)
(* SAN plugins' DeleteDTreeVolume answer "not implement".                  *)
SanDeleteVolumeOk(arrayOk) == arrayOk
FusionDeleteVolumeOk(arrayOk) == arrayOk
DTreePluginDeleteVolumeOk == FALSE
SanDeleteDTreeVolumeOk == FALSE
FusionDeleteDTreeVolumeOk == FALSE

DeleteVolumeOk(b, arrayOk) ==
  CASE Plugin(b) = "oceanstor-san"     -> SanDeleteVolumeOk(arrayOk)
    [] Plugin(b) = "fusionstorage-san" -> FusionDeleteVolumeOk(arrayOk)
    [] Plugin(b) = DTreeStorage        -> DTreePluginDeleteVolumeOk
DeleteDTreeVolumeOk(b, arrayOk) ==
  CASE Plugin(b) = "oceanstor-san"     -> SanDeleteDTreeVolumeOk
    [] Plugin(b) = "fusionstorage-san" -> FusionDeleteDTreeVolumeOk
    [] Plugin(b) = DTreeStorage        -> arrayOk

(* OceanstorSanPlugin / FusionStorageSanPlugin.ExpandVolume: the size must *)
(* be whole sectors (MiB); the array gets TransVolumeCapacity(size, unit)  *)
(* units.  The dtree plugin does not implement it.                         *)
ExpandUnit(b) == IF Plugin(b) = "fusionstorage-san" THEN CapacityUnit ELSE SectorSize
SanExpandVolumeOk(size, arrayOk) == CapacityAvailable(size, SectorSize) /\ arrayOk
(* Mutant: FusionStorage ExpandVolume without the IsCapacityAvailable check. *)
FusionExpandVolumeOkNoUnitCheck(size, arrayOk) == arrayOk
FusionExpandVolumeOk(size, arrayOk) == CapacityAvailable(size, CapacityUnit) /\ arrayOk
DTreePluginExpandVolumeOk == FALSE
ExpandVolumeOk(b, size, arrayOk) ==
  CASE Plugin(b) = "oceanstor-san"     -> SanExpandVolumeOk(size, arrayOk)
    [] Plugin(b) = "fusionstorage-san" -> FusionExpandVolumeOk(size, arrayOk)
    [] Plugin(b) = DTreeStorage        -> DTreePluginExpandVolumeOk
ExpandedSize(b, size) == (size \div ExpandUnit(b)) * ExpandUnit(b)

(* OceanstorDTreePlugin.ExpandDTreeVolume: the hard quota must be whole    *)
(* sectors.  The SAN plugins do not implement it.                          *)
ExpandDTreeVolumeOk(b, size, arrayOk) ==
  Plugin(b) = DTreeStorage /\ CapacityAvailable(size, SectorSize) /\ arrayOk

(* CreateSnapshot and DeleteSnapshot: the SAN plugins call their volume    *)
(* object with the snapshot name converted; the dtree plugin answers "not  *)
(* implement".                                                              *)
SanSnapshotOk(arrayOk) == arrayOk
FusionSnapshotOk(arrayOk) == arrayOk
DTreeSnapshotOk == FALSE
SnapshotOk(b, arrayOk) ==
  CASE Plugin(b) = "oceanstor-san"     -> SanSnapshotOk(arrayOk)
    [] Plugin(b) = "fusionstorage-san" -> FusionSnapshotOk(arrayOk)
    [] Plugin(b) = DTreeStorage        -> DTreeSnapshotOk

(* utils.RoundUpSize(size, unit): whole units, rounded up.                 *)
RoundUpSize(size, unit) == ((size + unit - 1) \div unit) * unit

(* The capacity the plugin's getParams hands to the array: FusionStorage   *)
(* rounds it up to MiB; the OceanStor plugins pass the size on.            *)
getParamsCapacity(b, size) ==
  IF Plugin(b) = "fusionstorage-san" THEN RoundUpSize(size, CapacityUnit) ELSE size

(* The size checks of the plugins' CreateVolume, made before getParams.    *)
SanCreateVolumeOk(b, size) == CapacityAvailable(size, SectorSize)
(* Mutant: FusionStorage CreateVolume without the IsCapacityAvailable check. *)
FusionCreateVolumeOkNoUnitCheck(b, size) == TRUE
FusionCreateVolumeOk(b, size) == CapacityAvailable(size, CapacityUnit)
DTreeCreateVolumeOk(b, size) == CapacityAvailable(size, SectorSize)
PluginCreateVolumeOk(b, size) ==
  CASE Plugin(b) = "oceanstor-san"     -> SanCreateVolumeOk(b, size)
    [] Plugin(b) = "fusionstorage-san" -> FusionCreateVolumeOk(b, size)
    [] Plugin(b) = DTreeStorage        -> DTreeCreateVolumeOk(b, size)

(* Only the OceanStor SAN plugin has a replica remote; the StorageClass    *)
(* asks for replication.                                                   *)
ReplicationWanted(v) == v \in Replicated /\ Plugin(VolBackend[v]) = "oceanstor-san"

(* Mutant: the pair is deleted when the sync succeeds, not when it fails. *)
createReplicationPairDeletesOnSuccess(v, createOk, syncOk, deleteOk) ==
  pairOn' = IF createOk /\ ~(syncOk /\ deleteOk) THEN pairOn \cup {v} ELSE pairOn

(* Base.createReplicationPair: CreateReplicationPair, then               *)
(* SyncReplicationPair; when the sync fails the pair is deleted, and the   *)
(* delete's own error is dropped, leaving the pair on the array.           *)
createReplicationPair(v, createOk, syncOk, deleteOk) ==
  pairOn' = IF createOk /\ ~(~syncOk /\ deleteOk) THEN pairOn \cup {v} ELSE pairOn

(* makeCreateVolumeResponse: CapacityBytes is the request's RequiredBytes. *)
ResponseCapacity(size) == size

(* isSupportExpandVolume.  cap is the request's VolumeCapability; isNil   *)
(* when it carries none.                                                    *)
isSupportExpandVolume(b, cap) ==
  \/ Plugin(b) = DTreeStorage
  \/ /\ ~cap.isNil
     /\ ~(cap.mode = "MULTI_NODE_MULTI_WRITER" /\ ~cap.block)
     /\ cap.mode # "MULTI_NODE_READER_ONLY"

(* Driver.ControllerGetCapabilities: the controller RPCs the orchestrator  *)
(* calls.  ListVolumes, GetCapacity and the other unadvertised RPCs answer *)
(* Unimplemented and change nothing.                                       *)
ControllerGetCapabilities ==
  {"CREATE_DELETE_VOLUME", "PUBLISH_UNPUBLISH_VOLUME", "EXPAND_VOLUME",
   "CREATE_DELETE_SNAPSHOT", "CLONE_VOLUME"}

AccessModes == {"SINGLE_NODE_WRITER", "MULTI_NODE_MULTI_WRITER", "MULTI_NODE_READER_ONLY"}
Caps == {[isNil |-> TRUE, block |-> FALSE, mode |-> "SINGLE_NODE_WRITER"]}
          \cup [isNil: {FALSE}, block: BOOLEAN, mode: AccessModes]

-----------------------------------------------------------------------------
(* Driver.createVolume for a claim the orchestrator has not yet seen      *)
(* created: SelectStoragePool (no registered backend: Internal), the       *)
(* plugin's CreateVolume, and the response.  The volume's creation flow    *)
(* (outside this repository) creates the LUN, runs createReplicationPair   *)
(* when replication is wanted, and on its failure reverts the new LUN; a   *)
(* retry that finds the LUN from an earlier call succeeds.  The            *)
(* orchestrator retries until a success reaches it.                        *)
CreateVolume(v) ==
  LET b == VolBackend[v]
      size == requested[v] IN
  /\ "CREATE_DELETE_VOLUME" \in ControllerGetCapabilities
  /\ v \in pending
  /\ \E lost, createOk, syncOk, deleteOk \in BOOLEAN :
       IF b \notin registered \/ ~PluginCreateVolumeOk(b, size)
       THEN UNCHANGED <<volSize, pvs, pending, capacity, pairOn>>
       ELSE LET pairOk == ~ReplicationWanted(v) \/ volSize[v] > 0 \/ (createOk /\ syncOk) IN
            /\ IF ReplicationWanted(v) /\ volSize[v] = 0
               THEN createReplicationPair(v, createOk, syncOk, deleteOk)
               ELSE UNCHANGED pairOn
            /\ IF pairOk
               THEN /\ volSize' = IF volSize[v] > 0 THEN volSize
                                  ELSE [volSize EXCEPT ![v] = getParamsCapacity(b, size)]
                    /\ pending' = IF lost THEN pending ELSE pending \ {v}
                    /\ pvs' = IF lost THEN pvs ELSE pvs \cup {v}
                    /\ capacity' = IF lost THEN capacity
                                   ELSE [capacity EXCEPT ![v] = ResponseCapacity(size)]
               ELSE UNCHANGED <<volSize, pvs, pending, capacity>>
  /\ UNCHANGED <<registered, regChanges, snapOn, requested, contents, abandoned, attachVars>>

(* Mutant: the plugin's error is dropped and success returned.             *)
DeleteVolumeIgnoresError(v) ==
  LET b == VolBackend[v] IN
  /\ "CREATE_DELETE_VOLUME" \in ControllerGetCapabilities
  /\ v \in pvs /\ v \notin attachments
  /\ \E lost \in BOOLEAN, arrayOk \in BOOLEAN :
       /\ pvs' = IF lost THEN pvs ELSE pvs \ {v}
       /\ abandoned' = IF b \notin registered THEN abandoned \cup {v} ELSE abandoned
       /\ volSize' = IF b \in registered /\ arrayOk
                     THEN [volSize EXCEPT ![v] = 0] ELSE volSize
       /\ pairOn' = IF b \in registered /\ arrayOk THEN pairOn \ {v} ELSE pairOn
  /\ UNCHANGED <<registered, regChanges, snapOn, capacity, requested, contents,
                 attachVars, pending>>

(* Driver.DeleteVolume.  A lost response leaves the volume known to the   *)
(* orchestrator, which deletes it again.  The plugin's delete flow        *)
(* (outside this repository) removes the volume's replication pair first.  *)
DeleteVolume(v) ==
  LET b == VolBackend[v] IN
  /\ "CREATE_DELETE_VOLUME" \in ControllerGetCapabilities
  /\ v \in pvs /\ v \notin attachments
  /\ \E lost \in BOOLEAN, arrayOk \in BOOLEAN :
       IF b \notin registered
       THEN /\ pvs' = IF lost THEN pvs ELSE pvs \ {v}
            /\ abandoned' = abandoned \cup {v}
            /\ UNCHANGED <<volSize, pairOn>>
       ELSE IF IF Plugin(b) = DTreeStorage THEN DeleteDTreeVolumeOk(b, arrayOk)
                                           ELSE DeleteVolumeOk(b, arrayOk)
       THEN /\ volSize' = [volSize EXCEPT ![v] = 0]
            /\ pairOn' = pairOn \ {v}
            /\ pvs' = IF lost THEN pvs ELSE pvs \ {v}
            /\ UNCHANGED abandoned
       ELSE UNCHANGED <<volSize, pairOn, pvs, abandoned>>
  /\ UNCHANGED <<registered, regChanges, snapOn, capacity, requested, contents,
                 attachVars, pending>>

(* The user resizes the claim; the resizer only grows a volume.            *)
UserResize(v) ==
  /\ v \in pvs
  /\ \E s \in Sizes :
       /\ s > requested[v]
       /\ requested' = [requested EXCEPT ![v] = s]
  /\ UNCHANGED <<registered, regChanges, volSize, snapOn, pvs, capacity, contents, abandoned,
                 attachVars, createVars>>

(* Mutant: the response reports LimitBytes instead of RequiredBytes.       *)
ControllerExpandVolumeReportsLimit(v) ==
  LET b == VolBackend[v]
      minSize == requested[v] IN
  /\ "EXPAND_VOLUME" \in ControllerGetCapabilities
  /\ v \in pvs /\ requested[v] > capacity[v]
  /\ \E maxSize \in LimitBytes, cap \in Caps, lost \in BOOLEAN,
        arrayOk \in IF volSize[v] > 0 THEN BOOLEAN ELSE {FALSE} :
       IF /\ ~(0 < maxSize /\ maxSize < minSize)
          /\ b \in registered
          /\ isSupportExpandVolume(b, cap)
          /\ IF Plugin(b) = DTreeStorage THEN ExpandDTreeVolumeOk(b, minSize, arrayOk)
                                         ELSE ExpandVolumeOk(b, minSize, arrayOk)
       THEN /\ volSize' = [volSize EXCEPT ![v] = IF Plugin(b) = DTreeStorage
                                                 THEN minSize ELSE ExpandedSize(b, minSize)]
            /\ capacity' = IF lost THEN capacity ELSE [capacity EXCEPT ![v] = maxSize]
       ELSE UNCHANGED <<volSize, capacity>>
  /\ UNCHANGED <<registered, regChanges, snapOn, pvs, requested, contents, abandoned,
                 attachVars, createVars>>

(* Driver.ControllerExpandVolume for the claim's new size: the argument    *)
(* checks, the backend lookup, isSupportExpandVolume, the dtree / SAN      *)
(* routing, and CapacityBytes = RequiredBytes in the response, which the   *)
(* orchestrator records unless the response is lost.                      *)
ControllerExpandVolume(v) ==
  LET b == VolBackend[v]
      minSize == requested[v] IN
  /\ "EXPAND_VOLUME" \in ControllerGetCapabilities
  /\ v \in pvs /\ requested[v] > capacity[v]
  /\ \E maxSize \in LimitBytes, cap \in Caps, lost \in BOOLEAN,
        arrayOk \in IF volSize[v] > 0 THEN BOOLEAN ELSE {FALSE} :
       IF /\ ~(0 < maxSize /\ maxSize < minSize)
          /\ b \in registered
          /\ isSupportExpandVolume(b, cap)
          /\ IF Plugin(b) = DTreeStorage THEN ExpandDTreeVolumeOk(b, minSize, arrayOk)
                                         ELSE ExpandVolumeOk(b, minSize, arrayOk)
       THEN /\ volSize' = [volSize EXCEPT ![v] = IF Plugin(b) = DTreeStorage
                                                 THEN minSize ELSE ExpandedSize(b, minSize)]
            /\ capacity' = IF lost THEN capacity ELSE [capacity EXCEPT ![v] = minSize]
       ELSE UNCHANGED <<volSize, capacity>>
  /\ UNCHANGED <<registered, regChanges, snapOn, pvs, requested, contents, abandoned,
                 attachVars, createVars>>

(* Driver.CreateSnapshot of snapshot s of a known volume.                  *)
CreateSnapshot(s) ==
  LET v == SnapVol[s]
      b == VolBackend[v] IN
  /\ "CREATE_DELETE_SNAPSHOT" \in ControllerGetCapabilities
  /\ s \notin contents /\ v \in pvs
  /\ \E arrayOk \in IF volSize[v] > 0 THEN BOOLEAN ELSE {FALSE} :
       IF b \in registered /\ SnapshotOk(b, arrayOk)
       THEN snapOn' = snapOn \cup {s} /\ contents' = contents \cup {s}
       ELSE UNCHANGED <<snapOn, contents>>
  /\ UNCHANGED <<registered, regChanges, volSize, pvs, capacity, requested, abandoned,
                 attachVars, createVars>>

(* Driver.DeleteSnapshot: success without a call when the backend is gone. *)
DeleteSnapshot(s) ==
  LET b == VolBackend[SnapVol[s]] IN
  /\ "CREATE_DELETE_SNAPSHOT" \in ControllerGetCapabilities
  /\ s \in contents
  /\ \E lost \in BOOLEAN, arrayOk \in BOOLEAN :
       IF b \notin registered
       THEN /\ contents' = IF lost THEN contents ELSE contents \ {s}
            /\ abandoned' = abandoned \cup {s}
            /\ UNCHANGED snapOn
       ELSE IF SnapshotOk(b, arrayOk)
       THEN /\ snapOn' = snapOn \ {s}
            /\ contents' = IF lost THEN contents ELSE contents \ {s}
            /\ UNCHANGED abandoned
       ELSE UNCHANGED <<snapOn, contents, abandoned>>
  /\ UNCHANGED <<registered, regChanges, volSize, pvs, capacity, requested,
                 attachVars, createVars>>

(* Driver.ControllerPublishVolume.  The orchestrator creates the          *)
(* VolumeAttachment first and calls the RPC until it succeeds; it will     *)
(* call ControllerUnpublishVolume for the attachment whatever the answer.  *)
(* The node ID's JSON and the plugin's AttachVolume may each fail; a       *)
(* successful AttachVolume maps the volume whether or not its answer gets  *)
(* back.                                                                    *)
ControllerPublishVolume(v) ==
  LET b == VolBackend[v] IN
  /\ "PUBLISH_UNPUBLISH_VOLUME" \in ControllerGetCapabilities
  /\ v \in pvs
  /\ attachments' = attachments \cup {v}
  /\ \E nodeIdOk \in BOOLEAN, arrayOk \in IF volSize[v] > 0 THEN BOOLEAN ELSE {FALSE} :
       hostMapped' = IF b \in registered /\ nodeIdOk /\ arrayOk
                     THEN hostMapped \cup {v} ELSE hostMapped
  /\ UNCHANGED <<registered, regChanges, volSize, snapOn, pvs, capacity, requested,
                 contents, abandoned, createVars>>

(* Driver.ControllerUnpublishVolume: success without a call when the       *)
(* backend is gone ("CAUTION: volume ... need to manually detach"); else   *)
(* the node ID's JSON and the plugin's DetachVolume, which also returns    *)
(* nil when its LUN lookup finds nothing (oceanstor-san.go 317-319): the   *)
(* lookup may go to the metro remote and miss a mapped LUN (MetroDispatch).*)
(* The orchestrator deletes the attachment when the success reaches it.    *)
ControllerUnpublishVolume(v) ==
  LET b == VolBackend[v] IN
  /\ v \in attachments
  /\ \E lost, nodeIdOk, arrayOk, lunFound \in BOOLEAN :
       IF b \notin registered
       THEN /\ attachments' = IF lost THEN attachments ELSE attachments \ {v}
            /\ UNCHANGED hostMapped
       ELSE IF nodeIdOk /\ arrayOk
       THEN /\ hostMapped' = IF lunFound THEN hostMapped \ {v} ELSE hostMapped
            /\ attachments' = IF lost THEN attachments ELSE attachments \ {v}
       ELSE UNCHANGED attachVars
  /\ UNCHANGED <<registered, regChanges, volSize, snapOn, pvs, capacity, requested,
                 contents, abandoned, createVars>>

(* The backend registry loses a backend or finds it again.                 *)
RegistryChange ==
  /\ regChanges < MaxRegistryChanges
  /\ \E b \in Backends :
       registered' = IF b \in registered THEN registered \ {b} ELSE registered \cup {b}
  /\ regChanges' = regChanges + 1
  /\ UNCHANGED <<volSize, snapOn, pvs, capacity, requested, contents, abandoned,
                 attachVars, createVars>>

Next ==
  \/ \E v \in Vols : CreateVolume(v)
  \/ \E v \in Vols : DeleteVolume(v) \/ UserResize(v) \/ ControllerExpandVolume(v)
  \/ \E v \in Vols : ControllerPublishVolume(v) \/ ControllerUnpublishVolume(v)
  \/ \E s \in Snaps : CreateSnapshot(s) \/ DeleteSnapshot(s)
  \/ RegistryChange

Spec == Init /\ [][Next]_vars

-----------------------------------------------------------------------------
OnArray(x) == IF x \in Vols THEN volSize[x] > 0 ELSE x \in snapOn

(* Spec 7: teardown never reports success for a failed delete.  Every     *)
(* volume or snapshot the orchestrator has forgotten while it is still on  *)
(* the array was given up by the backend-absent branch of DeleteVolume or  *)
(* DeleteSnapshot, never by a plugin error turned into success.           *)
TeardownNeverLies ==
  \A x \in (Vols \ (pvs \cup pending)) \cup (Snaps \ contents) :
    OnArray(x) => x \in abandoned

(* CreateVolume and ControllerExpandVolume report RequiredBytes as the     *)
(* capacity, while the array gets the size rounded by getParams (up) or    *)
(* TransVolumeCapacity (down).  The plugins' unit checks make the rounding *)
(* exact, so the orchestrator never records more than the array holds and  *)
(* the array never holds more than the claim asked for.                    *)
RecordedCapacityOnArray ==
  \A v \in pvs : volSize[v] > 0 => capacity[v] <= volSize[v] /\ volSize[v] <= requested[v]

(* A replicated volume the orchestrator knows as created has its pair:    *)
(* createReplicationPair's error makes the creation flow revert the LUN,   *)
(* a retry after a lost answer finds the LUN of the call that made the     *)
(* pair, and a delete takes the pair with the volume.  So no sequence of   *)
(* failed syncs, lost responses, retries and deletes leaves a volume the   *)
(* orchestrator uses without the replication its StorageClass asked for.  *)
ReplicatedVolumeHasPair ==
  \A v \in pvs : ReplicationWanted(v) /\ volSize[v] > 0 => v \in pairOn
=============================================================================
