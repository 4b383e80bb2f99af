--------------------------- MODULE CsiCreateVolume ---------------------------
(***************************************************************************)
(* The CreateVolume RPC of the CSI controller (src/csi/driver/controller.go *)
(* and controller_helper.go): request checks, the PVC annotation lookup    *)
(* that chooses between creating a volume and importing (managing) one,    *)
(* parameter processing, pool selection and the plugin call.  The plugin  *)
(* is the OceanStor SAN one, whose volume creation runs the parameter      *)
(* analyzers of commonPreCreate (unnamed/part_003) before the array call.  *)
(*                                                                         *)
(* One step is one whole RPC: the request and the answers of the          *)
(* collaborators outside this repository (annotation lookup, pool          *)
(* selection, the plugin, the backend registry) are chosen from small sets *)
(* and the step records the RPC's result.  Strings the code parses         *)
(* (fsPermission, reservedSnapshotSpaceRatio) are sequences of characters; *)
(* a mount flag is the sequence of its comma-separated options, each one   *)
(* [key, val] after TrimSpace; a description is its length.                *)
(***************************************************************************)
EXTENDS Integers, Sequences, SequencesExt, TLC

CONSTANTS
  Ranges,          \* capacity ranges: [has: BOOLEAN, bytes: Int]
  ModeSeqs,        \* PVC access modes, in order
  MountOptionSeqs, \* StorageClass mountOptions: Seq(Seq([key, val]))
  VolumeTypes, FsTypes, Permissions, Ratios, Descriptions, NfsParams,
  CloneSpeeds,     \* StorageClass cloneSpeed strings
  AllocTypes,      \* StorageClass allocType values
  QosParams,       \* StorageClass qos: Absent or a (non-empty) QoS string
  Sources,         \* "none", "snapshot", "volume", "other"
  Annotations,     \* result of K8sUtils.GetVolumeConfiguration
  Envs,            \* answers of the collaborators outside this repository
  Absent           \* a StorageClass parameter that is not set

RWO == "SINGLE_NODE_WRITER"
RWX == "MULTI_NODE_MULTI_WRITER"

maxDescriptionLength == 255

nfsProtocolMap == ("3" :> "nfs3") @@ ("4" :> "nfs4") @@ ("4.0" :> "nfs4") @@ ("4.1" :> "nfs41")

Params == [volumeType: VolumeTypes, fsType: FsTypes, fsPermission: Permissions,
           reservedSnapshotSpaceRatio: Ratios, description: Descriptions,
           nfsProtocol: NfsParams, cloneSpeed: CloneSpeeds, allocType: AllocTypes,
           qos: QosParams]

Requests == [range: Ranges, block: BOOLEAN, modes: ModeSeqs,
             mountOptions: MountOptionSeqs, params: Params, source: Sources,
             annotation: Annotations]

(* The external provisioner sends one capability per PVC access mode, all *)
(* with the PVC's volumeMode and the StorageClass's mountOptions.          *)
Caps(r) == [i \in 1..Len(r.modes) |->
              [block |-> r.block, mode |-> r.modes[i],
               mountFlags |-> IF r.block THEN << >> ELSE r.mountOptions]]

VARIABLES req, env, out
vars == <<req, env, out>>

-----------------------------------------------------------------------------
(* strconv.Atoi on a short string: an optional sign, then one or more     *)
(* decimal digits.                                                          *)
Digit == [c \in {"0","1","2","3","4","5","6","7","8","9"} |->
            CASE c = "0" -> 0 [] c = "1" -> 1 [] c = "2" -> 2 [] c = "3" -> 3
              [] c = "4" -> 4 [] c = "5" -> 5 [] c = "6" -> 6 [] c = "7" -> 7
              [] c = "8" -> 8 [] c = "9" -> 9]
AtoiDigits(s) == IF s # << >> /\ s[1] \in {"+", "-"} THEN Tail(s) ELSE s
AtoiOk(s) == AtoiDigits(s) # << >> /\ \A i \in DOMAIN AtoiDigits(s) : AtoiDigits(s)[i] \in DOMAIN Digit
RECURSIVE DecimalValue(_)
DecimalValue(d) == IF d = << >> THEN 0 ELSE 10 * DecimalValue(Front(d)) + Digit[Last(d)]
Atoi(s) == IF s[1] = "-" THEN -DecimalValue(AtoiDigits(s)) ELSE DecimalValue(AtoiDigits(s))

(* regexp ^[0-7][0-7][0-7]$                                                 *)
checkFsPermission(p) ==
  p = Absent \/ (Len(p) = 3 /\ \A i \in 1..3 : p[i] \in {"0","1","2","3","4","5","6","7"})

(* Mutant: the upper bound 50 is tested with an off-by-one.              *)
checkReservedSnapshotSpaceRatioOffByOne(s) ==
  s = Absent \/ (AtoiOk(s) /\ ~(Atoi(s) < 0 \/ Atoi(s) > 51))

checkReservedSnapshotSpaceRatio(s) ==
  s = Absent \/ (AtoiOk(s) /\ ~(Atoi(s) < 0 \/ Atoi(s) > 50))

(* "" when the request passes, otherwise the reason                         *)
validateModeAndType(caps, p) ==
  LET volumeMode == IF caps # << >> /\ Last(caps).block THEN "Block" ELSE "FileSystem"
      rwx == \E i \in DOMAIN caps : caps[i].mode = RWX
  IN CASE caps = << >> -> "noCapabilities"
       [] volumeMode = "Block" /\ p.volumeType \in {"fs", "dtree"} -> "blockNotLun"
       [] rwx /\ volumeMode = "FileSystem" /\ p.volumeType = "lun" -> "rwxFilesystemLun"
       [] p.fsType \notin {Absent, "ext2", "ext3", "ext4", "xfs"} -> "fsType"
       [] OTHER -> ""

checkCreateVolumeRequest(r) ==
  CASE ~r.range.has \/ r.range.bytes <= 0 -> "InvalidArgument"
    [] ~checkFsPermission(r.params.fsPermission) -> "InvalidArgument"
    [] ~checkReservedSnapshotSpaceRatio(r.params.reservedSnapshotSpaceRatio) -> "InvalidArgument"
    [] validateModeAndType(Caps(r), r.params) # "" -> "InvalidArgument"
    [] OTHER -> "OK"

(* Mutant: the version string itself is stored, not its protocol name.   *)
RECURSIVE addNFSProtocolRawValue(_, _)
addNFSProtocolRawValue(flags, proto) ==
  IF flags = << >> THEN [err |-> FALSE, proto |-> proto]
  ELSE LET f == Head(flags) IN
       CASE f.key # "nfsvers" -> addNFSProtocolRawValue(Tail(flags), proto)
         [] f.val \notin DOMAIN nfsProtocolMap -> [err |-> TRUE, proto |-> proto]
         [] proto # Absent -> [err |-> TRUE, proto |-> proto]
         [] OTHER -> addNFSProtocolRawValue(Tail(flags), f.val)

(* Mutant: a second nfsvers option overrides the first.                    *)
RECURSIVE addNFSProtocolLastWins(_, _)
addNFSProtocolLastWins(flags, proto) ==
  IF flags = << >> THEN [err |-> FALSE, proto |-> proto]
  ELSE LET f == Head(flags) IN
       CASE f.key # "nfsvers" -> addNFSProtocolLastWins(Tail(flags), proto)
         [] f.val \notin DOMAIN nfsProtocolMap -> [err |-> TRUE, proto |-> proto]
         [] OTHER -> addNFSProtocolLastWins(Tail(flags), nfsProtocolMap[f.val])

(* addNFSProtocol over the options of one mount flag                        *)
RECURSIVE addNFSProtocol(_, _)
addNFSProtocol(flags, proto) ==
  IF flags = << >> THEN [err |-> FALSE, proto |-> proto]
  ELSE LET f == Head(flags) IN
       CASE f.key # "nfsvers" -> addNFSProtocol(Tail(flags), proto)
         [] f.val \notin DOMAIN nfsProtocolMap -> [err |-> TRUE, proto |-> proto]
         [] proto # Absent -> [err |-> TRUE, proto |-> proto]
         [] OTHER -> addNFSProtocol(Tail(flags), nfsProtocolMap[f.val])

RECURSIVE addMountFlags(_, _)
addMountFlags(mfs, proto) ==
  IF mfs = << >> THEN [err |-> FALSE, proto |-> proto]
  ELSE LET res == addNFSProtocol(Head(mfs), proto)
       IN IF res.err THEN res ELSE addMountFlags(Tail(mfs), res.proto)

(* Mutant: every capability's mount flags are processed (no break).      *)
RECURSIVE processNFSProtocolNoBreak(_, _)
processNFSProtocolNoBreak(caps, proto) ==
  IF caps = << >> THEN [err |-> FALSE, proto |-> proto]
  ELSE LET res == addMountFlags(Head(caps).mountFlags, proto)
       IN IF res.err THEN res ELSE processNFSProtocolNoBreak(Tail(caps), res.proto)

(* The outer loop stops after the first capability that set a protocol.   *)
RECURSIVE processNFSProtocol(_, _)
processNFSProtocol(caps, proto) ==
  IF caps = << >> THEN [err |-> FALSE, proto |-> proto]
  ELSE LET res == addMountFlags(Head(caps).mountFlags, proto)
       IN IF res.err \/ res.proto # Absent THEN res ELSE processNFSProtocol(Tail(caps), res.proto)

processVolumeContentSource(src) == IF src = "other" THEN "InvalidArgument" ELSE "OK"

(* Mutant: a description of exactly maxDescriptionLength is refused.     *)
processDescriptionOffByOne(d) == d = Absent \/ d < maxDescriptionLength

processDescription(d) == d = Absent \/ d <= maxDescriptionLength

(* the error code, and the nfsProtocol handed on to the plugin             *)
processCreateVolumeParameters(r) ==
  LET nfs == processNFSProtocol(Caps(r), r.params.nfsProtocol)
  IN CASE processVolumeContentSource(r.source) # "OK" -> [code |-> "InvalidArgument", nfs |-> Absent]
       [] nfs.err -> [code |-> "Unknown", nfs |-> Absent]
       [] ~processDescription(r.params.description) -> [code |-> "Unknown", nfs |-> Absent]
       [] OTHER -> [code |-> "OK", nfs |-> nfs.proto]

(* call is the array call the RPC reached; speed the clone speed it was   *)
(* given (Absent: left as the StorageClass wrote it).                      *)
Result(code, call, nfs, capacity) ==
  [code |-> code, call |-> call, nfs |-> nfs, capacity |-> capacity, speed |-> Absent]

(* processVolumeContentSource sets sourceSnapshotName or sourceVolumeName, *)
(* which the plugin's getParams hands on in lower case.                    *)
IsClone(r) == r.source \in {"snapshot", "volume"}

(* Mutant: only the clonefrom parameter marks a clone.                     *)
getCloneSpeedCloneFromOnly(r) == [err |-> FALSE, speed |-> Absent]

(* Base.getCloneSpeed: for a clone, a set cloneSpeed must Atoi to 1..4;    *)
(* an unset or empty one becomes 3.                                         *)
getCloneSpeed(r) ==
  LET v == r.params.cloneSpeed IN
  CASE ~IsClone(r) -> [err |-> FALSE, speed |-> Absent]
    [] v \in {Absent, << >>} -> [err |-> FALSE, speed |-> 3]
    [] ~AtoiOk(v) \/ Atoi(v) < 1 \/ Atoi(v) > 4 -> [err |-> TRUE, speed |-> Absent]
    [] OTHER -> [err |-> FALSE, speed |-> Atoi(v)]

(* Base.getPoolID: storagepool is the selected pool's name, set by        *)
(* processCreateVolumeParametersAfterSelect, so it is never empty; the     *)
(* array's GetPoolByName must find it.                                     *)
getPoolID(e) == e.poolFound

(* Base.getQoS: a non-empty qos is parsed and validated for the product   *)
(* (smartx, outside this repository: e.qos).                               *)
getQoS(r, e) == r.params.qos = Absent \/ e.qos

(* Base.commonPreCreate: getAllocType (which never fails: "thick" is 0,    *)
(* anything else 1), getCloneSpeed, getPoolID and getQoS, stopping at the  *)
(* first error.                                                             *)
commonPreCreate(r, e) ==
  LET cs == getCloneSpeed(r) IN
  CASE cs.err -> [err |-> TRUE, speed |-> Absent]
    [] ~getPoolID(e) -> [err |-> TRUE, speed |-> Absent]
    [] ~getQoS(r, e) -> [err |-> TRUE, speed |-> Absent]
    [] OTHER -> [err |-> FALSE, speed |-> cs.speed]

(* createVolume: parameters, SelectStoragePool, then the plugin, whose     *)
(* analyzers run before the array's create.                                *)
createVolume(r, e) ==
  LET p == processCreateVolumeParameters(r)
      pre == commonPreCreate(r, e) IN
  CASE p.code # "OK" -> Result(p.code, "none", Absent, 0)
    [] ~e.pool -> Result("Internal", "none", Absent, 0)
    [] pre.err -> Result("Internal", "none", Absent, 0)
    [] ~e.created -> [Result("Internal", "CreateVolume", p.nfs, 0) EXCEPT !.speed = pre.speed]
    [] OTHER -> [Result("OK", "CreateVolume", p.nfs, r.range.bytes) EXCEPT !.speed = pre.speed]

validateCapacity(r, e) == e.size = r.range.bytes

(* Mutant: the imported volume's size is not compared with the request.   *)
manageVolumeNoCapacityCheck(r, e) ==
  LET p == processCreateVolumeParameters(r) IN
  CASE ~e.backend \/ r.source # "none" -> Result("Unknown", "none", Absent, 0)
    [] p.code # "OK" -> Result(p.code, "none", Absent, 0)
    [] ~e.validBackend -> Result("Unknown", "none", Absent, 0)
    [] ~e.query -> Result("Internal", "QueryVolume", Absent, 0)
    [] OTHER -> Result("OK", "QueryVolume", p.nfs, r.range.bytes)

(* Mutant: a content source is not refused for an imported volume.       *)
manageVolumeAllowsSource(r, e) ==
  LET p == processCreateVolumeParameters(r) IN
  CASE ~e.backend -> Result("Unknown", "none", Absent, 0)
    [] p.code # "OK" -> Result(p.code, "none", Absent, 0)
    [] ~e.validBackend -> Result("Unknown", "none", Absent, 0)
    [] ~e.query -> Result("Internal", "QueryVolume", Absent, 0)
    [] ~validateCapacity(r, e) -> Result("Internal", "QueryVolume", Absent, 0)
    [] OTHER -> Result("OK", "QueryVolume", p.nfs, r.range.bytes)

(* manageVolume: import an existing array volume named by the PVC's        *)
(* annotations.  The response reports the requested capacity.              *)
manageVolume(r, e) ==
  LET p == processCreateVolumeParameters(r) IN
  CASE ~e.backend \/ r.source # "none" -> Result("Unknown", "none", Absent, 0)
    [] p.code # "OK" -> Result(p.code, "none", Absent, 0)
    [] ~e.validBackend -> Result("Unknown", "none", Absent, 0)
    [] ~e.query -> Result("Internal", "QueryVolume", Absent, 0)
    [] ~validateCapacity(r, e) -> Result("Internal", "QueryVolume", Absent, 0)
    [] OTHER -> Result("OK", "QueryVolume", p.nfs, r.range.bytes)

(* Driver.CreateVolume                                                       *)
CreateVolume(r, e) ==
  CASE checkCreateVolumeRequest(r) # "OK" -> Result(checkCreateVolumeRequest(r), "none", Absent, 0)
    [] r.annotation = "lookupError" -> Result("Unknown", "none", Absent, 0)
    [] r.annotation \in {"pvcNotFound", "none"} -> createVolume(r, e)
    [] r.annotation \in {"volumeOnly", "backendOnly"} -> Result("FailedPrecondition", "none", Absent, 0)
    [] OTHER -> manageVolume(r, e)

(* The provisioner sends a PVC's CreateVolume, and retries it until it     *)
(* succeeds; each call meets the collaborators afresh.                     *)
Init ==
  /\ req \in Requests
  /\ env \in Envs
  /\ out = CreateVolume(req, env)

Retry ==
  /\ out.code # "OK"
  /\ \E e \in Envs : env' = e /\ out' = CreateVolume(req, e)
  /\ UNCHANGED req

Next == Retry
Spec == Init /\ [][Next]_vars

-----------------------------------------------------------------------------
(* Reference definitions, stated from the checks' error messages.          *)
Octal == {"0","1","2","3","4","5","6","7"}
PositionalValue(d) == FoldFunction(LAMBDA x, y : x + y, 0, [i \in DOMAIN d |-> Digit[d[i]] * 10^(Len(d) - i)])
(* the signed decimal numerals whose value lies in lo..hi                  *)
DecimalIn(s, lo, hi) ==
  \E sign \in {<< >>, <<"+">>, <<"-">>} :
    LET d == SubSeq(s, Len(sign) + 1, Len(s)) IN
    /\ Len(s) > Len(sign) /\ SubSeq(s, 1, Len(sign)) = sign
    /\ \A i \in DOMAIN d : d[i] \in DOMAIN Digit
    /\ (IF sign = <<"-">> THEN -PositionalValue(d) ELSE PositionalValue(d)) \in lo..hi
RatioAccepted(s) == s = Absent \/ DecimalIn(s, 0, 50)
(* "error config %s for clonespeed": a clone's speed is 1 to 4, default 3 *)
CloneSpeedAccepted(s) == s \in {Absent, << >>} \/ DecimalIn(s, 1, 4)
ClonedSpeed(s) == IF s \in {Absent, << >>} THEN 3 ELSE CHOOSE n \in 1..4 : DecimalIn(s, n, n)

(* the nfsvers options of the mount flags, in order                         *)
NfsVersOptions(r) ==
  IF r.block THEN << >> ELSE SelectSeq(FlattenSeq(r.mountOptions), LAMBDA o : o.key = "nfsvers")
NfsRequestOk(r) ==
  LET v == NfsVersOptions(r) IN
  v = << >> \/ (Len(v) = 1 /\ v[1].val \in DOMAIN nfsProtocolMap /\ r.params.nfsProtocol = Absent)
NfsRequested(r) ==
  LET v == NfsVersOptions(r) IN IF v = << >> THEN r.params.nfsProtocol ELSE nfsProtocolMap[v[1].val]

ValidRequest(r) ==
  /\ r.range.has /\ r.range.bytes > 0
  /\ r.modes # << >>
  /\ r.params.fsPermission \in {Absent} \cup [1..3 -> Octal]
  /\ RatioAccepted(r.params.reservedSnapshotSpaceRatio)
  /\ ~(r.block /\ r.params.volumeType \in {"fs", "dtree"})
  /\ ~(RWX \in ToSet(r.modes) /\ ~r.block /\ r.params.volumeType = "lun")
  /\ r.params.fsType \in {Absent, "ext2", "ext3", "ext4", "xfs"}
  /\ r.source # "other"
  /\ NfsRequestOk(r)
  /\ r.params.description \in {Absent} \cup 0..maxDescriptionLength
  /\ r.annotation \notin {"lookupError", "volumeOnly", "backendOnly"}
  /\ r.annotation = "both" => r.source = "none"
  /\ IsClone(r) => CloneSpeedAccepted(r.params.cloneSpeed)

CollaboratorsSucceed(r, e) ==
  IF r.annotation = "both"
  THEN e.backend /\ e.validBackend /\ e.query /\ e.size = r.range.bytes
  ELSE e.pool /\ e.poolFound /\ (r.params.qos # Absent => e.qos) /\ e.created

CreateTypeOK ==
  /\ req \in Requests /\ env \in Envs
  /\ out.code \in {"OK", "InvalidArgument", "FailedPrecondition", "Internal", "Unknown"}
  /\ out.call \in {"none", "CreateVolume", "QueryVolume"}
  /\ out.nfs \in {Absent} \cup NfsParams \cup {nfsProtocolMap[v] : v \in DOMAIN nfsProtocolMap}
  /\ out.capacity \in {0} \cup {rg.bytes : rg \in Ranges}
  /\ out.speed \in {Absent} \cup 1..4

(* No request that the checks reject (capacity, fsPermission,              *)
(* reservedSnapshotSpaceRatio, volumeMode/volumeType/accessMode, fsType,    *)
(* content source, nfsvers mount options, description, annotations, and    *)
(* the plugin's clone speed check) reaches the array: neither the array's  *)
(* create nor QueryVolume is called for it.                                 *)
ArrayCallOnlyForValidRequest == out.call # "none" => ValidRequest(req)

(* CreateVolume succeeds exactly for the valid requests whose              *)
(* collaborators succeed: no valid request is refused by the order or the  *)
(* early returns of the checks.                                             *)
OutcomeMatchesReference ==
  out.code = "OK" <=> ValidRequest(req) /\ CollaboratorsSucceed(req, env)

(* The NFS version handed to the plugin's CreateVolume is the one named by *)
(* the single nfsvers mount option, or the StorageClass's nfsProtocol.     *)
NfsProtocolFromMountOptions ==
  out.call = "CreateVolume" => out.nfs = NfsRequested(req)

(* An imported (managed) volume is reported with the size it really has on *)
(* the array.                                                               *)
ManagedCapacityIsActual ==
  out.code = "OK" /\ req.annotation = "both" => out.capacity = env.size

(* A volume cloned from a snapshot or a volume is created on the array     *)
(* with the speed its StorageClass names, or 3 when it names none: the     *)
(* plugin's getCloneSpeed runs for every kind of clone source.             *)
CloneSpeedToArray ==
  out.call = "CreateVolume" /\ IsClone(req) => out.speed = ClonedSpeed(req.params.cloneSpeed)
=============================================================================
