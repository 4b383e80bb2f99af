-------------------------- MODULE MCCsiCreateVolume --------------------------
EXTENDS CsiCreateVolume

(* capacity ranges: none, RequiredBytes 0, and a positive size              *)
MCRanges == {[has |-> FALSE, bytes |-> 0], [has |-> TRUE, bytes |-> 0],
             [has |-> TRUE, bytes |-> 1]}

(* mount options after strings.Split(..., ",") and TrimSpace                *)
Hard  == [key |-> "hard", val |-> ""]
V3    == [key |-> "nfsvers", val |-> "3"]
V41   == [key |-> "nfsvers", val |-> "4.1"]
V30   == [key |-> "nfsvers", val |-> "3.0"]

(* StorageClass strings, character by character                           *)
MCPermissions == {Absent, <<"7","5","5">>, <<"7","5">>, <<"7","5","8">>, <<"7","7","7","7">>}
MCRatios == {Absent, <<"5","0">>, <<"5","1">>, <<"-","1">>, <<"-","0">>, <<"+","5">>,
             <<"+">>, <<"x">>}

(* collaborators all succeed, or exactly one fails                         *)
AllOk == [pool |-> TRUE, poolFound |-> TRUE, qos |-> TRUE, created |-> TRUE,
          backend |-> TRUE, validBackend |-> TRUE, query |-> TRUE, size |-> 1]
MCEnvs == {AllOk} \cup {[AllOk EXCEPT ![f] = FALSE] :
                          f \in {"pool", "poolFound", "qos", "created", "backend",
                                 "validBackend", "query"}}
                  \cup {[AllOk EXCEPT !.size = 2]}

\* Domains of the checks run: every StorageClass parameter varies.
ChecksModes == {<< >>, <<RWO>>, <<RWX>>}
ChecksMounts == {<< >>}
ChecksVolumeTypes == {Absent, "lun", "fs", "dtree"}
ChecksFsTypes == {Absent, "ext4", "btrfs"}
ChecksDescriptions == {Absent, 255, 256}
ChecksEnvs == {AllOk}

\* Domains of the flow run: mount options, sources, annotations and
\* collaborator failures vary.
FlowRanges == {[has |-> TRUE, bytes |-> 1]}
FlowModes == {<<RWO>>, <<RWO, RWX>>}
FlowMounts == {<< >>, <<<<Hard>>>>, <<<<V3>>>>, <<<<V3, Hard>>>>, <<<<V30>>>>,
               <<<<V3>>, <<V41>>>>, <<<<V41, V41>>>>, <<<<Hard>>, <<V3>>>>}
FlowDescriptions == {Absent, 256}
FlowNfsParams == {Absent, "nfs3"}
FlowSources == {"none", "snapshot", "other"}
FlowAnnotations == {"lookupError", "pvcNotFound", "none", "volumeOnly", "backendOnly", "both"}

(* The requests of one run: the three families, not their product.       *)
ChecksRequests ==
  [range: MCRanges, block: BOOLEAN, modes: ChecksModes, mountOptions: ChecksMounts,
   params: [volumeType: ChecksVolumeTypes, fsType: ChecksFsTypes,
            fsPermission: MCPermissions, reservedSnapshotSpaceRatio: MCRatios,
            description: ChecksDescriptions, nfsProtocol: {Absent},
            cloneSpeed: {Absent}, allocType: {Absent}, qos: {Absent}],
   source: {"none"}, annotation: {"pvcNotFound"}]
FlowRequests ==
  [range: FlowRanges, block: BOOLEAN, modes: FlowModes, mountOptions: FlowMounts,
   params: [volumeType: {Absent}, fsType: {Absent}, fsPermission: {Absent},
            reservedSnapshotSpaceRatio: {Absent}, description: FlowDescriptions,
            nfsProtocol: FlowNfsParams, cloneSpeed: {Absent}, allocType: {Absent},
            qos: {Absent}],
   source: FlowSources, annotation: FlowAnnotations]

\* Domains of the analyzers run: the clone source and the parameters the
\* plugin's commonPreCreate reads vary, at the bounds of the speed range.
MCCloneSpeeds == {Absent, << >>, <<"1">>, <<"4">>, <<"0">>, <<"5">>, <<"+","2">>,
                  <<"-","3">>, <<"x">>}
PreCreateRequests ==
  [range: FlowRanges, block: {FALSE}, modes: {<<RWO>>}, mountOptions: {<< >>},
   params: [volumeType: {Absent}, fsType: {Absent}, fsPermission: {Absent},
            reservedSnapshotSpaceRatio: {Absent}, description: {Absent},
            nfsProtocol: {Absent}, cloneSpeed: MCCloneSpeeds,
            allocType: {Absent, "thick"}, qos: {Absent, "qos"}],
   source: {"none", "snapshot", "volume"}, annotation: {"pvcNotFound"}]
MCRequests == ChecksRequests \cup FlowRequests \cup PreCreateRequests
=============================================================================
