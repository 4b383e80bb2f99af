------------------------- MODULE MCCsiControllerRpc -------------------------
(* Backend bi has volume vi and snapshot si: b1 is OceanStor SAN, b2      *)
(* FusionStorage SAN and b3 an OceanStor dtree; each run picks some.       *)
(* Units are scaled: a sector is 2 bytes and a FusionStorage capacity unit *)
(* (MiB) is 4, so 6 is whole sectors but not whole MiB, and 5 is neither.  *)
EXTENDS CsiControllerRpc

MCStorageOf == [b \in Backends |->
                 CASE b = "b1" -> "oceanstor-san"
                   [] b = "b2" -> "fusionstorage-san"
                   [] b = "b3" -> "oceanstor-dtree"]
MCVolBackend == [v \in Vols |->
                  CASE v = "v1" -> "b1" [] v = "v2" -> "b2" [] v = "v3" -> "b3"]
MCSnapVol == [s \in Snaps |->
               CASE s = "s1" -> "v1" [] s = "s2" -> "v2" [] s = "s3" -> "v3"]
(* One VolumeCapability per outcome of each test in isSupportExpandVolume: *)
(* none, a multi-writer filesystem, a multi-writer block, a read-only      *)
(* block and a single-writer filesystem.                                    *)
MCCaps == {[isNil |-> TRUE, block |-> FALSE, mode |-> "SINGLE_NODE_WRITER"],
           [isNil |-> FALSE, block |-> FALSE, mode |-> "MULTI_NODE_MULTI_WRITER"],
           [isNil |-> FALSE, block |-> TRUE, mode |-> "MULTI_NODE_MULTI_WRITER"],
           [isNil |-> FALSE, block |-> TRUE, mode |-> "MULTI_NODE_READER_ONLY"],
           [isNil |-> FALSE, block |-> FALSE, mode |-> "SINGLE_NODE_WRITER"]}
=============================================================================
