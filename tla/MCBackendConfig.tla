--------------------------- MODULE MCBackendConfig ---------------------------
(***************************************************************************)
(* Model for BackendConfig: one claim (claims are admitted independently:  *)
(* Validate and Init share no state between backends), every plugin        *)
(* family, each protocol spelling a claim may carry, portal lists of up to *)
(* two elements of every kind, and both array product models.              *)
(***************************************************************************)
EXTENDS BackendConfig

CONSTANTS c1

MCClaims == {c1}
MCStorages == {"oceanstor-san", "fusionstorage-san", "oceanstor-dtree"}
MCProtocols == {"iscsi", "fc", "roce", "fc-nvme", "scsi", "SCSI", "nfs"}
MCPortalElems == {"ip", "badip", "hostmap", "badhostmap"}
MCParentNames == {"parent", ""}
MCProducts == {"DoradoV6", "V5"}
====
