---------------------------- MODULE BackendConfig ----------------------------
(***************************************************************************)
(* Admission and registration of a storage backend: the plugin's Validate *)
(* (run on a StorageBackendClaim before it is committed) and NewPlugin +   *)
(* Init(config, parameters, keepLogin = true) (run when the backend is     *)
(* registered), for the three plugin families of this repository:         *)
(* oceanstor-san.go, fusionstorage-san.go and the dtree plugin.           *)
(*                                                                         *)
(* A claim's configuration is a record of abstract values: the protocol   *)
(* string, the portals value (absent, not a list, or a list of elements,   *)
(* each an IP string, a string that is not an IP, a host -> manage-IP map  *)
(* or such a map holding a bad IP) and the dtree parent name.  The array  *)
(* behind the claim has a product model, and each login may fail.         *)
(***************************************************************************)
EXTENDS Integers, Sequences, SequencesExt

CONSTANTS
  Claims,        \* StorageBackendClaims
  Storages,      \* plugin names: "oceanstor-san", "fusionstorage-san", "oceanstor-dtree"
  Protocols,     \* protocol strings a claim may carry
  PortalElems,   \* "ip", "badip", "hostmap", "badhostmap"
  MaxPortals,    \* bound: length of a portals list
  ParentNames,   \* dtree parentname values
  Products,      \* array product models
  Absent,        \* a parameter that is not set
  Scalar         \* a portals value that is not a list

PortalValues == {Absent, Scalar} \cup BoundedSeq(PortalElems, MaxPortals)

Configs ==
  [storage: Storages, params: {TRUE}, protocol: Protocols \cup {Absent},
   portals: PortalValues, parentname: ParentNames \cup {Absent}]
  \cup [storage: Storages, params: {FALSE}, protocol: {Absent},
        portals: {Absent}, parentname: {Absent}]

VARIABLES
  conf,      \* conf[b]: the claim's configuration
  product,   \* product[b]: the array's product model
  phase,     \* "new", "validated", "rejected", "registered", "initFailed", "removed"
  initErr,   \* why Init failed: "none", "config", "login", "nvme"
  session,   \* the plugin's tracked array session: "in" or "out"
  online,    \* the plugin's storageOnline
  protocol   \* the plugin's p.protocol after Init ("" before)

vars == <<conf, product, phase, initErr, session, online, protocol>>

IsList(ps) == ps \notin {Absent, Scalar}

(* proto.VerifyIscsiPortals: at least one portal, each an IP string.       *)
VerifyIscsiPortals(ps) ==
  IsList(ps) /\ Len(ps) >= 1 /\ \A i \in 1..Len(ps) : ps[i] = "ip"

(* strings.ToLower on the protocol strings a claim may carry.             *)
ToLower(s) == IF s = "SCSI" THEN "scsi" ELSE IF s = "ISCSI" THEN "iscsi" ELSE s

(* The protocols a plugin serves (spec section 2).                         *)
PluginProtocols == {"scsi", "iscsi", "fc", "roce", "fc-nvme", "nfs"}

ConfigTypeOK ==
  /\ conf \in [Claims -> Configs]
  /\ product \in [Claims -> Products]
  /\ phase \in [Claims -> {"new", "validated", "rejected", "registered", "initFailed",
                          "removed"}]
  /\ initErr \in [Claims -> {"none", "config", "login", "nvme"}]
  /\ session \in [Claims -> {"in", "out"}]
  /\ online \in [Claims -> BOOLEAN]
  /\ protocol \in [Claims -> PluginProtocols \cup {""}]

Init ==
  /\ conf \in [Claims -> Configs]
  /\ product \in [Claims -> Products]
  /\ phase = [b \in Claims |-> "new"]
  /\ initErr = [b \in Claims |-> "none"]
  /\ session = [b \in Claims |-> "out"]
  /\ online = [b \in Claims |-> FALSE]
  /\ protocol = [b \in Claims |-> ""]

-----------------------------------------------------------------------------
(* verifyOceanstorSanParam                                                 *)
verifyOceanstorSanParam(c) ==
  /\ c.params
  /\ c.protocol \in {"iscsi", "fc", "roce", "fc-nvme"}
  /\ c.protocol \in {"iscsi", "roce"} =>
       VerifyIscsiPortals(c.portals)

(* verifyFusionStorageSanParam: the protocol is compared as written.       *)
verifyFusionStorageSanParam(c) ==
  /\ c.params
  /\ c.protocol \in {"scsi", "iscsi"}
  /\ IsList(c.portals) /\ Len(c.portals) > 0

(* verifyOceanstorDTreeParam.  The storage key is the plugin's own name,   *)
(* so its check always passes.                                             *)
verifyOceanstorDTreeParam(c) ==
  /\ c.params
  /\ c.parentname \notin {Absent, ""}
  /\ c.protocol = "nfs"
  /\ IsList(c.portals) /\ Len(c.portals) = 1

VerifyParam(c) ==
  CASE c.storage = "oceanstor-san"     -> verifyOceanstorSanParam(c)
    [] c.storage = "fusionstorage-san" -> verifyFusionStorageSanParam(c)
    [] OTHER                           -> verifyOceanstorDTreeParam(c)

(* The parameter checks of each plugin's Init, before p.init logs in.      *)
OceanstorSanInitParamsOk(c) ==
  /\ c.protocol \in {"iscsi", "fc", "roce", "fc-nvme"}
  /\ c.protocol \in {"iscsi", "roce"} =>
       VerifyIscsiPortals(c.portals)

FusionStorageSanInitParamsOk(c) ==
  /\ c.protocol # Absent
  /\ IsList(c.portals) /\ Len(c.portals) > 0
  /\ \/ ToLower(c.protocol) = "scsi"
        /\ c.portals[1] \in {"hostmap", "badhostmap"}  \* portals[0] is a map
        /\ c.portals[1] = "hostmap"                     \* every manage IP parses
     \/ ToLower(c.protocol) = "iscsi" /\ VerifyIscsiPortals(c.portals)

(* portals[0] is taken with ToStringWithFlag and its failure ignored.      *)
OceanstorDTreeInitParamsOk(c) ==
  /\ c.protocol = "nfs"
  /\ IsList(c.portals) /\ Len(c.portals) = 1

(* Mutant: fusionstorage-san records the protocol as written.            *)
RecordedProtocolAsWritten(c) == c.protocol

(* The protocol the plugin records: fusionstorage-san stores it lowered.   *)
RecordedProtocol(c) ==
  IF c.storage = "fusionstorage-san" THEN ToLower(c.protocol) ELSE c.protocol

(* Init runs when the backend is registered from its committed claim.     *)
(* Validate is an admission check the claim may or may not have gone      *)
(* through; the plugin's Init does not depend on it.                       *)
Admissible == {"new", "validated"}

(* p.init opens the tracked session and keeps it only when keepLogin holds *)
LoginSession(keepLogin) == IF keepLogin THEN "in" ELSE "out"

InitFails(b, why, sess) ==
  /\ phase' = [phase EXCEPT ![b] = "initFailed"]
  /\ initErr' = [initErr EXCEPT ![b] = why]
  /\ session' = [session EXCEPT ![b] = sess]
  /\ UNCHANGED <<conf, product, online, protocol>>

-----------------------------------------------------------------------------
(* Validate, for each family: verify*Param and getNewClientConfig, then a  *)
(* throwaway client probes the login and logs out.  The tracked session    *)
(* is never touched.  The dtree plugin builds the client config first; the *)
(* order decides only which error is returned.                             *)
Validate(b) ==
  /\ phase[b] = "new"
  /\ \E clientOk, loginOk \in BOOLEAN :
       phase' = [phase EXCEPT ![b] =
                   IF VerifyParam(conf[b]) /\ clientOk /\ loginOk
                   THEN "validated" ELSE "rejected"]
  /\ UNCHANGED <<conf, product, initErr, session, online, protocol>>

(* Mutant: OceanstorSanPlugin.Init without the NVMe product check.       *)
OceanstorSanInitNoNvmeCheck(b) ==
  LET c == conf[b] IN
  /\ phase[b] \in Admissible /\ c.storage = "oceanstor-san"
  /\ \/ ~OceanstorSanInitParamsOk(c) /\ InitFails(b, "config", "out")
     \/ OceanstorSanInitParamsOk(c) /\ InitFails(b, "login", "out")
     \/ /\ OceanstorSanInitParamsOk(c)
        /\ \E keepLogin \in BOOLEAN :
             /\ phase' = [phase EXCEPT ![b] = "registered"]
             /\ session' = [session EXCEPT ![b] = LoginSession(keepLogin)]
             /\ protocol' = [protocol EXCEPT ![b] = c.protocol]
             /\ online' = [online EXCEPT ![b] = TRUE]
             /\ UNCHANGED <<conf, product, initErr>>

(* OceanstorSanPlugin.Init: the NVMe product check runs after p.init has   *)
(* logged in, and its error return leaves that session open.               *)
OceanstorSanInit(b) ==
  LET c == conf[b] IN
  /\ phase[b] \in Admissible /\ c.storage = "oceanstor-san"
  /\ \/ ~OceanstorSanInitParamsOk(c) /\ InitFails(b, "config", "out")
     \/ OceanstorSanInitParamsOk(c) /\ InitFails(b, "login", "out")
     \/ /\ OceanstorSanInitParamsOk(c)
        /\ \E keepLogin \in BOOLEAN :
             IF c.protocol \in {"roce", "fc-nvme"} /\ product[b] # "DoradoV6"
             THEN InitFails(b, "nvme", LoginSession(keepLogin))
             ELSE /\ phase' = [phase EXCEPT ![b] = "registered"]
                  /\ session' = [session EXCEPT ![b] = LoginSession(keepLogin)]
                  /\ protocol' = [protocol EXCEPT ![b] = c.protocol]
                  /\ online' = [online EXCEPT ![b] = TRUE]
                  /\ UNCHANGED <<conf, product, initErr>>

(* FusionStorageSanPlugin.Init and OceanstorDTreePlugin.Init: parameter    *)
(* checks, then p.init; nothing can fail after the login.  Only            *)
(* fusionstorage-san records a protocol, lowered.                          *)
PlainInit(b, paramsOk) ==
  LET c == conf[b] IN
  /\ \/ ~paramsOk /\ InitFails(b, "config", "out")
     \/ paramsOk /\ InitFails(b, "login", "out")
     \/ /\ paramsOk
        /\ \E keepLogin \in BOOLEAN :
             /\ phase' = [phase EXCEPT ![b] = "registered"]
             /\ session' = [session EXCEPT ![b] = LoginSession(keepLogin)]
             /\ protocol' = [protocol EXCEPT ![b] =
                               IF c.storage = "fusionstorage-san"
                               THEN RecordedProtocol(c) ELSE @]
             /\ UNCHANGED <<conf, product, initErr, online>>

FusionStorageSanInit(b) ==
  /\ phase[b] \in Admissible /\ conf[b].storage = "fusionstorage-san"
  /\ PlainInit(b, FusionStorageSanInitParamsOk(conf[b]))

OceanstorDTreeInit(b) ==
  /\ phase[b] \in Admissible /\ conf[b].storage = "oceanstor-dtree"
  /\ PlainInit(b, OceanstorDTreeInitParamsOk(conf[b]))

(* Backend deregistration destroys the plugin and forces a logout.         *)
Deregister(b) ==
  /\ phase[b] = "registered"
  /\ phase' = [phase EXCEPT ![b] = "removed"]
  /\ session' = [session EXCEPT ![b] = "out"]
  /\ UNCHANGED <<conf, product, initErr, online, protocol>>

Next ==
  \E b \in Claims :
    \/ Validate(b)
    \/ OceanstorSanInit(b)
    \/ FusionStorageSanInit(b)
    \/ OceanstorDTreeInit(b)
    \/ Deregister(b)

Spec == Init /\ [][Next]_vars

-----------------------------------------------------------------------------
(* The backend a plugin may serve, from the spec (sections 2 and 4.1): a   *)
(* protocol of its family, a list of IP portals for iSCSI and RoCE, one    *)
(* portal for dtree, and an array that supports NVMe for RoCE and FC-NVMe. *)
FamilyProtocols ==
  [s \in Storages |->
     CASE s = "oceanstor-san"     -> {"iscsi", "fc", "roce", "fc-nvme"}
       [] s = "fusionstorage-san" -> {"scsi", "iscsi"}
       [] OTHER                   -> {"nfs"}]

ServedProtocol(b) ==
  IF conf[b].storage = "oceanstor-dtree" THEN conf[b].protocol ELSE protocol[b]

ValidBackend(b) ==
  LET p == ServedProtocol(b)  ps == conf[b].portals IN
  /\ p \in FamilyProtocols[conf[b].storage]
  /\ p \in {"iscsi", "roce"} => VerifyIscsiPortals(ps)
  /\ p \in {"roce", "fc-nvme"} => product[b] = "DoradoV6"
  /\ conf[b].storage = "oceanstor-dtree" => IsList(ps) /\ Len(ps) = 1

(* Every plugin that Init registered serves a backend the spec allows: the *)
(* protocol it recorded (fusionstorage-san lowers "SCSI") is one of its    *)
(* family's, with the portals and the array model that protocol needs.     *)
(* It is about the order of checks in each plugin's Init.                   *)
RegisteredConfigValid ==
  \A b \in Claims : phase[b] = "registered" => ValidBackend(b)

(* Only a registered plugin holds an array session: a plugin whose Init    *)
(* failed is dropped by its caller, so a session it opened is never closed *)
(* (OceanstorSanPlugin.Init returns the NVMe error after p.init's login).  *)
NoLeakedSession ==
  \A b \in Claims : phase[b] # "registered" => session[b] = "out"
====
