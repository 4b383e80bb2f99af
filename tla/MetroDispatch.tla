---------------------------- MODULE MetroDispatch ---------------------------
(***************************************************************************)
(* HyperMetro-aware AttachVolume / DetachVolume of OceanstorSanPlugin      *)
(* (src/csi/backend/plugin/oceanstor-san.go), run by controller RPCs       *)
(* (ControllerPublishVolume / ControllerUnpublishVolume in                 *)
(* src/csi/driver/controller.go) concurrently with the session users and   *)
(* the capability refresh of SanSession, which flip storageOnline.         *)
(*                                                                         *)
(* Each RPC r works on a volume of its own (the orchestrator serialises    *)
(* operations on one volume) on backend RpcPlugin: it attaches it, then    *)
(* detaches it.  AttachVolume/DetachVolume read storageOnline three times  *)
(* without a lock: to pick the clients (lines 259-266 / 302-309), in       *)
(* getLunInfo (438-446) and in handler (241-251); each is its own step.    *)
(* A method call through a nil client interface panics.                    *)
(*                                                                         *)
(* Array side: a plain LUN exists on RpcPlugin only, a HyperMetro LUN on   *)
(* both arrays of the pair; mapped[r] is where r's LUN is mapped to the    *)
(* host.  Any array call may fail.                                          *)
(***************************************************************************)
EXTENDS SanSession, Sequences

CONSTANTS
  Rpcs,           \* concurrent controller RPCs, one volume each
  RpcPlugin       \* the oceanstor-san backend the RPCs are sent to

ASSUME RpcPlugin \in Plugins

VARIABLES
  rss,            \* HASRSSOBJECT of r's LUN: "metro", "plain" or "malformed"
  pairExists,     \* whether GetHyperMetroPairByLocalObjID finds r's pair
  mapped,         \* arrays on which r's LUN is mapped to the host
  rpcPc,          \* where RPC r is in AttachVolume / DetachVolume
  opIdx,          \* index of r's current operation in OpSeq
  localCli,       \* whether r's localCli is non-nil
  metroCli,       \* whether r's metroCli is non-nil
  result          \* result[r][op]: "none", "ok", "error" or "panic"

dispatchVars == <<rss, pairExists, mapped, rpcPc, opIdx, localCli, metroCli,
                  result>>
vars == <<sessionVars, dispatchVars>>

OpSeq == <<"ControllerAttach", "ControllerDetach">>
Results == {"none", "ok", "error", "panic"}
OpKinds == {OpSeq[i] : i \in 1..Len(OpSeq)}

P == RpcPlugin
R == MetroRemote[RpcPlugin]
Op(r) == OpSeq[opIdx[r]]

(* The arrays holding r's LUN: a HyperMetro LUN lives on both.  A          *)
(* malformed HASRSSOBJECT belongs to a LUN that exists on the local array. *)
LunOn(r) == IF rss[r] = "metro" /\ HasRemote(P) THEN {P, R} ELSE {P}

DispatchTypeOK ==
  /\ TypeOK
  /\ rss \in [Rpcs -> {"metro", "plain", "malformed"}]
  /\ pairExists \in [Rpcs -> BOOLEAN]
  /\ mapped \in [Rpcs -> SUBSET Plugins]
  /\ rpcPc \in [Rpcs -> {"start", "getLun", "handle", "metro", "done"}]
  /\ opIdx \in [Rpcs -> 1..Len(OpSeq)]
  /\ localCli \in [Rpcs -> BOOLEAN]
  /\ metroCli \in [Rpcs -> BOOLEAN]
  /\ result \in [Rpcs -> [OpKinds -> Results]]

(* Any combination of storageOnline is reachable: a failed login or        *)
(* capability query, or a release to zero, clears it.                      *)
DispatchInit ==
  /\ storageOnline \in [Plugins -> BOOLEAN]
  /\ clientCount = [p \in Plugins |-> 0]
  /\ session = [p \in Plugins |-> "in"]
  /\ pc = [t \in Threads |-> "idle"]
  /\ holds = [t \in Threads |-> {}]
  /\ locErr = [t \in Threads |-> FALSE]
  /\ ops = [t \in Threads |-> 0]
  /\ everAcquired = [p \in Plugins |-> FALSE]
  /\ rss \in [Rpcs -> {"metro", "plain", "malformed"}]
  /\ pairExists \in [Rpcs -> BOOLEAN]
  /\ mapped = [r \in Rpcs |-> {}]
  /\ rpcPc = [r \in Rpcs |-> "start"]
  /\ opIdx = [r \in Rpcs |-> 1]
  /\ localCli = [r \in Rpcs |-> FALSE]
  /\ metroCli = [r \in Rpcs |-> FALSE]
  /\ result = [r \in Rpcs |-> [o \in OpKinds |-> "none"]]

RemoteOnline == HasRemote(P) /\ storageOnline[R]

(* AttachVolume / DetachVolume return res for the current operation.  The *)
(* orchestrator then sends the next operation of OpSeq for the volume; a   *)
(* panic ends the RPC.  Moving to the next operation is not plugin code.   *)
Finish(r, res) ==
  /\ result' = [result EXCEPT ![r][Op(r)] = res]
  /\ IF res # "panic" /\ opIdx[r] < Len(OpSeq)
     THEN /\ opIdx' = [opIdx EXCEPT ![r] = @ + 1]
          /\ rpcPc' = [rpcPc EXCEPT ![r] = "start"]
     ELSE /\ rpcPc' = [rpcPc EXCEPT ![r] = "done"]
          /\ UNCHANGED opIdx

(* Mutant: commonHandler drops the attacher's error on a detach.          *)
ExecuteDropsDetachError(r, targets) ==
  \E done \in SUBSET targets :
    /\ mapped' = [mapped EXCEPT ![r] =
                    IF Op(r) = "ControllerAttach" THEN @ \cup done ELSE @ \ done]
    /\ Finish(r, IF done = targets \/ Op(r) = "ControllerDetach"
                 THEN "ok" ELSE "error")
    /\ UNCHANGED <<localCli, metroCli>>

(* The attacher's ControllerAttach / ControllerDetach on the arrays in     *)
(* targets, each of which may fail; the call succeeds only if all did.     *)
Execute(r, targets) ==
  \E done \in SUBSET targets :
    /\ mapped' = [mapped EXCEPT ![r] =
                    IF Op(r) = "ControllerAttach" THEN @ \cup done ELSE @ \ done]
    /\ Finish(r, IF done = targets THEN "ok" ELSE "error")
    /\ UNCHANGED <<localCli, metroCli>>

(* AttachVolume / DetachVolume: localCli and metroCli are p.cli and        *)
(* p.metroRemotePlugin.cli if the plugin is online now, nil otherwise.     *)
ReadClients(r) ==
  /\ rpcPc[r] = "start"
  /\ localCli' = [localCli EXCEPT ![r] = storageOnline[P]]
  /\ metroCli' = [metroCli EXCEPT ![r] = RemoteOnline]
  /\ rpcPc' = [rpcPc EXCEPT ![r] = "getLun"]
  /\ UNCHANGED <<mapped, opIdx, result>>

(* getLunInfo re-reads storageOnline and calls GetLunByName through the    *)
(* client of the first online plugin, as captured by ReadClients.  A LUN   *)
(* that is not found fails an attach and makes a detach succeed.           *)
GetLunInfo(r) ==
  LET via == IF storageOnline[P] THEN P ELSE IF RemoteOnline THEN R ELSE NoPlugin
      cli == IF via = P THEN localCli[r] ELSE metroCli[r]
  IN /\ rpcPc[r] = "getLun"
     /\ \/ via = NoPlugin /\ Finish(r, "error")
        \/ via # NoPlugin /\ ~cli /\ Finish(r, "panic")
        \/ via # NoPlugin /\ cli /\ Finish(r, "error")
        \/ /\ via # NoPlugin /\ cli /\ via \notin LunOn(r)
           /\ Finish(r, IF Op(r) = "ControllerAttach" THEN "error" ELSE "ok")
        \/ /\ via # NoPlugin /\ cli /\ via \in LunOn(r)
           /\ rpcPc' = [rpcPc EXCEPT ![r] = "handle"]
           /\ UNCHANGED <<opIdx, result>>
     /\ UNCHANGED <<mapped, localCli, metroCli>>

(* isHyperMetro: HASRSSOBJECT parses and marks HyperMetro "TRUE"; a blob   *)
(* that does not parse counts as not HyperMetro.                           *)
IsHyperMetro(r) == rss[r] = "metro"

(* Mutant: the dual-array branch does not check that the remote is online. *)
HandlerNoRemoteCheck(r) ==
  /\ rpcPc[r] = "handle"
  /\ \/ ~IsHyperMetro(r) /\ Execute(r, {P})
     \/ /\ IsHyperMetro(r) /\ storageOnline[P] /\ HasRemote(P)
        /\ rpcPc' = [rpcPc EXCEPT ![r] = "metro"]
        /\ UNCHANGED <<mapped, opIdx, result, localCli, metroCli>>
     \/ IsHyperMetro(r) /\ ~storageOnline[P] /\ RemoteOnline /\ Execute(r, {R})
     \/ /\ IsHyperMetro(r) /\ ~storageOnline[P] /\ ~RemoteOnline
        /\ Finish(r, "error")
        /\ UNCHANGED <<mapped, localCli, metroCli>>

(* handler: a plain LUN goes to commonHandler on this plugin; a HyperMetro *)
(* LUN to metroHandler if both plugins are online now, else to             *)
(* commonHandler on whichever is online; with neither online it returns    *)
(* no result, which AttachVolume / DetachVolume turn into an error.        *)
Handler(r) ==
  /\ rpcPc[r] = "handle"
  /\ \/ ~IsHyperMetro(r) /\ Execute(r, {P})
     \/ /\ IsHyperMetro(r) /\ storageOnline[P] /\ RemoteOnline
        /\ rpcPc' = [rpcPc EXCEPT ![r] = "metro"]
        /\ UNCHANGED <<mapped, opIdx, result, localCli, metroCli>>
     \/ IsHyperMetro(r) /\ storageOnline[P] /\ ~RemoteOnline /\ Execute(r, {P})
     \/ IsHyperMetro(r) /\ ~storageOnline[P] /\ RemoteOnline /\ Execute(r, {R})
     \/ /\ IsHyperMetro(r) /\ ~storageOnline[P] /\ ~RemoteOnline
        /\ Finish(r, "error")
        /\ UNCHANGED <<mapped, localCli, metroCli>>

(* Mutant: the metro attacher's detach runs on the local array only.      *)
MetroHandlerDetachLocalOnly(r) ==
  /\ rpcPc[r] = "metro"
  /\ \/ ~localCli[r] /\ Finish(r, "panic") /\ UNCHANGED mapped
     \/ localCli[r] /\ Finish(r, "error") /\ UNCHANGED mapped
     \/ localCli[r] /\ ~pairExists[r] /\ Finish(r, "error") /\ UNCHANGED mapped
     \/ localCli[r] /\ pairExists[r] /\ ~metroCli[r] /\ Finish(r, "panic")
        /\ UNCHANGED mapped
     \/ /\ localCli[r] /\ pairExists[r] /\ metroCli[r]
        /\ Execute(r, IF Op(r) = "ControllerDetach" THEN {P} ELSE {P, R})
  /\ UNCHANGED <<localCli, metroCli>>

(* metroHandler: look the pair up through req.localCli (pair status only  *)
(* produces warnings), then run the metro attacher built from              *)
(* req.localCli and req.metroCli on both arrays.                           *)
MetroHandler(r) ==
  /\ rpcPc[r] = "metro"
  /\ \/ ~localCli[r] /\ Finish(r, "panic") /\ UNCHANGED mapped
     \/ localCli[r] /\ Finish(r, "error") /\ UNCHANGED mapped
     \/ localCli[r] /\ ~pairExists[r] /\ Finish(r, "error") /\ UNCHANGED mapped
     \/ localCli[r] /\ pairExists[r] /\ ~metroCli[r] /\ Finish(r, "panic")
        /\ UNCHANGED mapped
     \/ localCli[r] /\ pairExists[r] /\ metroCli[r] /\ Execute(r, {P, R})
  /\ UNCHANGED <<localCli, metroCli>>

RpcStep(r) ==
  \/ ReadClients(r)
  \/ GetLunInfo(r)
  \/ Handler(r)
  \/ MetroHandler(r)

(* A step of session user t, or of RPC r, leaving the other's state alone. *)
SessionUserStep(t) == (ThreadStep(t) \/ Work(t)) /\ UNCHANGED dispatchVars
DispatchStep(r) == RpcStep(r) /\ UNCHANGED <<sessionVars, rss, pairExists>>

Next ==
  \/ SessionNext /\ UNCHANGED dispatchVars
  \/ \E r \in Rpcs : DispatchStep(r)

(* Only safety is stated of the dispatch, so no fairness is assumed.      *)
Spec == DispatchInit /\ [][Next]_vars

-----------------------------------------------------------------------------
(* No AttachVolume / DetachVolume calls an array method through a nil      *)
(* client: the clients captured at the start of the call are non-nil       *)
(* whenever a later re-read of storageOnline routes a call through them.   *)
NoNilClientCall ==
  \A r \in Rpcs : \A o \in OpKinds : result[r][o] # "panic"

(* A DetachVolume that reports success for a LUN that is not HyperMetro    *)
(* leaves it unmapped on the array that holds it.                          *)
PlainDetachUnmaps ==
  \A r \in Rpcs :
    (~IsHyperMetro(r) /\ result[r]["ControllerDetach"] = "ok") => P \notin mapped[r]

(* Spec 5.3: a dual-array attach that fails on one array is not rolled    *)
(* back; the caller's detach is the recovery.  A DetachVolume that reports *)
(* success, whatever became of the attach before it (one side mapped, both *)
(* or none), leaves r's LUN mapped on no array of the pair.                 *)
DetachLeavesNoMapping ==
  \A r \in Rpcs : result[r]["ControllerDetach"] = "ok" => mapped[r] = {}

====
