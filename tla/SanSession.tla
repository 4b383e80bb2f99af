----------------------------- MODULE SanSession -----------------------------
(***************************************************************************)
(* The reference-counted array session of OceanstorSanPlugin              *)
(* (src/csi/backend/plugin/oceanstor-san.go).                              *)
(*                                                                         *)
(* Every plugin keeps storageOnline and clientCount, guarded by            *)
(* clientMutex in mutexGetClient / mutexReleaseClient, but read without    *)
(* the mutex in getClient's callers, in releaseClient and written without  *)
(* it by UpdateBackendCapabilities.  Each operation thread runs            *)
(* getClient, then its work, then releaseClient; every read of a shared    *)
(* field outside the mutex is a step of its own, so TLC explores every     *)
(* interleaving of those reads with other threads' locked sections.        *)
(*                                                                         *)
(* session[p] is the array-side state of p's client: "in" after a          *)
(* successful Login, "out" after Logout.  holds[t] is a history variable:  *)
(* the plugins whose count thread t incremented and has not yet released.  *)
(***************************************************************************)
EXTENDS Integers, FiniteSets

CONSTANTS
  Threads,        \* concurrent CSI operations (model values)
  Plugins,        \* configured oceanstor-san backends (model values)
  NoPlugin,       \* stands for a nil metroRemotePlugin
  Home,           \* Home[t]: the backend the operation t was sent to
  MetroRemote,    \* MetroRemote[p]: p.metroRemotePlugin, or NoPlugin
  MaxOps,         \* bound: operations each thread performs
  RefreshEnabled  \* whether UpdateBackendCapabilities runs concurrently

ASSUME NoPlugin \notin Plugins
ASSUME Home \in [Threads -> Plugins]
ASSUME MetroRemote \in [Plugins -> Plugins \cup {NoPlugin}]
ASSUME \A p \in Plugins : MetroRemote[p] # p
ASSUME MaxOps \in Nat \ {0}
ASSUME RefreshEnabled \in BOOLEAN

VARIABLES
  storageOnline,  \* storageOnline of each plugin
  clientCount,    \* clientCount of each plugin
  session,        \* "in" / "out": whether p.cli is logged in on the array
  pc,             \* where each thread is in getClient / work / releaseClient
  holds,          \* history: plugins t counted and has not released
  locErr,         \* whether t's mutexGetClient on its local plugin failed
  ops,            \* operations thread t has finished
  everAcquired    \* history: p's count was incremented at least once

sessionVars == <<storageOnline, clientCount, session, pc, holds, locErr,
                 ops, everAcquired>>

PC == {"idle", "getRemote", "work", "relLocalCheck", "relLocal",
       "relRemoteCheck", "relRemote"}

HasRemote(p) == MetroRemote[p] # NoPlugin

(* The plugin an operation was sent to and its metro remote.               *)
LocalOf(t)  == Home[t]
RemoteOf(t) == MetroRemote[Home[t]]

TypeOK ==
  /\ storageOnline \in [Plugins -> BOOLEAN]
  \* at most one count per getClient call; releases of references never
  \* taken can drive the count below zero
  /\ clientCount \in [Plugins -> -(MaxOps * Cardinality(Threads))..
                                  MaxOps * Cardinality(Threads)]
  /\ session \in [Plugins -> {"in", "out"}]
  /\ pc \in [Threads -> PC]
  /\ holds \in [Threads -> SUBSET Plugins]
  /\ locErr \in [Threads -> BOOLEAN]
  /\ ops \in [Threads -> 0..MaxOps]
  /\ everAcquired \in [Plugins -> BOOLEAN]

(* OceanstorSanPlugin.Init with keepLogin: p.init logs in, the count       *)
(* stays zero and storageOnline is set.                                     *)
SessionInit ==
  /\ storageOnline = [p \in Plugins |-> TRUE]
  /\ clientCount = [p \in Plugins |-> 0]
  /\ session = [p \in Plugins |-> "in"]
  /\ pc = [t \in Threads |-> "idle"]
  /\ holds = [t \in Threads |-> {}]
  /\ locErr = [t \in Threads |-> FALSE]
  /\ ops = [t \in Threads |-> 0]
  /\ everAcquired = [p \in Plugins |-> FALSE]

(* Thread t moves to label next; reaching "idle" ends an operation.        *)
Goto(t, next) ==
  /\ pc' = [pc EXCEPT ![t] = next]
  /\ ops' = [ops EXCEPT ![t] = IF next = "idle" THEN @ + 1 ELSE @]

(* Mutant: the count is incremented whether or not the login succeeded.   *)
MutexGetClientCountsFailure(t, p, ok) ==
  LET needLogin == ~storageOnline[p] \/ clientCount[p] = 0
  IN /\ ok \/ needLogin
     /\ storageOnline' = [storageOnline EXCEPT ![p] = IF needLogin THEN ok ELSE @]
     /\ session' = [session EXCEPT ![p] = IF needLogin /\ ok THEN "in" ELSE @]
     /\ clientCount' = [clientCount EXCEPT ![p] = @ + 1]
     /\ holds' = [holds EXCEPT ![t] = IF ok THEN @ \cup {p} ELSE @]
     /\ everAcquired' = [everAcquired EXCEPT ![p] = @ \/ ok]

(* Mutant: the count is taken only in the login branch, not when an online *)
(* session is shared.                                                      *)
MutexGetClientCountsLoginOnly(t, p, ok) ==
  LET needLogin == ~storageOnline[p] \/ clientCount[p] = 0
  IN /\ ok \/ needLogin
     /\ storageOnline' = [storageOnline EXCEPT ![p] = IF needLogin THEN ok ELSE @]
     /\ session' = [session EXCEPT ![p] = IF needLogin /\ ok THEN "in" ELSE @]
     /\ clientCount' = [clientCount EXCEPT ![p] = IF needLogin /\ ok THEN @ + 1 ELSE @]
     /\ holds' = [holds EXCEPT ![t] = IF ok THEN @ \cup {p} ELSE @]
     /\ everAcquired' = [everAcquired EXCEPT ![p] = @ \/ ok]

(* mutexGetClient(p) for thread t with login outcome ok, one atomic step   *)
(* under clientMutex.  A login is attempted when the plugin is offline or  *)
(* nobody holds it; on success the count is taken, on failure              *)
(* storageOnline becomes false and the count is left alone.  Without a     *)
(* login the count is taken and ok is TRUE.                                *)
MutexGetClient(t, p, ok) ==
  LET needLogin == ~storageOnline[p] \/ clientCount[p] = 0
  IN /\ ok \/ needLogin
     /\ storageOnline' = [storageOnline EXCEPT ![p] = IF needLogin THEN ok ELSE @]
     /\ session' = [session EXCEPT ![p] = IF needLogin /\ ok THEN "in" ELSE @]
     /\ clientCount' = [clientCount EXCEPT ![p] = IF ok THEN @ + 1 ELSE @]
     /\ holds' = [holds EXCEPT ![t] = IF ok THEN @ \cup {p} ELSE @]
     /\ everAcquired' = [everAcquired EXCEPT ![p] = @ \/ ok]

(* Mutant: the caller goes on with its work after getClient failed.       *)
GetClientLocalIgnoresError(t) ==
  /\ pc[t] = "idle"
  /\ ops[t] < MaxOps
  /\ \E ok \in BOOLEAN :
       /\ MutexGetClient(t, LocalOf(t), ok)
       /\ locErr' = [locErr EXCEPT ![t] = ~ok]
       /\ Goto(t, IF HasRemote(LocalOf(t)) THEN "getRemote" ELSE "work")

(* getClient, first half: log in to the local plugin.  Without a metro     *)
(* remote a failed login is returned to the caller, which ends the         *)
(* operation without releasing anything.                                   *)
GetClientLocal(t) ==
  /\ pc[t] = "idle"
  /\ ops[t] < MaxOps
  /\ \E ok \in BOOLEAN :
       /\ MutexGetClient(t, LocalOf(t), ok)
       /\ locErr' = [locErr EXCEPT ![t] = ~ok]
       /\ Goto(t, IF HasRemote(LocalOf(t)) THEN "getRemote"
                  ELSE IF ok THEN "work" ELSE "idle")

(* getClient, second half: log in to the metro remote; only when both      *)
(* logins failed is the error returned.                                     *)
GetClientRemote(t) ==
  /\ pc[t] = "getRemote"
  /\ \E ok \in BOOLEAN :
       /\ MutexGetClient(t, RemoteOf(t), ok)
       /\ Goto(t, IF locErr[t] /\ ~ok THEN "idle" ELSE "work")
  /\ UNCHANGED locErr

(* The operation's work with the clients getClient returned (the caller    *)
(* of getClient is not in this repository); refined by the dispatch        *)
(* module.                                                                  *)
Work(t) ==
  /\ pc[t] = "work"
  /\ Goto(t, "relLocalCheck")
  /\ UNCHANGED <<storageOnline, clientCount, session, holds, locErr,
                 everAcquired>>

(* Mutant: the metro remote's release is guarded by the local plugin's    *)
(* flag (p.storageOnline copied for p.metroRemotePlugin.storageOnline).    *)
ReleaseCheckReadsLocalFlag(t, p, from, locked, skip) ==
  /\ pc[t] = from
  /\ Goto(t, IF storageOnline[LocalOf(t)] THEN locked ELSE skip)
  /\ holds' = [holds EXCEPT ![t] = IF storageOnline[LocalOf(t)] THEN @ ELSE @ \ {p}]
  /\ UNCHANGED <<storageOnline, clientCount, session, locErr, everAcquired>>

(* releaseClient reads p.storageOnline without the mutex; when it is       *)
(* false the plugin is skipped (and whatever t held of it is never         *)
(* given back) ...                                                         *)
ReleaseCheck(t, p, from, locked, skip) ==
  /\ pc[t] = from
  /\ Goto(t, IF storageOnline[p] THEN locked ELSE skip)
  /\ holds' = [holds EXCEPT ![t] = IF storageOnline[p] THEN @ ELSE @ \ {p}]
  /\ UNCHANGED <<storageOnline, clientCount, session, locErr, everAcquired>>

(* Mutant: logs out when the count drops to one instead of zero.          *)
MutexReleaseClientOffByOne(t, p, from, next) ==
  /\ pc[t] = from
  /\ clientCount' = [clientCount EXCEPT ![p] = @ - 1]
  /\ session' = [session EXCEPT ![p] = IF clientCount'[p] <= 1 THEN "out" ELSE @]
  /\ storageOnline' = [storageOnline EXCEPT ![p] =
                         IF clientCount'[p] <= 1 THEN FALSE ELSE @]
  /\ holds' = [holds EXCEPT ![t] = @ \ {p}]
  /\ Goto(t, next)
  /\ UNCHANGED <<locErr, everAcquired>>

(* Mutant: the count reaches zero but the client is never logged out.      *)
MutexReleaseClientNoLogout(t, p, from, next) ==
  /\ pc[t] = from
  /\ clientCount' = [clientCount EXCEPT ![p] = @ - 1]
  /\ storageOnline' = [storageOnline EXCEPT ![p] =
                         IF clientCount'[p] = 0 THEN FALSE ELSE @]
  /\ holds' = [holds EXCEPT ![t] = @ \ {p}]
  /\ Goto(t, next)
  /\ UNCHANGED <<session, locErr, everAcquired>>

(* Mutant: the release increments the count (clientCount++ copied from   *)
(* mutexGetClient).                                                        *)
MutexReleaseClientIncrements(t, p, from, next) ==
  /\ pc[t] = from
  /\ clientCount' = [clientCount EXCEPT ![p] = @ + 1]
  /\ session' = [session EXCEPT ![p] = IF clientCount'[p] = 0 THEN "out" ELSE @]
  /\ storageOnline' = [storageOnline EXCEPT ![p] =
                         IF clientCount'[p] = 0 THEN FALSE ELSE @]
  /\ holds' = [holds EXCEPT ![t] = @ \ {p}]
  /\ Goto(t, next)
  /\ UNCHANGED <<locErr, everAcquired>>

(* ... otherwise mutexReleaseClient decrements under the mutex, logging    *)
(* out and going offline when the count reaches zero.                      *)
MutexReleaseClient(t, p, from, next) ==
  /\ pc[t] = from
  /\ clientCount' = [clientCount EXCEPT ![p] = @ - 1]
  /\ session' = [session EXCEPT ![p] = IF clientCount'[p] = 0 THEN "out" ELSE @]
  /\ storageOnline' = [storageOnline EXCEPT ![p] =
                         IF clientCount'[p] = 0 THEN FALSE ELSE @]
  /\ holds' = [holds EXCEPT ![t] = @ \ {p}]
  /\ Goto(t, next)
  /\ UNCHANGED <<locErr, everAcquired>>

(* releaseClient visits the local plugin, then the metro remote if any.    *)
AfterLocal(t) == IF HasRemote(LocalOf(t)) THEN "relRemoteCheck" ELSE "idle"

ReleaseLocalCheck(t) ==
  ReleaseCheck(t, LocalOf(t), "relLocalCheck", "relLocal", AfterLocal(t))

ReleaseLocal(t) ==
  MutexReleaseClient(t, LocalOf(t), "relLocal", AfterLocal(t))

ReleaseRemoteCheck(t) ==
  ReleaseCheck(t, RemoteOf(t), "relRemoteCheck", "relRemote", "idle")

ReleaseRemote(t) ==
  MutexReleaseClient(t, RemoteOf(t), "relRemote", "idle")

(* UpdateBackendCapabilities: the capability query on p.cli succeeds or    *)
(* fails, and storageOnline is overwritten without taking clientMutex.     *)
UpdateBackendCapabilities(p) ==
  /\ RefreshEnabled
  /\ \E ok \in BOOLEAN : storageOnline' = [storageOnline EXCEPT ![p] = ok]
  /\ UNCHANGED <<clientCount, session, pc, holds, locErr, ops, everAcquired>>

ThreadStep(t) ==
  \/ GetClientLocal(t)
  \/ GetClientRemote(t)
  \/ ReleaseLocalCheck(t)
  \/ ReleaseLocal(t)
  \/ ReleaseRemoteCheck(t)
  \/ ReleaseRemote(t)

(* Every thread has finished its operations.                               *)
Finished ==
  /\ \A t \in Threads : pc[t] = "idle" /\ ops[t] = MaxOps
  /\ UNCHANGED sessionVars

SessionNext ==
  \/ \E t \in Threads : ThreadStep(t) \/ Work(t)
  \/ \E p \in Plugins : UpdateBackendCapabilities(p)
  \/ Finished

SessionSpec ==
  /\ SessionInit
  /\ [][SessionNext]_sessionVars
  /\ \A t \in Threads : WF_sessionVars(ThreadStep(t) \/ Work(t))

-----------------------------------------------------------------------------
(* A thread that holds a counted reference to plugin p (its                 *)
(* mutexGetClient succeeded and it has not yet released) finds p's array   *)
(* session logged in: no other thread's mutexReleaseClient logged p out    *)
(* under it.                                                                *)
HeldSessionLoggedIn ==
  \A t \in Threads : \A p \in holds[t] : session[p] = "in"

(* When no operation is in flight, every plugin's clientCount is back to   *)
(* zero, and a plugin whose count was ever taken has been logged out by    *)
(* the last mutexReleaseClient: getClient/releaseClient neither leak nor   *)
(* double-release a reference.                                             *)
QuiescentLoggedOut ==
  (\A t \in Threads : pc[t] = "idle") =>
    \A p \in Plugins :
      /\ clientCount[p] = 0
      /\ everAcquired[p] => session[p] = "out"

(* clientCount of every plugin equals the number of operations holding a  *)
(* counted reference to it: mutexGetClient counts only successful logins   *)
(* and releaseClient gives back exactly what getClient took.               *)
CountMatchesHolders ==
  \A p \in Plugins : clientCount[p] = Cardinality({t \in Threads : p \in holds[t]})

(* No mutexReleaseClient decrements a count that is already zero: the      *)
(* holder count is never negative (spec 3: count transitions are single    *)
(* steps, logout exactly once when the count returns to zero).             *)
CountNeverNegative ==
  \A p \in Plugins : clientCount[p] >= 0

====
