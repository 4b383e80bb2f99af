# TLA+ models of the Huawei eSDK CSI backend plugins

This directory holds TLA+ specifications of the CSI controller and backend
plugins of this repository, and the TLC configurations that check them:

- the reference-counted array session of `OceanstorSanPlugin`;
- the HyperMetro-aware attach/detach dispatch built on that session;
- the CreateVolume RPC with its request checks and parameter parsers;
- the DeleteVolume, ControllerExpandVolume and snapshot RPCs with the SAN
  and dtree plugin methods they reach;
- the start-up and shutdown of the storage-backend sidecar.

Every module is translated from the Go source. `PROJECT.json` maps each
definition to the lines it models.

## The system

The controller (`src/csi/driver/controller.go`) serves CSI RPCs on
independent gRPC goroutines. ControllerPublishVolume and
ControllerUnpublishVolume look up a backend and call its plugin's
`AttachVolume` / `DetachVolume`.

An `OceanstorSanPlugin` (`oceanstor-san.go`) has two shared, mutable pieces of
state:

| state | written by | read by |
|---|---|---|
| `storageOnline` | `Init` (true); `mutexGetClient` (login result); `mutexReleaseClient` (false at count zero); `UpdateBackendCapabilities` (query result, **no lock**) | `mutexGetClient` (locked); `releaseClient`, `AttachVolume`, `DetachVolume`, `getLunInfo`, `handler`, `updateHyperMetroCapability` (all **unlocked**) |
| `clientCount` | `mutexGetClient` (+1); `mutexReleaseClient` (-1) | the same, under `clientMutex` |

The plugin also holds non-owning references to its metro remote and its
replica remote. These are set once, when the backend is bonded
(`UpdateMetroRemotePlugin`), and only read after that.

How the parts interact:

- `getClient` logs in to the local plugin and then to its metro remote, and
  fails only when both logins fail. `releaseClient` releases the local plugin
  and then the remote, each only if its `storageOnline` reads true at that
  moment.
- `AttachVolume` and `DetachVolume` do not call `getClient`. They take
  `p.cli` and `p.metroRemotePlugin.cli` directly, or nil when the flag reads
  false. `getLunInfo` and `handler` then re-read the same flags to decide
  where to look the LUN up and which strategy to run:
  - the local attacher (`commonHandler`);
  - the remote plugin's attacher;
  - the dual-array metro attacher (`metroHandler`).

Inventory of the source and what is done with it:

| part | source | module | status |
|---|---|---|---|
| array session | oceanstor-san.go 340-432 | `SanSession`, abstract `RefCountSession` | modelled |
| HyperMetro dispatch | oceanstor-san.go 167-338, 434-447; controller.go 154-229 | `MetroDispatch` | modelled |
| capability refresh | oceanstor-san.go 450-478 | `SanSession` (its write of `storageOnline`) | partly |
| Init / Validate of all three plugins | oceanstor-san.go 66-108, 480-536; fusionstorage-san.go 52-111, 273-322; unnamed/part_001 46-74, 165-243 | `BackendConfig` (and `SanSession` for Init's session state) | modelled |
| CreateVolume and its checks | controller.go 37-68; controller_helper.go 51-100, 128-167, 204-231, 288-524; unnamed/part_003 35-120 | `CsiCreateVolume` | modelled |
| Create (pool, plugin call, response) / Delete / Expand / publish / snapshot RPCs, capabilities | controller.go 70-229, 245-354; controller_helper.go 102-126, 274-290, 437-463 | `CsiControllerRpc` | modelled |
| SAN and dtree plugin volume and snapshot methods | oceanstor-san.go 124-165, 374-398, 538-544; fusionstorage-san.go 112-160, 170-185, 243-267, 324-330; unnamed/part_001 80-163, 245-252 | `CsiControllerRpc` | partly (the array objects are contracts) |
| FusionStorage-san session | fusionstorage-san.go | none | not modelled: its `storageOnline` is never set true, so `releaseClient` never runs |
| replication-pair creation | unnamed/part_003 166-217 | `CsiControllerRpc`; commonPreCreate (part_003 35-120) in `CsiCreateVolume` | partly (the remote-pool, remote-device and workload lookups are not modelled) |
| dtree plugin capabilities | unnamed/part_001 254-300 | none | no shared state |
| storage-backend sidecar start-up and shutdown | cmd/storage-backend-sidecar/main.go 61-205 | `SidecarMain` | partly (the backend controller it starts is not modelled) |
| connector options, fake clientset, CRD, K8s interface, test | | none | configuration, generated code or tests |

## Modules

### `SanSession`: the reference-counted session

State, per plugin:

- `storageOnline`;
- `clientCount`;
- `session`: the array-side login state, `"in"` or `"out"`.

Per operation thread, it also keeps:

- `pc`;
- `locErr`: whether the local login failed;
- `ops`: operations done, bounded by `MaxOps`;
- two history variables: `holds` (the references the thread counted and has
  not released) and `everAcquired`.

Actions and the code they model:

- `MutexGetClient(t, p, ok)` is the whole of `mutexGetClient`. It is one atomic
  step, because the body runs under `clientMutex`. `ok` is the login result.
- `GetClientLocal` and `GetClientRemote` are the two halves of `getClient`,
  including its two error returns.
- `Work` is the operation that uses the clients. Its caller is not in this
  repository.
- `ReleaseCheck` is each unlocked `if ...storageOnline` of `releaseClient`, as
  a step of its own. `ReleaseLocalCheck` / `ReleaseLocal` cover the local
  plugin and `ReleaseRemoteCheck` / `ReleaseRemote` its remote.
- `MutexReleaseClient` is the whole of `mutexReleaseClient`: decrement, and at
  zero `Logout` and `storageOnline = false`.
- `UpdateBackendCapabilities(p)` is the capability query. It succeeds or fails,
  and overwrites `storageOnline` without the lock.

`RefCountSession` is the abstract specification of the session (spec 4.2):

- holders acquire and release one at a time;
- acquiring logs the session in;
- the session is logged out exactly when the last holder leaves.

`MCSanSession` maps pA's session onto it, with `holders` as the threads holding
pA and `loggedIn` as `session[pA] = "in"`. It checks `AbsSpec` as a PROPERTY.

### `MetroDispatch`: AttachVolume / DetachVolume

`MetroDispatch` extends `SanSession`, so session users and the refresh run in
the same state space as the RPCs. Each RPC `r` attaches, then detaches, its
own volume on backend `RpcPlugin`. Each volume belongs to one RPC because the
orchestrator serialises operations on a volume (spec 5).

Per-RPC state:

- `rss`: HASRSSOBJECT, one of metro, plain or malformed;
- `pairExists`;
- `mapped`: the arrays on which the LUN is mapped;
- `localCli` / `metroCli`: whether each captured client is non-nil;
- `result`: one of ok, error or panic per operation.

Steps, each one unlocked read of `storageOnline`:

- `ReadClients`: lines 259-265 and 302-309.
- `GetLunInfo`: getLunInfo, then the not-found / error handling of the
  caller.
- `Handler`: its five branches, including the fall-through that returns no
  result and no error. The caller turns that into an error through the
  `len(out)` check.
- `MetroHandler`: pair lookup through `req.localCli`, then the metro attacher.
  The pair-status checks only log warnings.

`Execute` is `commonHandler`, or the metro attacher, on a set of arrays:

- each array call may fail;
- the result is ok only if every call succeeded;
- a method called through a nil client panics.

`ControllerPublishVolume` has no `RecoverPanic`, so a panic there ends the RPC.

### `SidecarMain`: sidecar start-up and shutdown

The storage-backend sidecar (`cmd/storage-backend-sidecar/main.go`) has two
goroutines that share one channel:

- `main` makes `signalChan` with one slot and defers `close(signalChan)`. It
  then starts `runController`, either directly or through leader election,
  registers the channel with `signal.Notify`, and blocks on one receive.
  When main returns, the process exits.
- `runController` calls `AddToScheme` and then `ensureCRDExist`. The latter
  lists the CRD up to `BackoffSteps` times (10 in the code). On either
  failure it sends SIGINT on the same channel. That send blocks while the
  slot is full.

The OS is a third actor, `OsSignal`:

- before `signal.Notify`, a signal's default action kills the process;
- after it, the signal goes into the channel with a non-blocking send, or
  is dropped if the slot is full. It also stops a controller that is
  running in `WaitExitSignal`.

State is one pc per goroutine, the CRD attempt count, the channel as a
sequence of at most `Capacity` signals, `chanClosed`, `notified`, the number
of signals sent, and `panicked` (a send on the closed channel).

Leader election and `WaitExitSignal` are library calls that are not in this
repository. They are modelled only as main.go uses them: leadership may
never come, and `WaitExitSignal` returns on a termination signal.

### `CsiCreateVolume`: the CreateVolume RPC

One step is one whole CreateVolume RPC (`controller.go` 37-68). The request
`req` and the collaborators' answers `env` are chosen in `Init`. The step
records `out`: the gRPC code, which array call was made, the NFS protocol
handed to the plugin, and the reported capacity. `Retry` is the provisioner
calling again after an error, against fresh collaborator answers.

The data is abstracted but the parsing is kept:

- the strings the code parses (`fsPermission`, `reservedSnapshotSpaceRatio`)
  are character sequences;
- `strconv.Atoi` is the recursive `DecimalValue`, with sign handling;
- the `[0-7]{3}` regex is `checkFsPermission`;
- a mount flag is the sequence of its comma-separated options after
  `TrimSpace`;
- a description is its length.

Operators, each translating the function of the same name:

- `checkCreateVolumeRequest` (with `checkStorageClassParameters`);
- `validateModeAndType` (the volume mode of the last capability wins);
- `checkReservedSnapshotSpaceRatio`, `processDescription`,
  `processVolumeContentSource`;
- `processNFSProtocol` over `addMountFlags` and `addNFSProtocol`, including
  the outer `break` and the duplicate-protocol error;
- `processCreateVolumeParameters`, `createVolume`, `manageVolume`,
  `validateCapacity`, and the annotation dispatch of `CreateVolume`;
- the OceanStor SAN plugin's `commonPreCreate`, run before the array
  call: `getCloneSpeed` (a clone takes `cloneSpeed`, default 3, and
  rejects anything `strconv.Atoi` does not turn into 1..4), `getPoolID`
  and `getQoS`. The allocation type is chosen among absent and `thick`;
  `getAllocType` only maps it, so no property tells the two apart.
  `out.speed` records the clone speed handed to the array.

The collaborators outside this repository each answer ok or fail: the PVC
annotation lookup, `SelectStoragePool`, the plugin's CreateVolume, the
backend registry, and `QueryVolume` with the imported volume's size.

Reference definitions written independently of the code say what the code
should compute:

- `RatioAccepted` and `CloneSpeedAccepted` / `ClonedSpeed`: the
  positional value of the digits, folded, against the accepted range;
- `NfsRequested`: the first `nfsvers` option of the first capability that
  has one;
- `ValidRequest`;
- `CollaboratorsSucceed`.

### `CsiControllerRpc`: Create, Delete, Expand, publish and snapshot RPCs

State:

- `registered`: the backends `GetBackendWithFresh` finds;
- `volSize` and `snapOn`: the arrays;
- `pvs`, `contents`, `capacity` and `requested`: what the orchestrator
  knows;
- `abandoned`: the history of objects given up with "CAUTION ... manually
  delete";
- `attachments` (the orchestrator's VolumeAttachments) and `hostMapped`
  (the array's host mappings);
- `pending`: the claims whose CreateVolume success has not reached the
  orchestrator; `pairOn`: the array's replication pairs.

Actions:

- `CreateVolume` is `Driver.createVolume` with the plugin's `CreateVolume`:
  no registered backend fails pool selection; the plugin's unit check
  (512 B, or 1 MiB for FusionStorage, whose `getParams` rounds the size
  up); the creation flow, which creates the LUN and, for a replicated
  volume on the OceanStor SAN plugin, runs `createReplicationPair`
  (create, sync, and on a sync failure a delete whose error is dropped),
  reverting the LUN when that fails; a lost response, after which the
  orchestrator retries and the retry finds the LUN of the first call; and
  `makeCreateVolumeResponse`, which reports RequiredBytes. The creation
  flow and the revert are outside this repository and modelled from their
  contract. A successful delete removes the volume's pair with it.

- `DeleteVolume`, `ControllerExpandVolume`, `ControllerPublishVolume`,
  `ControllerUnpublishVolume`, `CreateSnapshot` and `DeleteSnapshot` are the
  whole RPCs, including the nil-backend branch, the node-ID JSON and the
  dtree / SAN routing (`backend.Storage == DTreeStorage`). A DetachVolume
  whose LUN lookup finds nothing returns success and leaves the mapping
  (oceanstor-san.go 317-319; `MetroDispatch` shows when the lookup
  misses), so no property here says an unpublish unmaps;
- the orchestrator calls only what `ControllerGetCapabilities` advertises,
  keeps a VolumeAttachment from the first publish until an unpublish
  success reaches it, and deletes no volume that has one;
- the plugin methods are operators, one per method of each plugin
  (`SanExpandVolumeOk`, `FusionExpandVolumeOk`, `DTreeSnapshotOk`, ...),
  and `DeleteVolumeOk`, `ExpandVolumeOk` and `SnapshotOk` dispatch to them
  as `backend.Plugin` does. They keep each unit check (`IsCapacityAvailable`
  with 512 B or 1 MiB), `TransVolumeCapacity`, and every "not implement"
  answer (the dtree plugin's DeleteVolume, ExpandVolume and snapshots; the
  SAN plugins' dtree methods);
- `isSupportExpandVolume` is translated branch by branch;
- a response may be lost, so the orchestrator retries a delete, and the
  array may fail any call it receives;
- `UserResize` is the claim growing; `ControllerExpandVolume` is the
  resizer's call for it;
- `RegistryChange` drops a backend from the registry or brings it back.

The dtree volume `v3` exists when the run starts; `v1` (OceanStor SAN,
replicated) and `v2` (FusionStorage) are created in the run, with the
claim size 4 or 6 chosen in the initial state. Sizes are scaled: a sector is 2 and a MiB is 4. This keeps the relation that
matters: some sizes are whole sectors but not whole MiB, and some are
neither.

### `BackendConfig`: admitting and registering a backend

State, per claim:

- `conf`: the claim's configuration as abstract values. The protocol is a
  string, including the spelling `SCSI`. The portals are absent, a scalar
  (`Scalar`), or a list of up to `MaxPortals` elements. Each element is an
  IP, a non-IP string, a host -> manage-IP map, or such a map holding a bad
  IP. The dtree parent name is also part of it.
- `product`: the array's model.
- `phase`: the claim's lifecycle: new, validated, rejected, registered,
  initFailed or removed.
- `initErr`: why Init failed.
- `session`: the plugin's tracked array session.
- `online` and `protocol`: the plugin's `storageOnline` and `p.protocol`.

Actions:

- `Validate` is the whole Validate of each family: `verify*Param`, then
  `getNewClientConfig` and a throw-away login that may fail. It never
  touches `session`.
- `OceanstorSanInit`, `FusionStorageSanInit` and `OceanstorDTreeInit` are
  `NewPlugin` plus `Init`. Each runs the family's parameter checks, then
  `p.init`, which logs in and keeps the session iff `keepLogin`. Only
  oceanstor-san checks something after the login: the NVMe product check.
  Init may run on a claim that was never validated, because the plugin's
  Init does not depend on Validate.
- `Deregister` destroys a registered plugin and forces its logout (spec 2).

`getNewClientConfig`, `p.init` and `proto.VerifyIscsiPortals` are not in
this repository. They are modelled from their contract.

## Runs

| run | expect | shows |
|---|---|---|
| `session_local` | pass | A lone backend used by three threads (two operations each) beside a HyperMetro pair used by one thread, with either login failing. `HeldSessionLoggedIn`, `QuiescentLoggedOut`, `CountMatchesHolders` and the refinement `AbsSpec` (of pA's session) all hold: getClient's partial success and releaseClient keep the counts exact on both topologies. |
| `session_refresh` | pass | With the refresh racing, a lone backend still never logs out a holder. |
| `session_count_underflow` | violation | Two operations on a HyperMetro pair, with no refresh. t1's login to its local plugin pA fails and its login to the remote pB succeeds; t2 then logs pA in. Both releases pass the unlocked check of pA's flag (line 353): the first logs t2 out under it, and the second takes pA's count to -1. The remote check at line 357 has the same flaw. |
| `dispatch_stable` | pass | With the flags fixed, every branch of getLunInfo, handler and metroHandler is safe. No nil client is called, and a successful detach leaves the LUN mapped on no array (`DetachLeavesNoMapping`), also after a dual-array attach that failed on one side and was not rolled back. A getClient/releaseClient user of a third, unbonded backend runs beside them. |
| `sidecar_startup` | pass | With leader election, the code's 10-step backoff and one OS signal at any moment, a start-up failure of runController always ends the process. Its blocking SIGINT send always finds room (main drains the slot) or a closed channel. |
| `sidecar_close_race` | violation | main's deferred `close(signalChan)` does not unregister the channel and does not wait for runController. A signal after main received SIGINT, or a controller failure after main received SIGTERM, sends on the closed channel and panics the exiting process. |
| `create_volume` | pass | Two request families: StorageClass parameters at their boundaries, and mount options, content sources, annotations and failing collaborators with retries. CreateVolume calls the array only for a request the reference calls valid, and succeeds exactly when the request is valid and the collaborators succeed. The NFS protocol handed on is `NfsRequested`, and an imported volume is accepted only at its real size. A third family (clones and fresh volumes over clone speeds `1`, `4`, `0`, `5`, `+2`, `-3`, `x`, empty and absent, with QoS and allocation type) shows that the array gets the clone speed the reference `ClonedSpeed` computes (`CloneSpeedToArray`). 254,934 distinct states. |
| `controller_rpcs` | pass | One backend of each plugin family, with snapshots, lost responses, array failures and a backend dropping out of the registry. An object the orchestrator forgets while it is still on the array was given up only by the nil-backend branch (`TeardownNeverLies`), the capacity CreateVolume or ControllerExpandVolume reports never exceeds the array volume's, nor the array volume the claim (`RecordedCapacityOnArray`), and a replicated volume the orchestrator uses always has its pair, through failed syncs, reverts, lost answers, retries and deletes (`ReplicatedVolumeHasPair`). 866,540 distinct states in about 2.5 minutes. |
| `dispatch_nil_client` | violation | A refresh between `ReadClients` and `getLunInfo` makes getLunInfo call through a nil client, which panics in ControllerPublishVolume. |
| `config_register` | pass | One claim of every configuration and product, admitted with or without Validate. A registered plugin serves a protocol of its family, recorded lowered (`SCSI` becomes `scsi`). It has IP portals for iscsi and roce, one portal for dtree, and a DoradoV6 array for roce and fc-nvme (`RegisteredConfigValid`). |
| `config_session_leak` | violation | `OceanstorSanPlugin.Init` logs in through `p.init` and only then rejects roce or fc-nvme on a non-DoradoV6 array. The error return leaves the session open on a plugin nobody holds (`NoLeakedSession`). |
| `dispatch_plain_detach` | violation | With the local flag false, a plain LUN is looked up on the metro remote and not found. DetachVolume then returns success while the LUN is still mapped locally. |

The violation runs are the findings in `PROJECT.json`.

Two disagreements TLC shows that no run lists as a finding:

- **The refresh leak.** With the refresh on, `QuiescentLoggedOut` fails in
  two operations on a lone backend. A failed query sets `storageOnline`
  false while a reference is held, so `releaseClient` skips the decrement
  and the session stays logged in. This contradicts spec 3. It is recorded
  as a hazard of `UpdateBackendCapabilities`, and it shares its root cause
  (the unlocked write) with `dispatch_nil_client`.
- **A transient registry miss.** With two registry changes, a volume
  deleted while the registry misses its backend stays on the array after
  the backend comes back. Spec 7 calls the success intended for "an
  already-absent backend", so this is recorded as a hazard, not a finding.
- **Validate is weaker than Init.** Some configurations pass Validate and
  then fail Init:
  - roce or fc-nvme on a V5 array (oceanstor-san);
  - a fusionstorage-san `scsi` claim whose first portal is not a host map;
  - an `iscsi` claim whose portals are not IPs.

  Validate also rejects `SCSI`, which Init accepts. Spec 4.1 says Validate
  checks a configuration before it is committed. This is recorded as a
  hazard of `Validate`. Its consequences are checked: Init still
  registers no invalid configuration (`RegisteredConfigValid`), and the
  V5 roce case is the session leak of `config_session_leak`.

Every property of a passing run has a mutant in `PROJECT.json`: a plausible
bug in the mapped code that makes TLC report the property violated.

## Bounds

- **Three threads, two operations each.** That is enough for one thread's
  release to interleave with another's login and with a third thread's
  shared use. At least two operations each lets a plugin be logged out and
  logged in again.
- **Two plugins bonded both ways.** This is the HyperMetro topology. A larger
  topology adds no new code path, because each plugin has at most one remote.
- **Two RPCs, attach then detach each.** That covers attach and detach
  interleaved on one plugin.
- **Initial `storageOnline` free in the dispatch runs.** Any combination is
  reachable in the code, through a failed login, a failed refresh or a
  release to zero.
- **Symmetry over threads** is used only over threads sent to the same
  backend (the three threads of the lone pA in `session_local`).

- **Sidecar: one OS signal and `BackoffSteps = 10`.** One signal is enough
  to fill the slot ahead of the controller's SIGINT, to race main's close,
  and to arrive before `signal.Notify`. The backoff keeps the code's own
  value.
- **CreateVolume: two request families, not their product.** The checks
  family varies every StorageClass parameter the checks read, at its
  boundaries:
  - fsPermission: `755`, `75`, `758`, `7777`;
  - reservedSnapshotSpaceRatio: `50`, `51`, `-1`, `-0`, `+5`, `+`, `x`;
  - descriptions of 255 and 256 characters;
  - every volume-type and volume-mode clash.

  The flow family varies mount-flag layouts (none, one, two `nfsvers` in one
  flag, `nfsvers` in a second flag, an unsupported `3.0`), content sources,
  the six annotation cases and one failing collaborator at a time. The
  checks run before any of what the flow family varies, so the product
  would add no path.  The pre-create family varies the clone speed at the edges of 1..4 (`0`,
  `1`, `4`, `5`), with signs, a non-digit, empty and absent, over a fresh
  volume, a snapshot clone and a volume clone, with and without QoS, and
  fails the pool lookup or the QoS check one at a time.
- **Backend admission: one claim.** Claims share no state in Validate or
  Init, so a second claim adds only interleavings of independent steps.
  Every configuration over these values is an initial state:
  - the three families;
  - the seven protocol spellings (`SCSI` included) and an absent protocol;
  - portals absent, scalar, or lists of up to two elements of the four
    kinds;
  - parent names `parent`, empty and absent;
  - both product models.

  Two portals are enough to put a bad element after a good one and to give
  dtree more than one portal.
- **Controller RPCs: one backend per plugin family, one volume each, one
  registry change.** Each RPC touches only its own volume and backend.
  More volumes per backend would add only interleavings of independent
  steps. One registry change is enough to reach the nil-backend branch of
  every RPC after objects exist. One claim size, 6 (sector 2, MiB 4), is
  whole sectors but not whole MiB, so each plugin's unit check decides; a
  limit of 5 is below it and reaches the LimitBytes error.

## Fairness

Weak fairness is assumed on every session thread's steps, because gRPC
goroutines are scheduled fairly; the session properties are all safety
properties, so none depends on it. `MetroDispatch` states only safety and
assumes none. The sidecar's two goroutines get weak fairness too. Leadership and OS signals get none, because neither is guaranteed to come. The sidecar cfgs therefore do not check deadlock: a controller that runs, or a replica that waits for leadership, until a signal that never comes is a real resting state. The capability refresh is periodic, but
nothing requires it to happen at any point, so it gets no fairness.

`BackendConfig` states only safety properties, and its cfgs do not check
deadlock: a claim's admission ends once it is rejected, failed or removed.

`CsiCreateVolume` and `CsiControllerRpc` state only safety properties, and
they assume no fairness. A provisioner, resizer or snapshotter may stop
retrying, and an array may fail every call. Their cfgs do not check
deadlock, because an orchestrator with nothing left to do stops.

## Not modelled, and the plan

- **Done:**
  - the session, the dispatch and the sidecar's start-up and shutdown;
  - CreateVolume with its checks and parsers;
  - Validate and Init of the three plugin families;
  - the Create, Delete, Expand and snapshot RPCs with the backend registry
    and the plugin methods they reach, including createReplicationPair's
    create / sync / delete with partial failure;
  - one operator per plugin method, dispatched as `backend.Plugin` does;
  - commonPreCreate with getCloneSpeed checked against a reference
    parser.
- **Next:**
  - the HyperMetro capability flag against spec 8 ("equals local.online &&
    remote.online at call time");
  - the remote-pool, remote-device and workload lookups of the base
    helpers, which call the array client;
  - a refinement of `MetroDispatch` to an abstract attach/detach that
    says which arrays a successful result covers.
- **Left out:**
  - the dtree plugin's "not implement" snapshots: CreateSnapshot on a
    dtree backend always fails, which is a constant, not a property worth
    a run;
  - a property that handler's no-result branch (line 251) becomes an
    error: it needs both flags to fall between getLunInfo and handler,
    and the only runs with a racing refresh stop at the nil-client panic
    first;
  - a run stating that Validate admits only what Init accepts: it would
    only repeat the counterexamples listed under Runs;
  - the attachers, the array client and the backend registry, which are not
    in this repository and are modelled only by their contracts;
  - logging, formatting and the capability map's contents;
  - the generated clientset, the CRD, the backend controller that the
    sidecar starts, and the flag definitions. `ValidateFlags` in
    connector.go never calls `validateConnectorThreads`, so an out-of-range
    connector thread count is accepted; this is flag checking with no
    state to model.
