# Verification of dockyards-kubevirt

TLA+ specifications of the operator's reconcilers, TLC runs that model-check
them on small instances, and TLAPS proofs of what matters most for every
instance. Every definition is translated from the Go code of this repository;
`PROJECT.json` names the lines under `map`.

    tlc -config NodePool.cfg MCNodePool      # one run
    tlapm MachineIPPoolProofs.tla            # one module of proofs

## The system

`dockyards-kubevirt` is one process of controller-runtime reconcilers around
the Kubernetes API server. Reconcilers do not call each other: they read
objects from informer caches, write objects through the API server, and are
woken by the events of objects they watch. Each controller has one worker, and
its queue holds a key at most once; an error or a `RequeueAfter` puts the key
back.

| Component | State it keeps (in API objects) | Operations | Hard behaviour |
|---|---|---|---|
| Machine IP reconciler (`controllers/dockyardsmachineip_controller.go`) | one IPAM claim per machine (subnet, address, owner, status); the LinkConfig in the bootstrap secret | ensure the claim, allocate an address, report it, patch the secret, replace a machine that joined too early | addresses in use are read from a cache; collection of claims; recreated machines; retries; deleting machines |
| IPv4 ranges (same file, 614-681, 507-529) | none | divide a subnet, first-fit search | `uint32` arithmetic, inclusive bounds |
| Release reconciler (`dockyardsrelease_controller.go`) | data volume per version, data source, role and binding | import an image, point the data source at it, grant access | four writes that may fail in between; the volume is owned, the data source is not |
| Node pool reconciler (`dockyardsnodepool_controller.go`) | machine template, control plane or config template and deployment, the cluster's own installer volume and source, conditions | reconcile each, in this order, and patch the conditions last | templates are written once; errors that are reported but not returned; the cluster is read several times; nothing but the cluster and the pool is watched |
| Cluster reconciler (`dockyardscluster_controller.go`) | KubevirtCluster, status, ingress-nginx workload, TLS route | reconcile each, and patch the status last | gateways are not watched; early returns |
| Workload reconciler (`dockyardsworkload_controller.go`) | address of each remote service; service, HTTP route and TLS route in the management cluster | watch the workload cluster, patch one service and return, publish the others | connection lost; events of its own patches drive it; zones are not watched |
| Gateway parent reference (`gateway_parentref.go`) | none | the cluster's gateway or the default | |
| Node, organization and virtual machine reconcilers | a mirrored status | one patch each | |
| Link configuration (`dockyardsmachineip_controller.go`, 683-927) | none; the YAML documents it is given | upsert the address into the first LinkConfig of the interface | runs again on its own result; must leave users' patches alone |
| Console, VNC and power API (`internal/api/v1`) | in memory: an allow cache of allow lists, each with a verdict, a mutex, a channel of events and a watcher; per session its goroutines, context and channels | ask whether a subject may use a machine; start, pump and end a console; relay VNC in both directions; switch a machine on or off | goroutines that hold mutexes while they wait; bounded and unbuffered channels; lists shared by requests that end at different times; roles that change before a watch is up |
| Talos patch types, manifests, `main.go` | | marshalling, flags | |

How they interact: the release reconciler's data source is what node pools boot
from; the cluster reconciler's API endpoint is what node pools wait for; node
pools lead, through Cluster API, to the machines the machine IP reconciler
addresses; the cluster reconciler writes the ingress-nginx workload, whose event
starts the workload reconciler; both of these read the same gateway. The HTTP API
stands apart: it shares the process and nothing else, its requests meet in the
allow cache only, and what drives the cache are the requests, and the roles and
bindings its watchers see.

What makes each correct, and what could go wrong, is listed line by line under
`hazards` in `PROJECT.json`, with the property that would catch it.

## Modules

    IPv4Range ─┬─ IPv4Allocation ─┐
               ├─ LinkConfig ─────┴─ Addressing
               └─ MachineIP ───implements─── AddressPool
    SourceFeed ── NodePool
        └──implemented by── Release
    Gateway ─┬─ Cluster ──┐
             └─ Workload ─┴─ Ingress
    AllowCache ── Session ─┬─ Console ─┐
                           └─ Vnc ─────┴─ Api

| Module | What it models |
|---|---|
| `IPv4Range` | `newIPv4Range` and what `nextAvailableIP` returns, as operators; all arithmetic modulo `Space` (2^32 in the program) |
| `IPv4Allocation` | the same, step by step: the loop with its unsigned counter |
| `LinkConfig` | the upsert of a prefix into a sequence of YAML documents, as operators |
| `Addressing` | both together: an address is allocated, bootstrap data published, and the address written into it, again and again |
| `AddressPool` | abstract: leases are acquired when free, never change, end after their owner |
| `MachineIP` | the machine IP reconciler, its caches, Cluster API, the bootstrap provider, the garbage collector, reconfigurations and restarts |
| `SourceFeed` | abstract: a release comes and goes, its data source comes and stays |
| `Release` | the release reconciler with its release, images and garbage collector |
| `NodePool` | the node pool reconciler, on the `SourceFeed` |
| `Gateway`, `Cluster`, `Workload`, `Ingress` | shared environment; cluster reconciler; workload reconciler with the workload cluster; their composition in one process |
| `AllowCache` | allow lists, their mutexes, watchers and events, access reviews, roles and the authorizer |
| `Session`, `Console`, `Vnc`, `Api` | what all requests do; console streams; VNC sessions; their composition over the cache, with the properties |
| `MC*` | the instances TLC checks |
| `*Proofs` | theorems and their proofs |

`SourceFeed` is used in both directions: `Release` is shown to implement it
(`ImplementsFeed`), and `NodePool` has it as its environment, so that the two
need not be checked together.

### Correspondence

- One action is one API call of `Reconcile`, with the local computation before
  the next call. `pc` (`step`, `clusterStep`, `workloadStep`) is the next call and
  `work` holds the local variables; both are reset when `Reconcile` returns.
  Everything else may happen between two calls.
- Objects are variables indexed by name, `None` when absent. Names and specs are
  model values or records of the fields a decision depends on.
- In `MachineIP` every object kind has a log of the snapshots its informer has
  yet to deliver. A cached read sees the oldest of them; `ClaimLag`,
  `MachineLag` and `SecretLag` bound the length. Older snapshots are dropped
  when the bound is reached, that is, a cache is never further behind than its
  bound. With bound 0 reads are current.
- Patches are JSON merge patches: fields that differ between the base and the
  desired object are written, the others left (`MergePatch`). `generation`
  follows the spec. Claims have an owner UID, so a recreated machine is another
  owner, and `CollectClaim` is the garbage collector.
- Deferred status patches (node pool, cluster) are a last action `status`, taken
  on every way out, errors included.
- Errors: an action `Fail*` lets a call fail; `PatchClaim` and the actions beside
  it fail where the object has gone. Each has the effect the code gives it: a
  requeue, or a condition, or nothing. A failed allocation (`FailAllocate`: the
  list, or the patch, whose answer may be all that was lost) first writes the
  status `Failed`; in `NodePool` a failed search for the default release is as
  good as none (`FailedSearch`), any other failed call returns the error
  (`FailedOtherwise`), except that of the control plane, which shows in a
  condition. The number of failures and restarts is bounded.
- The release reconciler is woken by releases and its own errors. It does declare
  `Owns(&cdiv1.DataVolume{})` (252), which follows controller references, but the
  reference it sets on a volume (85-92) is not one: writes and collections of
  volumes wake nobody.
- `Ready` of a node pool is what `conditions.SetSummary` makes of the conditions
  that exist: one that was never set is not missed. So a pool for which there never
  was a default release is Ready without a machine template, as soon as the rest of
  its role is reconciled. `ReadyIsCurrent` asks for a template of pools that have
  the condition; no document says more of Ready.
- A gateway address without a type makes `Reconcile` of the workload panic (131),
  unless an IPv4 address comes first; controller-runtime recovers it and tries
  again (`Panics`). Where the gateway API's CRD is installed, its default
  `IPAddress` prevents that.
- In the API, one action is what a goroutine does between two points where it
  may wait: a mutex, a call, a channel, a select. `main`, `reader` and `relay`
  are the program counters of the three goroutines a session can have, `ask` is
  where each of them is in `isAllowedVM`, and the watcher of a list is a field of
  the list. What is done under the mutex of the cache itself, which no call is
  made under, is one step. That a watcher takes a notification, waits for the
  mutex and locks is one step too; the notification waits instead.
- Access reviews are answered by the API server's authorizer (`reviewed`), which
  follows the roles (`allowed`) with a delay; a review fails by a fault, and when
  its context is done. A list nobody refers to is collected (`Collect`), as Go
  does it, so that a few names do for all the lists there ever are.
- A definition introduced by the comment "Fault" is a wrong version of the
  definition below it, as a bug would make it. No specification uses it. It
  serves to show that a property notices: `mutants` in `PROJECT.json` pairs each
  property with one.

## Runs

| Run | Instance | Shows |
|---|---|---|
| `IPv4Allocation` | 3-bit addresses, every aligned subnet, reserve 0..4, role, set of addresses in use; seven kinds of bootstrap data | `SubnetDivided`, `LoopIsFirstFit`, `AllocationEnds`, `WrittenOnce`, `DataIsUpsert`, `RestKept` |
| `MachineIPCurrent` | two workers, control plane of 1 or 3 replicas, one change, one fault (a failed call or a restart), current claims and machines, secret cache up to 1 write behind; the workers are symmetric | `NodesUseLeases`, `ImplementsPool`, `ReplacedUnlessStale` |
| `MachineIPStale` | two workers, control plane of 1 or 3 replicas, claim cache up to 2 writes behind, one fault; the workers are symmetric | `ReadyIsTrue`, `PoolUnlessStale` |
| `MachineIPLive` | one control-plane machine created twice, subnet and control plane appear or go, stale claim and machine caches, one fault | `EventuallyReady`, `EventuallyInSecret` |
| `Release` | two versions, three images, two releases, one failure, one restart | `ReleaseSettles`, `SourceSwitchesToVolume`, `ImplementsFeed` |
| `NodePool` | a control-plane and a worker pool, five cluster states, valid and malformed settings, two changes, one fault | `TemplateBoots`, `ReadyIsCurrent`, `SourceFollowsInstaller` |
| `Ingress` | two services, two gateways, two cluster specs, one change, one fault | `EndpointRouted`, `PublishedAlike` |
| `IngressLive` | the same with one service | `ServicesPublished` |
| `Api` | a console, a VNC session, or power requests of two subjects that share a list; a channel of one event; one change of roles, one review that fails | `EveryEntryWatched`, `ClientToldVerdict`, `RefusedNotRelayed`, `VerdictFollows`, `AskingReturns`, `SessionEnds` |
| `MachineIPMoved` | a subnet that moves | **violates** `AddressFromSubnet` |
| `NodePoolOverride` | an installer set after the template was written | **violates** `OverrideConsumed` |
| `IngressZones` | DNS zones that change | **violates** `HostnamesAligned` |

Each component's type invariant (`TypeOK`) is checked along.

The three violations are where the code and what the repository says of it part;
`findings` in `PROJECT.json` quotes the texts.

- `MachineIPMoved`: `ensureDockyardsIPAMClaim` rewrites the subnet of a claim,
  `ensureClaimAddress` keeps its address.
- `NodePoolOverride`: `KubevirtMachineTemplate`s are written once (233). The same
  line keeps them from following a new release image, which the README promises
  as well.
- `IngressZones`: the workload controller does not watch clusters.

What the code does not rule out, and the properties therefore speak around:

- Two claims can come to hold one address, in the very instance of
  `MachineIPStale` (`UniqueAddress` fails there after 17 states). The addresses in
  use are listed from the informer cache. A machine whose first reconciliation
  failed after its status became Pending writes nothing more before it allocates.
  If the other machine has been given its address and its Ready status meanwhile,
  a cache those two writes behind does not show the address, and nothing else
  keeps the second machine from getting it. No text of the repository promises
  unique addresses in so many words, so this is not among the violations.
  `PoolUnlessStale` says that nothing else breaks the pool: neither the other
  patches, whatever old copies they are computed from, nor a choice made while
  the list shows all addresses.
- A list that VNC and power requests share fills its channel, since nobody takes
  its events; the watcher then waits for room with the list locked, and every
  request for the list waits with it. The code's channel holds 1024 events, the
  run's a single one, and it does fill up. `AskingReturns` and `VerdictFollows`
  say that everybody is answered, and wrong verdicts are corrected, unless a
  watcher is stuck like this (`Jammed`).
- All subjects' VNC and power requests for all machines share the lists under
  the key without a console (86-119, 472-478): the verdict of the one who asked
  first is the answer to the others of the resource, and the watcher reviews the
  subject whose request created the list (221-224). `VerdictFollows` says that the
  verdict comes to be that of this subject. That another subject gets a verdict
  that is not its own, as long as the list lives, is in the run and is excluded by
  no property.

### Bounds, and why they are enough

- Addresses: the layout only compares borders, and three bits hold all its
  cases: too small, exactly one worker, several, a border at and beyond the end
  of the space. Two workers with one or three free addresses hold an exhausted
  pool, a pool that has to be shared, and a reserve that grows into used
  addresses.
- Two machines: two claims share an address or not, and a machine's choice depends
  on one other machine at a time; the theorems hold for any number.
  `MachineIPLive` has one, so that what is waited for there is the configuration,
  and not an address another machine frees.
- `MaxUID`, `MaxReconfigs`, `MaxReleases`, `MaxPublished`,
  `MaxFailures`, `MaxChanges`, `MaxFaults` cap what the environment does, not
  the reconciler: 1 puts an event between any two calls, 2 lets a change be
  taken back. The reconcilers retry without a bound.
- The pools of `NodePool` share only the cluster's own data source and the
  cluster: one pool of each role has both of these.
- `Api` has two subjects and one virtual machine. The list that requests share is
  keyed by neither; a second machine would have a verdict of its own in it, and
  share its mutex, watcher and channel with the first, as the requests of two
  subjects do. Two power requests hold a list that outlives the request that
  created it, a mutex waited for by two goroutines and a watcher, and a list
  removed under those who wait; a VNC session asks from two goroutines. VNC beside another
  caller is beyond the liveness check and left to the theorems. One change and
  one failing review make a verdict wrong in both directions, at any point; the
  console's two channels, 1024 in the code, are at their limit with 1.
- Two services are needed in `Ingress` because each patch ends a reconciliation.
- Deadlock is not checked: a system whose environment has used up its events
  stops when the reconcilers have nothing left to do.

### Fairness

- `MachineIP`: weak fairness of the worker's next call (`Continue`; a call
  returns). Strong fairness of `Begin(m)`: the workqueue is served first in,
  first out and rate limits grow to a bound, so a machine that is put back again
  and again, while others are served, is served again and again. Weak fairness
  of the informers: a watch delivers. Nothing is assumed of Cluster API, the
  garbage collector or users.
- `Ingress`: weak fairness of the two workers. Nothing is assumed of the
  connection to the workload cluster; `ServicesPublished` gives up when it is
  lost.
- `Addressing`: weak fairness of the only sequential program.
- `Api`: weak fairness of every goroutine that can go on, of the authorizer, of
  the informers' resync and of the console library, which sends what it is given.
  Strong fairness of a goroutine that waits for a list's mutex, since Go's mutexes
  starve nobody, and of the cases of the pump's and the writers' selects, a
  context that is done as well as an event that is there, since a select chooses
  among its ready cases at random. Nothing is assumed of clients and machines.

`NodePool` and `Release` state what holds at rest instead: an invariant on every
state in which the queue is empty and the worker idle.

## Proofs

All modules are parameterised by constants with named assumptions, which TLC
evaluates in each run. Most say that `None` is none of the objects it stands for
the absence of (`NoneAssumption`, `NoObjectAssumption`, `ClusterAssumption`,
`WorkloadAssumption`, parts of `AllowCacheAssumption`, `ConsoleAssumption` and
`LinkConfigAssumption`); the others give the constants their types. Where a
theorem needs more of its constants, this is a hypothesis of the theorem; there is
one, that `Machines` is finite in `ReplacedPerLag`, which counts them.

Each proof has the same shape: an inductive invariant, a lemma for each group of
actions and conjunct, and the property from the invariant. Every conjunct that was
not obvious was checked by TLC on a small instance before it was proved.

- `IPv4RangeProofs`: for every address space, `NextAvailableIP` returns an address
  of the pool not in use (`NextAvailableIPIsFree`) and `None` only if there is
  none (`NextAvailableIPFails`); ranges whose borders do not wrap are ordered
  network, gateway, control plane, workers, broadcast (`RangeOrdered`).
- `AddressingProofs`: the counting loop returns what first fit over the pool does,
  for every size of the address space (`CountingIsFirstFit`). The invariant is
  that no free address of the pool is below the counter (`LoopInv`); it needs that
  the last address of a pool is not the last of the space, or the counter would
  start over (`PoolBorders`). `SubnetIsDivided` is about the layout alone: a subnet
  is rejected exactly if it is too small, and otherwise its two pools partition
  what lies between gateway and broadcast; their sizes are cardinalities of
  intervals. Of the bootstrap data: what the upsert has written it keeps
  (`DataWrittenOnce`), what it does to the machine's prefixes is the upsert
  `MachineIP` works with (`DataIsUpserted`), and all else stays (`RestIsKept`),
  whatever documents there are. The invariant of these relates the documents to
  those given (`GivenInv`).
- `ReleaseProofs`: `Spec => []TypeOK`, `Spec => []ReleaseSettles`
  (`ReleaseComesToRest`), `Spec => SourceSwitchesToVolume` (`SourceHasVolume`) and
  `Spec => ImplementsFeed` (`ReleaseIsFeed`), for any images and any number of
  releases, failures and restarts. `ReleaseSettles` speaks of the state after the
  last write only; the invariant (`ReleaseInv`) adds what holds between the writes:
  what was written before the current step is still there unless the worker's
  release has gone (`Written`), and a worker with nothing queued behind it works
  on the release as it is. A release created anew has a UID no copy of the
  worker's has, so that "gone" stays true.
- `NodePoolProofs`: all that the run checks, for any pools, clusters, taints,
  changes and faults (`NodePoolTypeOK`, `TemplatesBoot`, `ReadyPoolsAreCurrent`,
  `SourcesFollowInstallers`). `NodePoolInv` follows a
  reconciliation call by call: `StepOK`, what each call needs of the local
  variables; `SourcesOK`, that a source once found, or named by a template, can be
  booted from, and the worker's volume is there when the source is written;
  `ReportsOK`, that conditions, also those the worker carries to its last call, are
  never reports of objects that are not there; `CurrentOK` and `InstallerOK`, that
  what a pool was made from is what the cluster and the pool are now. The last two
  are said of pools outside the queue only: a change puts all pools of the cluster
  in the queue and an error puts back the worker's, so whatever is false is still
  to be reconciled. `SourcesFollowInstallers` supposes that there is a pool, since
  nobody else writes the cluster's own source.
- `IngressProofs`: type correctness, `EndpointIsRouted` and
  `ServicesPublishedAlike`, for any gateways, clusters, services, changes and
  faults. In the middle of a reconciliation `IngressInv` says of the cluster
  reconciler that its copy of the cluster is the cluster unless it is queued again,
  and that the route is that of the endpoint it is about to report
  (`EndpointKept`); of the workload reconciler that, unless an event has come in
  since, its list is what the workload cluster has, the services it is through with
  are published and the one in hand is written part by part (`ServicesInv`).
- `MachineIPProofs`: `Spec => []TypeOK` for any machines, configurations, lags and
  bounds (`TypeCorrect`). `TypeOK` is inductive because it includes what the
  worker's `pc` says of its local variables: from `pending` on it has a claim,
  from `ready` on an address, and the configuration it copied is usable, which
  makes the range it allocates from defined.

  `ReplacedPerLag` is about late machines: of one role, at most one more than
  the machine cache may be writes behind is being replaced, whatever the lag, the
  number of machines and the other faults. With a current cache that is one at a
  time, as `hasDeletingMachineInRole` intends; with a lag of one TLC finds two
  (25 states), so the bound is reached. The invariant counts the machines that
  have been told to go and that a snapshot in the log does not show: no more than
  there are writes after it (`FewUnseen`). Between the check and the deletion the
  others of the role that have been told are among them (`FewOthers`), since the
  check saw none, and nobody else starts a replacement.
- `MachineIPPoolProofs`: `Spec => PoolUnlessStale` (`OnlyChoicesBreakThePool`), for
  caches of any lag. A step of the worker that leaves the leases alone is `Own`,
  `Disown` or a stutter, `CollectClaim` is `Release`, and `Allocate` is `Acquire`
  of an address that first fit found unused (`NextAvailableIPIsFree`), provided
  that the worker is not `Misinformed`: its copy has the server's address, and the
  list has those of the others.

  If it never is (`[]Informed`), the reconciler implements the address pool
  (`ClaimsArePool`), and since an address pool is exclusive (`PoolExclusive`), no
  two claims hold one address (`AddressesAreUnique`). This is what the deployment
  has to guarantee, and what the code does not; a current claim cache does
  (`CurrentInforms`: between two calls the copy agrees with the server, because
  only the worker writes addresses and every patch returns the server's version),
  and so does any course of events in which the informer has caught up by the time
  of the choice.
- `ApiProofs`: `Spec => []EveryEntryWatched` (`CacheIsWatched`),
  `Spec => []RefusedNotRelayed` (`RefusedIsNotRelayed`), `Spec => []TypeOK`
  (`ApiTypeCorrect`) and `Spec => []ClientToldVerdict` (`ClientHearsVerdict`), for
  any callers of any kinds, lists, capacities, changes and faults: all safety
  properties of the run.

  The first needs that what is collected is
  referred to by nobody (`Referred`) and that a stream that runs has a list whose
  events it is sent (`SessionInv`). The second needs more than that a refused
  message is not being passed on (`RefusedInv`): its goroutine has been told no,
  or waits for the list that is in the cache now. It is inductive since an entry
  is never replaced in one step (`EntriesStay`), and only its own steps change
  what a goroutine has been told (`StepBusy`).

  The other two rest on a list of all that can happen to a list, to a question and
  to a stream (`ListStep`, `AskStep`, `StreamStep`), so that each further invariant
  is about a dozen cases and not about every action. `TypeOK` includes that the
  mutex of a list is held by a goroutine exactly as long as that waits for the API
  server (`MutexInv`, which tells what holds it in any phase). `ClientToldVerdict`
  compares the last event of four places, the list, the pump's hand, its channel and
  the client, and begins when a stream does; its invariant begins with the question.
  Nobody but the console asks the list of its key (`OwnInv`, with `PhaseInv` for
  where its goroutines may be meanwhile), so the list is unasked until the console
  has asked it (`Fresh`), and then says what the console was told or has an event
  for it (`Tells`), until the stream runs and the events it took are under way to
  the client (`Heard`). All are parts of `StreamInv`. That the last event is the
  last is a property of sequences (`Latest`, with lemmas on `Append`, `Tail` and
  `\o`).

What a stale cache, or a name used again, does to the other properties is shown by
these counterexamples, found by TLC on instances like those of the runs:

| Property | Violated with | Length |
|---|---|---|
| `UniqueAddress` | the instance of `MachineIPStale` (see above) | 17 states |
| `ReadyIsTrue` | `ClaimLag = 5`, one machine, four changes between two subnets, one restart: from a copy that shows no address the reconciler gives the claim another one, and later patches diff old copies, so that a status goes with an address and a generation it was not made of | 39 states |
| `NodesUseLeases` | `MaxUID = 2`: the worker still has the first machine of the name in hand as the secret of the second is published, and writes the first one's address into it, whose claim is collected | 14 states |
| `NodesUseLeases` | `ClaimLag = 3`: a cache that does not show the address yet lets the reconciler give a machine that has booted another one | 16 states |
| `EventuallyInSecret` | one worker, a control plane that scales, `ClaimLag = 2`, `MaxFaults = 1`: a claim is given another address from a copy that shows none, the call before the secret fails, and the retry reads a copy with the first address, finds that in the secret, and is done | 25 states |
| at most one late machine of a role | `MachineLag = 1`: the other machine's deletion is not seen yet | 25 states |
| `ReplacedUnlessStale` without its hypothesis on the secret cache | `SecretLag = 1`: the worker sees the secret as it was before its own patch, takes its machine for one that booted without the address, and has it replaced | 19 states |
| a machine that is replaced lacks a prefix of its address | a subnet that grows from 8 to 16 addresses: the machine booted with a prefix of the old length, and is replaced though it has the address | 19 states |

Only model-checked: all liveness (`EventuallyReady`, `EventuallyInSecret`,
`AllocationEnds`, `ServicesPublished`, `VerdictFollows`, `AskingReturns`,
`SessionEnds`), which is out of the prover's reach; and `NodesUseLeases`,
`ReplacedUnlessStale` and `ReadyIsTrue`, which hold for the lags and bounds of their
runs and not for every one. The three violations are counterexamples and have
nothing to prove.

## Not modelled

- Machine IP: an address a user presets in a claim; a `TalosConfig` that is
  missing or of another kind, a secret without `value` (both end the
  reconciliation, like a machine that is ignored); several
  clusters in a namespace (the list of claims is filtered by cluster, so pools of
  different clusters do not meet); the order of the addresses of a LinkConfig.
- API: authentication, origins and the switch that disables routes; what KubeVirt
  answers a power request, as far as it is only passed on; checks the console
  library makes on its own. A goroutine that is blocked for ever on the channel
  of a writer or pump that has ended is in the model, as a reader that stays in
  `sending` or `reading`; `SessionEnds` is therefore about writers and pumps only.
- Release and node pool: sizes, storage classes and volume modes as far as they
  are copied; NodeClass, Multus, disks, replicas and labels; informer lag, which
  shows there as a failed call that is retried; collection of a deleted pool's
  objects.
- Cluster and workload: ports, labels that do not match, services that are not
  load balancers; deletion of clusters; informer lag.
- The node, organization and virtual machine reconcilers: each copies fields of
  the one object it is called for in one patch (the virtual machine reconciler in
  a create-or-update and a status update, both from the same copy), decides
  nothing, and has no state a second step could disagree with. The node
  reconciler ends without a requeue when a node's machine is not in the cache yet
  and is told of machines by nothing; no text promises more.
- Talos patch types and manifests: data without behaviour.

## Plan

Done: every component above that is modelled, and the proofs named under Proofs.

Next, extending the model:

1. `MachineIP`: preset addresses; replacement that is put off
   (`reconcileLatePatchMachine` after a retry); a second role in one instance.
2. `IPv4Allocation`: the wrapped layout at the end of the address space.
3. `Ingress`: which of several gateway addresses each reconciler uses.

Then, proving more:

1. `NodesUseLeases` for names that are used again, once a hypothesis on the order of
   collection and creation is found under which it holds: that a machine is not
   created before the secret and the claim of its predecessor are collected.
2. How far the claim cache may be behind, without faults, for the worker to stay
   `Informed`: `CurrentInforms` has the case of a current one.
3. The layout of `IPv4Range` when its borders wrap.
