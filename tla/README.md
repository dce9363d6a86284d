# TLA+ models of lvs-nginx-controller

These modules model the controller that keeps the IPVS table of a load balancer
in step with the nginx ingress pods and the `tcp-services` / `udp-services`
configmaps of one Kubernetes namespace. TLC checks them on small instances;
TLAPS proves the safety properties for every instance.

## The system

| part | code | state | operations |
|---|---|---|---|
| event queue | `pkg/controller/controller.go` | `locker`, `cond`, the channel `lbstore` of three `*LBStore` | lock, wait, send, receive, unlock, Signal, Broadcast |
| pod handlers | `addrAddFunc`, `addrUpdateFunc`, `listCm` | `plbdata` | the informer's Add and Update of a pod |
| configmap handler | `updatePorts`, `listNginx`, `L4Compare`, `ValidatePort` | `clbdata`, `ExTcp/NwTcp`, `ExUdp/NwUdp` | the informer's Update of a configmap |
| workers | `processItem` | the store it has received | Add, Del and DelRServer per address and port |
| start | `RunController`, `Initial`, `Run` | progress of the main goroutine | first listing, informers, `WaitForCacheSync`, five workers |
| ipvs provider | `pkg/provider/ipvs/ipvsdr.go` | the kernel's table | `Init` (flush), `Add`, `Del`, `DelRServer` |
| informers | vendored client-go, `NewInformer` | reflector, DeltaFIFO, store of known objects | list, watch, list again, Pop, Process, `HasSynced` |
| generated client | `pkg/client`, `pkg/apis` | shared informer factory, indexer, users' copies | `InformerFor`, `Start`, `WaitForCacheSync`, lister, typed client, `DeepCopy` |

How they interact: an informer calls a handler with the lock of its DeltaFIFO
held. The handler locks `cond.L`, waits while the channel has three stores, fills
`plbdata` (pods) or `clbdata` (configmaps) and sends *the pointer*. A worker
locks the same mutex, waits while the channel is empty, receives a pointer and
applies what it points to *now*, with the mutex held, through the provider.
`Initial` fills `plbdata` and sends it before any informer runs. The generated
client is in the repository for a Configuration resource, but the program does
not import it yet (controller.go:19-23).

What is hard, and what makes each part correct:

- *Event queue.* Two kinds of waiters on one condition variable, Signal after
  unlocking, a send with the mutex held. Correct: mutual exclusion, no blocking
  send or receive under the mutex, no lost wake-up, first in first out.
- *Start.* The workers start last, but handlers that wait for them hold a lock
  which the start needs. Correct: the workers start, after both informers synced.
- *Port cache.* Three maps compared and updated in place over any sequence of
  updates, one of them sent again with every update of the other protocol.
  Correct: the map sent is the change of the cache and never contradicts it.
- *Provider.* Several netlink calls per operation, each may fail; services with a
  firewall mark are listed without port and protocol. Correct: each call touches
  its own routes only, in full or not at all.
- *Informers.* A reflector and a processing goroutine share a map and a slice;
  lists come again whenever a watch fails. Correct: the handler hears of each
  object in order, is told of everything the last list shows, and `HasSynced` is
  true exactly when the first list has been handled.
- *Everything together.* Stores overwritten by the next event, old versions
  handled in place of new ones, events lost with a watch, kill and restart.
  Correct, once all is applied: ready nginx pods serve the configured ports, and
  no others, and hosts without pods serve nothing.
- *Generated client.* Several goroutines share one informer and its objects.
  Correct: one informer, run once; what the lister shows is what the server had;
  concurrent updates lose nothing; waiting for the caches ends.

## Modules

| module | models | main correspondence |
|---|---|---|
| `LBChannel` | what the queue promises: `Put`, `Take`, `Done` on a channel with at most one store being applied | critical sections of handlers and workers |
| `EventQueue` | the goroutines, one action per step that another goroutine can observe | `pc[t]` is the place in `addrUpdateFunc`/`updatePorts` or `processItem`; `waiters` is the notify list of `cond` |
| `Startup` | `Initial`, `Run`, `WaitForCacheSync`, on top of `EventQueue` | `main` is the place in `RunController`; `FifoFree(h)` is `f.lock` of the DeltaFIFO |
| `L4Utils` | `ValidatePort` and `L4Compare` as operators | the three maps in, the three maps out |
| `PortTracker` | `updatePorts` and its effect through the channel on one real server | `Ex`, `Nw`, `delta` are the maps per protocol; `pending` counts the pointers in the channel; `fate` is history |
| `RouteTable` | what the provider promises: a set of routes | `Add`, `Del`, `DelRServer`, `Flush` |
| `LvsManager` | the provider and the kernel's table | each function is the set of its outcomes (table, error or nil) |
| `ObjectEvents` | what an informer promises: per object a sequence of versions, cut by lists | `Deliver` is a call of the handler with the store's version and the next; `List` and `Enlist` are the List call and `Replace` |
| `Informer` | reflector, DeltaFIFO and processing goroutine | `items`, `queue`, `populated`, `initialPopulationCount` as in `delta_fifo.go`; `reflector` is the place in `ListAndWatch` |
| `Controller` | API server, start and first lists, the handlers, a worker, kill and restart | `store.plbdata`, `store.clbdata`, `queue` of the names of the two; `seen`, `cmSeen` are the informers' stores |
| `ConfigurationInformers` | the generated client, used by several goroutines | `informers`, `startedInformers` are the maps of the factory; `seen` is the indexer; `working[u]` the object a user edits |
| `EventQueueProofs`, `PortTrackerProofs`, `LvsManagerProofs`, `InformerProofs`, `ControllerProofs`, `ConfigurationInformersProofs` | the proofs about the module of the same name; `EventQueueProofs` also has those about `Startup` | |
| `ControllerRoutesProofs` | the proofs about the routes of a settled controller | extends `ControllerProofs` |
| `L4UtilsProofs` | what `L4Compare` and `PortsOf` return | lemmas for `PortTrackerProofs` and `ControllerProofs` |

`Controller` composes the others by their promises: a handler is one step because
`EventQueue` implements `LBChannel` (whose `Put`, `Take` and `Done` it uses
through INSTANCE), each informer is an instance of `ObjectEvents`, which
`Informer` implements (property `KeepsPromise`), the kernel is the set of routes
that `LvsManager` implements, and `L4Compare` is that of `L4Utils`.
`ConfigurationInformers` stands on `ObjectEvents`, too. `Startup` extends `EventQueue` and, once
`Initial` has returned, implements its specification.

Modelling decisions worth knowing:

- `sync.NewCond(locker)` (controller.go:43) takes the mutex by value, which does
  not compile; the models take `cond.L` to be that mutex.
- `addrUpdateFunc(newobj, oldobj)` is registered as `UpdateFunc`, which client-go
  calls with the old version first (vendored `controller.go:309`). `Controller`
  therefore lets it act on the old version.
- The keys made by `addrAddFunc` and `addrUpdateFunc` end in a newline and those
  of `listNginx` do not. Only the part before the underscore is read, so one key
  per action and pod stands for both.
- The values of `Ex` and `Nw` are the constant name of the protocol, so the maps
  are the sets of their keys.
- A write to `plbdata.Addr` by `addrAddFunc` during a worker's range over it is a
  race: the new key may be visited, may not be, or the process dies.
- The process is restarted by whoever runs it; nothing in the repository does.
- An environment of `Controller` is a record: what may happen (`doings`), which
  pods and configmaps there are, whether a change may come before the last one is
  applied (`hurried`), and how often something happens. One run checks several of
  them at once; a property names the doings under which it is claimed.
- `ObjectEvents` lets a list lose any of the versions that are not handled yet,
  also some that the DeltaFIFO already holds: it promises less than `Informer`
  keeps, and `Controller` is checked against the weaker promise.
- A delta of `Informer` is the version it brings. A `Sync` of a version the store
  has already becomes an update from a version to itself, as in the code.
- A Configuration of `ConfigurationInformers` is its resourceVersion and the set
  of users whose edits it holds, which is what tells a lost or leaked edit apart.

## Runs

Bounds are constants: `MaxCalls`, `MaxChanges`, `MaxBreaks`, `MaxWrites` and the
`max` of an environment cap the events, `Capacity` is the 3 of the code
everywhere. Deadlock is checked except where the bound on events ends the
behaviour (`Startup*`, `Controller*`, `Informer`, `ConfigurationInformers`).

| run | expectation | what it shows |
|---|---|---|
| `EventQueue` | pass | 2 handlers, 3 workers: exclusion, nobody blocks on the channel with the mutex held, no lost wake-up; implements `LBChannel`; stores are served, and one of the handlers always gets on |
| `Startup` | pass | 2 events before the workers run fit beside `Initial`'s store; `Initial` may fail: informers synced before workers, workers start unless `Initial` failed, and all is as `EventQueue` says |
| `Startup_blocked` | violated | 3 events: the start never ends |
| `PortTracker` | pass | updates of both configmaps at any time, keys that wrap or are invalid: what `L4Compare` leaves never misleads; the kernel follows the cache of a protocol unless one of its changes overtook another |
| `PortTracker_reload` | violated | two quick updates: the ports of the first never reach the kernel |
| `PortTracker_dead` | violated | after an update of values alone the next one cannot remove ports |
| `LvsManager` | pass | failing calls, crashes, firewall marks: implements `RouteTable`; calls take effect; a nil of `DelRServer` is complete; only a failed call leaves a dead service |
| `LvsManager_marks_leak` | violated | firewall marks: `Del` misses the service of `Add` |
| `Controller` | pass | 9 environments: what survives which disturbance (table below) |
| `Controller_force_delete` | violated | a pod deleted at once keeps its routes |
| `Informer` | pass | 2 objects, 4 changes, 2 lost watches: implements `ObjectEvents`; map and slice of the DeltaFIFO agree; `HasSynced` is exact; the store is right but for two named cases; it always catches up |
| `ConfigurationInformers` | pass | 2 users, 1 object, 2 writes, 1 lost watch: one informer run once, a lister that shows what the server had, no edit lost, waiting ends |

What `Controller` shows of a state in which everything is applied:

| property | holds when these may happen | and fails, or is not claimed, because |
|---|---|---|
| `ReadyServed`: ready nginx pods serve every configured port | one event at a time: pods come, go, crash, are deleted for good; ports change at any time; kill and restart. A single pod at any speed: the same without changes of ports | with several pods a quick second event empties the `Addr` map of the first; two quick updates of a configmap overwrite each other's ports; a pod that leaves a shared host takes its successor's routes along; a lost watch or a configmap that comes and goes has no handler |
| `OnlyConfigured`: they serve no other port | one event at a time: pods come, go, crash, also on shared hosts if all pods are nginx pods, and ports change while no pod terminates; or no pod changes, and ports do at any time, with lost watches, kills and restarts | two quick updates overwrite each other; no handler is told of a deleted configmap; what makes routes stay on an empty host (next line, or a lost watch) leaves a port there that is no longer configured when the next pod comes |
| `StoppedUnserved`: a host without running pods serves nothing | one event at a time: pods come, go, crash, also on shared hosts; ports change and configmaps come and go while no pod terminates. A single pod at any speed: it comes, goes, crashes | a configmap change lists a terminating pod; a restart lists it, too; a pod deleted for good is never updated; a lost watch may skip the update that deletes |
| `FreshStartSynced`: a restarted controller has exactly the routes of its listing | everything but failing netlink calls, until the next event | |
| `CacheComplete`: the cache has every port of the last version a handler was told | everything | |
| `EventuallySettled`: the work ends | everything, unless the start is blocked | |

The violated runs check what a comment or document of the repository says; the
quotes are in PROJECT.json under "findings".

Why the bounds are enough:

- Three workers leave two sleepers when one is woken (main.go:57 starts five; the
  proofs cover every number). Three is the capacity in the code, and with two
  handlers and `Initial`'s store the channel fills.
- Two ports let one port come, stay or go while another does; two keys that spell
  the same port (80 and 65616) make updates that change the data and no port.
  The two protocols are symmetric in `updatePorts`, hence SYMMETRY.
- Two addresses give every service zero, one or two real servers. Port 80 is
  shared by TCP and UDP, port 0 is the one on which libipvs panics; marks 0 (no
  mark) and 1 make services with and without mark, and a mark that is drawn
  twice. With a mark of 0 possible, the unmarked behaviours are among them.
- The environments of `Controller` have bounds from 2 (every disturbance) to 9
  (two pods that follow each other on a host, ports changing): five changes are a
  pod's whole way from ready to absent with two other events among them, six bring
  it back, nine let one pod replace another on a host; eight are more than
  one life of a pod at any speed. Two ports let one be deleted from the map of
  `clbdata` by the update that adds the other; with one port two quick updates
  never lose anything. The proofs hold for any bound, and it was they that showed
  where smaller ones were too small: `ReadyServed` fails for quick changes of
  ports only if there are two of them, and the routes that stay on an empty host
  take eight events to reach `OnlyConfigured`. A pod that is no nginx pod is there
  for the handlers that do not look at the name.
- Two objects let the DeltaFIFO have one in the queue while the other is popped
  or listed; four changes and two lost watches let an object be created again
  between two lists, and a second list find the first one's objects queued.
- In `ConfigurationInformers` the object may exist at the start, so two writes
  are enough for two users to update from the same version; objects do not
  interact there but in the count of the first list, which `Informer` has.

What the code does that no run states as a property of its own:

- A failed `Initial` returns with the mutex locked (controller.go:76) and
  `glog.Fatalf` (main.go:55) is logdog's, which only logs: `Run` goes on, and
  everyone waits for the mutex. `WorkersStart` names this as its exception.
- A configmap change while a pod terminates lists the pod as one to add
  (controller.go:186); if its deletion was handled before, its routes stay.
  `StoppedUnserved` therefore leaves such changes out (`"anytime"`), and
  a restart while a pod terminates (`"kill"`).
- Two quick pod events: the second empties `plbdata.Addr` (controller.go:268)
  before a worker has applied the first, also when the first is `Initial`'s
  store with all pods. With hurried events the properties claim something only
  of an environment with one pod whose configmaps do not change.
- Routes that stay on a host without pods are not updated with the configmap
  (controller.go:185 lists pods only). If a port is taken out of the configmap
  meanwhile, the next pod on the host serves it. `OnlyConfigured` leaves out what
  makes routes stay: `"anytime"`, `"kill"` and `"gap"` when pods change, too.
- `DelRServer` for a pod that has left removes all routes of its address
  (controller.go:357). With hostNetwork (docs/design.md:1) a successor that was
  added before loses them. `ReadyServed` holds if it starts after the host is free.
- A crashed pod has no deletion timestamp and keeps its routes
  (controller.go:272), and any other pod of the namespace gets routes when it is
  updated (controller.go:260 does not compare the name).
- A netlink call that fails is not tried again until the next event of the same
  pod or a restart.
- A list that finds an object created again while its deletion is still queued
  drops it, and one that does not find an object whose creation is still queued
  leaves it in the store (`astray` of `Informer`); the next event repairs it.
- An update of one protocol sends the last change of the other again
  (controller.go:129); `DeltaAgreesWithEx` is why this does no harm.

## Fairness

- A goroutine that can run runs: weak fairness for its steps.
- `Lock` has strong fairness: `sync.Mutex` hands over to a goroutine that has
  starved for a millisecond. The same holds for `Ask` and `Sync` of `Startup`,
  which wait for the lock of a DeltaFIFO.
- Events have none: nothing has to happen in Kubernetes.
- `Controller`'s `Start` has weak fairness: whoever runs the controller starts it
  again. Its informers list and call their handlers, its worker works. Changes are
  bounded, so they end; `EventuallySettled` is about what the controller then does.
- `Informer`: `List` and `Process` have weak fairness, `Replace`, `WatchEvent` and
  `Pop` strong fairness, as they compete for the lock of the DeltaFIFO. Lists
  succeed in the end.
- `ConfigurationInformers`: the goroutines of the informer and the polls of
  `WaitForCacheSync` have weak fairness; users and `Stop` have none.

## Proofs

`tlapm <module>.tla` checks one proof module. TLC evaluates the assumptions on the
constants in every run, and every invariant below was checked by TLC on the
instance of the run before it was proved.

**EventQueue**, from `QueueAssumption` (at least one handler and one worker,
disjoint, finitely many handlers and no more of them than slots). The safety
properties the run checks are not inductive. `Inv` adds: `waiters` are exactly
those at `wait`; a worker that processes holds a store; and `Covered`: while all
workers sleep, there are no more stores in the channel than handlers with a
pending Signal, and no handler sleeps. `Covered` is what makes one Signal per
store enough: the last worker to fall asleep leaves an empty channel, each store
sent afterwards brings its own Signal, and as there are no more handlers than
slots no handler can find the channel full meanwhile and take the Signal away.
There is one lemma per conjunct, one step per action in each. `Implementation`
then shows that every step is a step of `LBChannel` or a stutter, with exclusion
giving at most one store being applied.

**Startup** (second part of `EventQueueProofs`), from `QueueAssumption` and
`StartupAssumption`. `StartInv` is the invariant. A worker starts only
after every handler has synced because `WaitForCacheSync` counts the informers it
finds synced in one round and an informer never becomes unsynced: the first
`asked` informers of `SyncOrder` are synced (`AskedSynced`). `NobodyYet` says that
before `Initial` has returned, and for ever if it fails, the channel is empty and
no goroutine gets past `cond.L.Lock()`. `QueueImplementation` proves that
the program is `EventQueue` from the return of `Initial` on, without which the
proofs about the queue would not speak of the program: while `Initial` holds the
mutex the mapping shows a free mutex and its store as sent, and no goroutine can
contradict that, as none gets the mutex.

**PortTracker**, from `TrackerAssumption`. `L4CompareSpec` states what `L4Compare`
returns in either branch, `UpdateEffect` what follows for an update. The
invariant is the conjunction of the type invariant, `NwEmptyOrEx`,
`DeltaAgreesWithEx` and `Synced`: unless a change was overtaken, the kernel serves
the cache, or a pointer is in the channel and applying the map gives the cache.
`fate` is a history variable that records which of the three holds. The two action
properties follow from the invariant.

**LvsManager**, from `ManagerAssumption`. Each call is analysed alone: lemmas
(`AddSpec`, `DelSpec`, `DelRServerSpec`) state what it returns for any table, with
or without failures; for `DelRServer`, that it takes nothing but destinations on
the address whatever fails, and leaves none if it returns without an error.
`NoNewDeadService` and `DelRServerComplete` follow call by call. The others need
the strengthening `PortsMatch`: in the services without mark, a destination has the
port of its service. Without it the route of a destination could not be read off
from its service, neither for `CallsTakeEffect` nor in the refinement.

**Informer**, from `InformerAssumption`. `Inv` adds to the properties that the
popped object is not queued again (`HandMatches`), that before the first list is
queued the DeltaFIFO has nothing of it (`FreshBefore`), and that what `HasSynced`
counts is exactly what is unheard of the first list, some still queued and at
most one in the hands of `Process` (`CountedUnheard`). For `StoreUpToDate`,
`CurrentInv` says that for each object the store, changed by the deltas queued,
the list under way and the changes the watch will bring, gives the version in the
API server, unless the object is `astray`.

`PromiseKept` is the refinement: every step of an informer is a step of
`ObjectEvents` or a stutter, under a mapping that puts together what is in the hands
of `Process` and in the DeltaFIFO (`Held`), the list that is not queued yet
(`ToBeQueued`) and the changes the watch will bring (`Coming`). `Coming` takes the
changes of one object out of the stream of all; the lemmas from `RankSpec` to
`PickedTail` say what that gives when the stream grows at its end or loses its
front, and `ComingChange` to `ComingKept` what each action does with it. `Pop`, a lost
watch and most events of the watch only move versions from one part to the next.
`Replace` drops what `Enlist` drops, a deletion that `Delete` or the
deduplication swallows is `Spare`, and `Process` is `Deliver`. The mapping needs
`cut <= Len(stream)` (from `ListRight`) and, of `Inv`, that nothing is queued behind
what `Process` has in hand. So what `Controller` and
`ConfigurationInformers` assume of the informers holds of the code of client-go for
any number of objects, changes and lost watches, not only on the instance.

**Controller**, from `ControllerAssumption`. `Typed` has the types. `CacheInv`:
`Nw` is empty or equal to
`Ex` (only an update that changes no port leaves it filled), the cache has the
version in the informer's store unless that came without a call of `updatePorts`,
and the map of `clbdata` adds only what the cache has and deletes nothing of it.
It is kept by every step of every environment, kills and lost watches included.
`FreshInv`, for `FreshStartSynced`: until something happens, each object is
notified at most once, with the version `Initial` has listed, so `addrAddFunc`
adds only keys that `plbdata` has and no handler sends anything; meanwhile the
store of `Initial` waits, or is applied and the pods whose key is no longer in
`todo` have all their routes, or has been applied; no other route exists. The race between `addrAddFunc` and
the worker's range is covered: a key visited twice does no harm.

**Routes of the controller** (`ControllerRoutesProofs`), from
`ControllerAssumption`. `ReadyServed`, `OnlyConfigured` and `StoppedUnserved` speak
of states in which everything is applied; the invariant must say what is still due
in all others, and that differs with the environment. `RoutesInv` is the
conjunction of the three above, of what environments alone give (`ServerInv`:
which objects exist, one running pod per host unless hosts are shared), of
`FreshRest` (until something happens, cache and maps are those of `Initial`), and
of three groups of environments:

- `PlainInv`, where a change finds the last one applied, no watch is lost and no
  call fails. `OneAtATime`: one object is on its way to its handler, or one store
  to the kernel, never two. What a worker has still to visit is `Due`.
  `ReadyRouted`: a pod the informer has seen ready has every port of the cache, or
  `Due` has its address to add with the missing ports. `Occupied`: a host with
  routes has a pod that runs, or its deletion is due. `Clean`: a host has ports of the
  cache only, or the others are due to be deleted. `ReadyKept`: no deletion is due
  for the host of a ready pod. As `addrUpdateFunc` acts on the version before the
  last, these are about `seen`, the version handled last. While the process starts,
  `FreshInv` has what holds; `Following` begins when its listing has been applied.
- `StaticInv`, where no pod comes or goes, for lost watches and kills at any time.
  Each map on its way is complete: `clbdata` has all addresses, `plbdata` all
  ports. A route of an nginx pod that is neither in the cache nor in the configmap
  is about to be deleted (`NoneElse`).
- `AloneInv`, for one pod whose changes wait for nothing. Several stores are in the
  channel then, but all are the pointer to `plbdata`, so only the last content
  matters. `Chain`: the versions queued for the handler follow each other in the
  life of a pod, after the first list. `Serving` and `Clearing`: the last content
  adds the pod, or deletes it, and when the worker has done so, its host has all
  ports, or none. `WaitsRight` carries `Initial`'s map past the first
  notification of the pod, `DownInv` the pod through a restart.

Each lemma takes one action in one group. `RoutesStep` puts them together, and the
three theorems read their property off `RoutesInv` when `Settled` holds.

**ConfigurationInformers**, from `ConfigurationInformersAssumption`. `CopiesRight`
is the heart of `EditsKept`: every copy of an object, in the server, the
informer's queue, the indexer or a user's hands, that carries the resourceVersion
the object has now, carries all edits the object has now; a new resourceVersion
is larger than all given before, so no old copy comes to carry it. `StartedOnce`,
`WaitsRight`, `FirstListOnly` and `SeenPossible` follow the informer from `Start`
to its first synced state, for `SyncedStays` and `ListerShowsServer`.

Only model-checked: liveness (`QueueServed`, `HandlersProgress`, `WorkersStart`,
`EventuallySettled`, `EventuallyCaughtUp`, `WaitEnds`), which rests on fairness and
is outside the prover's reach. Every other property of a passing run is a theorem.

## Not modelled

- Parsing of options, the iptables commands, `Intf`, scripts: I/O without effect
  on the state of the controller. Scheduler, timeout, forwarding method and
  weight of a service: written once and read by nobody.
- Of the generated client: building REST clients, scheme registration, the fake
  clientset, `ForResource` (it calls `Informer`), custom resync periods, and the
  selection by namespace and list options, which is the same for all users of a
  factory.
- Of client-go: resync (the controller's informers have the period 0), the end of
  an informer, listers of shared informers with handlers of their own, and several
  API servers, of which one might answer a list with an older state.
- Malformed pod addresses: the API server gives none. `ValidateIPv4` accepts more
  than four parts, which therefore never matters.
- `listCm` matches configmap names by `strings.Contains` and `updatePorts` by
  equality; the models have one configmap per protocol.
- Shutdown: `wait.NeverStop` never closes, so `close(lbc.lbstore)` never runs.
- Changes of a configmap's values alone are in `PortTracker` only, an `Initial`
  that fails in `Startup` only.

## Plan

Written first: the queue (the rest relies on its promise), the port cache, the
provider, the start, the whole. Then the informers, the whole on top of them with
shared hosts, failing netlink calls and the window between `Initial` and the first
lists, and the generated client. Next: `Controller` as a refinement of a
specification of the intended routes for calm environments.
