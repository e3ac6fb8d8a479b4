# Verification of cluster-api-provider-ionoscloud

TLA+ models of the controllers of this repository, model-checked with TLC on small
instances, and proofs checked with TLAPS. The modules are translated from the Go
code under `src/`; `PROJECT.json` maps every definition to the lines it stands for and
lists the runs, the mutants, the hazards, the findings and the theorems.

## The system

The provider reconciles two kinds of Kubernetes objects against the IONOS Cloud API.

- **Cluster controller** (`internal/controller/ionoscloudcluster_controller.go`). For
  an `IonosCloudCluster` it reserves an IP block and makes its address the control
  plane endpoint. When the cluster is deleted it waits for the machines, deletes
  the block and removes the finalizers of the credentials secret and of the cluster.
- **Machine controller** (`internal/controller/ionoscloudmachine_controller.go`). For an
  `IonosCloudMachine` it runs a sequence of steps: LAN, IP address claims, server, IP
  failover, provisioned. Deletion runs another sequence: failover group, server, LAN,
  failover IP block, claims, finalizer. Machines are reconciled concurrently, each by
  one goroutine at a time.
- **Cloud services** (`internal/service/cloud`). The steps. A change in the cloud is a
  request that is QUEUED, RUNNING and then DONE or FAILED. A step requests at most one
  change, requeues, and finds out in a later reconcile how it went: from the path
  recorded in the status, or from the list of requests of the last 24 hours
  (`findResource`: look the resource up, look for a creation request, look up again if
  that one is done).
- **Locker** (`internal/util/locker`). A mutex per key. Steps on what machines share
  (the LAN, its failover group, the failover IP block) run under a key.
- **Scopes** (`scope`). A reconcile works on a copy from the informer cache, which
  may be stale. A deferred patch writes what the reconcile changed, metadata and spec
  in one call, the status in another.

Machines share the LAN, its failover group and the failover IP block, so the models of
these have several machines. The server, the addresses and the endpoint belong to one
object each, so their models have one reconciler and its environment.

## Modules

| Module | Models | State and actions |
|---|---|---|
| `KeyedMutex` | what the locker promises | who waits for and who is inside a key |
| `Locker` | `Lock`, `Unlock` | `l.mu`, `l.locks`, the channel and the counter of every entry; a step per atomic part of the code, cancellation of the caller's context |
| `ManagedResource` | what the controllers promise of a resource they create in the cloud for an object, or for several together | the resources that exist or are being created, those created, whether an object has its finalizer, whether one was deleted |
| `CloudAPI` | the cloud as `request.go` sees it (mostly external) | the requests, oldest first, and the resource that each POST creates |
| `ClusterLAN` | `ReconcileLAN`, `ReconcileLANDeletion`, `findResource`, `checkRequestStates` in both sequences | per machine: object, cached copy, program counter, the copy of `currentRequestByDatacenter` its scope was made with, server; the lock; the cloud |
| `ControlPlaneEndpoint` | the cluster controller, `ReconcileControlPlaneEndpoint(Deletion)`, the credentials finalizer | the object, its cached copy, the reconcile's copy and what it was read as; the cloud |
| `MachineServer` | `ReconcileServer`, `FinalizeMachineProvisioning`, `ReconcileServerDeletion` | as above, and bootstrap secret, running servers, boot volumes |
| `IPFailover` | `ReconcileIPFailover(Deletion)`, `reconcileNICConfig`, `patchLAN`, `FindLatestMachine` | per machine: object, NIC, server, the failover IP, the NIC and the config read; the group and the pending PATCHes of the LAN; the IP the endpoint resolves to |
| `FailoverIPBlock` | `retrieveFailoverIPForMachine` and `ReconcileFailoverIPBlockDeletion` for workers with `failoverIP: AUTO` | per worker: object, the block and the request found, server, NIC; the lock of the deployment, the group, the cloud |
| `ImageLookup` | `image.go` as operators, and a reference definition (`Selected`) | none |
| `IPAddressClaims` | `ipam.go` | the claims, their cached copies, the cached addresses; a step per claim |
| `MachineProvisioning` | `Reconcile` of the machine controller with its early returns and watches; composes `IPAddressClaims` and `ImageLookup` with `createServer` and `buildServerEntities` | the object, its cached copy, the reconcile's copy; what the cache says of the other objects; the work queue; the server with its NICs, addresses and image |
| `LockerProofs` | | theorems about `Locker`: its invariants; that it implements `KeyedMutex` |
| `CloudAPIProofs` | | lemmas on what requests do to the cloud's resources, used by the next four, and on how a step moves a managed resource |
| `ClusterLANProofs`, `FailoverIPBlockProofs`, `MachineServerProofs`, `ControlPlaneEndpointProofs` | | theorems about the modules they are named after; that the first three implement `ManagedResource` |
| `IPFailoverProofs`, `MachineProvisioningProofs` | | the same, the last one also about `ImageLookup` and `IPAddressClaims` |
| `MC*` | | instances for TLC |

A reconcile is a sequence of actions, one per call whose place among the steps of others
matters. What happens between two such calls (in memory) is merged into the call before
it, and so are calls nobody can come in between of: `DeleteBlock` of `ControlPlaneEndpoint`
lists the block's requests and deletes it in one step, because only this reconciler makes
such requests, and `PatchNIC` of `IPFailover` likewise. `pc` says which call is next and is
reset, with the local variables, when the reconcile returns.
The environment of a model has those of these actions that concern it: the cache follows
the API server; the cloud runs, finishes or fails a request; requests drop out of the 24
hours; a call returns an error (`StepError`); the process restarts (`Crash`); users delete
objects. In `MachineProvisioning` the other controllers and the user provide the
prerequisites of a machine in any order, pause the cluster and change the networks of the
spec; the labels and the image of the spec are any of `Selections` and do not change once
they were read.

The models of the steps leave the rest of the sequence out or let it go on, requeue or
fail, so each shows its own part of the machine controller:

- `MachineProvisioning` has what starts a reconcile. Nothing else starts one there: a
  skipped reconcile returns without a requeue, and an event that no watch covers would
  leave the machine alone. The other models start a reconcile at any time.
- `FailoverIPBlock` takes the PATCH of a NIC or of the LAN and the wait for it as one step,
  and so the way from the start of a reconcile through the LAN and the server; of
  `currentRequest` it has the requests of the block only. `IPFailover` has the detail of the
  PATCHes, reading, patching and waiting apart, and takes the failover IP of a worker as given.
- `ClusterLAN` does not keep a cached copy of the cluster: a reconcile starts with the recorded
  request, or, as a fault, with any earlier one or none, which a stale cache can have. The
  status of a recorded request may be unknown (`CheckRequestStates` answers without it).
- `MachineServer` has the requests of the server; `MachineProvisioning` has what is in it.

Abstractions that the models share:

- A resource's ID is the index of the request that created it. IP addresses are the
  ID of their block or a small number.
- Matching requests by URL and by the name in the request body is matching on
  method, name and ID.
- A reconcile takes less than 24 hours, so requests do not drop out of the list
  during one. They do between two reconciles, except in `FailoverIPBlock`, which does not
  cover block requests older than that.
- The cloud executes requests for the same resource in order, refuses a creation above
  a quota (`MaxCreates`), and refuses to delete a LAN to which a NIC is attached
  and a server whose NIC is in a failover group. The code relies on the last two.
- An image has a location, a creation date, and a name that contains the machine's version
  or does not. A claim stands for one IP of one NIC and its address is identified with it.
- The conditions other than `MachineProvisioned`, recorded events, logging and the user data
  are left out.

The lock of `ClusterLAN`, `IPFailover` and `FailoverIPBlock` is the owner variable of `KeyedMutex` for one
key; that `Locker` implements `KeyedMutex` is checked and proved.

## Runs

`faults` counts failed requests, failed calls, failed patches, abandoned waits, crashes,
stale copies of the cluster (in `ClusterLAN`) and moves of the endpoint together.

| Run | Instance | Shows |
|---|---|---|
| `locker` | 3 callers, 1 key, 3 entries | one caller per key; `Unlock` does not panic or block; no entry stays behind; the locker implements `KeyedMutex`; who does not give up gets the key |
| `lan_safety` | 2 machines, 2 creations, 1 fault | one LAN or creation at a time; the LAN is a managed resource of the machines (`LANManaged`), so none is left when the last one is gone; no second deletion while one is pending, although checking for one and deleting are two calls |
| `lan_liveness` | 2 machines, 1 creation, no fault | all get a server, or all go |
| `endpoint` | 3 reservations, 2 faults, endpoint set by the user or not, secret deletable | one block; endpoint and recorded block agree; the endpoint outlives the machines; with an endpoint of the user's no block is reserved or deleted, also after the user removed theirs; the finalizer goes after the block; the cluster gets its endpoint, or goes, while its credentials secret is there |
| `server` | 2 creations, 1 fault, cluster deletable | one server; none left behind; the server is a managed resource (`ServerManaged`); no boot volume left behind; provisioned means running; the machine gets its server, or goes |
| `failover` | 2 control plane machines, or one and a worker, 2 IPs to which the endpoint may resolve, 1 fault or move of the endpoint | one entry per IP; one PATCH at a time; a provisioned machine's NIC has the IP; a machine that is deleted alone goes; the IP of a machine that stays is on its NIC and in the group in the end, also after a move |
| `failover_block` | 2 workers, 2 reservations, 1 fault | one block; none left behind; the block is a managed resource of the workers (`FailoverBlockManaged`); a worker that stays ends up with an IP of a block that exists, also when another one deleted the block meanwhile; the last worker goes |
| `provisioning` | 2 NICs with a pool each, one of them removable, 3 images, both policies, 1 pause, 1 fault | the addresses of every NIC are those of its own claims; they are held until the server is gone; the image is the one selected; no claim is left behind that the deletion could see; no missed event keeps a machine from being provisioned or from going, and the status ends up right |

Why the bounds are enough: two machines are the least number with which a race for
the LAN, the group or the block happens, and every race in the code is between one
holder of the lock and one other machine; two creations let a resource be created, lost
(failed or deleted) and created again; a second fault, which interrupts a recovery, is in
the `endpoint` run only, and the safety properties are
proved for any number. The quota makes the state space finite and is itself a behaviour of
the cloud; the endpoint run needs three reservations, because two of them may fail. Keys of
the locker do not interact (`l.locks` is indexed by the key, and `l.mu` is held for a
bounded time), so one key is enough for liveness; the safety properties are proved for any
number. `lan_liveness` has no fault because two machines with one are beyond TLC in
reasonable time. In `provisioning` image 3 is the newest and lacks a label, and two images
fit, so a lookup that ignores labels, dates or the policy shows; one pool per NIC of
different formats is enough to tell a swapped NIC or a forgotten format.

Runs that refute a comment of the code (`findings` in `PROJECT.json` quotes the lines):

| Run | The code does |
|---|---|
| `endpoint_panic` | a finished reservation without a block makes `ReconcileControlPlaneEndpointDeletion` dereference nil |
| `endpoint_leak` | the cluster's finalizer is written by the deferred patch only, after a block was reserved |
| `lan_network_id` | with `spec.networkID` the first machine to go deletes the LAN; it and the others then fail for ever in `getLAN` |
| `failover_livelock` | two machines deleted together hand the failover entry to each other for ever |

Smaller disagreements are in the models without a run of their own:

- A finished request of the machine overrides the answer of `checkRequestStates` for a
  pending one of the cluster; `ReconcileLAN` then looks the LAN up itself, and
  `AtMostOneClusterLAN` holds.
- `FindLatestMachine` finds nobody when the receiver is the newest machine and is listed
  first; the deletion of its server is then refused by the cloud and tried again, and
  `NoLoneMachineStuck` holds.
- A reconcile that starts from a stale copy and fails sets `MachineProvisioned` to False
  again, and one that ends after `ReconcileIPAddresses` leaves `machineNetworkInfo` with the
  claims' addresses only. `EventuallyProvisioned` says that both come right.
- `ReconcileIPAddressClaimsDeletion` skips a claim that the cache does not have yet and one
  whose network was removed from the spec; such a claim keeps its finalizer.
  `ClaimsReleased` excepts exactly these (`missed`).
- When the endpoint resolves to another IP while a PATCH of the NIC is pending,
  `reconcileNICConfig` waits for that PATCH and takes it for its own. `ReadyNICHasIP`
  excepts an endpoint that has moved; `FailoverKept` says that the next reconcile puts it right.
- When the endpoint moves under two control plane machines, the one that is not in the group
  appends an entry for the new IP while the other's has the old one, which
  `reconcileIPFailoverGroup` then changes to the new IP as well. The group keeps two entries for
  one IP, which the log message "Another NIC is already defined in this failover group"
  rules out. `OneEntryPerIP` excepts exactly this (`OneIPForAll`).

One invariant one might expect does not hold and is not claimed: that the failover IP of a
provisioned machine is always in the group. Machines are counted before the lock is
taken and the list is read before the pending PATCH is looked for, so an entry can be
lost for a while. `FailoverKept` says that it comes back: every reconcile of a
machine that stays (controller-runtime resyncs periodically) adds a missing entry.

## Fairness

- Weak fairness of a machine's `Reconcile`: every unfinished reconcile returns a requeue
  or an error, and a finished one is started again by a watch event or the resync.
- Strong fairness of the lock steps: `BackgroundCallerAcquires` of `Locker`. There the
  Go runtime serves blocked senders of a channel in order, which is strong fairness of
  `LockAcquire`.
- Weak fairness of the cache and of the cloud's execution of requests: caches catch up,
  requests are executed. Failing is never forced.
- Strong fairness of the 24 hours in `ControlPlaneEndpoint`: time passes. A machine
  or a cluster may have to wait until an old request is forgotten.
- `MachineProvisioning` has weak fairness of a reconcile that the work queue holds, and
  none of what starts one: a requeue and an error put the machine into the queue, events do
  when a watch covers them. The IPAM provider answers and the caches follow.
- In `IPFailover`, strong fairness of the swap that patches the LAN: the cache lists
  objects in random order (a Go map), so the order in which `FindLatestMachine` finds
  nobody does not come up every time.

## Proofs

Every invariant, action property and refinement that a run checks is proved, with all
constants arbitrary: any number of machines, creations, faults and pauses. `MaxCreates`
is then any quota of the cloud, and `MaxFaults` any bound on what goes wrong.

`LockerProofs` proves, for any finite set of callers, and any keys and entries, the type
invariant, `MutualExclusion`, `UnlockSucceeds` and `NoStaleEntry`, and
that `Locker` implements `KeyedMutex` (each step is a step of `KeyedMutex` or leaves its
variables alone). Assumed are only that the set of callers is finite, that background callers are
callers, and that `None` is neither a caller nor an entry (`LockerAssumption`).

None of these is inductive. Mutual exclusion follows from "a holder's entry is the one
the map has for its key, and its channel is full by this holder alone"; that the
entry is not deleted under a waiter follows from "the counter is the number of callers
that registered and did not decrement yet". The counter is decremented outside
the mutex, so a caller between acquisition and decrement is counted although it
does not wait. `LockerInv` has these three facts. The counting argument uses the
cardinality facts of `FiniteSetTheorems`.

`ManagedResource` is implemented by the LAN, the server and the failover block. It is a state machine
of seven steps: a resource is requested only while an object has its finalizer and there is
none; it is created or lost; a created one goes only after an object was deleted; the
last finalizer goes when there is none. `LANImplementsResource`, `ServerImplementsResource` and
`FailoverBlockImplementsResource` prove that every step of the detailed module is one of these or leaves the
four variables alone. For the LAN and the block "held" and "ending" speak of any of the
machines, so the abstract steps hide which of them acts. The argument is the same three times:

- a step changes the cloud or the objects, never both. A step that makes no call
  moves one object at most, and the invariant after it (`OwnerInv`, `NoOrphanedFailoverBlock`,
  `ObjectInv`) says that without a finalizer nothing is left;
- a POST happens where the reconcile knows that there is nothing (`Knows`), for an object with a
  finalizer; `ResourceRequested` makes it a `Request`;
- every other call and every step of the cloud is `Complete`, `Fail`, `Remove` or nothing
  (`ResourceStep`). `Remove` needs that a deletion was requested, and a deletion is requested only by a
  reconcile that saw its object deleted. For the LAN and the block that is an invariant of its own
  (`DeletionInv` in their proof modules).

The endpoint's block does not implement `ManagedResource`: it is reserved before the cluster's finalizer
is written (`endpoint_leak`).

`CloudAPIProofs` has the facts that the LAN, the failover block, the server and the endpoint
share. `CloudInv` says what the requests say of each other: pending ones are in the list of the
last 24 hours, a failed creation left no resource, a resource whose deletion is DONE stays
away, requests for one resource are executed in their order. Every step of the cloud and every new
request keeps it. The lemmas also say what such a step can do to the resources that
are there or being created: nothing is added except by a POST, and a resource that is created
stays until its deletion is requested.

`ClusterLANProofs` proves, for any set of machines, any quota and any number of faults, with
and without `spec.networkID`, the type invariant, `AtMostOneClusterLAN`, `NoOrphanedLAN` and
`DeletesOnce`. Assumed are the types of the constants and that `None` is not a machine
(`LANAssumption`). The induction needs `LANInv`: `CloudInv` and

- `FindInv`: the LAN is the newest one requested, so the request `findResource` finds is its
  creation; and what the holder of the lock found out remains true. After a lookup
  without result every LAN is still recent, after the request list showed a finished
  creation no creation is pending, and at the decision "no LAN and nothing pending" means
  that there is none. Each of these is needed for the next: without the second lookup
  the last does not follow.
- `ObjectInv`: the cached copy is never ahead of the object, a normal reconcile runs
  only for a machine with a finalizer, a machine with a server has one too.
- `OwnerInv`: while there is a LAN some machine stays that has not passed
  `ReconcileLANDeletion`; and a machine that sees the LAN in use knows of another one. That
  is not a property of the LAN alone: it holds because a machine looks for NICs after its
  own server is gone and because the lock keeps the other one from passing meanwhile.

`DeletesOnce` needs more, `OnceInv`: when a machine comes to delete the LAN, no deletion of it is
pending. The machine found the latest deletion finished, or none, and an earlier one
is finished when a later one is (`CloudInv`); the lock keeps others from deleting in between.

`IPFailoverProofs` proves, for any finite set of machines, any workers among them, any IPs to which
the endpoint may resolve and any number of faults and moves, the type invariant, `OneEntryPerIP`,
`PatchesSerialised` and `ReadyNICHasIP` (`FailoverAssumption`: machines are positive numbers,
finitely many, workers are machines, and the IPs differ from the workers'). A PATCH replaces the
whole list, so `FailoverInv` says of every list, that of the LAN, those that reconciles hold and
that of the pending PATCH, that it has one entry at most for the workers and one for the control
plane, and that each entry has an IP its machine has had; so an entry that gets another IP or
is handed over to another NIC cannot meet a second one. For the control plane this holds
as long as the endpoint has not moved, or has only one machine (`OneIPForAll`). For the NIC it says
that a request that was made brings the failover IP, one that is done has added it, and a
machine looks at the group only with its IP on the NIC, if the IP is still the same.

`FailoverIPBlockProofs` proves, for any set of workers, any quota and any number of faults, the
type invariant, `AtMostOneFailoverBlock` and `NoOrphanedFailoverBlock` (`BlockAssumption`). `BlockInv` has
`CloudInv`, that the block is the newest one reserved, and what the holder of the lock
knows at each step, `Knows`. The argument for the last worker differs from that for the LAN:
a worker that skips the deletion has seen an entry of the group with the block's IP. Entries belong to
workers with a server (`GroupInv`), the server of this one is gone, so it is
another worker's, and a worker with a server has its finalizer (`ObjectAt`).

`MachineServerProofs` proves, for any quota and any number of faults, the type invariant,
`AtMostOneServer`, `NoOrphanedServer`, `BootVolumeNotLeaked` and `ProvisionedHasServer`
(`ServerAssumption`). No lock protects a server: its machine is reconciled by one goroutine, but
what that one has seen outlives the calls it makes. `ServerInv` has `CloudInv`, `Newest` and
`Knows` as for the LAN, and

- `Seen`: the server that the lookup found is still the only one when the reconcile decides; if it
  had no boot volume it has none now, and if it ran it still runs unless the machine was
  deleted meanwhile.
- `ObjectInv`, `ReconcileInv`: without the finalizer there is no server; a normal reconcile has the
  finalizer on the object and on its copy; a reconcile that has dropped the finalizer from its
  copy is about to write it and found no server. So a patch that is lost or repeated, and a copy that is
  stale, are harmless.
- `BootInv`: a server whose deletion does not take the volumes along has no boot volume and
  gets none. It needs that a creation which is still pending already shows its boot volume.
- `ProvisionedInv`: as long as the machine is not deleted no deletion is requested, so the
  server that made any of the three copies "provisioned" still runs.

`ControlPlaneEndpointProofs` proves, for any quota and any number of faults, with and without a
block of the user's, the type invariant, `AtMostOneBlock`, `EndpointMatchesBlock`, `UserEndpointKept`
and the action properties `EndpointOutlivesMachines` and `FinalizerAfterBlock`
(`EndpointAssumption`). Host, block ID and finalizer are written by the deferred patch only, in two
calls, so any of them may be missing while the block exists. `EndpointInv` has `CloudInv` and

- `Newest`: after a block that exists, is being reserved *or was once created*, none is
  reserved. The last case is what makes host and ID agree: every copy has 0 or a block that was created
  (`CopyInv`), and there is one such block at most.
- `Knows`, `Seen`: what `findResource` found out; a reconcile of a deletion that is past the machines
  has seen that there are none, and none come back.
- `StateInv`, `Undeleted`: a deletion of a block is requested only by a reconcile that saw the
  cluster deleted and no machines; before that every block that was created is there.
- `UserCreated`, `UserHost`: with a block of the user's every copy has its address as the host
  from the start, so no lookup ends with "no block" and nothing is reserved; the user's block is
  the newest one (`Newest`), so it is the only one, and its name keeps it from being deleted.

`MachineProvisioningProofs` proves, for any images, labels, specs, pools and networks and any number of
pauses and faults, that `lookupImageID` returns only images that the reference
definition allows (`LookupSelects`) and, unless a label that matches has outlived its image, can
return each of them and does not fail when there is one (`LookupFinds`), the type invariant, `ImageSelected`, `AddressesHeld`,
`ServerHasItsAddresses` and `ClaimsReleased`
(`ImageAssumption`, `ProvisioningAssumption`: a resource has one value per label key).
`ProvisioningInv` has

- `BaseInv`: a deletion is seen late and never too early, claims are given back only by a
  reconcile that saw it and found no server, and until then the caches are behind the
  claims by new and bound ones only, so an address found in the cache is bound.
- `FoundInv`: while the reconcile goes through the claims, each claim of its copy's networks is still to
  be handled, or its address was found, or an address is waited for; so a reconcile that reaches
  `createServer` has the addresses of all of them, each at its own NIC.
- `FinalizerInv`, `ReleaseInv`: from the first claim on the object has the finalizer; and while the
  deletion goes through the claims, each is still to be given back, or is given back, or
  is one of those that the deletion cannot see (`missed`).

The inductive invariants, the type invariants, and `NoOrphanedLAN`, which `LANManaged` implies, are
not listed in the runs, which check what follows from them or says more.

Only model-checked: liveness, which rests on fairness and is beyond the prover
(`BackgroundCallerAcquires`, `ServersComeUp`, `AllMachinesGo`, `ClusterProvisioned`, `ClusterGoes`,
`MachineProvisioned`, `MachineGoes`, `FailoverKept`, `NoLoneMachineStuck`, `FailoverRestored`,
`LastMachineGoes`, `EventuallyProvisioned`, `MachineReleased`).

## Not modelled

- The user data, the size and the volume of a server: data without control.
- The client (HTTP), the manager, API types and generated code.
- The conditions other than `MachineProvisioned`; the pause of a cluster's own reconcile;
  the ownership of the credentials secret; and clusters without
  `loadBalancerProviderRef`, for which the endpoint steps are not run.
- Block requests older than 24 hours in `FailoverIPBlock`.
- Two networks of a machine with the same ID, which share their claims.
- The steps of a machine in one model: LAN, server, group and addresses together are beyond
  TLC. The models meet at what the machine controller's sequence guarantees, for
  example that the steps at the LAN and the block come after the server is gone.
