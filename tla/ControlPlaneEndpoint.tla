------------------------ MODULE ControlPlaneEndpoint ------------------------
(***************************************************************************)
(* The cluster controller and the IP block of the control plane endpoint:  *)
(* reconcileNormal and reconcileDelete of internal/controller/             *)
(* ionoscloudcluster_controller.go with ReconcileControlPlaneEndpoint and  *)
(* ReconcileControlPlaneEndpointDeletion of internal/service/cloud/        *)
(* ipblock.go, for a cluster with a loadBalancerProviderRef.               *)
(*                                                                         *)
(* One reconcile runs at a time.  It works on a copy of the object that it *)
(* got from the cache and changes it in memory; the deferred Finalize      *)
(* patches what differs.  The IP of block i is written i.                  *)
(***************************************************************************)
EXTENDS CloudAPI, FiniteSets

CONSTANTS MaxCreates,      \* bound: reservations the cloud accepts (its quota)
          MaxFaults        \* bound: failed requests, failed calls and crashes

BlockName == "endpoint"    \* controlPlaneEndpointIPBlockName
UserName  == "user"        \* the name of the user's block
UserBlock == 1             \* its ID

ASSUME EndpointAssumption == /\ MaxCreates \in Nat /\ MaxFaults \in Nat
                             /\ Names = {BlockName, UserName}

VARIABLES obj,       \* the IonosCloudCluster in the API server
          cached,    \* the controller's cached copy of it
          mem,       \* the copy the reconcile works on
          base,      \* that copy as it was read
          pc,
          block,     \* the IP block the lookup found: ID 0 is nil
          request,   \* the creation request checkQueue found: ID 0 is nil
          owner,     \* the owning Cluster: live, deleting, or seen to be deleting
          machines,  \* there are IonosCloudMachines of the cluster
          secret,    \* the credentials: free, held (finalizer), deleting, gone
          panicked,
          faults

memVars == <<mem, base, block, request>>
envVars == <<owner, machines, secret>>
vars == <<cloudVars, obj, cached, memVars, pc, envVars, panicked, faults>>

Clusters == [state : {"live", "deleting", "gone"}, finalizer : BOOLEAN, host : Nat,
             blockID : Nat, request : Nat, provisioned : BOOLEAN]
NewCluster == [state |-> "live", finalizer |-> FALSE, host |-> 0,
               blockID |-> 0, request |-> 0, provisioned |-> FALSE]
NoBlock == [id |-> 0, available |-> FALSE]
NoRequest == [id |-> 0, pending |-> FALSE]

TypeOK == /\ CloudTypeOK
          /\ obj \in Clusters /\ cached \in Clusters /\ mem \in Clusters /\ base \in Clusters
          /\ pc \in {"idle", "check", "machines", "lookup", "queue", "relookup", "decide",
                     "credentials", "finalize"}
          /\ block \in [id : Nat, available : BOOLEAN]
          /\ request \in [id : Nat, pending : BOOLEAN]
          /\ owner \in {"live", "deleting", "seen"}
          /\ machines \in BOOLEAN /\ panicked \in BOOLEAN
          /\ secret \in {"free", "held", "deleting", "gone"}
          /\ faults \in Nat

\* The user may have set the endpoint to the IP of a block of theirs.
Init == /\ \/ /\ obj = [NewCluster EXCEPT !.host = UserBlock]
              /\ reqs = <<[method |-> "POST", id |-> UserBlock, name |-> UserName,
                           status |-> "DONE", recent |-> FALSE]>>
              /\ res = <<"AVAILABLE">>
           \/ obj = NewCluster /\ reqs = <<>> /\ res = <<>>
        /\ cached = obj /\ mem = NewCluster /\ base = NewCluster
        /\ pc = "idle"
        /\ block = NoBlock /\ request = NoRequest
        /\ owner = "live" /\ machines = TRUE /\ secret = "free"
        /\ panicked = FALSE
        /\ faults = 0

-----------------------------------------------------------------------------
Fault == /\ faults < MaxFaults
         /\ faults' = faults + 1

Deleting == base.state = "deleting"

\* The local variables of a reconcile that is over are forgotten.
Forget == /\ mem' = NewCluster /\ base' = NewCluster
          /\ block' = NoBlock /\ request' = NoRequest

\* The secret gets a finalizer, which goes with the cluster.
ensureSecretControlledByCluster == secret' = IF secret = "free" THEN "held" ELSE secret
removeCredentialsFinalizer ==
  secret' = CASE secret = "deleting" -> "gone" [] secret = "held" -> "free" [] OTHER -> secret

\* Mutant: an owner that is being deleted is waited for.
StartReconcile_Owner ==
  /\ pc = "idle"
  /\ cached.state # "gone"
  /\ secret # "gone"
  /\ ensureSecretControlledByCluster
  /\ base' = cached
  /\ mem' = IF cached.state = "deleting" THEN cached ELSE [cached EXCEPT !.finalizer = TRUE]
  /\ pc' = IF cached.state = "deleting" /\ owner = "seen" THEN "finalize" ELSE "check"
  /\ UNCHANGED <<cloudVars, obj, cached, block, request, owner, machines, panicked, faults>>

\* Reconcile: without the credentials there is no client, and the reconcile ends.
\* AddFinalizer changes the copy in memory only.
StartReconcile ==
  /\ pc = "idle"
  /\ cached.state # "gone"
  /\ secret # "gone"
  /\ ensureSecretControlledByCluster
  /\ base' = cached
  /\ mem' = IF cached.state = "deleting" THEN cached ELSE [cached EXCEPT !.finalizer = TRUE]
  /\ pc' = IF cached.state = "deleting" /\ owner # "seen" THEN "finalize" ELSE "check"
  /\ UNCHANGED <<cloudVars, obj, cached, block, request, owner, machines, panicked, faults>>

\* checkRequestStatus
CheckRequestStatus ==
  /\ pc = "check"
  /\ IF mem.request # 0 /\ isPending(mem.request)
     THEN pc' = "finalize" /\ UNCHANGED mem
     ELSE /\ pc' = IF Deleting THEN "machines" ELSE "lookup"
          /\ mem' = [mem EXCEPT !.request = 0]
  /\ UNCHANGED <<cloudVars, obj, cached, base, block, request, envVars, panicked, faults>>

\* Mutant: the machines are not waited for.
CheckMachines_Ignored == /\ pc = "machines"
                         /\ pc' = "lookup"
                         /\ UNCHANGED <<cloudVars, obj, cached, memVars, envVars, panicked, faults>>

\* reconcileDelete waits for all machines.
CheckMachines == /\ pc = "machines"
                 /\ pc' = IF machines THEN "finalize" ELSE "lookup"
                 /\ UNCHANGED <<cloudVars, obj, cached, memVars, envVars, panicked, faults>>

-----------------------------------------------------------------------------
(***************************************************************************)
(* findResource with getControlPlaneEndpointIPBlock and                    *)
(* getLatestControlPlaneEndpointIPBlockCreationRequest.                    *)
(***************************************************************************)
Named == ListedAs(BlockName)

\* The block whose ID is recorded; else one of the user's with the endpoint's IP;
\* else the one with the expected name.
Found == IF Listed(mem.blockID) THEN {mem.blockID}
         ELSE IF Listed(mem.host) /\ mem.host \notin Named THEN {mem.host}
         ELSE Named

\* Mutant: only the deletion cares about the endpoint that is set.
userSetIPNotFound_Deletion == Found = {} /\ mem.host # 0 /\ Deleting

\* errUserSetIPNotFound: the endpoint is set and there is no block for it.  During
\* deletion this means success, otherwise it is an error like any other.
userSetIPNotFound == Found = {} /\ mem.host # 0

\* next: where to go when there is no block.
TryLookup(next) ==
  /\ pc' = CASE userSetIPNotFound -> IF Deleting THEN "credentials" ELSE "finalize"
             [] Cardinality(Found) > 1 -> "finalize"
             [] OTHER -> IF Found = {} THEN next ELSE "decide"
  /\ block' \in {[id |-> id, available |-> isAvailable(id)] : id \in Found}
                  \cup (IF Found = {} THEN {NoBlock} ELSE {})
  /\ request' = IF Found = {} THEN request ELSE NoRequest
  /\ mem' = IF userSetIPNotFound /\ Deleting THEN [mem EXCEPT !.request = 0] ELSE mem
  /\ UNCHANGED <<cloudVars, obj, cached, base, envVars, panicked, faults>>

Lookup == pc = "lookup" /\ TryLookup("queue")

\* Mutant: no second lookup when the creation request is done.
CheckQueue_Once ==
  /\ pc = "queue"
  /\ \E i \in {0} \cup DOMAIN reqs :
       /\ CreationRequest(i, BlockName)
       /\ request' = IF i = 0 THEN NoRequest ELSE [id |-> i, pending |-> isPending(i)]
       /\ pc' = "decide"
  /\ UNCHANGED <<cloudVars, obj, cached, mem, base, block, envVars, panicked, faults>>

CheckQueue ==
  /\ pc = "queue"
  /\ \E i \in {0} \cup DOMAIN reqs :
       /\ CreationRequest(i, BlockName)
       /\ request' = IF i = 0 THEN NoRequest ELSE [id |-> i, pending |-> isPending(i)]
       /\ pc' = IF i # 0 /\ isDone(i) THEN "relookup" ELSE "decide"
  /\ UNCHANGED <<cloudVars, obj, cached, mem, base, block, envVars, panicked, faults>>

LookupAgain == pc = "relookup" /\ TryLookup("decide")

-----------------------------------------------------------------------------
(***************************************************************************)
(* ReconcileControlPlaneEndpoint after findResource.                       *)
(***************************************************************************)
\* Mutant: SetControlPlaneEndpointIPBlockID is not called.
UseBlock_NoID ==
  /\ pc = "decide" /\ ~Deleting
  /\ block # NoBlock
  /\ mem' = IF block.available
            THEN [mem EXCEPT !.host = IF @ = 0 THEN block.id ELSE @,
                             !.provisioned = TRUE]
            ELSE mem
  /\ pc' = "finalize"
  /\ UNCHANGED <<cloudVars, obj, cached, base, block, request, envVars, panicked, faults>>

\* Mutant: the state is compared with the wrong constant.
UseBlock_Busy ==
  /\ pc = "decide" /\ ~Deleting
  /\ block # NoBlock
  /\ mem' = IF ~block.available
            THEN [mem EXCEPT !.host = IF @ = 0 THEN block.id ELSE @,
                             !.blockID = block.id, !.provisioned = TRUE]
            ELSE mem
  /\ pc' = "finalize"
  /\ UNCHANGED <<cloudVars, obj, cached, base, block, request, envVars, panicked, faults>>

\* The endpoint is the block's IP unless the user set it; with this the cluster
\* is provisioned.
UseBlock ==
  /\ pc = "decide" /\ ~Deleting
  /\ block # NoBlock
  /\ mem' = IF block.available
            THEN [mem EXCEPT !.host = IF @ = 0 THEN block.id ELSE @,
                             !.blockID = block.id, !.provisioned = TRUE]
            ELSE mem
  /\ pc' = "finalize"
  /\ UNCHANGED <<cloudVars, obj, cached, base, block, request, envVars, panicked, faults>>

Creations == Cardinality({i \in DOMAIN reqs : reqs[i].method = "POST"})

\* The request is recorded in the copy in memory.
reserveControlPlaneEndpointIPBlock ==
  IF Creations < MaxCreates
  THEN Post(BlockName) /\ mem' = [mem EXCEPT !.request = Len(reqs) + 1]
  ELSE UNCHANGED <<cloudVars, mem>>

\* Requeue while the reservation is pending, else reserve a block.
ReserveBlock ==
  /\ pc = "decide" /\ ~Deleting
  /\ block = NoBlock
  /\ IF request.pending
     THEN mem' = [mem EXCEPT !.request = request.id] /\ UNCHANGED cloudVars
     ELSE reserveControlPlaneEndpointIPBlock
  /\ pc' = "finalize"
  /\ UNCHANGED <<obj, cached, base, block, request, envVars, panicked, faults>>

-----------------------------------------------------------------------------
(***************************************************************************)
(* ReconcileControlPlaneEndpointDeletion after findResource.               *)
(***************************************************************************)
\* Mutant: a reservation that is pending is no reason to wait.
SkipBlock_Pending ==
  /\ pc = "decide" /\ Deleting
  /\ \/ block = NoBlock /\ mem' = [mem EXCEPT !.request = 0]
     \/ block # NoBlock /\ reqs[block.id].name # BlockName /\ UNCHANGED mem
  /\ pc' = "credentials"
  /\ UNCHANGED <<cloudVars, obj, cached, base, block, request, envVars, panicked, faults>>

\* Nothing to delete: no block and no request, or a block of the user's.
SkipBlock ==
  /\ pc = "decide" /\ Deleting
  /\ \/ block = NoBlock /\ request = NoRequest /\ mem' = [mem EXCEPT !.request = 0]
     \/ block # NoBlock /\ reqs[block.id].name # BlockName /\ UNCHANGED mem
  /\ pc' = "credentials"
  /\ UNCHANGED <<cloudVars, obj, cached, base, block, request, envVars, panicked, faults>>

\* The reservation is pending: requeue.  It is finished, yet there is no block:
\* *ipBlock.Id dereferences nil.  The panic is recovered by the caller of
\* Reconcile after the deferred Finalize.
AwaitBlock ==
  /\ pc = "decide" /\ Deleting
  /\ block = NoBlock /\ request # NoRequest
  /\ IF request.pending
     THEN mem' = [mem EXCEPT !.request = request.id] /\ UNCHANGED panicked
     ELSE panicked' = TRUE /\ UNCHANGED mem
  /\ pc' = "finalize"
  /\ UNCHANGED <<cloudVars, obj, cached, base, block, request, envVars, faults>>

\* It fails when the block is gone.
deleteControlPlaneEndpointIPBlock ==
  IF Listed(block.id)
  THEN Delete(block.id) /\ mem' = [mem EXCEPT !.request = Len(reqs) + 1]
  ELSE UNCHANGED <<cloudVars, mem>>

\* Requeue while a deletion is pending, else request it.  Nobody else makes requests
\* for the block, so that listing them and deleting it are one step.
DeleteBlock ==
  /\ pc = "decide" /\ Deleting
  /\ block # NoBlock /\ reqs[block.id].name = BlockName
  /\ \E i \in {0} \cup DOMAIN reqs :
       /\ DeletionRequest(i, block.id)
       /\ IF i # 0 /\ isPending(i)
          THEN mem' = [mem EXCEPT !.request = i] /\ UNCHANGED cloudVars
          ELSE deleteControlPlaneEndpointIPBlock
  /\ pc' = "finalize"
  /\ UNCHANGED <<obj, cached, base, block, request, envVars, panicked, faults>>

\* Then RemoveFinalizer, in memory.
RemoveFinalizers ==
  /\ pc = "credentials"
  /\ removeCredentialsFinalizer
  /\ mem' = [mem EXCEPT !.finalizer = FALSE]
  /\ pc' = "finalize"
  /\ UNCHANGED <<cloudVars, obj, cached, base, block, request, owner, machines, panicked, faults>>

-----------------------------------------------------------------------------
(***************************************************************************)
(* Finalize.  The patch helper sends what differs from the copy as it was  *)
(* read: metadata and spec in one call, the status in another.             *)
(***************************************************************************)

Merge(o, field) == IF mem[field] # base[field] THEN mem[field] ELSE o[field]

PatchSpec(o) == [o EXCEPT !.finalizer = Merge(o, "finalizer"), !.host = Merge(o, "host")]
PatchStatus(o) == [o EXCEPT !.blockID = Merge(o, "blockID"), !.request = Merge(o, "request"),
                            !.provisioned = Merge(o, "provisioned")]

\* The API server removes an object to be deleted with its last finalizer.
Collect(o) == IF o.state = "deleting" /\ ~o.finalizer THEN [o EXCEPT !.state = "gone"] ELSE o

\* The patch of an object that is gone changes nothing.  One of the calls, or
\* both, may fail in all retries.
Finalize ==
  /\ pc = "finalize"
  /\ \/ obj' = (IF obj.state = "gone" THEN obj ELSE Collect(PatchStatus(PatchSpec(obj))))
        /\ UNCHANGED faults
     \/ /\ obj.state # "gone"
        /\ obj' \in {obj, Collect(PatchSpec(obj)), PatchStatus(obj)}
        /\ Fault
  /\ Forget
  /\ pc' = "idle"
  /\ UNCHANGED <<cloudVars, cached, envVars, panicked>>

-----------------------------------------------------------------------------
(***************************************************************************)
(* Faults, and what happens outside the controller.                        *)
(***************************************************************************)
\* A call of the step returns an error; the deferred Finalize still runs.
StepError == /\ pc \notin {"idle", "finalize"}
             /\ Fault
             /\ pc' = "finalize"
             /\ UNCHANGED <<cloudVars, obj, cached, memVars, envVars, panicked>>

Crash == /\ pc # "idle"
         /\ Fault
         /\ pc' = "idle"
         /\ cached' = obj
         /\ Forget
         /\ UNCHANGED <<cloudVars, obj, envVars, panicked>>

CacheSync == /\ cached # obj
             /\ cached' = obj
             /\ UNCHANGED <<cloudVars, obj, memVars, pc, envVars, panicked, faults>>

\* The user deletes the Cluster, and with it the IonosCloudCluster and the machines.
\* Without the finalizer the IonosCloudCluster is removed at once.
DeleteCluster == /\ owner = "live"
                 /\ owner' = "deleting"
                 /\ UNCHANGED <<cloudVars, obj, cached, memVars, pc, machines, secret, panicked, faults>>

SeeOwner == /\ owner = "deleting"
            /\ owner' = "seen"
            /\ UNCHANGED <<cloudVars, obj, cached, memVars, pc, machines, secret, panicked, faults>>

DeleteIonosCluster == /\ obj.state = "live"
                      /\ obj' = Collect([obj EXCEPT !.state = "deleting"])
                      /\ UNCHANGED <<cloudVars, cached, memVars, pc, envVars, panicked, faults>>

MachinesGo == /\ machines /\ owner # "live"
              /\ machines' = FALSE
              /\ UNCHANGED <<cloudVars, obj, cached, memVars, pc, owner, secret, panicked, faults>>

DeleteSecret == /\ secret \in {"free", "held"}
                /\ secret' = IF secret = "free" THEN "gone" ELSE "deleting"
                /\ UNCHANGED <<cloudVars, obj, cached, memVars, pc, owner, machines, panicked, faults>>

\* The user removes their own block.
DeleteUserBlock == /\ UserBlock \in ListedAs(UserName)
                   /\ res' = [res EXCEPT ![UserBlock] = "absent"]
                   /\ UNCHANGED <<reqs, obj, cached, memVars, pc, envVars, panicked, faults>>

BlockRequest(i) ==
  /\ \/ /\ Run(i) \/ Finish(i, {})
        /\ UNCHANGED faults
     \/ Fail(i) /\ Fault
  /\ UNCHANGED <<obj, cached, memVars, pc, envVars, panicked>>

\* Requests do not drop out of the list of the last 24 hours during a reconcile.
AgeRequest(i) == /\ pc = "idle"
                 /\ Age(i)
                 /\ UNCHANGED <<obj, cached, memVars, pc, envVars, panicked, faults>>

-----------------------------------------------------------------------------
Reconcile == \/ StartReconcile \/ CheckRequestStatus \/ CheckMachines
             \/ Lookup \/ CheckQueue \/ LookupAgain
             \/ UseBlock \/ ReserveBlock
             \/ SkipBlock \/ AwaitBlock \/ DeleteBlock \/ RemoveFinalizers
             \/ Finalize

Environment == \/ CacheSync \/ SeeOwner \/ DeleteCluster \/ DeleteIonosCluster \/ MachinesGo
               \/ DeleteSecret \/ DeleteUserBlock
               \/ \E i \in DOMAIN reqs : BlockRequest(i) \/ AgeRequest(i)

\* With the object gone, or the credentials, there is nothing to reconcile.
Idle == /\ cached.state = "gone" \/ secret = "gone"
        /\ UNCHANGED vars

Next == Reconcile \/ StepError \/ Crash \/ Environment \/ Idle

Spec == Init /\ [][Next]_vars

\* A reconcile that ended is started again (requeue, error or watch event), the
\* cloud executes its requests, time passes, and the Cluster controller deletes
\* the machines and the IonosCloudCluster of a Cluster to be deleted.
Fairness == /\ WF_vars(Reconcile)
            /\ WF_vars(CacheSync) /\ WF_vars(SeeOwner) /\ WF_vars(MachinesGo)
            /\ WF_vars(owner # "live" /\ DeleteIonosCluster)
            /\ SF_vars(\E i \in DOMAIN reqs : AgeRequest(i))
            /\ WF_vars(\E i \in DOMAIN reqs : BlockRequest(i))

FairSpec == Spec /\ Fairness

-----------------------------------------------------------------------------
(***************************************************************************)
(* Properties.                                                             *)
(***************************************************************************)
EndpointBlocks == {i \in DOMAIN reqs : /\ reqs[i].method = "POST" /\ reqs[i].name = BlockName
                                       /\ isPending(i) \/ Listed(i)}

\* Although a reservation is recorded only by the deferred patch, which a crash or
\* a stale cache can lose, a second block is never reserved.
AtMostOneBlock == \A i, j \in EndpointBlocks : i = j

\* The finalizer goes only after the block: no block of the cluster is left, and
\* none is being reserved, when the finalizer is removed.
FinalizerAfterBlock == [][obj.finalizer /\ ~obj'.finalizer => EndpointBlocks = {}]_vars

\* With an endpoint of the user's the controller touches no block: it neither deletes
\* the user's, whose ID is recorded in the status like that of a reserved one, nor
\* reserves another after the user removed theirs, and the endpoint stays.
UserEndpointKept == \A i \in DOMAIN reqs : reqs[i].name = UserName =>
                      DOMAIN reqs = {i} /\ obj.host = i

\* The endpoint and the recorded block belong together, even when only one of the
\* two patches of PatchObject succeeded.
EndpointMatchesBlock == /\ obj.host # 0 /\ obj.blockID # 0 => obj.host = obj.blockID
                        /\ obj.provisioned => obj.blockID # 0

\* The endpoint is not taken away from machines that still exist.
EndpointOutlivesMachines ==
  [][\A i \in DOMAIN res : machines /\ reqs[i].name = BlockName /\ Listed(i) /\ isDone(i) => Listed(i)']_vars

\* A deleted cluster goes, unless the credentials go first.
ClusterGoes == (owner # "live" /\ obj.state # "live") ~> (obj.state = "gone" \/ secret = "gone")

\* A cluster that is not deleted gets its endpoint, as long as the credentials and a
\* block for the endpoint are there.
ClusterProvisioned == <>[](obj.state = "live" /\ secret # "gone" /\ (obj.host = 0 \/ Listed(obj.host))) => <>[](obj.provisioned /\ obj.host # 0)

\* ClusterFinalizer "allows cleanup of resources, which are associated with the
\* IonosCloudCluster before removing it from the API server": no block is left
\* when the object is gone.
NoLeakedBlock == obj.state = "gone" => EndpointBlocks = {}

\* "the resource is now gone. For both cases this means success, so we can return
\* early with no error": deleting the endpoint does not panic.
NoPanic == ~panicked
=============================================================================
