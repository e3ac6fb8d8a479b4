--------------------------- MODULE MachineServer ---------------------------
(***************************************************************************)
(* The server of one IonosCloudMachine: ReconcileServer,                   *)
(* FinalizeMachineProvisioning and ReconcileServerDeletion (internal/      *)
(* service/cloud/server.go) inside the machine controller's                *)
(* reconcileNormal and reconcileDelete.  The steps for the LAN, the IP     *)
(* addresses and the failover group are left out: see ClusterLAN and       *)
(* IPFailover.                                                             *)
(*                                                                         *)
(* The reconcile works on a copy of the object it got from the cache; the  *)
(* deferred Finalize patches what differs.  Server i is the one that       *)
(* request i creates, and has one boot volume.                             *)
(***************************************************************************)
EXTENDS CloudAPI, FiniteSets

CONSTANTS MaxCreates,      \* bound: servers the cloud accepts (its quota)
          MaxFaults        \* bound: failed requests, failed calls and crashes

MachineName == "machine"

ASSUME ServerAssumption == /\ MaxCreates \in Nat /\ MaxFaults \in Nat
                           /\ Names = {MachineName}

VARIABLES obj,        \* the IonosCloudMachine in the API server
          cached,     \* the controller's cached copy of it
          mem,        \* the copy the reconcile works on
          base,       \* that copy as it was read
          pc,
          server,     \* the server the lookup found: ID 0 is nil
          request,    \* the creation request checkQueue found: ID 0 is nil
          bootstrap,  \* the bootstrap secret: none, named in the Machine, available
          isDeleted,  \* the cached cluster is being deleted: Cluster.IsDeleted
          running,    \* the servers whose VM runs
          boots,      \* the boot volumes that exist, by server
          purging,    \* the DELETE requests with deleteVolumes
          faults

memVars == <<mem, base, server, request>>
volVars == <<running, boots, purging>>
envVars == <<bootstrap, isDeleted>>
vars == <<cloudVars, obj, cached, memVars, pc, envVars, volVars, faults>>

MachineObjects == [state : {"live", "deleting", "gone"}, finalizer : BOOLEAN, providerID : Nat,
                   request : Nat, provisioned : BOOLEAN]
NewMachine == [state |-> "live", finalizer |-> FALSE, providerID |-> 0, request |-> 0,
               provisioned |-> FALSE]
NoServer == [id |-> 0, available |-> FALSE, running |-> FALSE, boot |-> FALSE]
NoRequest == [id |-> 0, pending |-> FALSE]

TypeOK == /\ CloudTypeOK
          /\ obj \in MachineObjects /\ cached \in MachineObjects
          /\ mem \in MachineObjects /\ base \in MachineObjects
          /\ pc \in {"idle", "check", "lookup", "queue", "relookup", "decide", "finalize"}
          /\ server \in [id : Nat, available : BOOLEAN, running : BOOLEAN, boot : BOOLEAN]
          /\ request \in [id : Nat, pending : BOOLEAN]
          /\ bootstrap \in {"none", "named", "available"}
          /\ isDeleted \in BOOLEAN
          /\ running \subseteq DOMAIN res /\ boots \subseteq DOMAIN res
          /\ purging \subseteq DOMAIN reqs
          /\ faults \in Nat

Init == /\ reqs = <<>> /\ res = <<>>
        /\ obj = NewMachine /\ cached = obj /\ mem = obj /\ base = obj
        /\ pc = "idle"
        /\ server = NoServer /\ request = NoRequest
        /\ bootstrap = "none" /\ isDeleted = FALSE
        /\ running = {} /\ boots = {} /\ purging = {}
        /\ faults = 0

-----------------------------------------------------------------------------
Fault == /\ faults < MaxFaults
         /\ faults' = faults + 1

Deleting == base.state = "deleting"

Forget == /\ mem' = NewMachine /\ base' = NewMachine
          /\ server' = NoServer /\ request' = NoRequest

\* Mutant: the finalizer is left to the patch at the end of the reconcile.
StartReconcile_InMemory ==
  /\ pc = "idle"
  /\ base' = cached
  /\ \/ cached.state = "deleting" /\ mem' = cached
     \/ /\ cached.state = "live" /\ bootstrap # "none"
        /\ mem' = [cached EXCEPT !.finalizer = TRUE]
  /\ pc' = "check"
  /\ UNCHANGED <<cloudVars, obj, cached, server, request, envVars, volVars, faults>>

\* Reconcile.  Without bootstrap data reconcileNormal ends (isInfrastructureReady).
\* It patches the finalizer at once, which fails when the machine is gone.
StartReconcile ==
  /\ pc = "idle"
  /\ base' = cached
  /\ \/ /\ cached.state = "deleting"
        /\ mem' = cached
        /\ UNCHANGED obj
     \/ /\ cached.state = "live" /\ bootstrap # "none"
        /\ cached.finalizer \/ obj.state # "gone"
        /\ mem' = [cached EXCEPT !.finalizer = TRUE]
        /\ obj' = [obj EXCEPT !.finalizer = IF cached.finalizer THEN @ ELSE TRUE]
  /\ pc' = "check"
  /\ UNCHANGED <<cloudVars, cached, server, request, envVars, volVars, faults>>

\* Mutant: a failed request is requeued like a pending one.
CheckRequestStates_Failed ==
  /\ pc = "check"
  /\ \E known \in BOOLEAN :
       /\ IF known \/ mem.request = 0 THEN UNCHANGED faults ELSE Fault
       /\ LET exists  == mem.request # 0 /\ known
              pending == exists /\ ~isDone(mem.request)
              requeue == \/ pending
                         \/ exists /\ Deleting
                         \/ ~Deleting /\ bootstrap # "available"
          IN /\ pc' = IF requeue THEN "finalize" ELSE "lookup"
             /\ mem' = [mem EXCEPT !.request = IF exists /\ ~pending THEN 0 ELSE @]
  /\ UNCHANGED <<cloudVars, obj, cached, base, server, request, envVars, volVars>>

\* Mutant: a finished request is not cleared from the status of a deletion.
CheckRequestStates_Kept ==
  /\ pc = "check"
  /\ \E known \in BOOLEAN :
       /\ IF known \/ mem.request = 0 THEN UNCHANGED faults ELSE Fault
       /\ LET exists  == mem.request # 0 /\ known
              pending == exists /\ isPending(mem.request)
              requeue == \/ pending
                         \/ exists /\ Deleting
                         \/ ~Deleting /\ bootstrap # "available"
          IN /\ pc' = IF requeue THEN "finalize" ELSE "lookup"
             /\ mem' = [mem EXCEPT !.request = IF exists /\ ~pending /\ ~Deleting THEN 0 ELSE @]
  /\ UNCHANGED <<cloudVars, obj, cached, base, server, request, envVars, volVars>>

\* checkRequestStates.  known: GetRequestStatus answered; otherwise the reconcile
\* goes on.  During deletion a request, finished or not, ends the reconcile.
\* Without the bootstrap secret ReconcileServer does too.
CheckRequestStates ==
  /\ pc = "check"
  /\ \E known \in BOOLEAN :
       /\ IF known \/ mem.request = 0 THEN UNCHANGED faults ELSE Fault
       /\ LET exists  == mem.request # 0 /\ known
              pending == exists /\ isPending(mem.request)
              requeue == \/ pending
                         \/ exists /\ Deleting
                         \/ ~Deleting /\ bootstrap # "available"
          IN /\ pc' = IF requeue THEN "finalize" ELSE "lookup"
             /\ mem' = [mem EXCEPT !.request = IF exists /\ ~pending THEN 0 ELSE @]
  /\ UNCHANGED <<cloudVars, obj, cached, base, server, request, envVars, volVars>>

-----------------------------------------------------------------------------
(***************************************************************************)
(* findResource with getServer and getLatestServerCreationRequest.         *)
(***************************************************************************)
\* The server whose ID is recorded, else one with the machine's name.
getServer == IF Listed(mem.providerID) THEN {mem.providerID} ELSE ListedAs(MachineName)

Snapshot(id) == [id |-> id, available |-> isAvailable(id), running |-> id \in running,
                 boot |-> id \in boots]

TryLookup(next) ==
  /\ pc' = IF getServer = {} THEN next ELSE "decide"
  /\ server' \in IF getServer = {} THEN {NoServer} ELSE {Snapshot(id) : id \in getServer}
  /\ request' = IF getServer = {} THEN request ELSE NoRequest
  /\ mem' = [mem EXCEPT !.providerID = IF getServer = {} THEN @ ELSE server'.id]
  /\ UNCHANGED <<cloudVars, obj, cached, base, envVars, volVars, faults>>

Lookup == pc = "lookup" /\ TryLookup("queue")

\* Mutant: no second lookup when the creation request is done.
CheckQueue_Once ==
  /\ pc = "queue"
  /\ \E i \in {0} \cup DOMAIN reqs :
       /\ CreationRequest(i, MachineName)
       /\ request' = IF i = 0 THEN NoRequest ELSE [id |-> i, pending |-> isPending(i)]
       /\ pc' = "decide"
  /\ UNCHANGED <<cloudVars, obj, cached, mem, base, server, envVars, volVars, faults>>

CheckQueue ==
  /\ pc = "queue"
  /\ \E i \in {0} \cup DOMAIN reqs :
       /\ CreationRequest(i, MachineName)
       /\ request' = IF i = 0 THEN NoRequest ELSE [id |-> i, pending |-> isPending(i)]
       /\ pc' = IF i # 0 /\ isDone(i) THEN "relookup" ELSE "decide"
  /\ UNCHANGED <<cloudVars, obj, cached, mem, base, server, envVars, volVars, faults>>

LookupAgain == pc = "relookup" /\ TryLookup("decide")

-----------------------------------------------------------------------------
(***************************************************************************)
(* ReconcileServer and FinalizeMachineProvisioning.                        *)
(***************************************************************************)
Creations == Cardinality({i \in DOMAIN reqs : reqs[i].method = "POST"})

\* The request and the server's ID are recorded in the copy in memory.
createServer ==
  /\ Post(MachineName)
  /\ mem' = [mem EXCEPT !.request = Len(reqs) + 1, !.providerID = Len(reqs) + 1]

\* Requeue while the creation is pending, else createServer.
CreateServer ==
  /\ pc = "decide" /\ ~Deleting
  /\ server = NoServer
  /\ IF ~request.pending /\ Creations < MaxCreates
     THEN createServer
     ELSE UNCHANGED <<cloudVars, mem>>
  /\ pc' = "finalize"
  /\ UNCHANGED <<obj, cached, base, server, request, envVars, volVars, faults>>

\* The cloud refuses a request for a server that it starts or whose volume it deletes.
Locked(id) == \E i \in DOMAIN reqs : /\ reqs[i].id = id /\ isPending(i)
                                     /\ reqs[i].method \in {"START", "VOLUME"}

SubmitAndRecord(method) ==
  IF Listed(server.id) /\ ~Locked(server.id)
  THEN Submit(method, server.id) /\ mem' = [mem EXCEPT !.request = Len(reqs) + 1]
  ELSE UNCHANGED <<cloudVars, mem>>

\* Mutant: the VM state is not checked.
EnsureServerAvailable_NotRunning ==
  /\ pc = "decide" /\ ~Deleting
  /\ server # NoServer
  /\ CASE ~server.available -> UNCHANGED <<cloudVars, mem>>
       [] OTHER -> mem' = [mem EXCEPT !.provisioned = TRUE] /\ UNCHANGED cloudVars
  /\ pc' = "finalize"
  /\ UNCHANGED <<obj, cached, base, server, request, envVars, volVars, faults>>

\* ensureServerAvailable: wait for the server, start it when it does not run.  A
\* server that is available and runs makes the machine provisioned.
EnsureServerAvailable ==
  /\ pc = "decide" /\ ~Deleting
  /\ server # NoServer
  /\ CASE ~server.available -> UNCHANGED <<cloudVars, mem>>
       [] server.available /\ ~server.running -> SubmitAndRecord("START")
       [] OTHER -> mem' = [mem EXCEPT !.provisioned = TRUE] /\ UNCHANGED cloudVars
  /\ pc' = "finalize"
  /\ UNCHANGED <<obj, cached, base, server, request, envVars, volVars, faults>>

-----------------------------------------------------------------------------
(***************************************************************************)
(* ReconcileServerDeletion.  RemoveFinalizer follows when it succeeds.     *)
(***************************************************************************)
ServerGone == mem' = [mem EXCEPT !.request = 0, !.finalizer = FALSE]

\* Mutant: a creation that is pending is no reason to wait.
AwaitCreation_Ignored ==
  /\ pc = "decide" /\ Deleting
  /\ server = NoServer
  /\ ServerGone
  /\ pc' = "finalize"
  /\ UNCHANGED <<cloudVars, obj, cached, base, server, request, envVars, volVars, faults>>

\* No server: done, unless one is being created.
AwaitCreation ==
  /\ pc = "decide" /\ Deleting
  /\ server = NoServer
  /\ IF request.pending THEN mem' = [mem EXCEPT !.request = request.id] ELSE ServerGone
  /\ pc' = "finalize"
  /\ UNCHANGED <<cloudVars, obj, cached, base, server, request, envVars, volVars, faults>>

\* Mutant: the boot volume is not deleted first.
RequestDeletion_OneRequest ==
  /\ SubmitAndRecord("DELETE")
  /\ purging' = IF isDeleted /\ reqs' # reqs THEN purging \cup {Len(reqs) + 1} ELSE purging

\* deleteServer: all volumes go with a cluster that is deleted; otherwise the boot
\* volume is deleted first and the others stay.
RequestDeletion ==
  IF ~isDeleted /\ server.boot
  THEN SubmitAndRecord("VOLUME") /\ UNCHANGED purging
  ELSE /\ SubmitAndRecord("DELETE")
       /\ purging' = IF isDeleted /\ reqs' # reqs THEN purging \cup {Len(reqs) + 1} ELSE purging

DeleteServer ==
  /\ pc = "decide" /\ Deleting
  /\ server # NoServer
  /\ \E i \in {0} \cup DOMAIN reqs :
       /\ DeletionRequest(i, server.id)
       /\ CASE i # 0 /\ isPending(i) ->
                 mem' = [mem EXCEPT !.request = i] /\ UNCHANGED <<cloudVars, purging>>
            [] i # 0 /\ isDone(i) -> ServerGone /\ UNCHANGED <<cloudVars, purging>>
            [] OTHER -> RequestDeletion
  /\ pc' = "finalize"
  /\ UNCHANGED <<obj, cached, base, server, request, envVars, running, boots, faults>>

-----------------------------------------------------------------------------
(***************************************************************************)
(* Finalize: metadata and spec are patched in one call, the status in      *)
(* another.  The API server removes an object to be deleted with its last  *)
(* finalizer.                                                              *)
(***************************************************************************)
Merge(o, field) == IF mem[field] # base[field] THEN mem[field] ELSE o[field]

PatchSpec(o) == [o EXCEPT !.finalizer = Merge(o, "finalizer"),
                          !.providerID = Merge(o, "providerID")]
PatchStatus(o) == [o EXCEPT !.request = Merge(o, "request"),
                            !.provisioned = Merge(o, "provisioned")]
Collect(o) == IF o.state = "deleting" /\ ~o.finalizer THEN [o EXCEPT !.state = "gone"] ELSE o

Finalize ==
  /\ pc = "finalize"
  /\ \/ /\ obj' = IF obj.state = "gone" THEN obj ELSE Collect(PatchStatus(PatchSpec(obj)))
        /\ UNCHANGED faults
     \/ /\ obj.state # "gone"
        /\ obj' \in {obj, Collect(PatchSpec(obj)), PatchStatus(obj)}
        /\ Fault
  /\ Forget
  /\ pc' = "idle"
  /\ UNCHANGED <<cloudVars, cached, envVars, volVars>>

-----------------------------------------------------------------------------
(***************************************************************************)
(* Faults, and what happens outside the controller.                        *)
(***************************************************************************)
\* A call of the step, or another step of the sequence, returns an error.
StepError == /\ pc \notin {"idle", "check", "finalize"}
             /\ Fault
             /\ pc' = "finalize"
             /\ UNCHANGED <<cloudVars, obj, cached, memVars, envVars, volVars>>

Crash == /\ pc # "idle"
         /\ Fault
         /\ pc' = "idle"
         /\ cached' = obj
         /\ Forget
         /\ UNCHANGED <<cloudVars, obj, envVars, volVars>>

CacheSync == /\ cached # obj
             /\ cached' = obj
             /\ UNCHANGED <<cloudVars, obj, memVars, pc, envVars, volVars, faults>>

DeleteMachine == /\ obj.state = "live"
                 /\ obj' = Collect([obj EXCEPT !.state = "deleting"])
                 /\ UNCHANGED <<cloudVars, cached, memVars, pc, envVars, volVars, faults>>

\* The Machine gets the name of its bootstrap secret, then the cache the secret.
Bootstrap == /\ bootstrap # "available"
             /\ bootstrap' = IF bootstrap = "none" THEN "named" ELSE "available"
             /\ UNCHANGED <<cloudVars, obj, cached, memVars, pc, isDeleted, volVars, faults>>

\* The cluster is seen to be deleted.  Only deleteServer asks for it, so that it may
\* as well happen after the machine's deletion.
DeleteCluster == /\ obj.state = "deleting" /\ ~isDeleted
                 /\ isDeleted' = TRUE
                 /\ UNCHANGED <<cloudVars, obj, cached, memVars, pc, bootstrap, volVars, faults>>

\* A server comes with its boot volume.  A new server may or may not run.
ServerRequest(i) ==
  LET id == reqs[i].id  method == reqs[i].method
  IN /\ \/ /\ Run(i)
           /\ boots' = IF method = "POST" /\ res'[id] = "BUSY" THEN boots \cup {id} ELSE boots
           /\ UNCHANGED <<running, faults>>
        \/ /\ Finish(i, {})
           /\ boots' = CASE method = "POST" -> boots \cup {id}
                         [] method = "VOLUME" \/ i \in purging -> boots \ {id}
                         [] OTHER -> boots
           /\ CASE method = "POST"   -> running' \in {running, running \cup {id}}
                [] method = "START"  -> running' = running \cup {id}
                [] method = "DELETE" -> running' = running \ {id}
                [] OTHER -> UNCHANGED running
           /\ UNCHANGED faults
        \/ /\ Fail(i) /\ Fault
           /\ boots' = IF method = "POST" THEN boots \ {id} ELSE boots
           /\ UNCHANGED running
     /\ UNCHANGED <<obj, cached, memVars, pc, envVars, purging>>

\* Requests do not drop out of the list of the last 24 hours during a reconcile.
AgeRequest(i) == /\ pc = "idle"
                 /\ Age(i)
                 /\ UNCHANGED <<obj, cached, memVars, pc, envVars, volVars, faults>>

-----------------------------------------------------------------------------
Reconcile == \/ StartReconcile \/ CheckRequestStates
             \/ Lookup \/ CheckQueue \/ LookupAgain
             \/ CreateServer \/ EnsureServerAvailable
             \/ AwaitCreation \/ DeleteServer
             \/ Finalize

Environment == \/ CacheSync \/ DeleteMachine \/ Bootstrap \/ DeleteCluster
               \/ \E i \in DOMAIN reqs : ServerRequest(i) \/ AgeRequest(i)

\* With the object gone there is nothing to reconcile.
Idle == cached.state = "gone" /\ UNCHANGED vars

Next == Reconcile \/ StepError \/ Crash \/ Environment \/ Idle

Spec == Init /\ [][Next]_vars

\* A reconcile that ended is started again (requeue, error or watch event), the
\* cloud executes its requests and the bootstrap provider writes its secret.
Fairness == /\ WF_vars(Reconcile) /\ WF_vars(CacheSync) /\ WF_vars(Bootstrap)
            /\ WF_vars(\E i \in DOMAIN reqs : ServerRequest(i))

FairSpec == Spec /\ Fairness

-----------------------------------------------------------------------------
(***************************************************************************)
(* Properties.                                                             *)
(***************************************************************************)
Servers == {i \in DOMAIN reqs : reqs[i].method = "POST" /\ (isPending(i) \/ Listed(i))}

\* The servers whose creation is finished.
Created == {s \in Servers : ~isPending(s)}

Resource == INSTANCE ManagedResource
              WITH existing <- Servers, created <- Created,
                   held <- obj.finalizer, ending <- obj.state # "live"

\* The server is a managed resource of its machine: createServer is called only when the
\* finalizer is in the API server and no server is there or being created, a server
\* that is there goes only after the machine's deletion, and the finalizer after it.
ServerManaged == Resource!Spec

\* createServer is never called while a server of the machine exists or is being
\* created, although its ID and its request are recorded only by the deferred patch.
AtMostOneServer == \A i, j \in Servers : i = j

\* No server is left, and none is being created, when the machine is gone.
NoOrphanedServer == obj.state = "gone" => Servers = {}

\* deleteServer leaves no boot volume without its server, whether or not the
\* cluster is seen to be deleted between its two requests.
BootVolumeNotLeaked == boots \subseteq {id \in DOMAIN res : Listed(id)}

\* "continuing would let FinalizeMachineProvisioning mark the machine provisioned
\* before a server exists": a provisioned machine has a server that runs.
ProvisionedHasServer == obj.state = "live" /\ obj.provisioned => running \cap Servers # {}

\* A machine that is not deleted gets a running server.
MachineProvisioned == <>[](obj.state = "live") => <>[](obj.provisioned /\ obj.providerID \in running)

\* A machine that is deleted goes.
MachineGoes == obj.state = "deleting" ~> obj.state = "gone"
=============================================================================
