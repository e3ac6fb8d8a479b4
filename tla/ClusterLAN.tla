----------------------------- MODULE ClusterLAN -----------------------------
(***************************************************************************)
(* The LAN that all machines of a cluster in one data center share:        *)
(* ReconcileLAN and ReconcileLANDeletion (internal/service/cloud/          *)
(* network.go) inside the machine controller's reconcileNormal and         *)
(* reconcileDelete.  Machines are reconciled concurrently, one reconcile   *)
(* per machine at a time; the process may crash between any two steps.     *)
(*                                                                         *)
(* A machine's server is reduced to the NIC it attaches to the LAN; the    *)
(* steps of the two sequences that touch neither are left out.  The key's  *)
(* lock is the owner of KeyedMutex, which Locker implements.               *)
(***************************************************************************)
EXTENDS CloudAPI, FiniteSets

CONSTANTS Machines,
          None,            \* no machine
          UsesNetworkID,   \* the machines set spec.networkID to an existing LAN
          MaxCreates,      \* bound: LAN creations the cloud accepts (its quota)
          MaxFaults        \* bound: failed requests and calls, stale clusters, crashes

ClusterName == "cluster"   \* lanName
UserName    == "user"      \* the name of a LAN the controller did not create
UserLAN     == 1           \* its ID

ASSUME LANAssumption == /\ None \notin Machines
                        /\ UsesNetworkID \in BOOLEAN
                        /\ MaxCreates \in Nat /\ MaxFaults \in Nat
                        /\ Names = {ClusterName, UserName}

VARIABLES obj,       \* the IonosCloudMachine in the API server
          cached,    \* the controller's cached copy of it
          curReq,    \* IonosCloudCluster status.currentRequestByDatacenter, 0 is none
          pc,        \* the step the machine's reconcile is at
          scopeReq,  \* it in the copy the reconcile's cluster scope was made with; once
                     \* its state was looked at, 1 for any, and only in a deletion
          lan,       \* the LAN getLAN found: ID 0 is nil
          request,   \* the request checkQueue found, as it was then
          machineReq,\* the IonosCloudMachine has a status.currentRequest
          lock,      \* the machine that holds the lanLockKey lock
          srv,       \* the server: none, pending, up, deleting
          nic,       \* the LAN its primary NIC is attached to
          faults

objVars   == <<obj, cached>>
srvVars   == <<srv, nic, machineReq>>
localVars == <<lan, request, scopeReq>>
vars == <<cloudVars, objVars, curReq, pc, localVars, lock, srvVars, faults>>

\* "new" has no finalizer yet; "deleting" has a deletionTimestamp.
ObjectStates == {"new", "live", "deleting", "gone"}
NoLAN == [id |-> 0, available |-> FALSE, used |-> FALSE]

NormalSteps == {"check", "lockLAN", "lookup", "queue", "relookup", "decide", "server"}
DeleteSteps == {"checkD", "serverD", "lockLAND", "lookupD", "queueD", "relookupD", "decideD",
                "deleteD", "finalizerD"}
LockedSteps == {"lookup", "queue", "relookup", "decide",
                "lookupD", "queueD", "relookupD", "decideD", "deleteD"}
NoServerSteps == DeleteSteps \ {"checkD", "serverD"}

TypeOK == /\ CloudTypeOK
          /\ obj \in [Machines -> ObjectStates]
          /\ cached \in [Machines -> ObjectStates]
          /\ curReq \in Nat
          /\ pc \in [Machines -> {"idle"} \cup NormalSteps \cup DeleteSteps]
          /\ scopeReq \in [Machines -> Nat]
          /\ lan \in [Machines -> [id : Nat, available : BOOLEAN, used : BOOLEAN]]
          /\ request \in [Machines -> {"none", "pending", "finished"}]
          /\ lock \in Machines \cup {None}
          /\ srv \in [Machines -> {"none", "pending", "up", "deleting"}]
          /\ nic \in [Machines -> Nat]
          /\ machineReq \in [Machines -> BOOLEAN]
          /\ faults \in Nat

Init == /\ IF UsesNetworkID
           THEN /\ reqs = <<[method |-> "POST", id |-> UserLAN, name |-> UserName,
                             status |-> "DONE", recent |-> FALSE]>>
                /\ res = <<"AVAILABLE">>
           ELSE reqs = <<>> /\ res = <<>>
        /\ obj = [m \in Machines |-> "new"] /\ cached = obj
        /\ curReq = 0
        /\ pc = [m \in Machines |-> "idle"]
        /\ scopeReq = [m \in Machines |-> 0]
        /\ lan = [m \in Machines |-> NoLAN]
        /\ request = [m \in Machines |-> "none"]
        /\ lock = None
        /\ srv = [m \in Machines |-> "none"]
        /\ nic = [m \in Machines |-> 0]
        /\ machineReq = [m \in Machines |-> FALSE]
        /\ faults = 0

-----------------------------------------------------------------------------
(***************************************************************************)
(* Control flow.  Leave is the end of ReconcileLAN or ReconcileLANDeletion:*)
(* the deferred Unlock runs, and nothing that was read is used again.      *)
(* Return ends the reconcile.                                              *)
(***************************************************************************)
Goto(m, step) == pc' = [pc EXCEPT ![m] = step]
Unlocked(m) == IF lock = m THEN None ELSE lock

Leave(m, step) == /\ Goto(m, step)
                  /\ lock' = Unlocked(m)
                  /\ lan' = [lan EXCEPT ![m] = NoLAN]
                  /\ request' = [request EXCEPT ![m] = "none"]
                  /\ scopeReq' = [scopeReq EXCEPT ![m] = 0]
Return(m) == Leave(m, "idle")

Fault == /\ faults < MaxFaults
         /\ faults' = faults + 1

\* Cluster.PatchObject sends what differs from the copy the scope was made with: a
\* new request, but not that there is none when there was none.
Cleared(m) == IF scopeReq[m] = 0 THEN curReq ELSE 0

\* Reconcile: the machine and the cluster are read from the cache, where the
\* cluster may still have any earlier request, or none.  In reconcileNormal the
\* finalizer is in the API server before anything is created; the patch fails when
\* the machine is gone.
StartReconcile(m) ==
  /\ pc[m] = "idle"
  /\ \/ cached[m] = "deleting" /\ Goto(m, "checkD") /\ UNCHANGED obj
     \/ /\ cached[m] = "live" \/ (cached[m] = "new" /\ obj[m] # "gone")
        /\ obj' = [obj EXCEPT ![m] = IF @ = "new" THEN "live" ELSE @]
        /\ Goto(m, "check")
  /\ \E r \in {0} \cup DOMAIN reqs :
       /\ scopeReq' = [scopeReq EXCEPT ![m] = r]
       /\ IF r = curReq THEN UNCHANGED faults ELSE Fault
  /\ UNCHANGED <<cloudVars, cached, curReq, lan, request, lock, srvVars>>

machinePending(m) == srv[m] \in {"pending", "deleting"}

\* checkRequestStates.  known, answered: GetRequestStatus answered for the
\* cluster's and for the machine's request.  The machine's request, when its status
\* is known, decides alone whether to requeue, and during deletion the answer is
\* always to requeue.
CheckRequestStates(m) ==
  /\ pc[m] \in {"check", "checkD"}
  /\ \E known, answered \in BOOLEAN :
       LET exists  == scopeReq[m] # 0
           pending == exists /\ known /\ isPending(scopeReq[m])
           decides == answered /\ machineReq[m]
           requeue == IF decides THEN machinePending(m) \/ pc[m] = "checkD" ELSE pending
           clear   == exists /\ known /\ ~pending
       IN /\ (known \/ exists) /\ (answered \/ machineReq[m])
          /\ IF known /\ answered THEN UNCHANGED faults ELSE Fault
          /\ curReq' = IF clear THEN Cleared(m) ELSE curReq
          /\ IF requeue
             THEN Return(m)
             ELSE /\ Goto(m, IF pc[m] = "check" THEN "lockLAN" ELSE "serverD")
                  /\ scopeReq' = [scopeReq EXCEPT ![m] = IF exists /\ pc[m] = "checkD" THEN 1 ELSE 0]
                  /\ UNCHANGED <<lock, lan, request>>
          /\ machineReq' = [machineReq EXCEPT ![m] = @ /\ (answered => machinePending(m))]
  /\ UNCHANGED <<cloudVars, objVars, srv, nic>>

\* Mutant: the key is not locked.
LockLAN_Not(m) == /\ pc[m] \in {"lockLAN", "lockLAND"}
                  /\ lock' = m
                  /\ Goto(m, IF pc[m] = "lockLAN" THEN "lookup" ELSE "lookupD")
                  /\ UNCHANGED <<cloudVars, objVars, curReq, localVars, srvVars, faults>>

LockLAN(m) == /\ pc[m] \in {"lockLAN", "lockLAND"}
              /\ lock = None
              /\ lock' = m
              /\ Goto(m, IF pc[m] = "lockLAN" THEN "lookup" ELSE "lookupD")
              /\ UNCHANGED <<cloudVars, objVars, curReq, localVars, srvVars, faults>>

-----------------------------------------------------------------------------
(***************************************************************************)
(* findResource with getLAN and getLatestLANCreationRequest.               *)
(***************************************************************************)
Attached(id) == {m \in Machines : srv[m] \in {"up", "deleting"} /\ nic[m] = id}

Snapshot(id) == [id |-> id, available |-> isAvailable(id), used |-> Attached(id) # {}]

getLANFails == IF UsesNetworkID THEN ~Listed(UserLAN)
               ELSE \E i, j \in ListedAs(ClusterName) : i # j

\* What getLAN returns when it does not fail, NoLAN for nil.
getLAN == LET found == IF UsesNetworkID THEN {UserLAN} ELSE ListedAs(ClusterName)
          IN IF found = {} THEN NoLAN ELSE Snapshot(CHOOSE id \in found : TRUE)

\* notFound, found: where to go with nil, with a LAN.
TryLookup(m, notFound, found) ==
  IF getLANFails
  THEN Return(m)
  ELSE /\ lan' = [lan EXCEPT ![m] = getLAN]
       /\ request' = [request EXCEPT ![m] = IF getLAN = NoLAN THEN @ ELSE "none"]
       /\ Goto(m, IF getLAN = NoLAN THEN notFound ELSE found)
       /\ UNCHANGED <<lock, scopeReq>>

Lookup(m) == /\ \/ pc[m] = "lookup" /\ TryLookup(m, "queue", "decide")
                \/ pc[m] = "lookupD" /\ TryLookup(m, "queueD", "decideD")
             /\ UNCHANGED <<cloudVars, objVars, curReq, srvVars, faults>>

\* Mutant: no second lookup when the creation request is done.
CheckQueue_Once(m) ==
  /\ pc[m] \in {"queue", "queueD"}
  /\ \E i \in {0} \cup DOMAIN reqs :
       /\ CreationRequest(i, ClusterName)
       /\ request' = [request EXCEPT ![m] =
                        IF i = 0 THEN "none" ELSE IF isPending(i) THEN "pending" ELSE "finished"]
       /\ Goto(m, IF pc[m] = "queue" THEN "decide" ELSE "decideD")
  /\ UNCHANGED <<cloudVars, objVars, curReq, lan, scopeReq, lock, srvVars, faults>>

CheckQueue(m) ==
  /\ pc[m] \in {"queue", "queueD"}
  /\ \E i \in {0} \cup DOMAIN reqs :
       /\ CreationRequest(i, ClusterName)
       /\ request' = [request EXCEPT ![m] =
                        IF i = 0 THEN "none" ELSE IF isPending(i) THEN "pending" ELSE "finished"]
       /\ LET again == i # 0 /\ isDone(i)
          IN Goto(m, IF pc[m] = "queue" THEN IF again THEN "relookup" ELSE "decide"
                                        ELSE IF again THEN "relookupD" ELSE "decideD")
  /\ UNCHANGED <<cloudVars, objVars, curReq, lan, scopeReq, lock, srvVars, faults>>

LookupAgain(m) == /\ \/ pc[m] = "relookup" /\ TryLookup(m, "decide", "decide")
                     \/ pc[m] = "relookupD" /\ TryLookup(m, "decideD", "decideD")
                  /\ UNCHANGED <<cloudVars, objVars, curReq, srvVars, faults>>

-----------------------------------------------------------------------------
(***************************************************************************)
(* ReconcileLAN after findResource, and what ReconcileServer does with the *)
(* LAN.                                                                    *)
(***************************************************************************)
Creations == Cardinality({i \in DOMAIN reqs : reqs[i].method = "POST"})

\* The cluster is patched with a request the cloud accepted.  If the patch fails,
\* or the process dies before it, the request is known to the cloud only.
RecordRequest == \/ curReq' = Len(reqs) + 1 /\ UNCHANGED faults
                 \/ UNCHANGED curReq /\ Fault

\* The cloud refuses a creation at its quota, and a deletion of what is gone.
createLAN == IF Creations < MaxCreates
             THEN Post(ClusterName) /\ RecordRequest
             ELSE UNCHANGED <<cloudVars, curReq, faults>>
deleteLAN(m) == IF Listed(lan[m].id)
                THEN Delete(lan[m].id) /\ RecordRequest
                ELSE UNCHANGED <<cloudVars, curReq, faults>>

CreateLAN(m) ==
  /\ pc[m] = "decide"
  /\ request[m] # "pending" /\ lan[m] = NoLAN
  /\ createLAN
  /\ Return(m)
  /\ UNCHANGED <<objVars, srvVars>>

\* Mutant: the state is compared with the wrong constant.
UseLAN_Busy(m) ==
  /\ pc[m] = "decide"
  /\ request[m] = "pending" \/ lan[m] # NoLAN
  /\ IF request[m] = "pending" \/ lan[m].available
     THEN Return(m)
     ELSE Leave(m, "server")
  /\ UNCHANGED <<cloudVars, objVars, curReq, srvVars, faults>>

\* The LAN is there and available: on to ReconcileServer.  Otherwise requeue.
UseLAN(m) ==
  /\ pc[m] = "decide"
  /\ request[m] = "pending" \/ lan[m] # NoLAN
  /\ IF request[m] = "pending" \/ ~lan[m].available
     THEN Return(m)
     ELSE Leave(m, "server")
  /\ UNCHANGED <<cloudVars, objVars, curReq, srvVars, faults>>

\* ReconcileServer: nothing to do for a server that exists or is requested;
\* otherwise createServer looks the LAN up once more.  The request is recorded
\* by the patch at the end of the reconcile, which may fail.
ReconcileServer(m) ==
  /\ pc[m] = "server"
  /\ IF srv[m] # "none" \/ getLANFails \/ getLAN = NoLAN
     THEN UNCHANGED <<srvVars, faults>>
     ELSE /\ srv' = [srv EXCEPT ![m] = "pending"]
          /\ nic' = [nic EXCEPT ![m] = getLAN.id]
          /\ \/ machineReq' = [machineReq EXCEPT ![m] = TRUE] /\ UNCHANGED faults
             \/ UNCHANGED machineReq /\ Fault
  /\ Return(m)
  /\ UNCHANGED <<cloudVars, objVars, curReq>>

-----------------------------------------------------------------------------
(***************************************************************************)
(* reconcileDelete.                                                        *)
(***************************************************************************)
\* ReconcileServerDeletion: the sequence goes on when there is no server.
ReconcileServerDeletion(m) ==
  /\ pc[m] = "serverD"
  /\ srv' = [srv EXCEPT ![m] = IF @ = "up" THEN "deleting" ELSE @]
  /\ \/ machineReq' = [machineReq EXCEPT ![m] = srv[m] # "none"] /\ UNCHANGED faults
     \/ srv[m] # "none" /\ UNCHANGED machineReq /\ Fault
  /\ IF srv[m] = "none" THEN Goto(m, "lockLAND") /\ UNCHANGED <<lock, localVars>> ELSE Return(m)
  /\ UNCHANGED <<cloudVars, objVars, curReq, nic>>

\* Mutant: a creation that is pending is no reason to wait.
ForgetLAN_Pending(m) ==
  /\ pc[m] = "decideD"
  /\ lan[m] = NoLAN
  /\ curReq' = Cleared(m)
  /\ Leave(m, "finalizerD")
  /\ UNCHANGED <<cloudVars, objVars, srvVars, faults>>

\* No LAN: removeLANPendingRequestFromCluster.
ForgetLAN(m) ==
  /\ pc[m] = "decideD"
  /\ request[m] # "pending" /\ lan[m] = NoLAN
  /\ curReq' = Cleared(m)
  /\ Leave(m, "finalizerD")
  /\ UNCHANGED <<cloudVars, objVars, srvVars, faults>>

\* Mutant: any deletion request found, finished or not, is waited for.
CheckDeletion_Waits(m) ==
  /\ pc[m] = "decideD"
  /\ request[m] = "pending" \/ lan[m] # NoLAN
  /\ \E i \in {0} \cup DOMAIN reqs :
       /\ DeletionRequest(i, lan[m].id)
       /\ \/ (request[m] = "pending" \/ i # 0) /\ Return(m)
          \/ /\ request[m] # "pending" /\ i = 0
             /\ IF lan[m].used THEN Leave(m, "finalizerD")
                               ELSE Goto(m, "deleteD") /\ UNCHANGED <<lock, localVars>>
  /\ UNCHANGED <<cloudVars, objVars, curReq, srvVars, faults>>

\* A LAN, or one that is being created: requeue when a creation or the latest
\* deletion request is pending, and leave a LAN that is used alone.
CheckDeletion(m) ==
  /\ pc[m] = "decideD"
  /\ request[m] = "pending" \/ lan[m] # NoLAN
  /\ \E i \in {0} \cup DOMAIN reqs :
       /\ DeletionRequest(i, lan[m].id)
       /\ LET pending == request[m] = "pending" \/ (i # 0 /\ isPending(i))
          IN \/ pending /\ Return(m)
             \/ /\ ~pending
                /\ IF lan[m].used THEN Leave(m, "finalizerD")
                                  ELSE Goto(m, "deleteD") /\ UNCHANGED <<lock, localVars>>
  /\ UNCHANGED <<cloudVars, objVars, curReq, srvVars, faults>>

DeleteLAN(m) == /\ pc[m] = "deleteD"
                /\ deleteLAN(m)
                /\ Return(m)
                /\ UNCHANGED <<objVars, srvVars>>

RemoveFinalizer(m) ==
  /\ pc[m] = "finalizerD"
  /\ obj' = [obj EXCEPT ![m] = "gone"]
  /\ Return(m)
  /\ UNCHANGED <<cloudVars, cached, curReq, srvVars, faults>>

-----------------------------------------------------------------------------
(***************************************************************************)
(* Faults, and what happens outside the controller.                        *)
(***************************************************************************)
\* A call of the step returns an error; the deferred Unlock runs.
StepError(m) == /\ pc[m] \notin {"idle", "check", "checkD"}
                /\ Fault
                /\ Return(m)
                /\ UNCHANGED <<cloudVars, objVars, curReq, srvVars>>

\* The process restarts: every reconcile and the Locker are gone, the cache is new.
Crash == /\ \E m \in Machines : pc[m] # "idle"
         /\ Fault
         /\ pc' = [m \in Machines |-> "idle"]
         /\ lock' = None
         /\ lan' = [m \in Machines |-> NoLAN]
         /\ request' = [m \in Machines |-> "none"]
         /\ scopeReq' = [m \in Machines |-> 0]
         /\ cached' = obj
         /\ UNCHANGED <<cloudVars, obj, curReq, srvVars>>

CacheSync(m) == /\ cached[m] # obj[m]
                /\ cached' = [cached EXCEPT ![m] = obj[m]]
                /\ UNCHANGED <<cloudVars, obj, curReq, pc, localVars, lock, srvVars, faults>>

\* A machine without the finalizer is removed at once.
UserDelete(m) == /\ obj[m] \in {"new", "live"}
                 /\ obj' = [obj EXCEPT ![m] = IF @ = "new" THEN "gone" ELSE "deleting"]
                 /\ UNCHANGED <<cloudVars, cached, curReq, pc, localVars, lock, srvVars, faults>>

InUse == {id \in DOMAIN res : Attached(id) # {}}

\* A LAN to which a NIC is attached cannot be deleted: the request fails.
LANRequest(i) ==
  /\ \/ /\ Run(i) \/ Finish(i, InUse)
        /\ UNCHANGED faults
     \/ /\ Fail(i)
        /\ IF reqs[i].method = "DELETE" /\ reqs[i].id \in InUse
           THEN UNCHANGED faults ELSE Fault
  /\ UNCHANGED <<objVars, curReq, pc, localVars, lock, srvVars>>

\* A reconcile is short compared with the 24 hours of the request list: no request
\* both finishes and drops out of the list during one.
AgeRequest(i) == /\ \A m \in Machines : pc[m] = "idle"
                 /\ Age(i)
                 /\ UNCHANGED <<objVars, curReq, pc, localVars, lock, srvVars, faults>>

\* A server can only be attached to a LAN that exists.
ServerRequest(m) ==
  /\ \/ /\ srv[m] = "pending" /\ Listed(nic[m])
        /\ srv' = [srv EXCEPT ![m] = "up"]
        /\ UNCHANGED <<nic, faults>>
     \/ /\ srv[m] = "pending"
        /\ srv' = [srv EXCEPT ![m] = "none"]
        /\ nic' = [nic EXCEPT ![m] = 0]
        /\ IF Listed(nic[m]) THEN Fault ELSE UNCHANGED faults
     \/ /\ srv[m] = "deleting"
        /\ srv' = [srv EXCEPT ![m] = "none"]
        /\ nic' = [nic EXCEPT ![m] = 0]
        /\ UNCHANGED faults
     \/ /\ srv[m] = "deleting"
        /\ srv' = [srv EXCEPT ![m] = "up"]
        /\ Fault
        /\ UNCHANGED nic
  /\ UNCHANGED <<cloudVars, objVars, curReq, pc, localVars, lock, machineReq>>

-----------------------------------------------------------------------------
Reconcile(m) == \/ StartReconcile(m) \/ CheckRequestStates(m) \/ LockLAN(m)
                \/ Lookup(m) \/ CheckQueue(m) \/ LookupAgain(m)
                \/ CreateLAN(m) \/ UseLAN(m) \/ ReconcileServer(m)
                \/ ReconcileServerDeletion(m) \/ ForgetLAN(m) \/ CheckDeletion(m)
                \/ DeleteLAN(m) \/ RemoveFinalizer(m)

Cloud == \/ \E i \in DOMAIN reqs : LANRequest(i) \/ AgeRequest(i)
         \/ \E m \in Machines : ServerRequest(m)

\* With all machines gone there is nothing to reconcile.
Idle == /\ \A m \in Machines : cached[m] = "gone"
        /\ UNCHANGED vars

Next == \/ \E m \in Machines : Reconcile(m) \/ StepError(m) \/ CacheSync(m) \/ UserDelete(m)
        \/ Crash
        \/ Cloud
        \/ Idle

Spec == Init /\ [][Next]_vars

\* Requests are executed, the cache follows the API server, and a reconcile that
\* ended is started again: every unfinished one returns a requeue or an error.  A
\* blocked Lock is served in turn, see Locker.
Fairness == /\ \A m \in Machines : /\ WF_vars(Reconcile(m))
                                   /\ SF_vars(LockLAN(m))
                                   /\ WF_vars(CacheSync(m))
                                   /\ WF_vars(ServerRequest(m))
            /\ WF_vars(\E i \in DOMAIN reqs : LANRequest(i))

FairSpec == Spec /\ Fairness

-----------------------------------------------------------------------------
(***************************************************************************)
(* Properties.                                                             *)
(***************************************************************************)
ClusterLANs == {i \in DOMAIN reqs : /\ reqs[i].method = "POST" /\ reqs[i].name = ClusterName
                                    /\ isPending(i) \/ Listed(i)}

CreatedLANs == {i \in ClusterLANs : ~isPending(i)}

Held == \E m \in Machines : obj[m] \in {"live", "deleting"}
Ending == \E m \in Machines : obj[m] \in {"deleting", "gone"}

Resource == INSTANCE ManagedResource
              WITH existing <- ClusterLANs, created <- CreatedLANs, held <- Held, ending <- Ending

\* The LAN is a managed resource of all the machines together: it is created only when a
\* machine has the finalizer and there is none, a LAN that is there goes only after the
\* deletion of a machine, and the last finalizer goes after the LAN.
LANManaged == Resource!Spec

\* However many machines look for the cluster's LAN at once, and wherever the
\* process dies, there is never a second LAN with its name, nor a second creation
\* on its way: getLAN would fail with "found multiple LANs" for good.
AtMostOneClusterLAN == \A i, j \in ClusterLANs : i = j

\* The finalizer of the last machine is removed only when the LAN is gone and no
\* creation of one is on its way (MachineFinalizer: "related cloud resources will
\* be deleted before the IonosCloudMachine resource will be removed").
NoOrphanedLAN == (\A m \in Machines : obj[m] \in {"new", "gone"}) => ClusterLANs = {}

\* Two deletions of one LAN are never under way together.  ReconcileLANDeletion asks
\* for the latest deletion request, and then sends its own: only the lock keeps a
\* second machine, which asked at the same time, from sending another one, and the
\* request list from forgetting one that a crash left unrecorded.
DeletesOnce == \A i, j \in DOMAIN reqs :
                 /\ reqs[i].method = "DELETE" /\ isPending(i)
                 /\ reqs[j].method = "DELETE" /\ isPending(j)
                 /\ reqs[i].id = reqs[j].id
                 => i = j

\* When all machines are to be deleted, all of them go, even though each waits for
\* the requests of the others and only the last one may delete the LAN.
AllMachinesGo == (\A m \in Machines : obj[m] \in {"deleting", "gone"})
                   ~> (\A m \in Machines : obj[m] = "gone")

\* Machines that are not deleted all get a server on the LAN, whichever of them
\* creates it.
ServersComeUp == <>[](\A m \in Machines : obj[m] \in {"new", "live"})
                   => <>[](\A m \in Machines : srv[m] = "up")
=============================================================================
