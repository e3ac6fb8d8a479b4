--------------------------- MODULE FailoverIPBlock ---------------------------
(***************************************************************************)
(* The IP block that the workers of one MachineDeployment share when their *)
(* failoverIP is AUTO: retrieveFailoverIPForMachine (network.go) finds or  *)
(* reserves it, ReconcileFailoverIPBlockDeletion (ipblock.go) deletes it   *)
(* when no entry of the LAN's failover group has its IP any more.          *)
(*                                                                         *)
(* The IP of block b is b.  A PATCH of a NIC or of the LAN and the wait    *)
(* for it are one step here, see IPFailover for them.                      *)
(***************************************************************************)
EXTENDS CloudAPI, FiniteSets

CONSTANTS Machines,    \* the workers
          MaxCreates,  \* bound: reservations the cloud accepts
          MaxFaults    \* bound: failed requests, failed calls and crashes

None == 0
BlockName == "failover"

ASSUME BlockAssumption == /\ Machines \subseteq Nat \ {None} /\ BlockName \in Names
                          /\ MaxCreates \in Nat /\ MaxFaults \in Nat

VARIABLES obj,      \* the IonosCloudMachine in the API server
          cached,   \* the controller's cached copy of it
          curReq,   \* status.currentRequest, for requests of the block
          pc,       \* the step the machine's reconcile is at
          block,    \* the block that findResource returned, as it was listed
          request,  \* the request that findResource returned, as it was then
          ip,       \* the failover IP that the reconcile retrieved
          lock,     \* the lock of the MachineDeployment's block
          srv,      \* the machine's server: none, up, deleting, gone
          nicIPs,   \* the failover IPs of the server's primary NIC
          group,    \* the LAN's failover group
          faults

localVars == <<block, request, ip>>
groupVars == <<srv, nicIPs, group>>
vars == <<obj, cached, curReq, pc, localVars, lock, groupVars, faults, cloudVars>>

ObjectStates == {"absent", "live", "deleting", "gone"}
NormalSteps == {"lock", "queue", "refind", "decide", "nic", "group"}
DeleteSteps == {"releaseD", "serverD", "lockD", "queueD", "refindD",
                "decideD", "requestD", "lanD", "deleteD"}
NoBlock == [id |-> None, available |-> FALSE]
NoRequest == [id |-> None, status |-> "FAILED"]

TypeOK == /\ CloudTypeOK
          /\ obj \in [Machines -> ObjectStates] /\ cached \in [Machines -> ObjectStates]
          /\ curReq \in [Machines -> Nat]
          /\ pc \in [Machines -> {"idle"} \cup NormalSteps \cup DeleteSteps]
          /\ block \in [Machines -> [id : Nat, available : BOOLEAN]]
          /\ request \in [Machines -> [id : Nat, status : Statuses]]
          /\ ip \in [Machines -> Nat]
          /\ lock \in Machines \cup {None}
          /\ srv \in [Machines -> {"none", "up", "deleting", "gone"}]
          /\ nicIPs \in [Machines -> SUBSET Nat]
          /\ group \subseteq [ip : Nat, nic : Machines]
          /\ faults \in Nat

Init == /\ reqs = <<>> /\ res = <<>>
        /\ obj = [m \in Machines |-> "absent"] /\ cached = obj
        /\ curReq = [m \in Machines |-> None] /\ ip = curReq
        /\ pc = [m \in Machines |-> "idle"]
        /\ block = [m \in Machines |-> NoBlock] /\ request = [m \in Machines |-> NoRequest]
        /\ lock = None
        /\ srv = [m \in Machines |-> "none"]
        /\ nicIPs = [m \in Machines |-> {}] /\ group = {}
        /\ faults = 0

-----------------------------------------------------------------------------
(***************************************************************************)
(* Control flow.  Leave ends a step that holds the lock: the deferred      *)
(* Unlock runs.                                                            *)
(***************************************************************************)
Goto(m, step) == pc' = [pc EXCEPT ![m] = step]

Leave(m, step) == /\ Goto(m, step)
                  /\ lock' = IF lock = m THEN None ELSE lock
                  /\ block' = [block EXCEPT ![m] = NoBlock]
                  /\ request' = [request EXCEPT ![m] = NoRequest]

Return(m) == Leave(m, "idle") /\ ip' = [ip EXCEPT ![m] = None]

Fault == /\ faults < MaxFaults
         /\ faults' = faults + 1

\* The patch at the end of the reconcile records the request, or fails.
SetCurrentRequest(m, i) == \/ curReq' = [curReq EXCEPT ![m] = i] /\ UNCHANGED faults
                           \/ UNCHANGED curReq /\ Fault

\* Mutant: a finished request is not cleared from the status of a deletion.
StartReconcile_Kept(m) ==
  /\ pc[m] = "idle"
  /\ cached[m] = "deleting" \/ (cached[m] = "live" /\ srv[m] = "up")
  /\ Goto(m, IF curReq[m] # None /\ (cached[m] = "deleting" \/ isPending(curReq[m])) THEN "idle"
             ELSE IF cached[m] = "live" THEN "lock" ELSE "releaseD")
  /\ UNCHANGED <<obj, cached, curReq, localVars, lock, groupVars, faults, cloudVars>>

\* checkRequestStates, then reconcileNormal goes on to ReconcileIPFailover when the
\* server is up.  A deletion requeues once more after the request is done.  The steps
\* at the LAN and the server, which change nothing here, are part of this one.
StartReconcile(m) ==
  /\ pc[m] = "idle"
  /\ cached[m] = "deleting" \/ (cached[m] = "live" /\ srv[m] = "up")
  /\ LET pending == curReq[m] # None /\ isPending(curReq[m])
         next == IF cached[m] = "live" THEN "lock" ELSE "releaseD"
     IN \/ /\ Goto(m, IF pending \/ (cached[m] = "deleting" /\ curReq[m] # None) THEN "idle" ELSE next)
           /\ curReq' = [curReq EXCEPT ![m] = IF pending THEN @ ELSE None]
           /\ UNCHANGED faults
        \/ /\ curReq[m] # None /\ Goto(m, next)   \* the status cannot be had
           /\ Fault /\ UNCHANGED curReq
  /\ UNCHANGED <<obj, cached, localVars, lock, groupVars, cloudVars>>

-----------------------------------------------------------------------------
(***************************************************************************)
(* scopedFindResource, the same in both directions.                        *)
(***************************************************************************)
\* getFailoverIPBlock: the first block with the name, in the order of the list.
getFailoverIPBlock(m) ==
  LET found == ListedAs(BlockName)
  IN IF found = {} THEN block' = [block EXCEPT ![m] = NoBlock]
     ELSE \E b \in found : block' = [block EXCEPT ![m] = [id |-> b, available |-> isAvailable(b)]]

\* Mutant: the block's lock is not taken.
LockBlock_NoLock(m) ==
  /\ pc[m] \in {"lock", "lockD"}
  /\ UNCHANGED lock
  /\ getFailoverIPBlock(m)
  /\ Goto(m, CASE pc[m] = "lock"  -> IF block'[m] = NoBlock THEN "queue" ELSE "decide"
               [] pc[m] = "lockD" -> IF block'[m] = NoBlock THEN "queueD" ELSE "decideD")
  /\ UNCHANGED <<obj, cached, curReq, request, ip, groupVars, faults, cloudVars>>

\* The lock is taken and the blocks are listed; without one the queue is asked.
LockBlock(m) ==
  /\ pc[m] \in {"lock", "lockD"}
  /\ lock = None /\ lock' = m
  /\ getFailoverIPBlock(m)
  /\ Goto(m, CASE pc[m] = "lock"  -> IF block'[m] = NoBlock THEN "queue" ELSE "decide"
               [] pc[m] = "lockD" -> IF block'[m] = NoBlock THEN "queueD" ELSE "decideD")
  /\ UNCHANGED <<obj, cached, curReq, request, ip, groupVars, faults, cloudVars>>

CheckQueue(m) ==
  /\ pc[m] \in {"queue", "queueD"}
  /\ \E i \in DOMAIN reqs \cup {None} :
       /\ CreationRequest(i, BlockName)
       /\ request' = [request EXCEPT ![m] = IF i = None THEN NoRequest
                                            ELSE [id |-> i, status |-> reqs[i].status]]
  /\ Goto(m, CASE pc[m] = "queue"  -> IF request'[m].status = "DONE" THEN "refind" ELSE "decide"
               [] pc[m] = "queueD" -> IF request'[m].status = "DONE" THEN "refindD" ELSE "decideD")
  /\ UNCHANGED <<obj, cached, curReq, block, ip, lock, groupVars, faults, cloudVars>>

\* The blocks are listed again when the creation is DONE.
LookUpAgain(m) ==
  /\ pc[m] \in {"refind", "refindD"}
  /\ getFailoverIPBlock(m)
  /\ Goto(m, IF pc[m] = "refind" THEN "decide" ELSE "decideD")
  /\ UNCHANGED <<obj, cached, curReq, request, ip, lock, groupVars, faults, cloudVars>>

creationPending(m) == request[m].status \in {"QUEUED", "RUNNING"}

-----------------------------------------------------------------------------
(***************************************************************************)
(* ReconcileIPFailover of a worker.                                        *)
(***************************************************************************)
Posts == {i \in DOMAIN reqs : reqs[i].method = "POST"}

\* reserveMachineDeploymentFailoverIPBlock; the cloud may refuse.
ReserveBlock(m) ==
  /\ \/ /\ Cardinality(Posts) < MaxCreates
        /\ Post(BlockName)
        /\ SetCurrentRequest(m, Len(reqs) + 1)
     \/ /\ Cardinality(Posts) = MaxCreates
        /\ UNCHANGED <<cloudVars, curReq, faults>>
  /\ Return(m)

\* retrieveFailoverIPForMachine once it knows the block or its creation.
RetrieveFailoverIP(m) ==
  /\ pc[m] = "decide"
  /\ \/ /\ block[m] # NoBlock /\ block[m].available
        /\ ip' = [ip EXCEPT ![m] = block[m].id]
        /\ Leave(m, "nic")
        /\ UNCHANGED <<cloudVars, curReq, faults>>
     \/ /\ \/ block[m] # NoBlock /\ ~block[m].available
           \/ block[m] = NoBlock /\ creationPending(m)
        /\ Return(m)
        /\ UNCHANGED <<cloudVars, curReq, faults>>
     \/ /\ block[m] = NoBlock /\ ~creationPending(m)
        /\ ReserveBlock(m)
  /\ UNCHANGED <<obj, cached, groupVars>>

\* reconcileNICConfig.  The cloud may refuse the IP of a block that is gone.
ReconcileNIC(m) ==
  /\ pc[m] = "nic"
  /\ \/ nicIPs' = [nicIPs EXCEPT ![m] = @ \cup {ip[m]}] /\ Goto(m, "group") /\ UNCHANGED <<localVars, lock>>
     \/ ~Listed(ip[m]) /\ Return(m) /\ UNCHANGED nicIPs
  /\ UNCHANGED <<obj, cached, curReq, srv, group, faults, cloudVars>>

\* Mutant: no entry is added.
reconcileIPFailoverGroup_NoAdd(m) ==
  /\ pc[m] = "group"
  /\ LET relevant == {e \in group : e.nic = m \/ e.ip = ip[m]}
     IN group' = (group \ relevant) \cup {[ip |-> ip[m], nic |-> e.nic] : e \in relevant}
  /\ Return(m)
  /\ UNCHANGED <<obj, cached, curReq, srv, nicIPs, faults, cloudVars>>

\* An entry that has the IP is left alone, the machine's own gets the IP, and without
\* either one is added.
reconcileIPFailoverGroup(m) ==
  /\ pc[m] = "group"
  /\ LET own == [ip |-> ip[m], nic |-> m]
         relevant == {e \in group : e.nic = m \/ e.ip = ip[m]}
     IN \/ relevant = {} /\ group' = group \cup {own}
        \/ \E e \in relevant : group' = IF e.ip = ip[m] THEN group ELSE (group \ {e}) \cup {own}
        \/ ~Listed(ip[m]) /\ UNCHANGED group
  /\ Return(m)
  /\ UNCHANGED <<obj, cached, curReq, srv, nicIPs, faults, cloudVars>>

-----------------------------------------------------------------------------
(***************************************************************************)
(* The deletion of a worker up to its block.                               *)
(***************************************************************************)
ListMachines == {n \in Machines : cached[n] \in {"live", "deleting"}}
HasServer(m) == srv[m] \in {"up", "deleting"}

\* ReconcileIPFailoverDeletion: the last machine removes its entry, another one hands
\* it over to some other machine.  Without a server of that one the step fails.
ReconcileIPFailoverDeletion(m) ==
  /\ pc[m] = "releaseD"
  /\ \/ (\A e \in group : e.nic # m) /\ Goto(m, "serverD") /\ UNCHANGED <<group, localVars, lock>>
     \/ \E e \in group :
          /\ e.nic = m
          /\ \/ ListMachines = {m} /\ group' = group \ {e} /\ Return(m)
             \/ \E n \in ListMachines \ {m} :
                  /\ group' = IF HasServer(n) THEN (group \ {e}) \cup {[e EXCEPT !.nic = n]} ELSE group
                  /\ Return(m)
  /\ UNCHANGED <<obj, cached, curReq, srv, nicIPs, faults, cloudVars>>

\* ReconcileServerDeletion: the server is deleted and waited for.
ReconcileServerDeletion(m) ==
  /\ pc[m] = "serverD"
  /\ \/ ~HasServer(m) /\ Goto(m, "lockD") /\ UNCHANGED <<srv, localVars, lock>>
     \/ HasServer(m) /\ srv' = [srv EXCEPT ![m] = "deleting"] /\ Return(m)
  /\ UNCHANGED <<obj, cached, curReq, nicIPs, group, faults, cloudVars>>

-----------------------------------------------------------------------------
(***************************************************************************)
(* ReconcileFailoverIPBlockDeletion after scopedFindResource.  When it has *)
(* nothing more to do the finalizer is removed.                            *)
(***************************************************************************)
RemoveFinalizer(m) == obj' = [obj EXCEPT ![m] = "gone"] /\ Return(m)

\* Mutant: a creation that is pending is not waited for.
AwaitCreation_Skip(m) ==
  /\ pc[m] = "decideD"
  /\ \/ block[m] # NoBlock /\ Goto(m, "requestD") /\ UNCHANGED <<obj, curReq, localVars, lock>>
     \/ /\ block[m] = NoBlock
        /\ RemoveFinalizer(m)
        /\ curReq' = [curReq EXCEPT ![m] = None]
  /\ UNCHANGED <<cached, groupVars, faults, cloudVars>>

AwaitCreation(m) ==
  /\ pc[m] = "decideD"
  /\ \/ /\ block[m] # NoBlock
        /\ Goto(m, "requestD")
        /\ UNCHANGED <<obj, curReq, localVars, lock, faults>>
     \/ /\ block[m] = NoBlock /\ creationPending(m)
        /\ SetCurrentRequest(m, request[m].id)
        /\ Return(m) /\ UNCHANGED obj
     \/ /\ block[m] = NoBlock /\ ~creationPending(m)
        /\ RemoveFinalizer(m)
        /\ curReq' = [curReq EXCEPT ![m] = None]
        /\ UNCHANGED faults
  /\ UNCHANGED <<cached, groupVars, cloudVars>>

\* getLatestIPBlockDeletionRequest: pending, DONE, or none or FAILED.
AwaitDeletion(m) ==
  /\ pc[m] = "requestD"
  /\ \E i \in DOMAIN reqs \cup {None} :
       /\ DeletionRequest(i, block[m].id)
       /\ \/ /\ i # None /\ isPending(i)
             /\ SetCurrentRequest(m, i)
             /\ Return(m) /\ UNCHANGED obj
          \/ /\ i # None /\ isDone(i)
             /\ RemoveFinalizer(m)
             /\ curReq' = [curReq EXCEPT ![m] = None]
             /\ UNCHANGED faults
          \/ /\ i # None => reqs[i].status = "FAILED"
             /\ Goto(m, "lanD")
             /\ UNCHANGED <<obj, curReq, localVars, lock, faults>>
  /\ UNCHANGED <<cached, groupVars, cloudVars>>

\* A LAN that is gone has no entries.
shouldSkipIPBlockDeletion(b) == \E e \in group : e.ip = b

\* getLAN: what the LAN said is acted upon later, in deleteFailoverIPBlock.
CheckBlockUse(m) ==
  /\ pc[m] = "lanD"
  /\ \/ /\ shouldSkipIPBlockDeletion(block[m].id)
        /\ RemoveFinalizer(m)
     \/ /\ ~shouldSkipIPBlockDeletion(block[m].id)
        /\ Goto(m, "deleteD")
        /\ UNCHANGED <<obj, localVars, lock>>
  /\ UNCHANGED <<cached, curReq, groupVars, faults, cloudVars>>

InUse(b) == (\E e \in group : e.ip = b) \/ \E n \in Machines : HasServer(n) /\ b \in nicIPs[n]

\* Mutant: the finalizer goes with the request, not after it.
deleteFailoverIPBlock_NoWait(m) ==
  /\ pc[m] = "deleteD"
  /\ \/ Delete(block[m].id) /\ RemoveFinalizer(m)
     \/ /\ ~Listed(block[m].id) \/ InUse(block[m].id)
        /\ Return(m)
        /\ UNCHANGED <<cloudVars, obj>>
  /\ UNCHANGED <<cached, curReq, groupVars, faults>>

\* deleteIPBlock.  The cloud may refuse to delete a block whose IP is in use.
deleteFailoverIPBlock(m) ==
  /\ pc[m] = "deleteD"
  /\ \/ Delete(block[m].id) /\ SetCurrentRequest(m, Len(reqs) + 1)
     \/ /\ ~Listed(block[m].id) \/ InUse(block[m].id)
        /\ UNCHANGED <<cloudVars, curReq, faults>>
  /\ Return(m)
  /\ UNCHANGED <<obj, cached, groupVars>>

-----------------------------------------------------------------------------
(***************************************************************************)
(* Faults, and what happens outside the controller.                        *)
(***************************************************************************)
\* A call of the step returns an error.
StepError(m) == /\ pc[m] # "idle"
                /\ Fault
                /\ Return(m)
                /\ UNCHANGED <<obj, cached, curReq, groupVars, cloudVars>>

Crash == /\ \E m \in Machines : pc[m] # "idle"
         /\ Fault
         /\ pc' = [m \in Machines |-> "idle"]
         /\ lock' = None
         /\ block' = [m \in Machines |-> NoBlock] /\ request' = [m \in Machines |-> NoRequest]
         /\ ip' = [m \in Machines |-> None]
         /\ cached' = obj
         /\ UNCHANGED <<obj, curReq, groupVars, cloudVars>>

\* Only the machines that are gone may be in the cache for longer.
CacheSync(m) == /\ cached[m] # obj[m]
                /\ cached' = [cached EXCEPT ![m] = obj[m]]
                /\ UNCHANGED <<obj, curReq, pc, localVars, lock, groupVars, faults, cloudVars>>

\* Until the cache has the change it is as if it had not been made.
SetObject(m, from, to) == /\ obj[m] = from
                          /\ obj' = [obj EXCEPT ![m] = to]
                          /\ cached' = [cached EXCEPT ![m] = to]
                          /\ UNCHANGED <<curReq, pc, localVars, lock, groupVars, faults, cloudVars>>

CreateMachine(m) == (\A n \in Machines : n < m => obj[n] # "absent") /\ SetObject(m, "absent", "live")

DeleteMachine(m) == SetObject(m, "live", "deleting")

\* A server comes up; one whose NIC is in the failover group cannot be deleted.
ServerRequest(m) ==
  /\ \/ srv[m] = "none" /\ obj[m] = "live" /\ srv' = [srv EXCEPT ![m] = "up"]
     \/ /\ srv[m] = "deleting"
        /\ srv' = [srv EXCEPT ![m] = IF \E e \in group : e.nic = m THEN "up" ELSE "gone"]
  /\ UNCHANGED <<obj, cached, curReq, pc, localVars, lock, nicIPs, group, faults, cloudVars>>

BlockRequest(i) ==
  /\ \/ (Run(i) \/ Finish(i, {})) /\ UNCHANGED faults
     \/ Fail(i) /\ Fault
  /\ UNCHANGED <<obj, cached, curReq, pc, localVars, lock, groupVars>>

-----------------------------------------------------------------------------
Reconcile(m) == \/ StartReconcile(m) \/ LockBlock(m) \/ CheckQueue(m) \/ LookUpAgain(m)
                \/ RetrieveFailoverIP(m) \/ ReconcileNIC(m) \/ reconcileIPFailoverGroup(m)
                \/ ReconcileIPFailoverDeletion(m) \/ ReconcileServerDeletion(m)
                \/ AwaitCreation(m) \/ AwaitDeletion(m) \/ CheckBlockUse(m) \/ deleteFailoverIPBlock(m)

Next == \/ \E m \in Machines : \/ Reconcile(m) \/ StepError(m) \/ CacheSync(m)
                               \/ CreateMachine(m) \/ DeleteMachine(m) \/ ServerRequest(m)
        \/ \E i \in DOMAIN reqs : BlockRequest(i)
        \/ Crash
        \/ (\A m \in Machines : cached[m] = "gone") /\ UNCHANGED vars

Spec == Init /\ [][Next]_vars

\* A reconcile that ended is started again (requeue, error, watch event or resync), the
\* locker lets every caller in and the cloud executes its requests.
Fairness ==
  /\ \A m \in Machines : /\ WF_vars(Reconcile(m)) /\ SF_vars(LockBlock(m))
                         /\ WF_vars(ServerRequest(m))
  /\ WF_vars(\E m \in Machines : CacheSync(m))
  /\ WF_vars(\E i \in DOMAIN reqs : BlockRequest(i))

FairSpec == Spec /\ Fairness

-----------------------------------------------------------------------------
(***************************************************************************)
(* Properties.                                                             *)
(***************************************************************************)
Blocks == {b \in Posts : Listed(b) \/ isPending(b)}

CreatedBlocks == {b \in Blocks : ~isPending(b)}

Held == \E m \in Machines : obj[m] \in {"live", "deleting"}
Ending == \E m \in Machines : obj[m] \in {"deleting", "gone"}

Resource == INSTANCE ManagedResource
              WITH existing <- Blocks, created <- CreatedBlocks, held <- Held, ending <- Ending

\* The block is a managed resource of the workers together: it is reserved only while a
\* worker has the finalizer and there is none, a block that is there goes only after the
\* deletion of a worker, and the last finalizer goes after the block.
FailoverBlockManaged == Resource!Spec

\* The workers of the deployment never have two blocks, although each of them reserves
\* one when it finds none: the lock, the list and the queue are asked in this order.
AtMostOneFailoverBlock == \A b, c \in Blocks : b = c

\* No block outlives the workers: one is left behind by a worker only while another
\* one still has its finalizer and will come past the block itself.
NoOrphanedFailoverBlock == Blocks # {} => \E m \in Machines : obj[m] \in {"live", "deleting"}

\* A worker that stays ends up in a group whose entry has the IP of a block that exists
\* and is on its NIC, also when another worker deleted the block between the worker's
\* look at the block and its entry in the group.
FailoverRestored ==
  <>[](\A m \in Machines : obj[m] = "live" =>
         \/ Cardinality(Posts) = MaxCreates /\ Blocks = {}
         \/ \E e \in group : Listed(e.ip) /\ e.ip \in nicIPs[m])

\* The last worker goes: it is not kept for ever by its entry, its server or the block.
LastMachineGoes ==
  <>[](\A m \in Machines : obj[m] = "deleting" => \E n \in Machines \ {m} : obj[n] \in {"live", "deleting"})
=============================================================================
