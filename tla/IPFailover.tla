----------------------------- MODULE IPFailover -----------------------------
(***************************************************************************)
(* The IP failover group of the LAN: ReconcileIPFailover and               *)
(* ReconcileIPFailoverDeletion (internal/service/cloud/network.go) with    *)
(* the NIC's failover IP (nic.go) and FindLatestMachine (scope/machine.go),*)
(* in concurrent reconciles of the machine controller.                     *)
(*                                                                         *)
(* The LAN exists; a server is there or not, and its primary NIC has the   *)
(* machine's name.  A LAN is patched with a whole new list of entries; the *)
(* caller waits for the request while it holds the LAN's lock.             *)
(***************************************************************************)
EXTENDS Naturals, Sequences, FiniteSets, SequencesExt

CONSTANTS Machines,    \* numbered in the order of their creation timestamps
          WorkerSets,  \* the sets that may be the workers of the one MachineDeployment
          EndpointIPs, \* the IPs the endpoint's host may resolve to
          MaxFaults    \* bound: failed requests, failed calls, crashes and moves

None == 0
WorkerIP == 1

ASSUME FailoverAssumption == /\ Machines \subseteq Nat \ {None} /\ IsFiniteSet(Machines)
                             /\ WorkerSets \subseteq SUBSET Machines
                             /\ EndpointIPs # {} /\ EndpointIPs \subseteq Nat \ {None, WorkerIP}
                             /\ MaxFaults \in Nat

VARIABLES obj,      \* the IonosCloudMachine in the API server
          cached,   \* the controller's cached copy of it
          ready,    \* the machines that are marked as provisioned
          curReq,   \* status.currentRequest: none, a NIC's or the LAN's
          pc,       \* the step the machine's reconcile is at
          ip,       \* the failover IP the reconcile works with
          nicRead,  \* the IPs of the NIC the reconcile read
          config,   \* the failover config the reconcile read
          mode,     \* what a deletion does with its entry: remove or swap
          waiting,  \* the outcome of the LAN request the reconcile waits for
          lock,     \* the LAN's lock
          srv,      \* the machine's server: none, up, deleting, gone
          nicIPs,   \* the failover IPs of the server's primary NIC
          nicReq,   \* the latest PATCH of that NIC, with all its IPs
          group,    \* the LAN's failover group
          patches,  \* the PATCHes of the LAN that are pending
          host,     \* the IP of the control plane endpoint
          moved,    \* it has been another one before
          workers,  \* the machines of the MachineDeployment; the others are control plane
          faults

localVars == <<ip, nicRead, config, mode, waiting>>
objVars == <<obj, cached, ready>>
hostVars == <<host, moved, workers>>
cloudVars == <<srv, nicIPs, nicReq, group, patches, hostVars>>
vars == <<objVars, curReq, pc, localVars, lock, cloudVars, faults>>

EndpointIP == CHOOSE h \in EndpointIPs : TRUE   \* the first one, it does not matter which
IPs == EndpointIPs \cup {WorkerIP}

failoverIP(m) == IF m \in workers THEN WorkerIP ELSE host

Peers(m) == IF m \in workers THEN workers ELSE Machines \ workers

Entries == [ip : IPs, nic : Machines]
ObjectStates == {"absent", "live", "deleting", "gone"}
NormalSteps == {"nic", "nicPatch", "nicWait", "nicPending", "lock", "decide", "wait"}
DeleteSteps == {"countD", "lockD", "decideD", "waitD", "serverD"}

TypeOK == /\ obj \in [Machines -> ObjectStates] /\ cached \in [Machines -> ObjectStates]
          /\ ready \subseteq Machines
          /\ curReq \in [Machines -> {"none", "nic", "lan"}]
          /\ pc \in [Machines -> {"idle"} \cup NormalSteps \cup DeleteSteps]
          /\ ip \in [Machines -> IPs \cup {None}] /\ nicRead \in [Machines -> SUBSET IPs]
          /\ config \in [Machines -> Seq(Entries)]
          /\ mode \in [Machines -> {"none", "remove", "swap"}]
          /\ waiting \in [Machines -> {"none", "pending", "done", "failed"}]
          /\ lock \in Machines \cup {None}
          /\ srv \in [Machines -> {"none", "up", "deleting", "gone"}]
          /\ nicIPs \in [Machines -> SUBSET IPs]
          /\ nicReq \in [Machines -> [status : {"none", "pending", "done", "failed"}, ips : SUBSET IPs]]
          /\ group \in Seq(Entries)
          /\ patches \in Seq([entries : Seq(Entries), by : Machines])
          /\ host \in EndpointIPs /\ moved \in BOOLEAN /\ workers \in WorkerSets /\ faults \in Nat

Init == /\ obj = [m \in Machines |-> "absent"] /\ cached = obj /\ ready = {}
        /\ curReq = [m \in Machines |-> "none"]
        /\ pc = [m \in Machines |-> "idle"]
        /\ ip = [m \in Machines |-> None] /\ nicRead = [m \in Machines |-> {}]
        /\ config = [m \in Machines |-> <<>>]
        /\ mode = [m \in Machines |-> "none"] /\ waiting = mode
        /\ lock = None
        /\ srv = mode
        /\ nicIPs = nicRead
        /\ nicReq = [m \in Machines |-> [status |-> "none", ips |-> {}]]
        /\ group = <<>> /\ patches = <<>>
        /\ host = EndpointIP /\ moved = FALSE /\ workers \in WorkerSets
        /\ faults = 0

-----------------------------------------------------------------------------
(***************************************************************************)
(* Control flow.  Return ends the reconcile: the deferred Unlock runs.     *)
(***************************************************************************)
Goto(m, step) == pc' = [pc EXCEPT ![m] = step]

Leave(m, step) == /\ Goto(m, step)
                  /\ lock' = IF lock = m THEN None ELSE lock
                  /\ ip' = [ip EXCEPT ![m] = None] /\ nicRead' = [nicRead EXCEPT ![m] = {}]
                  /\ config' = [config EXCEPT ![m] = <<>>]
                  /\ mode' = [mode EXCEPT ![m] = "none"]
                  /\ waiting' = [waiting EXCEPT ![m] = "none"]

Return(m) == Leave(m, "idle")

Fault == /\ faults < MaxFaults
         /\ faults' = faults + 1

requestPending(m) == \/ curReq[m] = "nic" /\ nicReq[m].status = "pending"
                     \/ curReq[m] = "lan" /\ \E i \in DOMAIN patches : patches[i].by = m

\* checkRequestStates, for the request of a PATCH that was not waited for to the end.
\* reconcileNormal goes on to ReconcileIPFailover when the server is up.
checkRequestStates(m) ==
  /\ \/ cached[m] = "live" /\ srv[m] = "up" /\ Goto(m, IF requestPending(m) THEN "idle" ELSE "nic")
     \/ cached[m] = "deleting" /\ Goto(m, IF curReq[m] # "none" THEN "idle" ELSE "countD")
  /\ curReq' = [curReq EXCEPT ![m] = IF requestPending(m) THEN @ ELSE "none"]

\* A reconcile that goes on to ReconcileIPFailover looks up the failover IP, once.
StartReconcile(m) ==
  /\ pc[m] = "idle"
  /\ checkRequestStates(m)
  /\ ip' = [ip EXCEPT ![m] = IF pc'[m] = "nic" THEN failoverIP(m) ELSE None]
  /\ UNCHANGED <<objVars, nicRead, config, mode, waiting, lock, cloudVars, faults>>

-----------------------------------------------------------------------------
(***************************************************************************)
(* reconcileNICConfig: the NIC gets the failover IP.  A PATCH that is      *)
(* pending already is waited for, whatever IPs it brings.                  *)
(***************************************************************************)
\* Mutant: the NIC of a machine that is provisioned is not looked at again.
ReadNIC_Once(m) ==
  /\ pc[m] = "nic"
  /\ IF ip[m] \in nicIPs[m] \/ m \in ready
     THEN Goto(m, "lock") /\ UNCHANGED nicRead
     ELSE Goto(m, "nicPatch") /\ nicRead' = [nicRead EXCEPT ![m] = nicIPs[m]]
  /\ UNCHANGED <<objVars, curReq, ip, config, mode, waiting, lock, cloudVars, faults>>

ReadNIC(m) ==
  /\ pc[m] = "nic"
  /\ IF ip[m] \in nicIPs[m]
     THEN Goto(m, "lock") /\ UNCHANGED nicRead
     ELSE Goto(m, "nicPatch") /\ nicRead' = [nicRead EXCEPT ![m] = nicIPs[m]]
  /\ UNCHANGED <<objVars, curReq, ip, config, mode, waiting, lock, cloudVars, faults>>

\* getLatestNICPatchRequest, and patchNIC up to the wait: the IPs that were read and
\* the failover IP replace those of the NIC.  Only the machine's own reconcile
\* patches the NIC, so no PATCH is made between the two calls.
PatchNIC(m) ==
  /\ pc[m] = "nicPatch"
  /\ IF nicReq[m].status = "pending"
     THEN Goto(m, "nicPending") /\ UNCHANGED nicReq
     ELSE /\ Goto(m, "nicWait")
          /\ nicReq' = [nicReq EXCEPT ![m] = [status |-> "pending", ips |-> nicRead[m] \cup {ip[m]}]]
  /\ nicRead' = [nicRead EXCEPT ![m] = {}]
  /\ UNCHANGED <<objVars, curReq, ip, config, mode, waiting, lock, srv, nicIPs, group, patches, hostVars, faults>>

\* Mutant: the request is not waited for.
AwaitNIC_NoWait(m) ==
  /\ pc[m] \in {"nicWait", "nicPending"}
  /\ IF nicReq[m].status # "failed" THEN Goto(m, "lock") /\ UNCHANGED <<localVars, lock>> ELSE Return(m)
  /\ UNCHANGED <<objVars, curReq, cloudVars, faults>>

\* WaitForRequest returns an error when the request failed.  Then patchNIC leaves its
\* own request recorded; one that was found pending is not recorded at all.
AwaitNIC(m) ==
  /\ pc[m] \in {"nicWait", "nicPending"} /\ nicReq[m].status # "pending"
  /\ IF nicReq[m].status = "done" THEN Goto(m, "lock") /\ UNCHANGED <<localVars, lock>> ELSE Return(m)
  /\ curReq' = [curReq EXCEPT ![m] = IF pc[m] = "nicPending" THEN @
                                     ELSE IF nicReq[m].status = "done" THEN "none" ELSE "nic"]
  /\ UNCHANGED <<objVars, cloudVars, faults>>

-----------------------------------------------------------------------------
(***************************************************************************)
(* The critical section: retrieveLANFailoverConfig reads the LAN, then     *)
(* checks whether a PATCH of it is pending.                                *)
(***************************************************************************)
LockLAN(m) == /\ pc[m] \in {"lock", "lockD"}
              /\ lock = None
              /\ lock' = m
              /\ config' = [config EXCEPT ![m] = group]
              /\ Goto(m, IF pc[m] = "lock" THEN "decide" ELSE "decideD")
              /\ UNCHANGED <<objVars, curReq, ip, nicRead, mode, waiting, cloudVars, faults>>

\* Mutant: the latest PATCH of the LAN is not looked up.
isLANPatchPending_Never == FALSE

isLANPatchPending == patches # <<>>

\* patchLAN, up to the wait.
PatchLAN(m, entries, step) ==
  /\ patches' = Append(patches, [entries |-> entries, by |-> m])
  /\ waiting' = [waiting EXCEPT ![m] = "pending"]
  /\ Goto(m, step)
  /\ UNCHANGED <<lock, ip, nicRead, config, mode>>

First(S) == CHOOSE i \in S : \A j \in S : i <= j

\* Mutant: an entry of another NIC with the IP is overlooked.
Relevant_NIC(m) == {i \in DOMAIN config[m] : config[m][i].nic = m}

\* The first entry with the NIC or the IP decides.
Relevant(m) == {i \in DOMAIN config[m] : config[m][i].nic = m \/ config[m][i].ip = ip[m]}

\* reconcileIPFailoverGroup: leave an entry alone that has the IP, correct the IP of
\* the machine's own, append an entry if there is none.  When nothing is to be
\* changed FinalizeMachineProvisioning follows.
ReconcileIPFailoverGroup(m) ==
  /\ pc[m] = "decide"
  /\ IF isLANPatchPending
     THEN Return(m) /\ UNCHANGED <<ready, patches>>
     ELSE LET own == [ip |-> ip[m], nic |-> m]
          IN IF Relevant(m) = {}
             THEN PatchLAN(m, Append(config[m], own), "wait") /\ UNCHANGED ready
             ELSE LET i == First(Relevant(m))
                  IN IF config[m][i].ip = ip[m]
                     THEN Return(m) /\ ready' = ready \cup {m} /\ UNCHANGED patches
                     ELSE PatchLAN(m, [config[m] EXCEPT ![i] = own], "wait") /\ UNCHANGED ready
  /\ UNCHANGED <<obj, cached, curReq, srv, nicIPs, nicReq, group, hostVars, faults>>

\* WaitForRequest in patchLAN.  Then the step requeues, or returns the error.
AwaitLAN(m) ==
  /\ pc[m] \in {"wait", "waitD"} /\ waiting[m] # "pending"
  /\ Return(m)
  /\ curReq' = [curReq EXCEPT ![m] = IF waiting[m] = "done" THEN "none" ELSE "lan"]
  /\ UNCHANGED <<objVars, cloudVars, faults>>

-----------------------------------------------------------------------------
(***************************************************************************)
(* ReconcileIPFailoverDeletion.                                            *)
(***************************************************************************)
Listed(m) == {n \in Peers(m) : cached[n] \in {"live", "deleting"}}
HasServer(m) == srv[m] \in {"up", "deleting"}

\* Mutant: the machine itself is not counted.
CountMachines_OffByOne(m) ==
  /\ pc[m] = "countD"
  /\ LET count == Cardinality(Listed(m))
     IN /\ mode' = [mode EXCEPT ![m] = IF count = 0 THEN "remove" ELSE "swap"]
        /\ Goto(m, IF count = 0 /\ ~HasServer(m) THEN "serverD" ELSE "lockD")
  /\ UNCHANGED <<objVars, curReq, ip, nicRead, config, waiting, lock, cloudVars, faults>>

\* CountMachines and what follows for its result.  Without a server
\* ensureFailoverDeletion has nothing to do.
CountMachines(m) ==
  /\ pc[m] = "countD"
  /\ LET count == Cardinality(Listed(m))
         mode_  == IF count = 0 THEN "none" ELSE IF count = 1 THEN "remove" ELSE "swap"
     IN /\ mode' = [mode EXCEPT ![m] = mode_]
        /\ Goto(m, IF mode_ = "swap" \/ (mode_ = "remove" /\ HasServer(m)) THEN "lockD" ELSE "serverD")
  /\ UNCHANGED <<objVars, curReq, ip, nicRead, config, waiting, lock, cloudVars, faults>>

\* FindLatestMachine: list is what ListMachines returned, in any order.
FindLatestMachine(m, list) ==
  LET later(latest, n) == IF n >= latest /\ n # m THEN n ELSE latest
      latest == FoldLeft(later, list[1], list)
  IN IF Len(list) <= 1 \/ latest = m THEN None ELSE latest

Own(m) == {i \in DOMAIN config[m] : config[m][i].nic = m}

\* Nothing to change: the NIC is not in the group, or no machine takes it over.
Skip(m) == Leave(m, "serverD") /\ UNCHANGED patches

RemoveNIC(m) == IF Own(m) = {} THEN Skip(m)
                ELSE PatchLAN(m, RemoveAt(config[m], First(Own(m))), "waitD")

\* The machine found is one of the list, or there is none.  Without a server of it the
\* step fails.
SwapNIC(m, target) ==
  IF Own(m) = {} \/ target \notin Listed(m) THEN Skip(m)
  ELSE IF HasServer(target)
       THEN PatchLAN(m, [config[m] EXCEPT ![First(Own(m))].nic = target], "waitD")
       ELSE Return(m) /\ UNCHANGED patches

\* removeNICFromFailoverGroup or swapNICInFailoverGroup.
ReleaseFailoverGroup(m) ==
  /\ pc[m] = "decideD"
  /\ IF isLANPatchPending THEN Return(m) /\ UNCHANGED patches
     ELSE \/ mode[m] = "remove" /\ RemoveNIC(m)
          \/ /\ mode[m] = "swap"
             /\ \E list \in SetToSeqs(Listed(m)) : SwapNIC(m, FindLatestMachine(m, list))
  /\ UNCHANGED <<objVars, curReq, srv, nicIPs, nicReq, group, hostVars, faults>>

\* ReconcileServerDeletion; without a server the finalizer is removed.
DeleteServer(m) ==
  /\ pc[m] = "serverD"
  /\ srv' = [srv EXCEPT ![m] = IF @ = "up" THEN "deleting" ELSE @]
  /\ obj' = [obj EXCEPT ![m] = IF HasServer(m) THEN @ ELSE "gone"]
  /\ Return(m)
  /\ UNCHANGED <<cached, ready, curReq, nicIPs, nicReq, group, patches, hostVars, faults>>

-----------------------------------------------------------------------------
(***************************************************************************)
(* Faults, and what happens outside the controller.                        *)
(***************************************************************************)
\* A call of the step returns an error.
StepError(m) == /\ pc[m] \notin {"idle", "nicWait", "nicPending", "wait", "waitD"}
                /\ Fault
                /\ Return(m)
                /\ UNCHANGED <<objVars, curReq, cloudVars>>

\* WaitForRequest gives up; the reconcile's own request is recorded if the final patch
\* succeeds.
WaitError(m) ==
  /\ pc[m] \in {"nicWait", "nicPending", "wait", "waitD"}
  /\ Fault
  /\ \/ UNCHANGED curReq
     \/ /\ pc[m] # "nicPending"
        /\ curReq' = [curReq EXCEPT ![m] = IF pc[m] = "nicWait" THEN "nic" ELSE "lan"]
  /\ Return(m)
  /\ UNCHANGED <<objVars, cloudVars>>

Crash == /\ \E m \in Machines : pc[m] # "idle"
         /\ Fault
         /\ pc' = [m \in Machines |-> "idle"]
         /\ lock' = None
         /\ ip' = [m \in Machines |-> None] /\ nicRead' = [m \in Machines |-> {}]
         /\ config' = [m \in Machines |-> <<>>]
         /\ mode' = [m \in Machines |-> "none"] /\ waiting' = mode'
         /\ cached' = obj
         /\ UNCHANGED <<obj, ready, curReq, cloudVars>>

CacheSync(m) == /\ cached[m] # obj[m]
                /\ cached' = [cached EXCEPT ![m] = obj[m]]
                /\ UNCHANGED <<obj, ready, curReq, pc, localVars, lock, cloudVars, faults>>

CreateMachine(m) == /\ obj[m] = "absent" /\ \A n \in Machines : n < m => obj[n] # "absent"
                    /\ obj' = [obj EXCEPT ![m] = "live"]
                    /\ UNCHANGED <<cached, ready, curReq, pc, localVars, lock, cloudVars, faults>>

DeleteMachine(m) == /\ obj[m] = "live"
                    /\ obj' = [obj EXCEPT ![m] = "deleting"]
                    /\ UNCHANGED <<cached, ready, curReq, pc, localVars, lock, cloudVars, faults>>

\* The host of the endpoint is resolved to another IP.
MoveEndpoint == /\ Fault
                /\ host' \in EndpointIPs \ {host} /\ moved' = TRUE
                /\ UNCHANGED <<objVars, curReq, pc, localVars, lock, srv, nicIPs, nicReq, group, patches, workers>>

InGroup(m) == \E i \in DOMAIN group : group[i].nic = m

\* A server comes up; one whose NIC is in the failover group cannot be deleted.
ServerRequest(m) ==
  /\ \/ /\ srv[m] = "none" /\ obj[m] = "live"
        /\ srv' = [srv EXCEPT ![m] = "up"]
        /\ UNCHANGED faults
     \/ /\ srv[m] = "deleting"
        /\ srv' = [srv EXCEPT ![m] = IF InGroup(m) THEN "up" ELSE "gone"]
        /\ UNCHANGED faults
     \/ /\ srv[m] = "deleting" /\ ~InGroup(m)
        /\ srv' = [srv EXCEPT ![m] = "up"]
        /\ Fault
  /\ UNCHANGED <<objVars, curReq, pc, localVars, lock, nicIPs, nicReq, group, patches, hostVars>>

NICRequest(m) ==
  /\ nicReq[m].status = "pending"
  /\ \/ /\ nicReq' = [nicReq EXCEPT ![m].status = "done"]
        /\ nicIPs' = [nicIPs EXCEPT ![m] = nicReq[m].ips]
        /\ UNCHANGED faults
     \/ /\ nicReq' = [nicReq EXCEPT ![m].status = "failed"]
        /\ UNCHANGED nicIPs
        /\ Fault
  /\ UNCHANGED <<objVars, curReq, pc, localVars, lock, srv, group, patches, hostVars>>

\* A failover group can only have NICs that exist.
LANRequest ==
  /\ patches # <<>>
  /\ patches' = Tail(patches)
  /\ LET patch  == Head(patches)
         valid  == \A i \in DOMAIN patch.entries : HasServer(patch.entries[i].nic)
         Tell(outcome) == waiting' = [waiting EXCEPT ![patch.by] = IF @ = "pending" THEN outcome ELSE @]
     IN \/ valid /\ group' = patch.entries /\ Tell("done") /\ UNCHANGED faults
        \/ ~valid /\ UNCHANGED group /\ Tell("failed") /\ UNCHANGED faults
        \/ valid /\ UNCHANGED group /\ Tell("failed") /\ Fault
  /\ UNCHANGED <<objVars, curReq, pc, ip, nicRead, config, mode, lock, srv, nicIPs, nicReq, hostVars>>

-----------------------------------------------------------------------------
Reconcile(m) == \/ StartReconcile(m)
                \/ ReadNIC(m) \/ PatchNIC(m) \/ AwaitNIC(m)
                \/ LockLAN(m) \/ ReconcileIPFailoverGroup(m) \/ AwaitLAN(m)
                \/ CountMachines(m) \/ ReleaseFailoverGroup(m) \/ DeleteServer(m)

Next == \/ \E m \in Machines :
             \/ Reconcile(m) \/ StepError(m) \/ WaitError(m)
             \/ CacheSync(m) \/ CreateMachine(m) \/ DeleteMachine(m)
             \/ ServerRequest(m) \/ NICRequest(m)
        \/ Crash \/ MoveEndpoint \/ LANRequest
        \/ (\A m \in Machines : cached[m] = "gone") /\ UNCHANGED vars

Spec == Init /\ [][Next]_vars

\* A reconcile that ended is started again (requeue, error, watch event or resync),
\* the locker lets every caller in, the cloud executes its requests, and the cache
\* lists machines in random order, so that not every list starts with the same one.
Fairness ==
  /\ \A m \in Machines : /\ WF_vars(Reconcile(m)) /\ SF_vars(LockLAN(m))
                          /\ WF_vars(ServerRequest(m))
                          /\ SF_vars(ReleaseFailoverGroup(m) /\ patches' # patches)
  /\ WF_vars(LANRequest)
  /\ WF_vars(\E m \in Machines : CacheSync(m)) /\ WF_vars(\E m \in Machines : NICRequest(m))

FairSpec == Spec /\ Fairness

-----------------------------------------------------------------------------
(***************************************************************************)
(* Properties.                                                             *)
(***************************************************************************)
\* The IP of the control plane cannot have changed under more than one machine.
OneIPForAll == ~moved \/ Cardinality(Machines \ workers) = 1

\* The failover group has one entry at most for the IP of the workers, and for the
\* endpoint's IP, although every machine adds its own NIC when it finds none and the
\* list is replaced as a whole.  Not when the endpoint moves under several control
\* plane machines: one of them adds an entry for the new IP while another's has the
\* old one, which reconcileIPFailoverGroup then changes to the new IP as well.
OneEntryPerIP == \A i, j \in DOMAIN group :
                   group[i].ip = group[j].ip /\ (group[i].ip = WorkerIP \/ OneIPForAll) => i = j

\* The LAN is never patched while a PATCH is pending, although a caller that gave
\* up waiting, or a crash, leaves its request behind.
PatchesSerialised == Len(patches) <= 1

\* A machine that is marked as provisioned has the failover IP on its NIC, also when
\* the PATCH of the NIC was made by an earlier reconcile that gave up waiting.  Not
\* when the endpoint has moved: that PATCH may then add the old IP, and
\* reconcileNICConfig does not look at the NIC again (see FailoverKept).
ReadyNICHasIP == \A m \in ready : m \in workers \/ ~moved => failoverIP(m) \in nicIPs[m]

\* A machine that is deleted goes, also when FindLatestMachine finds nobody to hand the
\* entry to: the deletion of its server is then refused and tried again.
MachinesGo == \A m \in Machines : obj[m] = "deleting" ~> obj[m] = "gone"

\* A machine is not left for ever in its deletion unless a peer is too: alone, it finds
\* who takes the entry over, or has its server's deletion refused and tries again.
NoLoneMachineStuck ==
  <>[](\A m \in Machines : obj[m] = "deleting" => \E n \in Peers(m) \ {m} : obj[n] = "deleting")

\* The failover IP of a machine that stays ends up on its NIC and in the failover group,
\* also when the endpoint moves while a PATCH with the old IP is on its way.
FailoverKept ==
  <>[](\A m \in Machines : obj[m] = "live" => /\ failoverIP(m) \in nicIPs[m]
                                              /\ \E i \in DOMAIN group : group[i].ip = failoverIP(m))
=============================================================================
