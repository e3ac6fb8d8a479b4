------------------------ MODULE MachineServerProofs ------------------------
(***************************************************************************)
(* Proofs about MachineServer: a machine has at most one server, none is   *)
(* left behind by a machine that is gone, no boot volume without its       *)
(* server, a provisioned machine has a server that runs, and the server is *)
(* a ManagedResource of its machine.                                       *)
(***************************************************************************)
EXTENDS MachineServer, CloudAPIProofs

(***************************************************************************)
(* The inductive invariant.                                                *)
(***************************************************************************)
LocalType == /\ mem \in MachineObjects /\ base \in MachineObjects
             /\ pc \in {"idle", "check", "lookup", "queue", "relookup", "decide", "finalize"}
             /\ server \in [id : Nat, available : BOOLEAN, running : BOOLEAN, boot : BOOLEAN]
             /\ request \in [id : Nat, pending : BOOLEAN]
ObjectType == obj \in MachineObjects /\ cached \in MachineObjects
EnvType == /\ bootstrap \in {"none", "named", "available"}
           /\ isDeleted \in BOOLEAN
           /\ faults \in Nat
VolumeType == /\ running \subseteq DOMAIN res /\ boots \subseteq DOMAIN res
              /\ purging \subseteq DOMAIN reqs

CloudOK == CloudTypeOK /\ CloudInv

\* A server that is there or being created is the newest one.
Newest == \A b \in Servers : \A j \in DOMAIN reqs : reqs[j].method = "POST" => j <= b

\* What findResource found out about servers that are not listed.
Knows ==
  /\ pc = "queue" => server = NoServer /\ \A b \in Servers : reqs[b].recent
  /\ pc = "relookup" => server = NoServer /\ ~request.pending /\ \A b \in Servers : ~isPending(b)
  /\ pc = "decide" /\ server = NoServer /\ ~request.pending => Servers = {}

\* What the lookup saw of the server is still true of it.
Seen == pc = "decide" /\ server # NoServer =>
  /\ server.id \in DOMAIN reqs /\ Servers \subseteq {server.id}
  /\ ~server.boot => server.id \notin boots /\ ~isPending(server.id)
  /\ server.available /\ server.running /\ obj.state = "live" => server.id \in running \cap Created

\* The finalizer goes after the server, and the cache is behind the API server.
ObjectInv ==
  /\ obj.state = "deleting" => obj.finalizer
  /\ obj.state = "gone" => ~obj.finalizer
  /\ ~obj.finalizer => Servers = {}
  /\ cached.state = "live" /\ cached.finalizer => obj.state # "gone" /\ obj.finalizer
  /\ cached.state = "deleting" => obj.state # "live" /\ cached.finalizer
  /\ cached.state = "gone" => obj.state = "gone"

\* The copy that a reconcile works on.
ReconcileInv == pc # "idle" =>
  /\ ~Deleting => obj.state # "gone" /\ obj.finalizer /\ mem.finalizer
  /\ Deleting => obj.state # "live" /\ cached.state # "live" /\ base.finalizer
  /\ ~mem.finalizer => pc = "finalize" /\ Servers = {}

\* A server that is deleted without its volumes has no boot volume, and gets none.
BootInv ==
  /\ BootVolumeNotLeaked
  /\ \A i \in purging : reqs[i].method = "DELETE"
  /\ \A i \in DOMAIN reqs : reqs[i].method = "POST" /\ isPending(i) /\ Listed(i) => i \in boots
  /\ \A i \in DOMAIN reqs \ purging : reqs[i].method = "DELETE" =>
        reqs[i].id \notin boots /\ ~isPending(reqs[i].id)

\* Only a server that runs makes a machine provisioned, and only a deletion of the
\* machine deletes it.
ProvisionedInv == obj.state = "live" =>
  /\ NoDeletion
  /\ obj.provisioned \/ cached.provisioned \/ mem.provisioned => running \cap Created # {}

ServerInv == /\ CloudOK /\ LocalType /\ ObjectType /\ EnvType /\ VolumeType
             /\ Newest /\ Knows /\ Seen
             /\ ObjectInv /\ ReconcileInv /\ BootInv /\ ProvisionedInv

-----------------------------------------------------------------------------
(***************************************************************************)
(* The cloud.                                                              *)
(***************************************************************************)
\* A step after which no server is there that was not there or being created before.
CloudStep == /\ CloudOK' /\ Kept /\ Durable
             /\ DOMAIN res' = DOMAIN reqs' /\ DOMAIN reqs \subseteq DOMAIN reqs'

LEMMA ServersAreResources == Servers = Resources /\ Servers' = Resources'
BY Zenon DEF Servers, Resources

LEMMA NoCall ==
  ASSUME CloudOK, UNCHANGED cloudVars
  PROVE  CloudStep /\ Remembered /\ UNCHANGED <<reqs, res>>
<1>1. CloudOK' /\ Kept /\ Durable /\ Remembered /\ reqs' = reqs /\ res' = res
  BY Zenon, CloudUnchanged DEF CloudOK
<1>2. DOMAIN res' = DOMAIN reqs'
  BY <1>1 DEF CloudOK, CloudTypeOK
<1> QED
  BY Zenon, <1>1, <1>2 DEF CloudStep

LEMMA ServersShrink ==
  ASSUME CloudStep
  PROVE  /\ Servers' \subseteq Servers
         /\ \A b \in Servers : ~isPending(b) => ~isPending(b)'
BY Zenon, ServersAreResources DEF CloudStep, Kept, isPending, Servers

LEMMA NewestKept ==
  ASSUME Newest, CloudStep
  PROVE  Newest'
BY Zenon, ServersShrink DEF Newest, CloudStep, Kept

\* A server that is created stays until its deletion is requested.
LEMMA CreatedStay ==
  ASSUME CloudOK, CloudStep, NoDeletion
  PROVE  Created \subseteq Created'
<1> SUFFICES ASSUME NEW s \in Created PROVE s \in Created'
  OBVIOUS
<1>1. s \in Resources /\ s \in DOMAIN reqs /\ reqs[s].method = "POST" /\ ~isPending(s) /\ Listed(s)
  BY Zenon, ServersAreResources DEF Created, Servers
<1>2. reqs[s].status = "DONE"
  <2>1. reqs[s] \in Requests
    BY <1>1 DEF CloudOK, CloudTypeOK
  <2>2. reqs[s].status # "FAILED"
    BY Zenon, <1>1 DEF CloudOK, CloudInv, Listed
  <2> QED
    BY Zenon, <1>1, <2>1, <2>2 DEF Requests, Statuses, isPending
<1>3. reqs'[s].status = "DONE" /\ reqs'[s].method = "POST" /\ s \in DOMAIN reqs'
  BY Zenon, <1>1, <1>2 DEF CloudStep, Kept
<1>4. Listed(s)'
  BY Zenon, <1>1, <1>3 DEF CloudStep, Durable, NoDeletion
<1> QED
  BY Zenon, <1>3, <1>4 DEF Created, Servers, isPending

-----------------------------------------------------------------------------
(***************************************************************************)
(* The copies of the object.                                               *)
(***************************************************************************)
\* A copy that differs from another one only in what is recorded of the server.
Recorded(p, o) == /\ p \in MachineObjects /\ p.state = o.state
                  /\ p.finalizer = o.finalizer /\ p.provisioned = o.provisioned

LEMMA RequestRecorded ==
  ASSUME NEW o \in MachineObjects, NEW n \in Nat
  PROVE  Recorded([o EXCEPT !.request = n], o)
BY Zenon DEF MachineObjects, Recorded

LEMMA ProviderRecorded ==
  ASSUME NEW o \in MachineObjects, NEW n \in Nat
  PROVE  Recorded([o EXCEPT !.providerID = n], o)
BY Zenon DEF MachineObjects, Recorded

-----------------------------------------------------------------------------
(***************************************************************************)
(* Steps of a reconcile.                                                   *)
(***************************************************************************)
\* The finalizer is dropped only without a server, and provisioned set only with one
\* that runs.
CopyStep ==
  /\ mem.finalizer => mem'.finalizer \/ (Deleting /\ pc' = "finalize" /\ Servers = {})
  /\ mem'.provisioned => mem.provisioned \/ (obj.state = "live" => running \cap Created # {})

\* A step that works on the copy of the object and creates no server.
LEMMA ReconcileStep ==
  ASSUME ServerInv, pc \notin {"idle", "finalize"}, pc' # "idle", CopyStep,
         UNCHANGED <<obj, cached, base, bootstrap, isDeleted, running>>, LocalType', faults' \in Nat,
         CloudStep, VolumeType', BootInv', obj.state = "live" => NoDeletion',
         Knows', Seen'
  PROVE  ServerInv'
<1>1. /\ CloudOK /\ ObjectType /\ EnvType /\ Newest /\ ObjectInv /\ ReconcileInv /\ ProvisionedInv
  BY Zenon DEF ServerInv
<1>2. Servers' \subseteq Servers /\ Newest' /\ CloudOK'
  BY Zenon, <1>1, ServersShrink, NewestKept DEF CloudStep
<1>3. ObjectInv'
  BY Zenon, <1>1, <1>2 DEF ObjectInv
<1>4. ReconcileInv'
  BY Zenon, <1>1, <1>2 DEF ReconcileInv, Deleting, CopyStep
<1>5. ProvisionedInv'
  <2> SUFFICES ASSUME obj.state = "live", obj.provisioned \/ cached.provisioned \/ mem'.provisioned
               PROVE  running' \cap Created' # {}
    BY Zenon DEF ProvisionedInv
  <2>1. NoDeletion /\ running \cap Created # {}
    BY Zenon, <1>1 DEF ProvisionedInv, CopyStep
  <2> QED
    BY Zenon, <1>1, <2>1, CreatedStay
<1>6. ObjectType' /\ EnvType'
  BY Zenon, <1>1 DEF ObjectType, EnvType
<1> QED
  BY Zenon, <1>2, <1>3, <1>4, <1>5, <1>6 DEF ServerInv

\* Nothing but the copy and the step changes.
LEMMA CopyOnly ==
  ASSUME ServerInv, pc \notin {"idle", "finalize"}, pc' # "idle", CopyStep,
         UNCHANGED <<obj, cached, base, bootstrap, isDeleted, cloudVars, volVars>>,
         LocalType', faults' \in Nat, Knows', Seen'
  PROVE  ServerInv'
<1>1. CloudOK /\ VolumeType /\ BootInv /\ ProvisionedInv
  BY Zenon DEF ServerInv
<1>2. CloudStep /\ UNCHANGED <<reqs, res, running, boots, purging>>
  BY Zenon, <1>1, NoCall DEF volVars
<1>3. VolumeType'
  BY Zenon, <1>1, <1>2 DEF VolumeType
<1>4. BootInv'
  BY Zenon, <1>1, <1>2 DEF BootInv, BootVolumeNotLeaked, Listed, isPending
<1>5. obj.state = "live" => NoDeletion'
  BY Zenon, <1>1, <1>2 DEF NoDeletion, ProvisionedInv
<1> QED
  BY Zenon, <1>2, <1>3, <1>4, <1>5, ReconcileStep

\* The reconcile ends, or goes on to a step before which it knows nothing.
LEMMA Ends ==
  ASSUME pc' \notin {"queue", "relookup", "decide"}
  PROVE  Knows' /\ Seen'
BY Zenon DEF Knows, Seen

LEMMA FaultType ==
  ASSUME EnvType, Fault \/ UNCHANGED faults
  PROVE  faults' \in Nat
BY DEF EnvType, Fault

\* checkRequestStates changes nothing but the request that is recorded.
LEMMA CheckRequestStatesKeeps ==
  ASSUME ServerInv, CheckRequestStates
  PROVE  ServerInv'
<1>1. LocalType /\ EnvType
  BY Zenon DEF ServerInv
<1>2. /\ pc = "check" /\ pc' \in {"finalize", "lookup"}
      /\ UNCHANGED <<obj, cached, base, server, request, bootstrap, isDeleted, cloudVars, volVars>>
      /\ Fault \/ UNCHANGED faults
  BY Zenon DEF CheckRequestStates, envVars
<1>3. PICK n \in {0, mem.request} : mem' = [mem EXCEPT !.request = n]
  BY Zenon DEF CheckRequestStates
<1>4. n \in Nat /\ mem \in MachineObjects
  BY <1>1 DEF LocalType, MachineObjects
<1>5. Recorded(mem', mem)
  BY Zenon, <1>3, <1>4, RequestRecorded
<1>6. LocalType' /\ CopyStep
  BY Zenon, <1>1, <1>2, <1>5 DEF LocalType, Recorded, CopyStep
<1> QED
  BY Zenon, <1>1, <1>2, <1>6, FaultType, Ends, CopyOnly

\* getServer finds the server when it is listed.
LEMMA ServerListed ==
  ASSUME ServerInv, NEW id \in getServer
  PROVE  id \in Servers /\ Servers \subseteq {id} /\ Listed(id) /\ id \in Nat \ {0}
<1>1. CloudTypeOK /\ CloudInv /\ Newest
  BY Zenon DEF ServerInv, CloudOK
<1>2. Listed(id) /\ id \in DOMAIN reqs /\ DOMAIN reqs \subseteq Nat \ {0}
  BY <1>1 DEF getServer, ListedAs, Listed, CloudTypeOK
<1>3. id \in Servers
  BY Zenon, <1>1, <1>2 DEF Servers, CloudInv, Listed
<1>4. Servers \subseteq {id}
  BY <1>1, <1>2, <1>3 DEF Newest, Servers
<1> QED
  BY Zenon, <1>2, <1>3, <1>4

\* A server that is not listed is being created.
LEMMA NoneListed ==
  ASSUME ServerInv, getServer = {}
  PROVE  \A b \in Servers : isPending(b)
<1>1. CloudTypeOK /\ ListedAs(MachineName) = {}
  BY Zenon DEF ServerInv, CloudOK, getServer
<1>2. \A b \in DOMAIN reqs : reqs[b].name = MachineName /\ b \in DOMAIN res
  <2>1. \A b \in DOMAIN reqs : reqs[b] \in Requests /\ b \in DOMAIN res
    BY <1>1 DEF CloudTypeOK
  <2> QED
    BY Zenon, <2>1, ServerAssumption DEF Requests
<1> QED
  BY Zenon, <1>1, <1>2 DEF ListedAs, Servers

\* The first and the second lookup.
LEMMA TryLookupKeeps ==
  ASSUME ServerInv, NEW next \in {"queue", "decide"}, TryLookup(next),
         pc = "lookup" => next = "queue", pc # "lookup" => pc = "relookup" /\ next = "decide"
  PROVE  ServerInv'
<1>1. CloudOK /\ LocalType /\ EnvType /\ Knows /\ BootInv
  BY Zenon DEF ServerInv
<1>2. UNCHANGED <<obj, cached, base, bootstrap, isDeleted, cloudVars, volVars, faults>>
  BY Zenon DEF TryLookup, envVars
<1>3. /\ UNCHANGED <<reqs, res, running, boots>> /\ Servers' = Servers /\ Created' = Created
      /\ \A b : isPending(b)' <=> isPending(b)
  BY Zenon, <1>2 DEF cloudVars, volVars, Servers, Created, isPending, Listed
<1>4. CASE getServer = {}
  <2>1. pc' = next /\ server' = NoServer /\ request' = request
    BY Zenon, <1>4 DEF TryLookup
  <2>2. mem' = [mem EXCEPT !.providerID = mem.providerID] /\ mem.providerID \in Nat /\ mem \in MachineObjects
    BY Zenon, <1>1, <1>4 DEF TryLookup, LocalType, MachineObjects
  <2>3. Recorded(mem', mem) /\ NoServer \in [id : Nat, available : BOOLEAN, running : BOOLEAN, boot : BOOLEAN]
    BY Zenon, <2>2, ProviderRecorded DEF NoServer
  <2>4. LocalType' /\ CopyStep
    BY Zenon, <1>1, <1>2, <2>1, <2>3 DEF LocalType, Recorded, CopyStep
  <2>5. \A b \in Servers : isPending(b) /\ reqs[b].recent
    BY Zenon, <1>1, <1>4, NoneListed DEF CloudOK, CloudInv, Servers
  <2>6. Knows'
    BY Zenon, <1>1, <1>3, <2>1, <2>5 DEF Knows
  <2>7. Seen'
    BY Zenon, <2>1 DEF Seen
  <2>8. faults' \in Nat
    BY Zenon, <1>1, <1>2 DEF EnvType
  <2> QED
    BY Zenon, <1>2, <2>1, <2>4, <2>6, <2>7, <2>8, CopyOnly
<1>5. CASE getServer # {}
  <2>1. PICK id \in getServer : server' = Snapshot(id)
    BY Zenon, <1>5 DEF TryLookup
  <2>2. /\ pc' = "decide" /\ request' = NoRequest
        /\ mem' = [mem EXCEPT !.providerID = server'.id]
    BY Zenon, <1>5 DEF TryLookup
  <2>3. id \in Servers /\ Servers \subseteq {id} /\ Listed(id) /\ id \in Nat \ {0}
    BY Zenon, ServerListed
  <2>4. /\ server' \in [id : Nat, available : BOOLEAN, running : BOOLEAN, boot : BOOLEAN]
        /\ server'.id = id /\ server' # NoServer
        /\ server'.available <=> isAvailable(id)
        /\ server'.running <=> id \in running
        /\ server'.boot <=> id \in boots
    <3>1. Snapshot(id).id = id /\ NoServer.id = 0
      BY Zenon DEF Snapshot, NoServer
    <3>2. Snapshot(id) \in [id : Nat, available : BOOLEAN, running : BOOLEAN, boot : BOOLEAN]
      <4>1. isAvailable(id) \in BOOLEAN /\ (id \in running) \in BOOLEAN /\ (id \in boots) \in BOOLEAN
        BY DEF isAvailable
      <4> QED
        BY Zenon, <2>3, <4>1 DEF Snapshot
    <3>3. server'.id = id /\ server' # NoServer
      BY Zenon, <2>1, <2>3, <3>1
    <3>4. /\ server'.available <=> isAvailable(id)
          /\ server'.running <=> id \in running
          /\ server'.boot <=> id \in boots
      BY Zenon, <2>1 DEF Snapshot
    <3> QED
      BY Zenon, <2>1, <3>2, <3>3, <3>4
  <2>5. Recorded(mem', mem)
    BY Zenon, <1>1, <2>2, <2>3, <2>4, ProviderRecorded DEF LocalType
  <2>6. LocalType' /\ CopyStep
    BY Zenon, <1>1, <1>2, <2>2, <2>4, <2>5 DEF LocalType, Recorded, CopyStep, NoRequest
  <2>7. Knows'
    BY Zenon, <2>2, <2>4 DEF Knows
  <2>8. (isAvailable(id) \/ id \notin boots) => ~isPending(id)
    BY Zenon, <1>1, <2>3 DEF CloudOK, CloudInv, Servers, isAvailable, BootInv
  <2>9. Seen'
    <3>1. id \in DOMAIN reqs'
      BY Zenon, <1>3, <2>3 DEF Servers
    <3> QED
      BY Zenon, <1>3, <2>3, <2>4, <2>8, <3>1 DEF Seen, Created
  <2>10. faults' \in Nat
    BY Zenon, <1>1, <1>2 DEF EnvType
  <2> QED
    BY Zenon, <1>2, <2>2, <2>6, <2>7, <2>9, <2>10, CopyOnly
<1> QED
  BY Zenon, <1>4, <1>5

\* checkQueue: the creation of the server, if there is one, is the request that
\* getLatestServerCreationRequest returns.
LEMMA CheckQueueKeeps ==
  ASSUME ServerInv, CheckQueue
  PROVE  ServerInv'
<1>1. CloudTypeOK /\ CloudInv /\ LocalType /\ EnvType /\ Knows /\ Newest
  BY Zenon DEF ServerInv, CloudOK
<1>2. /\ UNCHANGED <<obj, cached, mem, base, server, bootstrap, isDeleted, cloudVars, volVars, faults>>
      /\ pc = "queue" /\ server = NoServer
  BY Zenon, <1>1 DEF CheckQueue, envVars, Knows
<1>3. Servers' = Servers /\ \A b : isPending(b)' <=> isPending(b)
  BY Zenon, <1>2 DEF cloudVars, Servers, isPending, Listed
<1>4. PICK i \in {0} \cup DOMAIN reqs :
        /\ CreationRequest(i, MachineName)
        /\ request' = IF i = 0 THEN NoRequest ELSE [id |-> i, pending |-> isPending(i)]
        /\ pc' = IF i # 0 /\ isDone(i) THEN "relookup" ELSE "decide"
  BY Zenon DEF CheckQueue
<1>5. DOMAIN reqs \subseteq Nat \ {0} /\ \A b \in DOMAIN reqs : reqs[b] \in Requests
  BY <1>1 DEF CloudTypeOK
<1>6. /\ request' \in [id : Nat, pending : BOOLEAN]
      /\ request'.pending <=> i # 0 /\ isPending(i)
  <2>1. CASE i = 0
    BY Zenon, <1>4, <2>1 DEF NoRequest
  <2>2. CASE i # 0
    <3>1. request' = [id |-> i, pending |-> isPending(i)] /\ i \in Nat
      BY Zenon, <1>4, <1>5, <2>2
    <3>2. request'.pending <=> isPending(i)
      BY Zenon, <3>1
    <3>3. request' \in [id : Nat, pending : BOOLEAN]
      <4>1. isPending(i) \in BOOLEAN
        BY DEF isPending
      <4> QED
        BY Zenon, <3>1, <4>1
    <3> QED
      BY Zenon, <2>2, <3>2, <3>3
  <2> QED
    BY Zenon, <2>1, <2>2
<1>7. \A b \in Servers : b = i /\ i # 0
  <2> SUFFICES ASSUME NEW b \in Servers PROVE b = i /\ i # 0
    OBVIOUS
  <2>1. b \in DOMAIN reqs /\ reqs[b].recent /\ reqs[b].method = "POST" /\ reqs[b].name = MachineName
    BY Zenon, <1>1, <1>2, <1>5, ServerAssumption DEF Knows, Servers, Requests
  <2>2. i # 0 /\ i \in DOMAIN reqs /\ reqs[i].method = "POST" /\ b <= i
    BY Zenon, <1>4, <1>5, <2>1 DEF CreationRequest, getMatchingRequest
  <2> QED
    BY <1>1, <1>5, <2>1, <2>2 DEF Newest
<1>8. i # 0 /\ ~isPending(i) /\ ~isDone(i) => i \notin Servers
  BY Zenon, <1>1, <1>5 DEF Servers, CloudInv, isPending, isDone, Listed, Requests, Statuses
<1>9. i # 0 /\ isDone(i) => ~isPending(i)
  BY Zenon DEF isDone, isPending
<1>10. Knows'
  BY Zenon, <1>2, <1>3, <1>4, <1>6, <1>7, <1>8, <1>9 DEF Knows
<1>11. LocalType' /\ CopyStep /\ pc' \in {"relookup", "decide"}
  BY Zenon, <1>1, <1>2, <1>4, <1>6 DEF LocalType, CopyStep
<1>12. Seen' /\ faults' \in Nat
  BY Zenon, <1>1, <1>2 DEF Seen, EnvType
<1> QED
  BY Zenon, <1>2, <1>10, <1>11, <1>12, CopyOnly

\* The decision is taken, and nothing but the copy changes.
LEMMA Decided ==
  ASSUME ServerInv, pc = "decide", pc' = "finalize", mem' \in MachineObjects, CopyStep,
         UNCHANGED <<obj, cached, base, server, request, envVars, faults, cloudVars, volVars>>
  PROVE  ServerInv'
<1>1. LocalType /\ EnvType /\ Knows' /\ Seen'
  BY Zenon, Ends DEF ServerInv
<1>2. UNCHANGED <<obj, cached, base, bootstrap, isDeleted, cloudVars, volVars>>
  BY Zenon DEF envVars
<1>3. LocalType' /\ faults' \in Nat
  BY Zenon, <1>1 DEF LocalType, EnvType
<1> QED
  BY Zenon, <1>1, <1>2, <1>3, CopyOnly

\* A request for the server that the lookup found.  A server is deleted for a machine
\* that is deleted, and without its volumes only after its boot volume.
LEMMA SubmitStep ==
  ASSUME ServerInv, pc = "decide", pc' = "finalize", server # NoServer,
         NEW method \in {"START", "VOLUME", "DELETE"}, Submit(method, server.id),
         mem' = [mem EXCEPT !.request = Len(reqs) + 1],
         method = "DELETE" => Deleting /\ (Len(reqs) + 1 \notin purging' => ~server.boot),
         purging' = purging \/ (method = "DELETE" /\ purging' = purging \cup {Len(reqs) + 1}),
         UNCHANGED <<obj, cached, base, server, request, envVars, running, boots, faults>>
  PROVE  ServerInv'
<1>1. /\ CloudTypeOK /\ CloudInv /\ LocalType /\ EnvType /\ VolumeType
      /\ Seen /\ ReconcileInv /\ BootInv /\ ProvisionedInv
  BY Zenon DEF ServerInv, CloudOK
<1> DEFINE r == [method |-> method, id |-> server.id, name |-> reqs[server.id].name,
                 status |-> "QUEUED", recent |-> TRUE]
<1>2. CloudTypeOK' /\ CloudInv' /\ Kept /\ Durable /\ Accepted(r)
  <2>1. method \in Methods \ {"POST"}
    BY Zenon DEF Methods
  <2> QED
    BY Zenon, <1>1, <2>1, RequestSubmitted
<1>3. r.method = method /\ r.id = server.id
  OBVIOUS
<1> HIDE DEF r
<1>4. CloudStep /\ Len(reqs) \in Nat
  BY Zenon, <1>2 DEF CloudStep, CloudOK, Accepted
<1>5. VolumeType'
  BY Zenon, <1>1, <1>2 DEF VolumeType, Accepted
<1>6. /\ \A k \in DOMAIN reqs : isPending(k)' <=> isPending(k)
      /\ \A k \in DOMAIN reqs : Listed(k)' <=> Listed(k)
  BY Zenon, <1>2 DEF Accepted, isPending, Listed
<1>7. BootInv'
  <2>1. BootVolumeNotLeaked'
    BY Zenon, <1>1, <1>2, <1>6 DEF BootInv, BootVolumeNotLeaked, Accepted
  <2>2. ASSUME NEW i \in DOMAIN reqs', reqs'[i].method = "POST", isPending(i)', Listed(i)'
        PROVE  i \in boots'
    <3>1. i \in DOMAIN reqs /\ reqs'[i] = reqs[i]
      BY Zenon, <1>2, <1>3, <2>2 DEF Accepted
    <3> QED
      BY Zenon, <1>1, <1>6, <2>2, <3>1 DEF BootInv
  <2>3. ASSUME NEW i \in DOMAIN reqs', i \notin purging', reqs'[i].method = "DELETE"
        PROVE  (reqs[i].id \notin boots /\ ~isPending(reqs[i].id))'
    <3>1. CASE i \in DOMAIN reqs
      <4>1. reqs'[i] = reqs[i] /\ i \notin purging /\ reqs[i].id \in DOMAIN reqs
        BY <1>1, <1>2, <2>3, <3>1 DEF Accepted, CloudInv
      <4> QED
        BY Zenon, <1>1, <1>6, <2>3, <3>1, <4>1 DEF BootInv
    <3>2. CASE i \notin DOMAIN reqs
      <4>1. i = Len(reqs) + 1 /\ reqs'[i] = r /\ method = "DELETE" /\ ~server.boot
        BY Zenon, <1>2, <1>3, <2>3, <3>2 DEF Accepted
      <4> QED
        BY Zenon, <1>1, <1>3, <1>6, <4>1 DEF Seen
    <3> QED
      BY Zenon, <3>1, <3>2
  <2>4. \A i \in purging' : reqs'[i].method = "DELETE"
    BY <1>1, <1>2, <1>3 DEF BootInv, VolumeType, Accepted
  <2> QED
    BY Zenon, <2>1, <2>2, <2>3, <2>4 DEF BootInv
<1>8. obj.state = "live" => NoDeletion'
  BY Zenon, <1>1, <1>2, <1>3 DEF NoDeletion, ReconcileInv, ProvisionedInv, Accepted
<1>9. Recorded(mem', mem)
  BY <1>1, <1>4, RequestRecorded DEF LocalType
<1>10. LocalType' /\ CopyStep
  BY Zenon, <1>1, <1>9 DEF LocalType, Recorded, CopyStep
<1>11. Knows' /\ Seen' /\ faults' \in Nat /\ UNCHANGED <<bootstrap, isDeleted>>
  BY Zenon, <1>1, Ends DEF EnvType, envVars
<1> QED
  BY Zenon, <1>4, <1>5, <1>7, <1>8, <1>10, <1>11, ReconcileStep

LEMMA CopyKept ==
  ASSUME LocalType, UNCHANGED mem
  PROVE  mem' \in MachineObjects /\ CopyStep
BY Zenon DEF LocalType, CopyStep

\* createServer is called only when there is no server, by a reconcile of an object
\* that has its finalizer.
LEMMA createServerKeeps ==
  ASSUME ServerInv, pc = "decide", pc' = "finalize", ~Deleting, server = NoServer, ~request.pending,
         createServer, UNCHANGED <<obj, cached, base, server, request, envVars, volVars, faults>>
  PROVE  ServerInv'
<1>1. /\ CloudTypeOK /\ CloudInv /\ LocalType /\ ObjectType /\ EnvType /\ VolumeType
      /\ Knows /\ ObjectInv /\ ReconcileInv /\ BootInv /\ ProvisionedInv
  BY Zenon DEF ServerInv, CloudOK
<1> DEFINE r == [method |-> "POST", id |-> Len(reqs) + 1, name |-> MachineName,
                 status |-> "QUEUED", recent |-> TRUE]
<1>2. /\ CloudTypeOK' /\ CloudInv' /\ Accepted(r)
      /\ Resources' = Resources \cup {Len(reqs) + 1}
  BY Zenon, <1>1, ResourcePosted, ServerAssumption DEF createServer
<1>3. r.method = "POST"
  OBVIOUS
<1> HIDE DEF r
<1>4. Servers = {} /\ Servers' = {Len(reqs) + 1} /\ Created = {}
  <2>1. Servers = {}
    BY Zenon, <1>1 DEF Knows
  <2> QED
    BY Zenon, <1>2, <2>1, ServersAreResources DEF Created
<1>5. Newest' /\ Len(reqs) \in Nat /\ UNCHANGED <<running, boots, purging, bootstrap, isDeleted>>
  BY <1>2, <1>4 DEF Newest, Accepted, volVars, envVars
<1>6. Recorded(mem', mem)
  <2>1. Len(reqs) + 1 \in Nat /\ mem \in MachineObjects
    BY <1>1, <1>5 DEF LocalType
  <2> QED
    BY Zenon, <2>1 DEF createServer, Recorded, MachineObjects
<1>7. LocalType' /\ ObjectType' /\ EnvType'
  BY Zenon, <1>1, <1>5, <1>6 DEF LocalType, ObjectType, EnvType, Recorded
<1>8. VolumeType'
  BY Zenon, <1>1, <1>2, <1>5 DEF VolumeType, Accepted
<1>9. ObjectInv' /\ ReconcileInv'
  BY Zenon, <1>1, <1>6 DEF ObjectInv, ReconcileInv, Recorded, Deleting
<1>10. /\ \A k \in DOMAIN reqs : isPending(k)' <=> isPending(k)
       /\ \A k \in DOMAIN reqs : Listed(k)' <=> Listed(k)
       /\ \A k \in DOMAIN reqs' \ DOMAIN reqs : ~Listed(k)'
  BY Zenon, <1>2 DEF Accepted, isPending, Listed
<1>11. BootInv'
  <2>1. BootVolumeNotLeaked'
    BY Zenon, <1>1, <1>2, <1>5, <1>10 DEF BootInv, BootVolumeNotLeaked, Accepted
  <2>2. ASSUME NEW i \in DOMAIN reqs', reqs'[i].method = "POST", isPending(i)', Listed(i)'
        PROVE  i \in boots'
    <3>1. i \in DOMAIN reqs /\ reqs'[i] = reqs[i]
      BY Zenon, <1>2, <1>10, <2>2 DEF Accepted
    <3> QED
      BY Zenon, <1>1, <1>5, <1>10, <2>2, <3>1 DEF BootInv
  <2>3. ASSUME NEW i \in DOMAIN reqs', i \notin purging', reqs'[i].method = "DELETE"
        PROVE  (reqs[i].id \notin boots /\ ~isPending(reqs[i].id))'
    <3>1. i \in DOMAIN reqs /\ reqs'[i] = reqs[i] /\ reqs[i].id \in DOMAIN reqs
      BY <1>1, <1>2, <1>3, <2>3 DEF Accepted, CloudInv
    <3> QED
      BY Zenon, <1>1, <1>5, <1>10, <2>3, <3>1 DEF BootInv
  <2>4. \A i \in purging' : reqs'[i].method = "DELETE"
    BY Zenon, <1>1, <1>2, <1>5 DEF BootInv, VolumeType, Accepted
  <2> QED
    BY Zenon, <2>1, <2>2, <2>3, <2>4 DEF BootInv
<1>12. ProvisionedInv'
  BY Zenon, <1>1, <1>2, <1>3, <1>4, <1>6 DEF ProvisionedInv, NoDeletion, Accepted, Recorded
<1>13. Knows' /\ Seen'
  BY Zenon, Ends
<1> QED
  BY Zenon, <1>2, <1>5, <1>7, <1>8, <1>9, <1>11, <1>12, <1>13 DEF ServerInv, CloudOK

LEMMA CreateServerKeeps ==
  ASSUME ServerInv, CreateServer
  PROVE  ServerInv'
<1>1. /\ pc = "decide" /\ pc' = "finalize" /\ ~Deleting /\ server = NoServer
      /\ UNCHANGED <<obj, cached, base, server, request, envVars, volVars, faults>>
  BY Zenon DEF CreateServer
<1>2. CASE ~request.pending /\ createServer
  BY Zenon, <1>1, <1>2, createServerKeeps
<1>3. CASE UNCHANGED <<cloudVars, mem>>
  <2>1. mem' \in MachineObjects /\ CopyStep
    BY Zenon, <1>3, CopyKept DEF ServerInv
  <2> QED
    BY Zenon, <1>1, <1>3, <2>1, Decided
<1> QED
  BY Zenon, <1>2, <1>3 DEF CreateServer

\* ensureServerAvailable.
LEMMA EnsureServerAvailableKeeps ==
  ASSUME ServerInv, EnsureServerAvailable
  PROVE  ServerInv'
<1>1. /\ pc = "decide" /\ pc' = "finalize" /\ ~Deleting /\ server # NoServer
      /\ UNCHANGED <<obj, cached, base, server, request, envVars, volVars, faults>>
  BY Zenon DEF EnsureServerAvailable
<1>2. LocalType /\ Seen
  BY Zenon DEF ServerInv
<1>3. CASE UNCHANGED <<cloudVars, mem>>
  <2>1. mem' \in MachineObjects /\ CopyStep
    BY Zenon, <1>2, <1>3, CopyKept
  <2> QED
    BY Zenon, <1>1, <1>3, <2>1, Decided
<1>4. CASE Submit("START", server.id) /\ mem' = [mem EXCEPT !.request = Len(reqs) + 1]
  <2>1. "START" \in {"START", "VOLUME", "DELETE"} /\ UNCHANGED <<running, boots, purging>>
    BY Zenon, <1>1 DEF volVars
  <2> QED
    BY Zenon, <1>1, <1>4, <2>1, SubmitStep
<1>5. CASE /\ server.available /\ server.running
           /\ mem' = [mem EXCEPT !.provisioned = TRUE] /\ UNCHANGED cloudVars
  <2>1. mem' \in MachineObjects /\ mem'.finalizer = mem.finalizer
    BY Zenon, <1>2, <1>5 DEF LocalType, MachineObjects
  <2>2. obj.state = "live" => running \cap Created # {}
    BY Zenon, <1>1, <1>2, <1>5 DEF Seen
  <2>3. CopyStep
    BY Zenon, <2>1, <2>2 DEF CopyStep
  <2> QED
    BY Zenon, <1>1, <1>5, <2>1, <2>3, Decided
<1> QED
  BY Zenon, <1>3, <1>4, <1>5 DEF EnsureServerAvailable, SubmitAndRecord

\* The finalizer is dropped only when there is no server.
LEMMA ServerGoneKeeps ==
  ASSUME ServerInv, pc = "decide", pc' = "finalize", Deleting, Servers = {}, ServerGone,
         UNCHANGED <<obj, cached, base, server, request, envVars, faults, cloudVars, volVars>>
  PROVE  ServerInv'
<1>1. mem' \in MachineObjects /\ mem'.provisioned = mem.provisioned
  BY Zenon DEF ServerInv, LocalType, MachineObjects, ServerGone
<1>2. CopyStep
  BY Zenon, <1>1 DEF CopyStep
<1> QED
  BY Zenon, <1>1, <1>2, Decided

\* A creation that is pending is waited for; without one there is no server.
LEMMA AwaitCreationKeeps ==
  ASSUME ServerInv, AwaitCreation
  PROVE  ServerInv'
<1>1. /\ pc = "decide" /\ pc' = "finalize" /\ Deleting /\ server = NoServer
      /\ UNCHANGED <<obj, cached, base, server, request, envVars, faults, cloudVars, volVars>>
  BY Zenon DEF AwaitCreation
<1>2. LocalType /\ Knows
  BY Zenon DEF ServerInv
<1>3. CASE request.pending
  <2>1. mem' = [mem EXCEPT !.request = request.id] /\ request.id \in Nat /\ mem \in MachineObjects
    BY Zenon, <1>2, <1>3 DEF AwaitCreation, LocalType
  <2>2. mem' \in MachineObjects /\ CopyStep
    BY Zenon, <2>1, RequestRecorded DEF Recorded, CopyStep
  <2> QED
    BY Zenon, <1>1, <2>2, Decided
<1>4. CASE ~request.pending
  <2>1. ServerGone /\ Servers = {}
    BY Zenon, <1>1, <1>2, <1>4 DEF AwaitCreation, Knows
  <2> QED
    BY Zenon, <1>1, <2>1, ServerGoneKeeps
<1> QED
  BY Zenon, <1>3, <1>4

\* A deletion that is DONE was that of the only server.
LEMMA DeletedServerGone ==
  ASSUME ServerInv, pc = "decide", server # NoServer, NEW i \in DOMAIN reqs,
         reqs[i].method = "DELETE", reqs[i].id = server.id, isDone(i)
  PROVE  Servers = {}
<1>1. CloudTypeOK /\ CloudInv /\ Seen
  BY Zenon DEF ServerInv, CloudOK
<1>2. DOMAIN reqs \subseteq Nat
  BY <1>1 DEF CloudTypeOK
<1>3. /\ server.id \in DOMAIN reqs /\ server.id < i /\ res[server.id] = "absent"
      /\ reqs[server.id].id = server.id /\ reqs[i].status = "DONE"
  BY <1>1 DEF CloudInv, isDone
<1>4. ~isPending(server.id)
  BY <1>1, <1>3 DEF CloudInv
<1>5. server.id \notin Servers
  BY Zenon, <1>3, <1>4 DEF Servers, Listed
<1> QED
  BY Zenon, <1>1, <1>5 DEF Seen

\* ReconcileServerDeletion with a server.
LEMMA DeleteServerKeeps ==
  ASSUME ServerInv, DeleteServer
  PROVE  ServerInv'
<1>1. /\ pc = "decide" /\ pc' = "finalize" /\ Deleting /\ server # NoServer
      /\ UNCHANGED <<obj, cached, base, server, request, envVars, faults, running, boots>>
  BY Zenon DEF DeleteServer
<1>2. CloudTypeOK /\ LocalType /\ VolumeType
  BY Zenon DEF ServerInv, CloudOK
<1>3. DOMAIN reqs \subseteq Nat \ {0} /\ Len(reqs) + 1 \notin purging
  BY <1>2 DEF CloudTypeOK, VolumeType
<1>4. PICK i \in {0} \cup DOMAIN reqs :
        /\ DeletionRequest(i, server.id)
        /\ CASE i # 0 /\ isPending(i) ->
                  mem' = [mem EXCEPT !.request = i] /\ UNCHANGED <<cloudVars, purging>>
             [] i # 0 /\ isDone(i) -> ServerGone /\ UNCHANGED <<cloudVars, purging>>
             [] OTHER -> RequestDeletion
  BY Zenon DEF DeleteServer
<1>5. CASE i # 0 /\ isPending(i)
  <2>1. mem' = [mem EXCEPT !.request = i] /\ UNCHANGED <<cloudVars, purging>>
    BY Zenon, <1>4, <1>5 DEF isPending, isDone
  <2>2. mem' \in MachineObjects /\ CopyStep
    BY <1>2, <1>3, <2>1, RequestRecorded DEF Recorded, CopyStep, LocalType
  <2> QED
    BY Zenon, <1>1, <2>1, <2>2, Decided DEF volVars
<1>6. CASE i # 0 /\ isDone(i)
  <2>1. ServerGone /\ UNCHANGED <<cloudVars, purging>>
    BY Zenon, <1>4, <1>6 DEF isPending, isDone
  <2>2. i \in DOMAIN reqs /\ reqs[i].method = "DELETE" /\ reqs[i].id = server.id
    BY Zenon, <1>3, <1>4, <1>6 DEF DeletionRequest, getMatchingRequest
  <2>3. Servers = {}
    BY Zenon, <1>1, <1>6, <2>2, DeletedServerGone
  <2> QED
    BY Zenon, <1>1, <2>1, <2>3, ServerGoneKeeps DEF volVars
<1>7. CASE RequestDeletion
  <2>1. CASE UNCHANGED <<cloudVars, mem>>
    <3>1. mem' \in MachineObjects /\ CopyStep
      BY Zenon, <1>2, <2>1, CopyKept
    <3>2. UNCHANGED purging
      BY Zenon, <1>7, <2>1 DEF RequestDeletion, cloudVars
    <3> QED
      BY Zenon, <1>1, <2>1, <3>1, <3>2, Decided DEF volVars
  <2>2. CASE /\ ~isDeleted /\ server.boot /\ Submit("VOLUME", server.id)
             /\ mem' = [mem EXCEPT !.request = Len(reqs) + 1]
    <3>1. UNCHANGED purging /\ "VOLUME" \in {"START", "VOLUME", "DELETE"}
      BY Zenon, <1>7, <2>2 DEF RequestDeletion
    <3> QED
      BY Zenon, <1>1, <2>2, <3>1, SubmitStep
  <2>3. CASE /\ isDeleted \/ ~server.boot
             /\ Submit("DELETE", server.id) /\ mem' = [mem EXCEPT !.request = Len(reqs) + 1]
    <3>1. reqs' # reqs
      BY <1>2, <2>3 DEF Submit, CloudTypeOK
    <3>2. purging' = IF isDeleted THEN purging \cup {Len(reqs) + 1} ELSE purging
      BY Zenon, <1>7, <2>3, <3>1 DEF RequestDeletion
    <3>3. /\ purging' = purging \/ purging' = purging \cup {Len(reqs) + 1}
          /\ Len(reqs) + 1 \notin purging' => ~server.boot
          /\ "DELETE" \in {"START", "VOLUME", "DELETE"}
      BY Zenon, <2>3, <3>2
    <3> QED
      BY Zenon, <1>1, <2>3, <3>3, SubmitStep
  <2> QED
    BY Zenon, <1>7, <2>1, <2>2, <2>3 DEF RequestDeletion, SubmitAndRecord
<1> QED
  BY Zenon, <1>4, <1>5, <1>6, <1>7

LEMMA StepErrorKeeps ==
  ASSUME ServerInv, StepError
  PROVE  ServerInv'
<1>1. LocalType /\ EnvType
  BY Zenon DEF ServerInv
<1>2. /\ pc \notin {"idle", "finalize"} /\ pc' = "finalize" /\ UNCHANGED <<mem, base, server, request>>
      /\ UNCHANGED <<obj, cached, base, bootstrap, isDeleted, cloudVars, volVars>>
  BY Zenon DEF StepError, memVars, envVars
<1>3. LocalType' /\ CopyStep /\ faults' \in Nat
  BY Zenon, <1>1, <1>2, FaultType DEF LocalType, CopyStep, StepError
<1> QED
  BY Zenon, <1>2, <1>3, Ends, CopyOnly

-----------------------------------------------------------------------------
(***************************************************************************)
(* Steps that change the object or one of its copies.                      *)
(***************************************************************************)
\* The object never becomes live again, and a copy is provisioned only when one was.
ObjectStep ==
  /\ obj'.state = "live" => obj.state = "live"
  /\ obj'.provisioned \/ cached'.provisioned \/ mem'.provisioned =>
       obj.provisioned \/ cached.provisioned \/ mem.provisioned

LEMMA ObjectStepKeeps ==
  ASSUME ServerInv, UNCHANGED <<cloudVars, volVars>>, LocalType', ObjectType', EnvType',
         ObjectInv', ReconcileInv', ObjectStep,
         \/ pc' \notin {"queue", "relookup", "decide"}
         \/ UNCHANGED <<pc, server, request>>
  PROVE  ServerInv'
<1>1. CloudOK /\ VolumeType /\ Newest /\ Knows /\ Seen /\ BootInv /\ ProvisionedInv
  BY Zenon DEF ServerInv
<1>2. UNCHANGED <<reqs, res, running, boots, purging>> /\ CloudOK'
  BY Zenon, <1>1, NoCall DEF volVars, CloudStep
<1>3. Servers' = Servers /\ Created' = Created
  BY Zenon, <1>2 DEF Servers, Created, isPending, Listed
<1>4. VolumeType' /\ Newest'
  BY Zenon, <1>1, <1>2, <1>3 DEF VolumeType, Newest
<1>5. BootInv'
  BY Zenon, <1>1, <1>2 DEF BootInv, BootVolumeNotLeaked, Listed, isPending
<1>6. ProvisionedInv'
  BY Zenon, <1>1, <1>2, <1>3 DEF ProvisionedInv, NoDeletion, ObjectStep
<1>7. Knows' /\ Seen'
  <2>1. CASE pc' \notin {"queue", "relookup", "decide"}
    BY Zenon, <2>1, Ends
  <2>2. CASE UNCHANGED <<pc, server, request>>
    <3>1. Knows'
      BY Zenon, <1>1, <1>2, <1>3, <2>2 DEF Knows, isPending
    <3>2. Seen'
      BY Zenon, <1>1, <1>2, <1>3, <2>2 DEF Seen, ObjectStep, isPending
    <3> QED
      BY Zenon, <3>1, <3>2
  <2> QED
    BY Zenon, <2>1, <2>2
<1> QED
  BY Zenon, <1>2, <1>4, <1>5, <1>6, <1>7 DEF ServerInv

LEMMA NewCopies ==
  ASSUME Forget, pc' = "idle"
  PROVE  LocalType' /\ ReconcileInv' /\ ~mem'.provisioned
<1>1. NewMachine \in MachineObjects /\ ~NewMachine.provisioned
  BY Zenon DEF NewMachine, MachineObjects
<1>2. /\ NoServer \in [id : Nat, available : BOOLEAN, running : BOOLEAN, boot : BOOLEAN]
      /\ NoRequest \in [id : Nat, pending : BOOLEAN]
  BY Zenon DEF NoServer, NoRequest
<1> QED
  BY Zenon, <1>1, <1>2 DEF Forget, LocalType, ReconcileInv

\* Reconcile gets the object from the cache; a live one has its finalizer from then on.
LEMMA StartReconcileKeeps ==
  ASSUME ServerInv, StartReconcile
  PROVE  ServerInv'
<1>1. LocalType /\ ObjectType /\ EnvType /\ ObjectInv
  BY Zenon DEF ServerInv
<1>2. /\ pc' = "check" /\ base' = cached
      /\ UNCHANGED <<cloudVars, cached, server, request, bootstrap, isDeleted, volVars, faults>>
  BY Zenon DEF StartReconcile, envVars
<1>3. EnvType' /\ cached \in MachineObjects
  BY Zenon, <1>1, <1>2 DEF EnvType, ObjectType
<1>4. CASE cached.state = "deleting" /\ mem' = cached /\ UNCHANGED obj
  <2>1. LocalType' /\ ObjectType' /\ ObjectStep
    BY Zenon, <1>1, <1>2, <1>4 DEF LocalType, ObjectType, ObjectStep
  <2>2. Servers' = Servers
    BY Zenon, <1>2 DEF cloudVars, Servers, isPending, Listed
  <2>3. ObjectInv' /\ ReconcileInv'
    BY Zenon, <1>1, <1>2, <1>4, <2>2 DEF ObjectInv, ReconcileInv, Deleting
  <2> QED
    BY Zenon, <1>2, <1>3, <2>1, <2>3, ObjectStepKeeps
<1>5. CASE /\ cached.state = "live" /\ (cached.finalizer \/ obj.state # "gone")
           /\ mem' = [cached EXCEPT !.finalizer = TRUE]
           /\ obj' = [obj EXCEPT !.finalizer = IF cached.finalizer THEN @ ELSE TRUE]
  <2>1. mem' \in MachineObjects /\ mem'.finalizer /\ mem'.provisioned = cached.provisioned
    BY Zenon, <1>3, <1>5 DEF MachineObjects
  <2>2. /\ obj' \in MachineObjects /\ obj'.state = obj.state /\ obj'.provisioned = obj.provisioned
        /\ obj'.finalizer = IF cached.finalizer THEN obj.finalizer ELSE TRUE
    BY Zenon, <1>1, <1>3, <1>5 DEF ObjectType, MachineObjects
  <2>3. LocalType' /\ ObjectType' /\ ObjectStep
    BY Zenon, <1>1, <1>2, <2>1, <2>2 DEF LocalType, ObjectType, ObjectStep
  <2>4. Servers' = Servers
    BY Zenon, <1>2 DEF cloudVars, Servers, isPending, Listed
  <2>5. obj'.finalizer /\ obj'.state # "gone"
    BY Zenon, <1>1, <1>5, <2>2 DEF ObjectInv
  <2>6. ObjectInv' /\ ReconcileInv'
    BY Zenon, <1>1, <1>2, <1>5, <2>1, <2>2, <2>4, <2>5 DEF ObjectInv, ReconcileInv, Deleting
  <2> QED
    BY Zenon, <1>2, <1>3, <2>3, <2>6, ObjectStepKeeps
<1> QED
  BY Zenon, <1>4, <1>5 DEF StartReconcile

\* What a patch makes of the object: the finalizer goes only when the reconcile took
\* it from its copy, and with it an object that is to be deleted.
Patch == /\ obj' \in MachineObjects /\ obj.state # "gone"
         /\ obj'.state = obj.state \/ (obj.state = "deleting" /\ obj'.state = "gone" /\ ~obj'.finalizer)
         /\ obj.finalizer => obj'.finalizer \/ (base.finalizer /\ ~mem.finalizer)
         /\ obj'.state = "deleting" => obj'.finalizer
         /\ obj'.provisioned => obj.provisioned \/ mem.provisioned

LEMMA SpecPatched ==
  ASSUME mem \in MachineObjects, base \in MachineObjects, NEW o \in MachineObjects
  PROVE  LET p == PatchSpec(o)
         IN /\ p \in MachineObjects /\ p.state = o.state /\ p.provisioned = o.provisioned
            /\ o.finalizer => p.finalizer \/ (base.finalizer /\ ~mem.finalizer)
<1>1. /\ Merge(o, "finalizer") \in BOOLEAN /\ Merge(o, "providerID") \in Nat
      /\ o.finalizer => Merge(o, "finalizer") \/ (base.finalizer /\ ~mem.finalizer)
  BY Zenon DEF MachineObjects, Merge
<1> DEFINE f == Merge(o, "finalizer")  id == Merge(o, "providerID")
           p == [o EXCEPT !.finalizer = f, !.providerID = id]
<1> HIDE DEF f, id
<1>2. p \in MachineObjects /\ p.state = o.state /\ p.provisioned = o.provisioned /\ p.finalizer = f
  BY Zenon, <1>1 DEF MachineObjects, f, id
<1> QED
  BY Zenon, <1>1, <1>2 DEF PatchSpec, f, id

LEMMA StatusPatched ==
  ASSUME mem \in MachineObjects, base \in MachineObjects, NEW o \in MachineObjects
  PROVE  LET p == PatchStatus(o)
         IN /\ p \in MachineObjects /\ p.state = o.state /\ p.finalizer = o.finalizer
            /\ p.provisioned => o.provisioned \/ mem.provisioned
<1>1. /\ Merge(o, "provisioned") \in BOOLEAN /\ Merge(o, "request") \in Nat
      /\ Merge(o, "provisioned") => o.provisioned \/ mem.provisioned
  BY Zenon DEF MachineObjects, Merge
<1> DEFINE v == Merge(o, "provisioned")  id == Merge(o, "request")
           p == [o EXCEPT !.request = id, !.provisioned = v]
<1> HIDE DEF v, id
<1>2. p \in MachineObjects /\ p.state = o.state /\ p.finalizer = o.finalizer /\ p.provisioned = v
  BY Zenon, <1>1 DEF MachineObjects, v, id
<1> QED
  BY Zenon, <1>1, <1>2 DEF PatchStatus, v, id

LEMMA Collected ==
  ASSUME NEW o \in MachineObjects
  PROVE  LET p == Collect(o)
         IN /\ p \in MachineObjects /\ p.finalizer = o.finalizer /\ p.provisioned = o.provisioned
            /\ p.state = o.state \/ (o.state = "deleting" /\ p.state = "gone" /\ ~p.finalizer)
            /\ p.state = "deleting" => p.finalizer
<1> DEFINE q == [o EXCEPT !.state = "gone"]
<1>1. q \in MachineObjects /\ q.state = "gone" /\ q.finalizer = o.finalizer /\ q.provisioned = o.provisioned
  BY Zenon DEF MachineObjects
<1> HIDE DEF q
<1> QED
  BY Zenon, <1>1 DEF Collect, q

\* Finalize patches the object, or leaves it.
LEMMA FinalizePatches ==
  ASSUME ServerInv, Finalize
  PROVE  Patch \/ obj' = obj
<1>0. LocalType /\ ObjectType /\ ObjectInv
  BY Zenon DEF ServerInv
<1> SUFFICES ASSUME obj.state # "gone" PROVE Patch \/ obj' = obj
  BY Zenon DEF Finalize
<1>1. mem \in MachineObjects /\ base \in MachineObjects /\ obj \in MachineObjects
  BY Zenon, <1>0 DEF LocalType, ObjectType
<1>2. obj.state = "deleting" => obj.finalizer
  BY Zenon, <1>0 DEF ObjectInv
<1>3. CASE obj' = Collect(PatchStatus(PatchSpec(obj)))
  <2> DEFINE p == PatchSpec(obj)  q == PatchStatus(p)
  <2>1. /\ p \in MachineObjects /\ p.state = obj.state /\ p.provisioned = obj.provisioned
        /\ obj.finalizer => p.finalizer \/ (base.finalizer /\ ~mem.finalizer)
    BY Zenon, <1>1, SpecPatched
  <2> HIDE DEF p
  <2>2. /\ q \in MachineObjects /\ q.state = p.state /\ q.finalizer = p.finalizer
        /\ q.provisioned => p.provisioned \/ mem.provisioned
    BY Zenon, <1>1, <2>1, StatusPatched
  <2>3. obj' = Collect(q)
    BY Zenon, <1>3 DEF p
  <2> HIDE DEF q
  <2> QED
    BY Zenon, <2>1, <2>2, <2>3, Collected DEF Patch
<1>4. CASE obj' = Collect(PatchSpec(obj))
  <2> DEFINE p == PatchSpec(obj)
  <2>1. /\ p \in MachineObjects /\ p.state = obj.state /\ p.provisioned = obj.provisioned
        /\ obj.finalizer => p.finalizer \/ (base.finalizer /\ ~mem.finalizer)
    BY Zenon, <1>1, SpecPatched
  <2> HIDE DEF p
  <2> QED
    BY Zenon, <1>4, <2>1, Collected DEF Patch, p
<1>5. CASE obj' = PatchStatus(obj)
  BY Zenon, <1>1, <1>2, <1>5, StatusPatched DEF Patch
<1> QED
  BY Zenon, <1>3, <1>4, <1>5 DEF Finalize

\* Finalize.
LEMMA FinalizeKeeps ==
  ASSUME ServerInv, Finalize
  PROVE  ServerInv'
<1>1. LocalType /\ ObjectType /\ EnvType /\ ObjectInv /\ ReconcileInv
  BY Zenon DEF ServerInv
<1>2. /\ pc = "finalize" /\ pc' = "idle" /\ Forget
      /\ UNCHANGED <<cloudVars, cached, bootstrap, isDeleted, volVars>>
      /\ Fault \/ UNCHANGED faults
  BY Zenon DEF Finalize, envVars
<1>3. LocalType' /\ ReconcileInv' /\ ~mem'.provisioned
  BY Zenon, <1>2, NewCopies
<1>4. EnvType'
  BY Zenon, <1>1, <1>2, FaultType DEF EnvType
<1>5. Patch \/ obj' = obj
  BY Zenon, FinalizePatches
<1>6. CASE Patch
  <2>1. ObjectType' /\ ObjectStep
    BY Zenon, <1>1, <1>2, <1>3, <1>6 DEF ObjectType, ObjectStep, Patch
  <2>2. Servers' = Servers
    BY Zenon, <1>2 DEF cloudVars, Servers, isPending, Listed
  <2>3. obj.finalizer /\ ~obj'.finalizer => Servers = {} /\ cached.state # "live"
    BY Zenon, <1>1, <1>2, <1>6 DEF Patch, ReconcileInv
  <2>4. ObjectInv'
    BY Zenon, <1>1, <1>2, <1>6, <2>2, <2>3 DEF ObjectInv, Patch
  <2> QED
    BY Zenon, <1>2, <1>3, <1>4, <2>1, <2>4, ObjectStepKeeps
<1>7. CASE obj' = obj
  <2>1. ObjectType' /\ ObjectStep
    BY Zenon, <1>1, <1>2, <1>3, <1>7 DEF ObjectType, ObjectStep
  <2>2. Servers' = Servers
    BY Zenon, <1>2 DEF cloudVars, Servers, isPending, Listed
  <2>3. ObjectInv'
    BY Zenon, <1>1, <1>2, <1>7, <2>2 DEF ObjectInv
  <2> QED
    BY Zenon, <1>2, <1>3, <1>4, <2>1, <2>3, ObjectStepKeeps
<1> QED
  BY Zenon, <1>5, <1>6, <1>7

\* The controller restarts with a cache of its own.
LEMMA CrashKeeps ==
  ASSUME ServerInv, Crash
  PROVE  ServerInv'
<1>1. ObjectType /\ EnvType /\ ObjectInv
  BY Zenon DEF ServerInv
<1>2. /\ pc' = "idle" /\ Forget /\ cached' = obj
      /\ UNCHANGED <<cloudVars, obj, bootstrap, isDeleted, volVars>>
  BY Zenon DEF Crash, envVars
<1>3. LocalType' /\ ReconcileInv' /\ ~mem'.provisioned
  BY Zenon, <1>2, NewCopies
<1>4. ObjectType' /\ ObjectStep
  BY Zenon, <1>1, <1>2, <1>3 DEF ObjectType, ObjectStep
<1>5. EnvType'
  BY Zenon, <1>1, <1>2, FaultType DEF EnvType, Crash
<1>6. Servers' = Servers
  BY Zenon, <1>2 DEF cloudVars, Servers, isPending, Listed
<1>7. ObjectInv'
  BY Zenon, <1>1, <1>2, <1>6 DEF ObjectInv
<1> QED
  BY Zenon, <1>2, <1>3, <1>4, <1>5, <1>7, ObjectStepKeeps

\* The cache gets the object as it is.
LEMMA CacheSyncKeeps ==
  ASSUME ServerInv, CacheSync
  PROVE  ServerInv'
<1>1. LocalType /\ ObjectType /\ EnvType /\ ObjectInv /\ ReconcileInv
  BY Zenon DEF ServerInv
<1>2. /\ cached' = obj
      /\ UNCHANGED <<cloudVars, obj, mem, base, server, request, pc, bootstrap, isDeleted, volVars, faults>>
  BY Zenon DEF CacheSync, envVars, memVars
<1>3. LocalType' /\ ObjectType' /\ EnvType' /\ ObjectStep
  BY Zenon, <1>1, <1>2 DEF LocalType, ObjectType, EnvType, ObjectStep
<1>4. Servers' = Servers
  BY Zenon, <1>2 DEF cloudVars, Servers, isPending, Listed
<1>5. ObjectInv' /\ ReconcileInv'
  BY Zenon, <1>1, <1>2, <1>4 DEF ObjectInv, ReconcileInv, Deleting
<1> QED
  BY Zenon, <1>2, <1>3, <1>5, ObjectStepKeeps

LEMMA ObjectDeleted ==
  ASSUME ServerInv, DeleteMachine
  PROVE  /\ obj' \in MachineObjects /\ obj'.finalizer = obj.finalizer /\ obj'.provisioned = obj.provisioned
         /\ obj'.state \in {"deleting", "gone"}
         /\ obj'.state = "gone" <=> ~obj.finalizer
<1>0. ObjectType /\ obj' = Collect([obj EXCEPT !.state = "deleting"])
  BY Zenon DEF ServerInv, DeleteMachine
<1> DEFINE o == [obj EXCEPT !.state = "deleting"]
<1>1. o \in MachineObjects /\ o.state = "deleting" /\ o.finalizer = obj.finalizer /\ o.provisioned = obj.provisioned
  BY Zenon, <1>0 DEF ObjectType, MachineObjects
<1>2. obj' = Collect(o)
  BY Zenon, <1>0
<1> HIDE DEF o
<1> QED
  BY Zenon, <1>1, <1>2, Collected

\* The user deletes the machine; without a finalizer it is gone at once.
LEMMA DeleteMachineKeeps ==
  ASSUME ServerInv, DeleteMachine
  PROVE  ServerInv'
<1>1. LocalType /\ ObjectType /\ EnvType /\ ObjectInv /\ ReconcileInv
  BY Zenon DEF ServerInv
<1>2. /\ obj.state = "live" /\ obj' = Collect([obj EXCEPT !.state = "deleting"])
      /\ UNCHANGED <<cloudVars, cached, mem, base, server, request, pc, bootstrap, isDeleted, volVars, faults>>
  BY Zenon DEF DeleteMachine, envVars, memVars
<1>3. /\ obj' \in MachineObjects /\ obj'.finalizer = obj.finalizer /\ obj'.provisioned = obj.provisioned
      /\ obj'.state \in {"deleting", "gone"}
      /\ obj'.state = "gone" <=> ~obj.finalizer
  BY Zenon, ObjectDeleted
<1>4. LocalType' /\ ObjectType' /\ EnvType' /\ ObjectStep
  BY Zenon, <1>1, <1>2, <1>3 DEF LocalType, ObjectType, EnvType, ObjectStep
<1>5. Servers' = Servers
  BY Zenon, <1>2 DEF cloudVars, Servers, isPending, Listed
<1>6. ObjectInv' /\ ReconcileInv'
  BY Zenon, <1>1, <1>2, <1>3, <1>5 DEF ObjectInv, ReconcileInv, Deleting
<1> QED
  BY Zenon, <1>2, <1>4, <1>6, ObjectStepKeeps

\* The bootstrap secret and the cluster; or nothing at all.
LEMMA OthersKeep ==
  ASSUME ServerInv, Bootstrap \/ DeleteCluster \/ UNCHANGED vars
  PROVE  ServerInv'
<1>1. LocalType /\ ObjectType /\ EnvType /\ ObjectInv /\ ReconcileInv
  BY Zenon DEF ServerInv
<1>2. UNCHANGED <<cloudVars, obj, cached, mem, base, server, request, pc, volVars, faults>>
  BY Zenon DEF Bootstrap, DeleteCluster, vars, memVars
<1>3. EnvType'
  BY Zenon, <1>1, <1>2 DEF EnvType, Bootstrap, DeleteCluster, vars, envVars
<1>4. LocalType' /\ ObjectType' /\ ObjectStep
  BY Zenon, <1>1, <1>2 DEF LocalType, ObjectType, ObjectStep
<1>5. Servers' = Servers
  BY Zenon, <1>2 DEF cloudVars, Servers, isPending, Listed
<1>6. ObjectInv' /\ ReconcileInv'
  BY Zenon, <1>1, <1>2, <1>5 DEF ObjectInv, ReconcileInv, Deleting
<1> QED
  BY Zenon, <1>2, <1>3, <1>4, <1>6, ObjectStepKeeps

-----------------------------------------------------------------------------
(***************************************************************************)
(* What the cloud does on its own.                                         *)
(***************************************************************************)
\* A step of the cloud that keeps a server's volumes and its VM in order.
LEMMA CloudStepKeeps ==
  ASSUME ServerInv, CloudStep, pc = "idle" \/ Remembered, BootInv', VolumeType', faults' \in Nat,
         \A k \in boots' : k \in boots \/ isPending(k),
         NoDeletion => NoDeletion' /\ running \subseteq running',
         UNCHANGED <<obj, cached, memVars, pc, envVars>>
  PROVE  ServerInv'
<1>1. /\ CloudOK /\ LocalType /\ ObjectType /\ EnvType /\ Newest /\ Knows /\ Seen
      /\ ObjectInv /\ ReconcileInv /\ ProvisionedInv
  BY Zenon DEF ServerInv
<1>2. UNCHANGED <<obj, cached, mem, base, server, request, pc, bootstrap, isDeleted>>
  BY Zenon DEF memVars, envVars
<1>3. /\ Servers' \subseteq Servers /\ Newest' /\ CloudOK'
      /\ \A b \in DOMAIN reqs : b \in DOMAIN reqs' /\ (~isPending(b) => ~isPending(b)')
  BY Zenon, <1>1, ServersShrink, NewestKept DEF CloudStep, Kept, isPending
<1>4. LocalType' /\ ObjectType' /\ EnvType'
  BY Zenon, <1>1, <1>2 DEF LocalType, ObjectType, EnvType
<1>5. \A b \in Servers : b \in DOMAIN reqs /\ (pc # "idle" /\ reqs[b].recent => reqs'[b].recent)
  BY Zenon DEF Servers, Remembered
<1>6. Knows'
  BY Zenon, <1>1, <1>2, <1>3, <1>5 DEF Knows
<1>7. obj.state = "live" => NoDeletion' /\ running \subseteq running' /\ Created \subseteq Created'
  BY Zenon, <1>1, CreatedStay DEF ProvisionedInv
<1>8. Seen'
  <2> DEFINE id == server.id
  <2> SUFFICES ASSUME pc = "decide", server # NoServer
               PROVE  /\ id \in DOMAIN reqs' /\ Servers' \subseteq {id}
                      /\ ~server.boot => id \notin boots' /\ ~isPending(id)'
                      /\ server.available /\ server.running /\ obj.state = "live" =>
                           id \in running' \cap Created'
    BY Zenon, <1>2 DEF Seen
  <2>1. /\ id \in DOMAIN reqs /\ Servers \subseteq {id}
        /\ ~server.boot => id \notin boots /\ ~isPending(id)
        /\ server.available /\ server.running /\ obj.state = "live" => id \in running \cap Created
    BY Zenon, <1>1 DEF Seen
  <2> QED
    BY Zenon, <1>2, <1>3, <1>7, <2>1
<1>9. ObjectInv' /\ ReconcileInv'
  BY Zenon, <1>1, <1>2, <1>3 DEF ObjectInv, ReconcileInv, Deleting
<1>10. ProvisionedInv'
  BY Zenon, <1>1, <1>2, <1>7 DEF ProvisionedInv
<1> QED
  BY Zenon, <1>3, <1>4, <1>6, <1>8, <1>9, <1>10 DEF ServerInv

\* What becomes of the boot volumes and the VMs when request i is executed.
VolumesFollow(i) ==
  /\ \A k \in boots' : Listed(k)' /\ (k \in boots \/ (k = i /\ reqs[i].method = "POST"))
  /\ \A k \in boots \ boots' : k = reqs[i].id /\ ~isPending(k)'
  /\ reqs[i].method = "POST" /\ isPending(i)' /\ Listed(i)' => i \in boots'
  /\ running' \subseteq running \cup {reqs[i].id}
  /\ NoDeletion => running \subseteq running'

LEMMA StatusSet ==
  ASSUME CloudTypeOK, NEW i \in DOMAIN reqs, NEW st, reqs' = [reqs EXCEPT ![i].status = st]
  PROVE  reqs'[i].status = st
<1>1. reqs[i] \in Requests /\ reqs'[i] = [reqs[i] EXCEPT !.status = st]
  BY DEF CloudTypeOK
<1>2. \A r \in Requests : [r EXCEPT !.status = st].status = st
  BY Zenon DEF Requests
<1> QED
  BY Zenon, <1>1, <1>2

LEMMA VolumesExecuted ==
  ASSUME CloudTypeOK, CloudInv, BootInv, NEW i \in DOMAIN reqs, ServerRequest(i)
  PROVE  /\ Run(i) \/ Finish(i, {}) \/ Fail(i)
         /\ isPending(i) /\ reqs[i].id \in DOMAIN reqs
         /\ reqs[i].method # "POST" => ~isPending(reqs[i].id)
         /\ \A k \in DOMAIN reqs : k # reqs[i].id => res'[k] = res[k]
         /\ VolumesFollow(i)
<1> DEFINE id == reqs[i].id
<1>1. /\ id \in DOMAIN reqs /\ DOMAIN res = DOMAIN reqs /\ DOMAIN reqs \subseteq Nat
      /\ reqs[i].method = "POST" => id = i
      /\ reqs[i].method # "POST" => id # i /\ id < i /\ reqs[id].id = id
  BY DEF CloudTypeOK, CloudInv
<1>2. Run(i) \/ Finish(i, {}) \/ Fail(i)
  BY Zenon DEF ServerRequest
<1>3. isPending(i) /\ (reqs[i].method # "POST" => ~isPending(id))
  <2>1. isPending(i)
    BY Zenon, <1>2 DEF Run, Finish, Fail, isPending
  <2> QED
    BY Zenon, <1>1, <1>2, <2>1, ExecutedInTurn
<1>4. PICK st \in Statuses, new \in ResourceStates : Effect(i, st, new)
  BY Zenon, <1>2, ExecutionEffect
<1>5. /\ DOMAIN res' = DOMAIN res
      /\ \A k \in DOMAIN reqs : /\ res'[k] = IF k = id THEN new ELSE res[k]
                                /\ reqs'[k].status = IF k = i THEN st ELSE reqs[k].status
  BY <1>1, <1>4 DEF Effect, CloudTypeOK, Requests
<1>6. boots \subseteq DOMAIN reqs /\ \A k \in boots : Listed(k)
  BY Zenon, <1>1 DEF BootInv, BootVolumeNotLeaked
<1>7. \A k \in DOMAIN reqs : Listed(k)' <=> (IF k = id THEN new # "absent" ELSE Listed(k))
  BY Zenon, <1>1, <1>5 DEF Listed
<1>8. \A k \in DOMAIN reqs : isPending(k)' <=> (IF k = i THEN st \in {"QUEUED", "RUNNING"} ELSE isPending(k))
  BY Zenon, <1>5 DEF isPending
<1>9. /\ new = "absent" => ~Listed(id) \/ reqs[i].method \in {"POST", "DELETE"}
      /\ reqs[i].method = "POST" /\ isPending(i) /\ Listed(i) => i \in boots
      /\ reqs[i].method = "DELETE" /\ i \notin purging => id \notin boots
      /\ i \in purging => reqs[i].method = "DELETE"
  BY Zenon, <1>4 DEF Effect, BootInv
<1> HIDE DEF id
<1>10. VolumesFollow(i)
  <2>1. CASE /\ Run(i) /\ UNCHANGED running
             /\ boots' = IF reqs[i].method = "POST" /\ res'[id] = "BUSY" THEN boots \cup {id} ELSE boots
    <3>1. reqs'[i].status = "RUNNING" /\ (res' = res \/ res'[id] = "BUSY")
      <4>1. reqs' = [reqs EXCEPT ![i].status = "RUNNING"] /\ (res' = res \/ res' = [res EXCEPT ![id] = "BUSY"])
        BY Zenon, <2>1 DEF Run, SetStatus, id
      <4> QED
        BY Zenon, <1>1, <4>1, StatusSet
    <3>2. st = "RUNNING" /\ (new = res[id] \/ new = "BUSY")
      BY Zenon, <1>1, <1>5, <3>1
    <3>3. new # "absent" => Listed(id) \/ reqs[i].method = "POST"
      BY Zenon, <1>4 DEF Effect, id
    <3>4. Listed(id) => new # "absent"
      BY Zenon, <1>1, <3>2 DEF Listed
    <3>5. /\ \A k \in boots' : Listed(k)' /\ (k \in boots \/ (k = i /\ reqs[i].method = "POST"))
          /\ boots \subseteq boots'
      BY Zenon, <1>1, <1>5, <1>6, <1>7, <2>1, <3>4
    <3>6. reqs[i].method = "POST" /\ Listed(i)' => i \in boots'
      BY Zenon, <1>1, <1>3, <1>5, <1>7, <1>9, <2>1, <3>2, <3>5 DEF Listed
    <3> QED
      BY Zenon, <2>1, <3>5, <3>6 DEF VolumesFollow
  <2>2. CASE /\ Finish(i, {})
             /\ boots' = CASE reqs[i].method = "POST" -> boots \cup {id}
                           [] reqs[i].method = "VOLUME" \/ i \in purging -> boots \ {id}
                           [] OTHER -> boots
             /\ CASE reqs[i].method = "POST"   -> running' \in {running, running \cup {id}}
                  [] reqs[i].method = "START"  -> running' = running \cup {id}
                  [] reqs[i].method = "DELETE" -> running' = running \ {id}
                  [] OTHER -> UNCHANGED running
    <3>1. /\ running' \subseteq running \cup {id}
          /\ reqs[i].method # "DELETE" => running \subseteq running'
      BY Zenon, <2>2
    <3>2. reqs'[i].status = "DONE" /\ (reqs[i].method = "POST" => res'[id] = "AVAILABLE")
      <4>1. /\ reqs' = [reqs EXCEPT ![i].status = "DONE"]
            /\ reqs[i].method = "POST" => res' = [res EXCEPT ![id] = "AVAILABLE"]
        BY Zenon, <2>2 DEF Finish, SetStatus, id
      <4> QED
        BY Zenon, <1>1, <4>1, StatusSet
    <3>3. st = "DONE" /\ (reqs[i].method = "POST" => new = "AVAILABLE") /\ ~isPending(i)'
      BY Zenon, <1>1, <1>5, <1>8, <3>2
    <3>4. CASE reqs[i].method = "POST"
      <4>1. boots' = boots \cup {id}
        BY Zenon, <1>9, <2>2, <3>4
      <4>2. \A k \in boots' : Listed(k)' /\ (k \in boots \/ (k = i /\ reqs[i].method = "POST"))
        BY Zenon, <1>1, <1>6, <1>7, <3>3, <3>4, <4>1
      <4> QED
        BY Zenon, <1>1, <3>1, <3>3, <3>4, <4>1, <4>2 DEF VolumesFollow, id
    <3>5. CASE reqs[i].method # "POST"
      <4>1. boots' \in {boots, boots \ {id}} /\ (id \in boots' => reqs[i].method # "DELETE")
        BY Zenon, <1>9, <2>2, <3>5
      <4>2. \A k \in boots' : Listed(k)' /\ k \in boots
        BY Zenon, <1>6, <1>7, <1>9, <3>5, <4>1
      <4>3. \A k \in boots \ boots' : k = id /\ ~isPending(k)'
        BY Zenon, <1>1, <1>3, <1>8, <3>5, <4>1
      <4>4. NoDeletion => running \subseteq running'
        BY Zenon, <3>1 DEF NoDeletion
      <4> QED
        BY Zenon, <3>1, <3>5, <4>2, <4>3, <4>4 DEF VolumesFollow, id
    <3> QED
      BY Zenon, <3>4, <3>5
  <2>3. CASE /\ Fail(i) /\ UNCHANGED running
             /\ boots' = IF reqs[i].method = "POST" THEN boots \ {id} ELSE boots
    <3>1. reqs'[i].status = "FAILED" /\ (reqs[i].method # "POST" /\ res[id] # "absent" => res'[id] # "absent")
      <4>1. /\ reqs' = [reqs EXCEPT ![i].status = "FAILED"]
            /\ reqs[i].method # "POST" /\ res[id] # "absent" => res' = [res EXCEPT ![id] = "AVAILABLE"]
        BY Zenon, <1>1, <2>3 DEF Fail, SetStatus, id
      <4> QED
        BY Zenon, <1>1, <4>1, StatusSet
    <3>2. st = "FAILED" /\ ~isPending(i)' /\ (reqs[i].method # "POST" /\ Listed(id) => new # "absent")
      BY Zenon, <1>1, <1>5, <1>8, <3>1 DEF Listed
    <3>3. \A k \in boots' : Listed(k)' /\ k \in boots
      BY Zenon, <1>1, <1>6, <1>7, <2>3, <3>2
    <3>4. \A k \in boots \ boots' : k = id /\ ~isPending(k)'
      BY Zenon, <1>1, <2>3, <3>2
    <3> QED
      BY Zenon, <2>3, <3>2, <3>3, <3>4 DEF VolumesFollow, id
  <2> QED
    BY Zenon, <2>1, <2>2, <2>3 DEF ServerRequest, id
<1> QED
  BY Zenon, <1>1, <1>2, <1>3, <1>5, <1>10 DEF id

\* The cloud executes a request.
LEMMA ServerRequestKeeps ==
  ASSUME ServerInv, NEW i \in DOMAIN reqs, ServerRequest(i)
  PROVE  ServerInv'
<1>1. CloudTypeOK /\ CloudInv /\ EnvType /\ VolumeType /\ BootInv
  BY Zenon DEF ServerInv, CloudOK
<1>2. /\ Run(i) \/ Finish(i, {}) \/ Fail(i)
      /\ isPending(i) /\ reqs[i].id \in DOMAIN reqs
      /\ reqs[i].method # "POST" => ~isPending(reqs[i].id)
      /\ \A k \in DOMAIN reqs : k # reqs[i].id => res'[k] = res[k]
      /\ VolumesFollow(i)
  BY Zenon, <1>1, VolumesExecuted
<1>3. /\ CloudTypeOK' /\ CloudInv' /\ Kept /\ Remembered /\ Durable /\ DOMAIN reqs' = DOMAIN reqs
      /\ DOMAIN res = DOMAIN reqs /\ DOMAIN res' = DOMAIN reqs'
  <2>1. CloudTypeOK' /\ CloudInv' /\ Kept /\ Remembered /\ Durable /\ DOMAIN reqs' = DOMAIN reqs
    BY Zenon, <1>1, <1>2, RequestExecuted
  <2> QED
    BY <1>1, <2>1 DEF CloudTypeOK
<1>4. CloudStep
  BY Zenon, <1>3 DEF CloudStep, CloudOK
<1>5. UNCHANGED <<obj, cached, memVars, pc, envVars, purging>> /\ (Fault \/ UNCHANGED faults)
  BY Zenon DEF ServerRequest
<1>6. VolumeType'
  BY Zenon, <1>1, <1>2, <1>3, <1>5 DEF VolumeType, VolumesFollow
<1>7. /\ \A k \in DOMAIN reqs : reqs'[k].method = reqs[k].method /\ reqs'[k].id = reqs[k].id
      /\ \A k \in DOMAIN reqs : isPending(k)' => isPending(k)
  BY Zenon, <1>3 DEF Kept, isPending
<1>8. BootInv'
  <2>1. BootVolumeNotLeaked'
    BY Zenon, <1>2, <1>6 DEF BootVolumeNotLeaked, VolumesFollow, VolumeType
  <2>2. ASSUME NEW j \in DOMAIN reqs', reqs'[j].method = "POST", isPending(j)', Listed(j)'
        PROVE  j \in boots'
    <3>1. CASE j = i
      BY Zenon, <1>2, <1>7, <2>2, <3>1 DEF VolumesFollow
    <3>2. CASE j # i
      <4>1. j \in DOMAIN reqs /\ isPending(j) /\ reqs[j].method = "POST"
        BY Zenon, <1>3, <1>7, <2>2
      <4>2. j # reqs[i].id
        BY <1>1, <1>2, <3>2, <4>1 DEF CloudInv
      <4>3. j \in boots
        BY Zenon, <1>1, <1>2, <1>3, <2>2, <4>1, <4>2 DEF BootInv, Listed
      <4> QED
        BY Zenon, <1>2, <4>2, <4>3 DEF VolumesFollow
    <3> QED
      BY Zenon, <3>1, <3>2
  <2>3. ASSUME NEW j \in DOMAIN reqs', j \notin purging', reqs'[j].method = "DELETE"
        PROVE  (reqs[j].id \notin boots /\ ~isPending(reqs[j].id))'
    <3>1. /\ j \in DOMAIN reqs /\ reqs[j].method = "DELETE" /\ j \notin purging
          /\ reqs'[j].id = reqs[j].id
      BY Zenon, <1>3, <1>5, <1>7, <2>3
    <3>2. reqs[j].id \notin boots /\ ~isPending(reqs[j].id) /\ reqs[j].id \in DOMAIN reqs
      BY Zenon, <1>1, <3>1 DEF BootInv, CloudInv
    <3> QED
      BY Zenon, <1>2, <1>7, <3>1, <3>2 DEF VolumesFollow
  <2>4. \A j \in purging' : reqs'[j].method = "DELETE"
    BY Zenon, <1>1, <1>5, <1>7 DEF BootInv, VolumeType
  <2> QED
    BY Zenon, <2>1, <2>2, <2>3, <2>4 DEF BootInv
<1>9. \A k \in boots' : k \in boots \/ isPending(k)
  BY Zenon, <1>2 DEF VolumesFollow
<1>10. NoDeletion => NoDeletion' /\ running \subseteq running'
  BY Zenon, <1>2, <1>3, <1>7 DEF NoDeletion, VolumesFollow
<1>11. faults' \in Nat
  BY Zenon, <1>1, <1>5, FaultType
<1> QED
  BY Zenon, <1>3, <1>4, <1>5, <1>6, <1>8, <1>9, <1>10, <1>11, CloudStepKeeps

\* A request drops out of the list of the last 24 hours between two reconciles.
LEMMA AgeRequestKeeps ==
  ASSUME ServerInv, NEW i \in DOMAIN reqs, AgeRequest(i)
  PROVE  ServerInv'
<1>1. CloudTypeOK /\ CloudInv /\ EnvType /\ VolumeType /\ BootInv
  BY Zenon DEF ServerInv, CloudOK
<1>2. /\ pc = "idle" /\ Age(i)
      /\ UNCHANGED <<obj, cached, memVars, pc, envVars, running, boots, purging, faults>>
  BY Zenon DEF AgeRequest, volVars
<1>3. CloudTypeOK' /\ CloudInv' /\ Kept /\ Durable /\ UNCHANGED res /\ DOMAIN reqs' = DOMAIN reqs
  BY Zenon, <1>1, <1>2, RequestAged
<1>4. CloudStep
  BY <1>3 DEF CloudStep, CloudOK, CloudTypeOK
<1>5. /\ \A k \in DOMAIN reqs : reqs'[k].method = reqs[k].method /\ reqs'[k].id = reqs[k].id
      /\ \A k \in DOMAIN reqs : isPending(k)' => isPending(k)
      /\ \A k \in DOMAIN reqs : Listed(k)' <=> Listed(k)
  BY Zenon, <1>3 DEF Kept, isPending, Listed
<1>6. VolumeType' /\ faults' \in Nat
  BY Zenon, <1>1, <1>2, <1>3 DEF VolumeType, EnvType
<1>7. BootInv'
  <2>1. BootVolumeNotLeaked'
    BY Zenon, <1>1, <1>2, <1>3 DEF BootInv, BootVolumeNotLeaked, Listed
  <2>2. ASSUME NEW j \in DOMAIN reqs', reqs'[j].method = "POST", isPending(j)', Listed(j)'
        PROVE  j \in boots'
    BY Zenon, <1>1, <1>2, <1>3, <1>5, <2>2 DEF BootInv
  <2>3. ASSUME NEW j \in DOMAIN reqs', j \notin purging', reqs'[j].method = "DELETE"
        PROVE  (reqs[j].id \notin boots /\ ~isPending(reqs[j].id))'
    <3>1. /\ j \in DOMAIN reqs /\ reqs[j].method = "DELETE" /\ j \notin purging
          /\ reqs'[j].id = reqs[j].id
      BY Zenon, <1>2, <1>3, <1>5, <2>3
    <3>2. reqs[j].id \notin boots /\ ~isPending(reqs[j].id) /\ reqs[j].id \in DOMAIN reqs
      BY Zenon, <1>1, <3>1 DEF BootInv, CloudInv
    <3> QED
      BY Zenon, <1>2, <1>5, <3>1, <3>2
  <2>4. \A j \in purging' : reqs'[j].method = "DELETE"
    BY Zenon, <1>1, <1>2, <1>5 DEF BootInv, VolumeType
  <2> QED
    BY Zenon, <2>1, <2>2, <2>3, <2>4 DEF BootInv
<1>8. NoDeletion => NoDeletion' /\ running \subseteq running'
  BY Zenon, <1>2, <1>3, <1>5 DEF NoDeletion
<1> QED
  BY Zenon, <1>2, <1>4, <1>6, <1>7, <1>8, CloudStepKeeps

-----------------------------------------------------------------------------
(***************************************************************************)
(* The theorems.                                                           *)
(***************************************************************************)
\* The inductive invariant: what the requests say of the servers, what findResource
\* found out about them, and what the copies of the object may say.
THEOREM ServerInvariant == Spec => []ServerInv
<1>1. Init => ServerInv
  <2> SUFFICES ASSUME Init PROVE ServerInv
    OBVIOUS
  <2>1. reqs = <<>> /\ res = <<>> /\ DOMAIN reqs = {}
    BY DEF Init
  <2>2. CloudOK /\ Servers = {} /\ NoDeletion
    BY <2>1 DEF CloudOK, CloudTypeOK, CloudInv, Servers, NoDeletion
  <2>3. /\ NewMachine \in MachineObjects /\ NewMachine.state = "live"
        /\ ~NewMachine.provisioned /\ ~NewMachine.finalizer
    BY Zenon DEF NewMachine, MachineObjects
  <2>4. /\ NoServer \in [id : Nat, available : BOOLEAN, running : BOOLEAN, boot : BOOLEAN]
        /\ NoRequest \in [id : Nat, pending : BOOLEAN]
    BY Zenon DEF NoServer, NoRequest
  <2>5. LocalType /\ ObjectType /\ EnvType /\ VolumeType
    BY Zenon, <2>3, <2>4 DEF Init, LocalType, ObjectType, EnvType, VolumeType
  <2>6. Newest /\ Knows /\ Seen /\ ReconcileInv
    BY Zenon, <2>2 DEF Init, Newest, Knows, Seen, ReconcileInv
  <2>7. ObjectInv /\ ProvisionedInv
    BY Zenon, <2>2, <2>3 DEF Init, ObjectInv, ProvisionedInv
  <2>8. BootInv
    BY Zenon, <2>1 DEF Init, BootInv, BootVolumeNotLeaked
  <2> QED
    BY Zenon, <2>2, <2>5, <2>6, <2>7, <2>8 DEF ServerInv
<1>2. ServerInv /\ [Next]_vars => ServerInv'
  <2> SUFFICES ASSUME ServerInv, [Next]_vars PROVE ServerInv'
    OBVIOUS
  <2>1. CASE Lookup \/ LookupAgain
    BY Zenon, <2>1, TryLookupKeeps DEF Lookup, LookupAgain
  <2>2. CASE Reconcile
    BY Zenon, <2>1, <2>2, StartReconcileKeeps, CheckRequestStatesKeeps, CheckQueueKeeps, CreateServerKeeps,
       EnsureServerAvailableKeeps, AwaitCreationKeeps, DeleteServerKeeps, FinalizeKeeps DEF Reconcile
  <2>3. CASE Environment
    BY Zenon, <2>3, CacheSyncKeeps, DeleteMachineKeeps, OthersKeep, ServerRequestKeeps, AgeRequestKeeps
       DEF Environment
  <2> QED
    BY Zenon, <2>2, <2>3, StepErrorKeeps, CrashKeeps, OthersKeep DEF Next, Idle
<1> QED
  BY <1>1, <1>2, PTL DEF Spec

\* Type correctness of the reconcile, its copies of the object and the server.
THEOREM ServerTypeOK == Spec => []TypeOK
<1>1. ServerInv => TypeOK
  BY Zenon DEF ServerInv, CloudOK, LocalType, ObjectType, EnvType, VolumeType, TypeOK
<1> QED
  BY <1>1, ServerInvariant, PTL

\* ReconcileServer never creates a second server, whatever fails and whenever the
\* controller restarts.
THEOREM OneServer == Spec => []AtMostOneServer
<1>1. ServerInv => AtMostOneServer
  <2> SUFFICES ASSUME ServerInv, NEW i \in Servers, NEW j \in Servers PROVE i = j
    BY Zenon DEF AtMostOneServer
  <2>1. CloudTypeOK /\ Newest
    BY Zenon DEF ServerInv, CloudOK
  <2>2. i \in Nat /\ j \in Nat /\ i <= j /\ j <= i
    BY <2>1 DEF CloudTypeOK, Newest, Servers
  <2> QED
    BY <2>2
<1> QED
  BY <1>1, ServerInvariant, PTL

\* The finalizer of the machine is removed (ReconcileServerDeletion) only when its
\* server is gone and none is being created.
THEOREM ServerNotOrphaned == Spec => []NoOrphanedServer
<1>1. ServerInv => NoOrphanedServer
  BY Zenon DEF ServerInv, ObjectInv, NoOrphanedServer
<1> QED
  BY <1>1, ServerInvariant, PTL

\* deleteServer leaves no boot volume behind.
THEOREM BootVolumeGoesWithServer == Spec => []BootVolumeNotLeaked
<1>1. ServerInv => BootVolumeNotLeaked
  BY Zenon DEF ServerInv, BootInv
<1> QED
  BY <1>1, ServerInvariant, PTL

\* A machine that FinalizeMachineProvisioning marked as provisioned has a server that
\* runs until the machine is deleted.
THEOREM ProvisionedServerRuns == Spec => []ProvisionedHasServer
<1>1. ServerInv => ProvisionedHasServer
  BY Zenon DEF ServerInv, ProvisionedInv, ProvisionedHasServer, Created
<1> QED
  BY <1>1, ServerInvariant, PTL

-----------------------------------------------------------------------------
(***************************************************************************)
(* The server is a managed resource.                                       *)
(***************************************************************************)
LEMMA ServersNamed ==
  ASSUME CloudTypeOK, CloudTypeOK'
  PROVE  /\ Servers = ResourcesOf(MachineName) /\ Servers' = ResourcesOf(MachineName)'
         /\ Created = CreatedOf(MachineName) /\ Created' = CreatedOf(MachineName)'
<1>1. /\ \A i \in DOMAIN reqs : reqs[i] \in Requests
      /\ \A i \in DOMAIN reqs' : reqs'[i] \in Requests
  BY DEF CloudTypeOK
<1>2. /\ \A i \in DOMAIN reqs : reqs[i].name = MachineName
      /\ \A i \in DOMAIN reqs' : reqs'[i].name = MachineName
  BY Zenon, <1>1, ServerAssumption DEF Requests
<1>3. Servers = ResourcesOf(MachineName) /\ Servers' = ResourcesOf(MachineName)'
  BY Zenon, <1>2 DEF Servers, ResourcesOf, Resources
<1> QED
  BY Zenon, <1>3 DEF Created, CreatedOf

\* A step makes no call, or it requests a server for an object that has its finalizer,
\* or it creates no resource.
LEMMA ServerCalls ==
  ASSUME ServerInv, [Next]_vars
  PROVE  \/ UNCHANGED cloudVars
         \/ UNCHANGED obj /\ Post(MachineName) /\ Servers = {} /\ obj.finalizer
         \/ UNCHANGED obj /\ Kept /\ Durable
<1>1. CloudTypeOK /\ CloudInv /\ Knows /\ ReconcileInv
  BY Zenon DEF ServerInv, CloudOK
<1>2. CASE CreateServer
  <2>1. pc = "decide" /\ ~Deleting /\ server = NoServer /\ UNCHANGED obj
    BY Zenon, <1>2 DEF CreateServer
  <2>2. CASE ~request.pending /\ Post(MachineName)
    BY Zenon, <1>1, <2>1, <2>2 DEF Knows, ReconcileInv
  <2> QED
    BY Zenon, <1>2, <2>2 DEF CreateServer, createServer
<1>3. ASSUME NEW method \in {"START", "VOLUME", "DELETE"}, Submit(method, server.id), UNCHANGED obj
      PROVE  UNCHANGED obj /\ Kept /\ Durable
  <2>1. method \in Methods \ {"POST"}
    BY Zenon DEF Methods
  <2> QED
    BY Zenon, <1>1, <1>3, <2>1, RequestSubmitted
<1>4. CASE EnsureServerAvailable
  BY Zenon, <1>3, <1>4 DEF EnsureServerAvailable, SubmitAndRecord
<1>5. CASE DeleteServer
  BY Zenon, <1>3, <1>5 DEF DeleteServer, RequestDeletion, SubmitAndRecord
<1>6. ASSUME NEW i \in DOMAIN reqs, ServerRequest(i) \/ AgeRequest(i)
      PROVE  UNCHANGED obj /\ Kept /\ Durable
  <2>1. UNCHANGED obj
    BY Zenon, <1>6 DEF ServerRequest, AgeRequest
  <2>2. Run(i) \/ Finish(i, {}) \/ Fail(i) \/ Age(i)
    BY Zenon, <1>6 DEF ServerRequest, AgeRequest
  <2> QED
    BY Zenon, <1>1, <2>1, <2>2, RequestExecuted, RequestAged
<1>7. CASE Lookup \/ LookupAgain
  BY Zenon, <1>7 DEF Lookup, LookupAgain, TryLookup
<1>8. CASE StartReconcile \/ CheckRequestStates \/ CheckQueue \/ AwaitCreation \/ Finalize
  BY Zenon, <1>8 DEF StartReconcile, CheckRequestStates, CheckQueue, AwaitCreation, Finalize
<1>9. CASE StepError \/ Crash \/ CacheSync \/ DeleteMachine \/ Bootstrap \/ DeleteCluster \/ UNCHANGED vars
  BY Zenon, <1>9 DEF StepError, Crash, CacheSync, DeleteMachine, Bootstrap, DeleteCluster, vars
<1> QED
  BY Zenon, <1>2, <1>4, <1>5, <1>6, <1>7, <1>8, <1>9 DEF Next, Reconcile, Environment, Idle

\* The deletion of an object changes nothing of its finalizer, and is not taken back.
LEMMA ObjectMoves ==
  ASSUME ServerInv, [Next]_vars
  PROVE  /\ obj.finalizer \in BOOLEAN /\ obj'.finalizer \in BOOLEAN
         /\ obj.state # "live" => obj'.state # "live"
         /\ obj.state = "live" /\ obj'.state # "live" => obj'.finalizer = obj.finalizer
<1>1. obj \in MachineObjects
  BY Zenon DEF ServerInv, ObjectType
<1>2. CASE obj' = obj
  BY Zenon, <1>1, <1>2 DEF MachineObjects
<1>3. CASE StartReconcile
  <2>1. CASE obj' = [obj EXCEPT !.finalizer = IF cached.finalizer THEN @ ELSE TRUE]
    BY Zenon, <1>1, <2>1 DEF MachineObjects
  <2> QED
    BY Zenon, <1>2, <1>3, <2>1 DEF StartReconcile
<1>4. CASE Finalize
  BY Zenon, <1>1, <1>2, <1>4, FinalizePatches DEF Patch, MachineObjects
<1>5. CASE DeleteMachine
  BY Zenon, <1>1, <1>5, ObjectDeleted DEF MachineObjects
<1>6. ASSUME CheckRequestStates \/ CheckQueue \/ AwaitCreation \/ CreateServer \/ EnsureServerAvailable
               \/ DeleteServer \/ Lookup \/ LookupAgain
      PROVE  obj' = obj
  BY Zenon, <1>6 DEF CheckRequestStates, CheckQueue, AwaitCreation, CreateServer, EnsureServerAvailable,
     DeleteServer, Lookup, LookupAgain, TryLookup
<1>7. ASSUME StepError \/ Crash \/ CacheSync \/ Bootstrap \/ DeleteCluster \/ UNCHANGED vars
      PROVE  obj' = obj
  BY Zenon, <1>7 DEF StepError, Crash, CacheSync, Bootstrap, DeleteCluster, vars
<1>8. ASSUME NEW i \in DOMAIN reqs, ServerRequest(i) \/ AgeRequest(i) PROVE obj' = obj
  BY Zenon, <1>8 DEF ServerRequest, AgeRequest
<1> QED
  BY Zenon, <1>2, <1>3, <1>4, <1>5, <1>6, <1>7, <1>8 DEF Next, Reconcile, Environment, Idle

\* With the invariant, every step is one of the managed resource or leaves it alone.
LEMMA ServerResourceStep ==
  ASSUME ServerInv, ServerInv', [Next]_vars
  PROVE  [Resource!Next]_(Resource!resourceVars)
<1>1. /\ CloudTypeOK /\ CloudInv /\ CloudTypeOK' /\ ProvisionedInv /\ ObjectInv /\ ObjectInv'
      /\ \A i, j \in Servers : i = j
  <2>1. CloudTypeOK /\ Newest /\ \A i \in Servers : i \in DOMAIN reqs /\ reqs[i].method = "POST"
    BY Zenon DEF ServerInv, CloudOK, Servers
  <2>2. \A i, j \in Servers : i = j
    BY <2>1 DEF CloudTypeOK, Newest
  <2> QED
    BY Zenon, <2>2 DEF ServerInv, CloudOK
<1>2. /\ Servers = ResourcesOf(MachineName) /\ Servers' = ResourcesOf(MachineName)'
      /\ Created = CreatedOf(MachineName) /\ Created' = CreatedOf(MachineName)'
  BY Zenon, <1>1, ServersNamed
<1>3. CASE UNCHANGED cloudVars
  <2>1. Servers' = Servers /\ Created' = Created
    BY Zenon, <1>3 DEF cloudVars, Servers, Created, isPending, Listed
  <2>2. obj.finalizer /\ ~obj'.finalizer => Servers = {}
    BY Zenon, <1>1, <2>1 DEF ObjectInv
  <2> QED
    BY Zenon, <2>1, <2>2, ObjectMoves DEF Resource!Next, Resource!Hold, Resource!Release, Resource!End,
       Resource!resourceVars
<1>4. CASE UNCHANGED obj /\ Post(MachineName) /\ Servers = {} /\ obj.finalizer
  <2>1. MachineName \in Names
    BY Zenon, ServerAssumption
  <2>2. (\E id \in Servers' : Servers' = {id}) /\ Created' = {} /\ Created = {}
    BY Zenon, <1>1, <1>2, <1>4, <2>1, ResourceRequested
  <2> QED
    BY Zenon, <1>4, <2>2 DEF Resource!Next, Resource!Request
<1>5. CASE UNCHANGED obj /\ Kept /\ Durable
  <2>1. ResourceMoves(MachineName)
    BY Zenon, <1>1, <1>2, <1>5, ResourceStep
  <2>2. ~NoDeletion => obj.state # "live"
    BY Zenon, <1>1 DEF ProvisionedInv
  <2> QED
    BY Zenon, <1>2, <1>5, <2>1, <2>2 DEF ResourceMoves, Resource!Next, Resource!Complete, Resource!Fail,
       Resource!Remove, Resource!resourceVars
<1> QED
  BY Zenon, <1>3, <1>4, <1>5, ServerCalls

\* ReconcileServer and ReconcileServerDeletion implement the managed resource.
THEOREM ServerImplementsResource == Spec => ServerManaged
<1>1. Init => Resource!Init
  BY DEF Init, Resource!Init, Servers, Created, NewMachine
<1>2. ServerInv /\ ServerInv' /\ [Next]_vars => [Resource!Next]_(Resource!resourceVars)
  BY Zenon, ServerResourceStep
<1> QED
  BY <1>1, <1>2, ServerInvariant, PTL DEF Spec, ServerManaged, Resource!Spec
=============================================================================
