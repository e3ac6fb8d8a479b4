--------------------- MODULE ControlPlaneEndpointProofs ---------------------
(***************************************************************************)
(* Proofs about ControlPlaneEndpoint: one block is reserved, the recorded  *)
(* block is that of the endpoint, a block of the user's is not deleted, a  *)
(* block outlives the machines, and the finalizer outlives the block.      *)
(***************************************************************************)
EXTENDS ControlPlaneEndpoint, CloudAPIProofs

(***************************************************************************)
(* The inductive invariant.                                                *)
(***************************************************************************)
CloudOK == CloudTypeOK /\ CloudInv
LocalType == /\ mem \in Clusters /\ base \in Clusters
             /\ pc \in {"idle", "check", "machines", "lookup", "queue", "relookup", "decide",
                        "credentials", "finalize"}
             /\ block \in [id : Nat, available : BOOLEAN]
             /\ request \in [id : Nat, pending : BOOLEAN]
ObjectType == obj \in Clusters /\ cached \in Clusters
EnvType == /\ owner \in {"live", "deleting", "seen"}
           /\ machines \in BOOLEAN /\ panicked \in BOOLEAN
           /\ secret \in {"free", "held", "deleting", "gone"}
           /\ faults \in Nat

\* The blocks whose reservation is DONE, deleted ones included.
Created == {i \in DOMAIN reqs : reqs[i].method = "POST" /\ isDone(i)}

\* After a block that was created, is there or is being created, none is reserved.
Newest == \A b \in Resources \cup Created : \A j \in DOMAIN reqs :
            reqs[j].method = "POST" => j <= b

\* What findResource found out about blocks that are not listed.
Knows ==
  /\ pc \in {"queue", "relookup"} \/ (pc = "decide" /\ block = NoBlock) => mem.host = 0
  /\ pc = "queue" => block = NoBlock /\ \A b \in Resources : reqs[b].recent
  /\ pc = "relookup" => ~request.pending /\ \A b \in Resources : ~isPending(b)
  /\ pc = "decide" /\ block = NoBlock /\ ~request.pending => Resources = {}

\* What a reconcile has seen before it goes on.
Seen ==
  /\ pc = "decide" /\ block # NoBlock => block.id \in DOMAIN reqs
  /\ pc = "decide" /\ block.available => block.id \in Created
  /\ pc = "credentials" => EndpointBlocks = {}
  /\ Deleting /\ pc \in {"lookup", "queue", "relookup", "decide", "credentials"} => ~machines

\* With a block of the user's the endpoint is set from the start.
UserCreated == \A i \in DOMAIN reqs : reqs[i].name = UserName => i = UserBlock /\ i \in Created
UserHost == \A i \in DOMAIN reqs : reqs[i].name = UserName =>
  /\ obj.host = i /\ cached.host = i
  /\ pc # "idle" => mem.host = i /\ base.host = i

\* Only a deletion of the cluster deletes a block, and only after the machines.
Undeleted == NoDeletion => \A i \in Created : reqs[i].name = BlockName => Listed(i)
StateInv ==
  /\ ~NoDeletion => cached.state # "live" /\ (pc # "idle" => Deleting) /\ ~machines
  /\ pc # "idle" /\ Deleting => cached.state # "live"
  /\ cached.state # "live" => obj.state # "live"

\* Only a block that was created is recorded, and a cluster is provisioned with one.
Endpoint(o) == /\ o.host \in {0} \cup Created /\ o.blockID \in {0} \cup Created
               /\ o.provisioned => o.blockID # 0

\* What is recorded stays recorded, and the finalizer goes after the block.
CopyInv ==
  /\ Endpoint(obj) /\ Endpoint(cached) /\ Endpoint(mem) /\ Endpoint(base)
  /\ base.blockID # 0 \/ cached.blockID # 0 => obj.blockID # 0
  /\ mem.blockID = 0 => base.blockID = 0
  /\ base.provisioned => mem.provisioned
  /\ base.finalizer /\ ~mem.finalizer => pc = "finalize" /\ EndpointBlocks = {}

EndpointInv == /\ CloudOK /\ LocalType /\ ObjectType /\ EnvType
               /\ Newest /\ Knows /\ Seen
               /\ UserCreated /\ UserHost /\ Undeleted /\ StateInv /\ CopyInv

-----------------------------------------------------------------------------
(***************************************************************************)
(* The cloud.                                                              *)
(***************************************************************************)
\* A block that the controller reserved is there until its deletion is requested.
BlocksDurable == \A k \in Resources :
  reqs[k].name = BlockName /\ (\A j \in DOMAIN reqs : reqs[j].method = "DELETE" => reqs[j].id # k)
    => (reqs'[k].status = "DONE" => Listed(k)')

\* A step that reserves no block.
CloudStep == /\ CloudOK' /\ Kept /\ BlocksDurable
             /\ \A k \in DOMAIN reqs' \ DOMAIN reqs : reqs'[k].name = BlockName

LEMMA NoCall ==
  ASSUME CloudOK, UNCHANGED cloudVars
  PROVE  CloudStep /\ Remembered /\ reqs' = reqs /\ res' = res /\ NoDeletion' = NoDeletion
<1>1. CloudOK' /\ Kept /\ Durable /\ Remembered /\ reqs' = reqs /\ res' = res
  BY Zenon, CloudUnchanged DEF CloudOK
<1>2. NoDeletion' = NoDeletion
  BY Zenon, <1>1 DEF NoDeletion
<1> QED
  BY Zenon, <1>1, <1>2 DEF CloudStep, Durable, BlocksDurable

LEMMA CloudStepFacts ==
  ASSUME CloudStep
  PROVE  /\ Resources' \subseteq Resources /\ EndpointBlocks' \subseteq EndpointBlocks
         /\ Created \subseteq Created' /\ Created' \subseteq Created \cup Resources
         /\ \A b \in Resources : ~isPending(b) => ~isPending(b)'
         /\ NoDeletion' => NoDeletion
<1>1. /\ \A k \in DOMAIN reqs :
             /\ k \in DOMAIN reqs'
             /\ reqs'[k].method = reqs[k].method
             /\ reqs'[k].name = reqs[k].name
             /\ ~isPending(k) => reqs'[k].status = reqs[k].status
      /\ \A k \in DOMAIN reqs' : reqs'[k].method = "POST" => k \in DOMAIN reqs
      /\ Resources' \subseteq Resources
  BY Zenon DEF CloudStep, Kept
<1>2. EndpointBlocks' \subseteq EndpointBlocks
  <2> SUFFICES ASSUME NEW k \in EndpointBlocks' PROVE k \in EndpointBlocks
    OBVIOUS
  <2>1. k \in Resources' /\ reqs'[k].name = BlockName
    BY Zenon DEF EndpointBlocks, Resources
  <2>2. k \in Resources
    BY Zenon, <1>1, <2>1
  <2> QED
    BY Zenon, <1>1, <2>1, <2>2 DEF EndpointBlocks, Resources
<1>3. Created \subseteq Created'
  BY Zenon, <1>1 DEF Created, isDone, isPending
<1>4. Created' \subseteq Created \cup Resources
  BY Zenon, <1>1 DEF Created, Resources, isDone
<1>5. \A b \in Resources : ~isPending(b) => ~isPending(b)'
  BY Zenon, <1>1 DEF Resources, isPending
<1>6. NoDeletion' => NoDeletion
  BY Zenon, <1>1 DEF NoDeletion
<1> QED
  BY Zenon, <1>1, <1>2, <1>3, <1>4, <1>5, <1>6

\* What a step that reserves no block leaves true of the blocks.
LEMMA CloudStepKeeps ==
  ASSUME EndpointInv, CloudStep
  PROVE  CloudOK' /\ Newest' /\ UserCreated' /\ Undeleted'
<1>1. Newest /\ UserCreated /\ Undeleted
  BY Zenon DEF EndpointInv
<1>2. Newest'
  <2>1. \A k \in DOMAIN reqs' : reqs'[k].method = "POST" => k \in DOMAIN reqs /\ reqs[k].method = "POST"
    BY Zenon DEF CloudStep, Kept
  <2>2. Resources' \cup Created' \subseteq Resources \cup Created
    BY Zenon, CloudStepFacts
  <2> QED
    BY Zenon, <1>1, <2>1, <2>2 DEF Newest
<1>3. UserCreated'
  <2> SUFFICES ASSUME NEW i \in DOMAIN reqs', reqs'[i].name = UserName
               PROVE  i = UserBlock /\ i \in Created'
    BY Zenon DEF UserCreated
  <2>1. i \in DOMAIN reqs /\ reqs[i].name = UserName
    BY Zenon DEF CloudStep, Kept, UserName, BlockName
  <2> QED
    BY Zenon, <1>1, <2>1, CloudStepFacts DEF UserCreated
<1>4. Undeleted'
  <2> SUFFICES ASSUME NoDeletion', NEW i \in Created', reqs'[i].name = BlockName
               PROVE  Listed(i)'
    BY Zenon DEF Undeleted
  <2>1. NoDeletion /\ i \in Created \cup Resources
    BY Zenon, CloudStepFacts
  <2>2. i \in DOMAIN reqs /\ reqs[i].method = "POST"
    BY Zenon, <2>1 DEF Created, Resources
  <2>3. reqs[i].name = BlockName
    BY Zenon, <2>2 DEF CloudStep, Kept
  <2>4. i \in Resources
    BY Zenon, <1>1, <2>1, <2>2, <2>3 DEF Undeleted, Resources
  <2> QED
    BY Zenon, <2>1, <2>3, <2>4 DEF CloudStep, BlocksDurable, NoDeletion, Created, isDone
<1> QED
  BY Zenon, <1>2, <1>3, <1>4 DEF CloudStep

-----------------------------------------------------------------------------
(***************************************************************************)
(* Steps that leave the object and the cache alone.                        *)
(***************************************************************************)
\* What a step may do to the copy of the object that a reconcile works on.
CopyStep ==
  /\ mem.host # 0 => mem'.host = mem.host
  /\ mem'.host \in {mem.host} \cup Created /\ mem'.blockID \in {mem.blockID} \cup Created
  /\ mem'.blockID = 0 => mem.blockID = 0
  /\ mem.provisioned => mem'.provisioned
  /\ mem'.provisioned => mem.provisioned \/ mem'.blockID # 0
  /\ mem.finalizer => mem'.finalizer \/ (pc' = "finalize" /\ EndpointBlocks = {})

\* The reconcile goes on, or does not move.
Moves == pc' = pc \/ (pc \notin {"idle", "finalize"} /\ pc' # "idle")

LEMMA StepKeeps ==
  ASSUME EndpointInv, LocalType', EnvType', UNCHANGED <<obj, cached, base>>, machines' => machines,
         CloudStep, NoDeletion => NoDeletion' \/ (pc # "idle" /\ Deleting /\ ~machines),
         Moves, CopyStep, Knows', Seen'
  PROVE  EndpointInv'
<1>1. CloudOK /\ LocalType /\ ObjectType /\ UserCreated /\ UserHost /\ StateInv /\ CopyInv
  BY Zenon DEF EndpointInv
<1>2. CloudOK' /\ Newest' /\ UserCreated' /\ Undeleted'
  BY Zenon, CloudStepKeeps
<1>3. ObjectType' /\ (Deleting' <=> Deleting)
  BY Zenon, <1>1 DEF ObjectType, Deleting
<1>4. UserHost'
  <2> SUFFICES ASSUME NEW i \in DOMAIN reqs', reqs'[i].name = UserName
               PROVE  /\ obj'.host = i /\ cached'.host = i
                      /\ pc' # "idle" => mem'.host = i /\ base'.host = i
    BY Zenon DEF UserHost
  <2>1. i \in DOMAIN reqs /\ reqs[i].name = UserName
    BY Zenon DEF CloudStep, Kept, UserName, BlockName
  <2>2. i = UserBlock /\ i # 0
    BY <1>1, <2>1 DEF UserCreated, UserBlock
  <2> QED
    BY Zenon, <1>1, <2>1, <2>2 DEF UserHost, Moves, CopyStep
<1>5. StateInv'
  BY Zenon, <1>1, <1>3, CloudStepFacts DEF StateInv, Moves
<1>6. CopyInv'
  <2>1. Endpoint(obj)' /\ Endpoint(cached)' /\ Endpoint(base)'
    BY Zenon, <1>1, CloudStepFacts DEF CopyInv, Endpoint
  <2>2. Endpoint(mem)'
    BY Zenon, <1>1, CloudStepFacts DEF CopyInv, Endpoint, CopyStep
  <2>3. /\ base'.blockID # 0 \/ cached'.blockID # 0 => obj'.blockID # 0
        /\ mem'.blockID = 0 => base'.blockID = 0
        /\ base'.provisioned => mem'.provisioned
    BY Zenon, <1>1 DEF CopyInv, CopyStep
  <2>4. base'.finalizer /\ ~mem'.finalizer => pc' = "finalize" /\ EndpointBlocks' = {}
    BY Zenon, <1>1, CloudStepFacts DEF CopyInv, CopyStep, Moves
  <2> QED
    BY Zenon, <2>1, <2>2, <2>3, <2>4 DEF CopyInv
<1> QED
  BY Zenon, <1>2, <1>3, <1>4, <1>5, <1>6 DEF EndpointInv

\* The reconcile ends, or goes on to a step before which it knows nothing.
LEMMA Ends ==
  ASSUME pc' \in {"idle", "check", "machines", "finalize"}
  PROVE  Knows' /\ Seen'
BY Zenon DEF Knows, Seen

\* What a reconcile knows stays true of a cloud that works on its requests.
LEMMA StillKnown ==
  ASSUME Knows, Seen, CloudStep, Remembered \/ pc = "idle",
         UNCHANGED <<mem, base, pc, block, request>>, machines' => machines
  PROVE  Knows' /\ Seen'
<1>1. CASE pc = "idle"
  BY Zenon, <1>1, Ends
<1>2. CASE Remembered
  <2>1. /\ Resources' \subseteq Resources /\ EndpointBlocks' \subseteq EndpointBlocks
        /\ Created \subseteq Created'
        /\ \A b \in Resources : ~isPending(b) => ~isPending(b)'
    BY Zenon, CloudStepFacts
  <2>2. \A b \in Resources : reqs[b].recent => reqs'[b].recent
    BY Zenon, <1>2 DEF Remembered, Resources
  <2>3. DOMAIN reqs \subseteq DOMAIN reqs'
    BY Zenon DEF CloudStep, Kept
  <2>4. Knows'
    BY Zenon, <2>1, <2>2 DEF Knows
  <2>5. Seen'
    BY Zenon, <2>1, <2>3 DEF Seen, Deleting
  <2> QED
    BY Zenon, <2>4, <2>5
<1> QED
  BY Zenon, <1>1, <1>2

-----------------------------------------------------------------------------
(***************************************************************************)
(* The steps of a reconcile.                                               *)
(***************************************************************************)
\* A copy that differs from another one only in the request that is recorded.
Recorded(p, o) == /\ p \in Clusters /\ p.state = o.state /\ p.finalizer = o.finalizer
                  /\ p.host = o.host /\ p.blockID = o.blockID /\ p.provisioned = o.provisioned

LEMMA RequestRecorded ==
  ASSUME NEW o \in Clusters, NEW n \in Nat
  PROVE  Recorded([o EXCEPT !.request = n], o)
BY Zenon DEF Clusters, Recorded

LEMMA RecordedStep ==
  ASSUME Recorded(mem', mem) \/ UNCHANGED mem
  PROVE  CopyStep
BY Zenon DEF Recorded, CopyStep

LEMMA FaultType ==
  ASSUME EnvType, Fault \/ UNCHANGED faults
  PROVE  faults' \in Nat
BY DEF EnvType, Fault

\* Nothing but the copy, what the reconcile found and the step changes.
LEMMA CopyOnly ==
  ASSUME EndpointInv, pc \notin {"idle", "finalize"}, pc' # "idle", CopyStep, LocalType', EnvType',
         UNCHANGED <<obj, cached, base, cloudVars, machines>>, Knows', Seen'
  PROVE  EndpointInv'
<1>1. CloudStep /\ NoDeletion' = NoDeletion
  BY Zenon, NoCall DEF EndpointInv
<1>2. Moves
  BY Zenon DEF Moves
<1> QED
  BY Zenon, <1>1, <1>2, StepKeeps

\* checkRequestStatus changes nothing but the request that is recorded.
LEMMA CheckRequestStatusKeeps ==
  ASSUME EndpointInv, CheckRequestStatus
  PROVE  EndpointInv'
<1>1. LocalType /\ EnvType /\ CloudOK
  BY Zenon DEF EndpointInv
<1>2. /\ pc = "check" /\ pc' \in {"finalize", "machines", "lookup"} /\ (pc' = "lookup" => ~Deleting)
      /\ mem' = [mem EXCEPT !.request = 0] \/ UNCHANGED mem
      /\ UNCHANGED <<cloudVars, obj, cached, base, block, request, owner, machines, secret, panicked, faults>>
  BY Zenon DEF CheckRequestStatus, envVars
<1>3. mem \in Clusters
  BY Zenon, <1>1 DEF LocalType
<1>4. Recorded(mem', mem) \/ UNCHANGED mem
  BY Zenon, <1>2, <1>3, RequestRecorded
<1>5. mem' \in Clusters
  BY Zenon, <1>3, <1>4 DEF Recorded
<1>6. LocalType' /\ EnvType'
  BY Zenon, <1>1, <1>2, <1>5 DEF LocalType, EnvType
<1>7. Knows' /\ Seen'
  <2>1. Knows'
    BY Zenon, <1>2 DEF Knows
  <2>2. Seen'
    BY Zenon, <1>2 DEF Seen, Deleting
  <2> QED
    BY Zenon, <2>1, <2>2
<1> QED
  BY Zenon, <1>2, <1>4, <1>6, <1>7, RecordedStep, CopyOnly

\* reconcileDelete goes on only without machines.
LEMMA CheckMachinesKeeps ==
  ASSUME EndpointInv, CheckMachines
  PROVE  EndpointInv'
<1>1. LocalType /\ EnvType
  BY Zenon DEF EndpointInv
<1>2. /\ pc = "machines" /\ pc' \in {"finalize", "lookup"} /\ (pc' = "lookup" => ~machines)
      /\ UNCHANGED <<cloudVars, obj, cached, mem, base, block, request, owner, machines, secret, panicked, faults>>
  BY Zenon DEF CheckMachines, envVars, memVars
<1>3. LocalType' /\ EnvType'
  BY Zenon, <1>1, <1>2 DEF LocalType, EnvType
<1>4. Knows'
  BY Zenon, <1>2 DEF Knows
<1>5. Seen'
  BY Zenon, <1>2 DEF Seen
<1> QED
  BY Zenon, <1>2, <1>3, <1>4, <1>5, RecordedStep, CopyOnly

\* A block that is found is listed, and one that is available was created.
LEMMA BlockFound ==
  ASSUME EndpointInv, NEW id \in Found
  PROVE  id \in DOMAIN reqs /\ id \in Nat \ {0} /\ (isAvailable(id) => id \in Created)
<1>1. CloudTypeOK /\ CloudInv
  BY Zenon DEF EndpointInv, CloudOK
<1>2. Listed(id)
  BY Zenon DEF Found, Named, ListedAs
<1>3. id \in DOMAIN reqs /\ id \in Nat \ {0} /\ reqs[id] \in Requests
  BY <1>1, <1>2 DEF Listed, CloudTypeOK
<1>4. reqs[id].method = "POST"
  BY Zenon, <1>1, <1>2, <1>3 DEF CloudInv, Listed
<1>5. isAvailable(id) => reqs[id].status \notin {"QUEUED", "RUNNING", "FAILED"}
  BY Zenon, <1>1, <1>2, <1>3, <1>4 DEF CloudInv, Listed, isAvailable, isPending
<1>6. isAvailable(id) => isDone(id)
  BY Zenon, <1>3, <1>5 DEF Requests, Statuses, isDone
<1> QED
  BY Zenon, <1>3, <1>4, <1>6 DEF Created

\* A block that is not found is being reserved.
LEMMA NoBlockFound ==
  ASSUME EndpointInv, Found = {}
  PROVE  \A b \in EndpointBlocks : isPending(b)
<1>1. CloudTypeOK /\ DOMAIN res = DOMAIN reqs
  BY DEF EndpointInv, CloudOK, CloudTypeOK
<1>2. ListedAs(BlockName) = {}
  BY Zenon DEF Found, Named
<1> QED
  BY Zenon, <1>1, <1>2 DEF ListedAs, EndpointBlocks

\* While the endpoint is not set there are only blocks that the controller reserved.
LEMMA OwnBlocks ==
  ASSUME EndpointInv, pc # "idle", mem.host = 0
  PROVE  /\ \A k \in DOMAIN reqs : reqs[k].name = BlockName
         /\ EndpointBlocks = Resources
<1>1. CloudTypeOK /\ UserHost /\ UserCreated
  BY Zenon DEF EndpointInv, CloudOK
<1>2. ASSUME NEW k \in DOMAIN reqs PROVE reqs[k].name = BlockName
  <2>1. reqs[k] \in Requests
    BY <1>1 DEF CloudTypeOK
  <2>2. reqs[k].name \in {BlockName, UserName}
    BY Zenon, <2>1, EndpointAssumption DEF Requests
  <2>3. CASE reqs[k].name = UserName
    <3>1. k = UserBlock /\ mem.host = k
      BY Zenon, <1>1, <2>3 DEF UserHost, UserCreated
    <3> QED
      BY <3>1 DEF UserBlock
  <2> QED
    BY Zenon, <2>2, <2>3
<1>3. EndpointBlocks = Resources
  BY Zenon, <1>2 DEF EndpointBlocks, Resources
<1> QED
  BY Zenon, <1>2, <1>3

\* errUserSetIPNotFound: the block of the endpoint is gone, and no other was reserved.
LEMMA NoBlockLeft ==
  ASSUME EndpointInv, Found = {}, mem.host # 0
  PROVE  EndpointBlocks = {}
<1>1. CloudTypeOK /\ Newest /\ CopyInv
  BY Zenon DEF EndpointInv, CloudOK
<1>2. mem.host \in Created
  BY Zenon, <1>1 DEF CopyInv, Endpoint
<1> SUFFICES ASSUME NEW b \in EndpointBlocks PROVE FALSE
  BY Zenon
<1>3. isPending(b) /\ b \in DOMAIN reqs /\ reqs[b].method = "POST" /\ b \in Resources
  BY Zenon, NoBlockFound DEF EndpointBlocks, Resources
<1>4. mem.host \in DOMAIN reqs /\ reqs[mem.host].method = "POST" /\ isDone(mem.host)
  BY Zenon, <1>2 DEF Created
<1>5. b <= mem.host /\ mem.host <= b
  BY Zenon, <1>1, <1>2, <1>3, <1>4 DEF Newest
<1>6. b \in Nat /\ mem.host \in Nat
  BY <1>1, <1>3, <1>4 DEF CloudTypeOK
<1>7. b = mem.host
  BY <1>5, <1>6
<1> QED
  BY Zenon, <1>3, <1>4, <1>7 DEF isPending, isDone

\* The first and the second lookup.
LEMMA TryLookupKeeps ==
  ASSUME EndpointInv, NEW next \in {"queue", "decide"}, TryLookup(next),
         (pc = "lookup" /\ next = "queue") \/ (pc = "relookup" /\ next = "decide")
  PROVE  EndpointInv'
<1>1. CloudOK /\ LocalType /\ EnvType /\ Knows /\ Seen
  BY Zenon DEF EndpointInv
<1>2. UNCHANGED <<obj, cached, base, cloudVars, owner, machines, secret, panicked, faults>>
  BY Zenon DEF TryLookup, envVars
<1>3. /\ reqs' = reqs /\ Resources' = Resources /\ EndpointBlocks' = EndpointBlocks
      /\ Created' = Created /\ Deleting' = Deleting
      /\ \A b : isPending(b)' <=> isPending(b)
  BY Zenon, <1>2 DEF cloudVars, Resources, EndpointBlocks, Created, isPending, isDone, Listed, Deleting
<1>4. EnvType' /\ (Deleting' => ~machines')
  BY Zenon, <1>1, <1>2, <1>3 DEF EnvType, Seen
<1>5. CASE Found = {} /\ mem.host # 0
  <2>1. userSetIPNotFound
    BY Zenon, <1>5 DEF userSetIPNotFound
  <2>2. /\ pc' \in {"credentials", "finalize"}
        /\ block' = NoBlock /\ request' = request
        /\ mem' = [mem EXCEPT !.request = 0] \/ UNCHANGED mem
    BY Zenon, <1>5, <2>1 DEF TryLookup
  <2>3. mem \in Clusters /\ NoBlock \in [id : Nat, available : BOOLEAN]
    BY Zenon, <1>1 DEF LocalType, NoBlock
  <2>4. Recorded(mem', mem) \/ UNCHANGED mem
    BY Zenon, <2>2, <2>3, RequestRecorded
  <2>5. mem' \in Clusters
    BY Zenon, <2>3, <2>4 DEF Recorded
  <2>6. LocalType'
    BY Zenon, <1>1, <1>2, <2>2, <2>3, <2>5 DEF LocalType
  <2>7. Knows'
    BY Zenon, <2>2 DEF Knows
  <2>8. Seen'
    BY Zenon, <1>3, <1>4, <1>5, <2>2, NoBlockLeft DEF Seen
  <2> QED
    BY Zenon, <1>2, <1>4, <2>2, <2>4, <2>6, <2>7, <2>8, RecordedStep, CopyOnly
<1>6. CASE Found = {} /\ mem.host = 0
  <2>1. ~userSetIPNotFound
    BY Zenon, <1>6 DEF userSetIPNotFound
  <2>2. pc' \in {next, "finalize"} /\ block' = NoBlock /\ request' = request /\ UNCHANGED mem
    BY Zenon, <1>6, <2>1 DEF TryLookup
  <2>3. NoBlock \in [id : Nat, available : BOOLEAN] /\ ~NoBlock.available
    BY Zenon DEF NoBlock
  <2>4. LocalType'
    BY Zenon, <1>1, <1>2, <2>2, <2>3 DEF LocalType
  <2>5. \A b \in Resources : isPending(b) /\ reqs[b].recent
    <3>1. EndpointBlocks = Resources
      BY Zenon, <1>6, OwnBlocks
    <3> QED
      BY Zenon, <1>1, <1>6, <3>1, NoBlockFound DEF CloudOK, CloudInv, Resources
  <2>6. Knows'
    <3>1. pc = "relookup" => Resources = {} /\ ~request.pending
      BY Zenon, <1>1, <2>5 DEF Knows
    <3> QED
      BY Zenon, <1>3, <1>6, <2>2, <2>5, <3>1 DEF Knows
  <2>7. Seen'
    BY Zenon, <1>3, <1>4, <2>2, <2>3 DEF Seen
  <2> QED
    BY Zenon, <1>2, <1>4, <2>2, <2>4, <2>6, <2>7, RecordedStep, CopyOnly
<1>7. CASE Found # {}
  <2>1. ~userSetIPNotFound
    BY Zenon, <1>7 DEF userSetIPNotFound
  <2>2. PICK id \in Found : block' = [id |-> id, available |-> isAvailable(id)]
    BY Zenon, <1>7 DEF TryLookup
  <2>3. pc' \in {"decide", "finalize"} /\ request' = NoRequest /\ UNCHANGED mem
    BY Zenon, <1>7, <2>1 DEF TryLookup
  <2>4. id \in DOMAIN reqs /\ id \in Nat \ {0} /\ (isAvailable(id) => id \in Created)
    BY Zenon, BlockFound
  <2>5. block' \in [id : Nat, available : BOOLEAN]
    <3>1. isAvailable(id) \in BOOLEAN
      BY Zenon DEF isAvailable
    <3> QED
      BY Zenon, <2>2, <2>4, <3>1
  <2>6. block'.id = id /\ (block'.available <=> isAvailable(id)) /\ block' # NoBlock
    <3>1. block'.id = id /\ (block'.available <=> isAvailable(id)) /\ NoBlock.id = 0
      BY Zenon, <2>2 DEF NoBlock
    <3> QED
      BY Zenon, <2>4, <3>1
  <2>7. LocalType'
    <3>1. NoRequest \in [id : Nat, pending : BOOLEAN]
      BY Zenon DEF NoRequest
    <3> QED
      BY Zenon, <1>1, <1>2, <2>3, <2>5, <3>1 DEF LocalType
  <2>8. Knows'
    BY Zenon, <2>3, <2>6 DEF Knows
  <2>9. Seen'
    BY Zenon, <1>3, <1>4, <2>3, <2>4, <2>6 DEF Seen
  <2> QED
    BY Zenon, <1>2, <1>4, <2>3, <2>7, <2>8, <2>9, RecordedStep, CopyOnly
<1> QED
  BY Zenon, <1>5, <1>6, <1>7

\* checkQueue: the reservation, if there is one, is the request that
\* getLatestControlPlaneEndpointIPBlockCreationRequest returns.
LEMMA CheckQueueKeeps ==
  ASSUME EndpointInv, CheckQueue
  PROVE  EndpointInv'
<1>1. CloudTypeOK /\ CloudInv /\ LocalType /\ EnvType /\ Knows /\ Seen /\ Newest
  BY Zenon DEF EndpointInv, CloudOK
<1>2. /\ UNCHANGED <<obj, cached, mem, base, block, cloudVars, owner, machines, secret, panicked, faults>>
      /\ pc = "queue" /\ block = NoBlock /\ mem.host = 0
  BY Zenon, <1>1 DEF CheckQueue, envVars, Knows
<1>3. Resources' = Resources /\ \A b : isPending(b)' <=> isPending(b)
  BY Zenon, <1>2 DEF cloudVars, Resources, isPending, Listed
<1>4. PICK i \in {0} \cup DOMAIN reqs :
        /\ CreationRequest(i, BlockName)
        /\ request' = IF i = 0 THEN NoRequest ELSE [id |-> i, pending |-> isPending(i)]
        /\ pc' = IF i # 0 /\ isDone(i) THEN "relookup" ELSE "decide"
  BY Zenon DEF CheckQueue
<1>5. DOMAIN reqs \subseteq Nat \ {0} /\ \A b \in DOMAIN reqs : reqs[b] \in Requests
  BY <1>1 DEF CloudTypeOK
<1>6. /\ request' \in [id : Nat, pending : BOOLEAN]
      /\ request'.pending <=> i # 0 /\ isPending(i)
  <2>1. CASE i = 0
    BY Zenon, <1>4, <2>1 DEF NoRequest
  <2>2. CASE i # 0
    <3>1. request' = [id |-> i, pending |-> isPending(i)] /\ i \in Nat
      BY Zenon, <1>4, <1>5, <2>2
    <3>2. request'.pending <=> isPending(i)
      BY Zenon, <3>1
    <3>3. request' \in [id : Nat, pending : BOOLEAN]
      <4>1. isPending(i) \in BOOLEAN
        BY DEF isPending
      <4> QED
        BY Zenon, <3>1, <4>1
    <3> QED
      BY Zenon, <2>2, <3>2, <3>3
  <2> QED
    BY Zenon, <2>1, <2>2
<1>7. \A b \in Resources : b = i /\ i # 0
  <2> SUFFICES ASSUME NEW b \in Resources PROVE b = i /\ i # 0
    OBVIOUS
  <2>1. b \in DOMAIN reqs /\ reqs[b].recent /\ reqs[b].method = "POST" /\ reqs[b].name = BlockName
    BY Zenon, <1>1, <1>2, OwnBlocks DEF Knows, Resources
  <2>2. i # 0 /\ i \in DOMAIN reqs /\ reqs[i].method = "POST" /\ b <= i
    BY Zenon, <1>4, <1>5, <2>1 DEF CreationRequest, getMatchingRequest
  <2>3. i <= b
    BY Zenon, <1>1, <2>2 DEF Newest
  <2> QED
    BY <1>5, <2>1, <2>2, <2>3
<1>8. i # 0 /\ ~isPending(i) /\ ~isDone(i) => i \notin Resources
  BY Zenon, <1>1, <1>5 DEF Resources, CloudInv, isPending, isDone, Listed, Requests, Statuses
<1>9. i # 0 /\ isDone(i) => ~isPending(i)
  BY Zenon DEF isDone, isPending
<1>10. Knows'
  BY Zenon, <1>2, <1>3, <1>4, <1>6, <1>7, <1>8, <1>9 DEF Knows
<1>11. LocalType' /\ EnvType' /\ pc' \in {"relookup", "decide"}
  <2>1. pc' \in {"relookup", "decide"}
    BY Zenon, <1>4
  <2> QED
    BY Zenon, <1>1, <1>2, <1>6, <2>1 DEF LocalType, EnvType
<1>12. Seen'
  <2>1. ~block'.available
    BY Zenon, <1>2 DEF NoBlock
  <2> QED
    BY Zenon, <1>1, <1>2, <1>11, <2>1 DEF Seen, Deleting
<1> QED
  BY Zenon, <1>2, <1>10, <1>11, <1>12, RecordedStep, CopyOnly

\* The decision is taken, and nothing but the copy changes.
LEMMA Decided ==
  ASSUME EndpointInv, pc \in {"decide", "credentials"}, pc' \in {"finalize", "credentials"},
         mem' \in Clusters, CopyStep,
         pc' = "credentials" => Deleting /\ pc = "decide" /\ EndpointBlocks = {},
         UNCHANGED <<obj, cached, base, block, request, owner, machines, faults, cloudVars>>,
         panicked' \in BOOLEAN, secret' \in {"free", "held", "deleting", "gone"}
  PROVE  EndpointInv'
<1>1. LocalType /\ EnvType /\ Seen
  BY Zenon DEF EndpointInv
<1>2. LocalType' /\ EnvType'
  BY Zenon, <1>1 DEF LocalType, EnvType
<1>3. Knows'
  BY Zenon DEF Knows
<1>4. Seen'
  <2>1. EndpointBlocks' = EndpointBlocks /\ Deleting' = Deleting
    BY Zenon DEF cloudVars, EndpointBlocks, isPending, Listed, Deleting
  <2> QED
    BY Zenon, <1>1, <2>1 DEF Seen
<1> QED
  BY Zenon, <1>2, <1>3, <1>4, CopyOnly

\* A request is recorded, or nothing is done.
LEMMA DecidedToWait ==
  ASSUME EndpointInv, pc \in {"decide", "credentials"}, pc' \in {"finalize", "credentials"},
         pc' = "credentials" => Deleting /\ pc = "decide" /\ EndpointBlocks = {},
         (\E n \in Nat : mem' = [mem EXCEPT !.request = n]) \/ UNCHANGED mem,
         UNCHANGED <<obj, cached, base, block, request, envVars, faults, cloudVars>>,
         panicked' \in BOOLEAN
  PROVE  EndpointInv'
<1>1. LocalType /\ EnvType
  BY Zenon DEF EndpointInv
<1>2. mem \in Clusters /\ UNCHANGED <<owner, machines, secret>>
  BY Zenon, <1>1 DEF LocalType, envVars
<1>3. Recorded(mem', mem) \/ UNCHANGED mem
  BY Zenon, <1>2, RequestRecorded
<1>4. mem' \in Clusters /\ CopyStep
  BY Zenon, <1>2, <1>3, RecordedStep DEF Recorded
<1>5. secret' \in {"free", "held", "deleting", "gone"}
  BY Zenon, <1>1, <1>2 DEF EnvType
<1> QED
  BY Zenon, <1>2, <1>4, <1>5, Decided

\* The endpoint that is recorded is that of a block that was created.
LEMMA UseBlockKeeps ==
  ASSUME EndpointInv, UseBlock
  PROVE  EndpointInv'
<1>1. CloudTypeOK /\ LocalType /\ EnvType /\ Seen
  BY Zenon DEF EndpointInv, CloudOK
<1>2. /\ pc = "decide" /\ pc' = "finalize"
      /\ UNCHANGED <<cloudVars, obj, cached, base, block, request, envVars, panicked, faults>>
  BY Zenon DEF UseBlock
<1>3. panicked' \in BOOLEAN /\ secret' \in {"free", "held", "deleting", "gone"} /\ UNCHANGED <<owner, machines>>
  BY Zenon, <1>1, <1>2 DEF EnvType, envVars
<1>4. CASE ~block.available
  <2>1. UNCHANGED mem
    BY Zenon, <1>4 DEF UseBlock
  <2> QED
    BY Zenon, <1>2, <1>3, <2>1, DecidedToWait
<1>5. CASE block.available
  <2>1. block.id \in Created /\ mem \in Clusters
    BY Zenon, <1>1, <1>2, <1>5 DEF Seen, LocalType
  <2>2. block.id \in Nat \ {0}
    BY <1>1, <2>1 DEF Created, CloudTypeOK
  <2> DEFINE h == IF mem.host = 0 THEN block.id ELSE mem.host
  <2>3. h \in Nat /\ (mem.host # 0 => h = mem.host) /\ h \in {mem.host} \cup Created
    BY Zenon, <2>1, <2>2 DEF Clusters
  <2>4. mem' = [mem EXCEPT !.host = h, !.blockID = block.id, !.provisioned = TRUE]
    BY Zenon, <1>5 DEF UseBlock
  <2> HIDE DEF h
  <2>5. /\ mem' \in Clusters /\ mem'.host = h /\ mem'.blockID = block.id
        /\ mem'.provisioned /\ mem'.finalizer = mem.finalizer
    BY Zenon, <2>1, <2>2, <2>3, <2>4 DEF Clusters
  <2>6. CopyStep
    BY Zenon, <2>1, <2>2, <2>3, <2>5 DEF CopyStep
  <2> QED
    BY Zenon, <1>2, <1>3, <2>5, <2>6, Decided
<1> QED
  BY Zenon, <1>4, <1>5

\* reserveControlPlaneEndpointIPBlock is called only when there is no block, and when
\* there never was one.
LEMMA BlockReserved ==
  ASSUME EndpointInv, pc = "decide", pc' = "finalize", ~Deleting, block = NoBlock, ~request.pending,
         Post(BlockName), mem' = [mem EXCEPT !.request = Len(reqs) + 1],
         UNCHANGED <<obj, cached, base, block, request, envVars, panicked, faults>>
  PROVE  EndpointInv'
<1>1. /\ CloudTypeOK /\ CloudInv /\ LocalType /\ ObjectType /\ EnvType
      /\ Knows /\ Undeleted /\ StateInv /\ CopyInv
  BY Zenon DEF EndpointInv, CloudOK
<1> DEFINE r == [method |-> "POST", id |-> Len(reqs) + 1, name |-> BlockName,
                 status |-> "QUEUED", recent |-> TRUE]
<1>2. /\ CloudTypeOK' /\ CloudInv' /\ Accepted(r)
      /\ Resources' = Resources \cup {Len(reqs) + 1}
  <2>1. BlockName \in Names
    BY Zenon, EndpointAssumption
  <2> QED
    BY Zenon, <1>1, <2>1, ResourcePosted
<1>3. r.method = "POST" /\ r.name = BlockName /\ r.status = "QUEUED"
  OBVIOUS
<1> HIDE DEF r
<1>4. NoDeletion /\ Resources = {} /\ mem.host = 0
  BY Zenon, <1>1 DEF StateInv, Knows
<1>5. \A k \in DOMAIN reqs : reqs[k].name = BlockName
  BY Zenon, <1>4, OwnBlocks
<1>6. Created = {}
  BY Zenon, <1>1, <1>4, <1>5 DEF Undeleted, Created, Resources
<1>7. /\ Len(reqs) \in Nat /\ DOMAIN reqs' = DOMAIN reqs \cup {Len(reqs) + 1}
      /\ \A k \in DOMAIN reqs : reqs'[k] = reqs[k] /\ k <= Len(reqs)
      /\ reqs'[Len(reqs) + 1] = r
  BY Zenon, <1>2 DEF Accepted
<1>8. Created' = {}
  BY Zenon, <1>3, <1>6, <1>7 DEF Created, isDone
<1>9. Newest'
  <2>1. Resources' \cup Created' = {Len(reqs) + 1}
    BY Zenon, <1>2, <1>4, <1>8
  <2>2. DOMAIN reqs \subseteq Nat
    BY <1>1 DEF CloudTypeOK
  <2> QED
    BY <1>7, <2>1, <2>2 DEF Newest
<1>10. \A k \in DOMAIN reqs' : reqs'[k].name = BlockName /\ reqs'[k].method # "DELETE"
  BY Zenon, <1>3, <1>4, <1>5, <1>7 DEF NoDeletion
<1>11. UserCreated' /\ UserHost' /\ Undeleted'
  BY Zenon, <1>8, <1>10 DEF UserCreated, UserHost, Undeleted, UserName, BlockName
<1>12. StateInv'
  BY Zenon, <1>1, <1>10 DEF StateInv, NoDeletion, Deleting
<1>13. Recorded(mem', mem)
  <2>1. Len(reqs) + 1 \in Nat /\ mem \in Clusters
    BY <1>1, <1>7 DEF LocalType
  <2> QED
    BY Zenon, <2>1, RequestRecorded
<1>14. LocalType' /\ ObjectType' /\ EnvType'
  BY Zenon, <1>1, <1>13 DEF LocalType, ObjectType, EnvType, Recorded, envVars
<1>15. CopyInv'
  <2>1. Endpoint(obj)' /\ Endpoint(cached)' /\ Endpoint(base)' /\ Endpoint(mem)'
    BY Zenon, <1>1, <1>6, <1>8, <1>13 DEF CopyInv, Endpoint, Recorded
  <2> QED
    BY Zenon, <1>1, <1>13, <2>1 DEF CopyInv, Recorded
<1>16. Knows' /\ Seen'
  BY Zenon, Ends
<1> QED
  BY Zenon, <1>2, <1>9, <1>11, <1>12, <1>14, <1>15, <1>16 DEF EndpointInv, CloudOK

LEMMA ReserveBlockKeeps ==
  ASSUME EndpointInv, ReserveBlock
  PROVE  EndpointInv'
<1>1. /\ pc = "decide" /\ pc' = "finalize" /\ ~Deleting /\ block = NoBlock
      /\ UNCHANGED <<obj, cached, base, block, request, envVars, panicked, faults>>
  BY Zenon DEF ReserveBlock
<1>2. LocalType /\ EnvType
  BY Zenon DEF EndpointInv
<1>3. panicked' \in BOOLEAN /\ request.id \in Nat
  BY Zenon, <1>1, <1>2 DEF EnvType, LocalType
<1>4. CASE mem' = [mem EXCEPT !.request = request.id] /\ UNCHANGED cloudVars
  BY Zenon, <1>1, <1>3, <1>4, DecidedToWait
<1>5. CASE UNCHANGED <<cloudVars, mem>>
  BY Zenon, <1>1, <1>3, <1>5, DecidedToWait
<1>6. CASE ~request.pending /\ Post(BlockName) /\ mem' = [mem EXCEPT !.request = Len(reqs) + 1]
  BY Zenon, <1>1, <1>6, BlockReserved
<1> QED
  BY Zenon, <1>4, <1>5, <1>6 DEF ReserveBlock, reserveControlPlaneEndpointIPBlock

\* With a block of the user's there is none that the controller reserved.
LEMMA UserBlockOnly ==
  ASSUME EndpointInv, NEW i \in DOMAIN reqs, reqs[i].name # BlockName
  PROVE  EndpointBlocks = {}
<1>1. CloudTypeOK /\ UserCreated /\ Newest
  BY Zenon DEF EndpointInv, CloudOK
<1>2. reqs[i] \in Requests /\ DOMAIN reqs \subseteq Nat \ {0}
  BY <1>1 DEF CloudTypeOK
<1>3. reqs[i].name = UserName
  BY Zenon, <1>2, EndpointAssumption DEF Requests
<1>4. i = UserBlock /\ i \in Created
  BY Zenon, <1>1, <1>3 DEF UserCreated
<1> SUFFICES ASSUME NEW b \in EndpointBlocks PROVE FALSE
  BY Zenon
<1>5. b \in DOMAIN reqs /\ reqs[b].method = "POST" /\ reqs[b].name = BlockName
  BY Zenon DEF EndpointBlocks
<1>6. b <= i
  BY Zenon, <1>1, <1>4, <1>5 DEF Newest
<1>7. b = i
  BY <1>2, <1>4, <1>5, <1>6 DEF UserBlock
<1> QED
  BY Zenon, <1>5, <1>7

\* The credentials are released only without a block.
LEMMA SkipBlockKeeps ==
  ASSUME EndpointInv, SkipBlock
  PROVE  EndpointInv'
<1>1. /\ pc = "decide" /\ pc' = "credentials" /\ Deleting
      /\ UNCHANGED <<cloudVars, obj, cached, base, block, request, envVars, panicked, faults>>
  BY Zenon DEF SkipBlock
<1>2. EnvType /\ Knows /\ Seen
  BY Zenon DEF EndpointInv
<1>3. panicked' \in BOOLEAN /\ 0 \in Nat
  BY Zenon, <1>1, <1>2 DEF EnvType
<1>4. CASE block = NoBlock /\ request = NoRequest /\ mem' = [mem EXCEPT !.request = 0]
  <2>1. ~request.pending
    BY Zenon, <1>4 DEF NoRequest
  <2>2. EndpointBlocks = {}
    BY Zenon, <1>1, <1>2, <1>4, <2>1 DEF Knows, EndpointBlocks, Resources
  <2> QED
    BY Zenon, <1>1, <1>3, <1>4, <2>2, DecidedToWait
<1>5. CASE block # NoBlock /\ reqs[block.id].name # BlockName /\ UNCHANGED mem
  <2>1. block.id \in DOMAIN reqs
    BY Zenon, <1>1, <1>2, <1>5 DEF Seen
  <2>2. EndpointBlocks = {}
    BY Zenon, <1>5, <2>1, UserBlockOnly
  <2> QED
    BY Zenon, <1>1, <1>3, <1>5, <2>2, DecidedToWait
<1> QED
  BY Zenon, <1>4, <1>5 DEF SkipBlock

LEMMA AwaitBlockKeeps ==
  ASSUME EndpointInv, AwaitBlock
  PROVE  EndpointInv'
<1>1. /\ pc = "decide" /\ pc' = "finalize"
      /\ mem' = [mem EXCEPT !.request = request.id] \/ UNCHANGED mem
      /\ UNCHANGED panicked \/ panicked' = TRUE
      /\ UNCHANGED <<cloudVars, obj, cached, base, block, request, envVars, faults>>
  BY Zenon DEF AwaitBlock
<1>2. LocalType /\ EnvType
  BY Zenon DEF EndpointInv
<1>3. panicked' \in BOOLEAN /\ request.id \in Nat
  BY Zenon, <1>1, <1>2 DEF EnvType, LocalType
<1> QED
  BY Zenon, <1>1, <1>3, DecidedToWait

\* A deletion is requested when the cluster is deleted and its machines are gone, and
\* only of a block with the name that the controller gives.
LEMMA DeletionRequested ==
  ASSUME EndpointInv, pc = "decide", pc' = "finalize", Deleting, reqs[block.id].name = BlockName,
         Delete(block.id), mem' = [mem EXCEPT !.request = Len(reqs) + 1],
         UNCHANGED <<obj, cached, base, block, request, envVars, panicked, faults>>
  PROVE  EndpointInv'
<1>1. CloudTypeOK /\ CloudInv /\ LocalType /\ EnvType /\ Seen
  BY Zenon DEF EndpointInv, CloudOK
<1> DEFINE r == [method |-> "DELETE", id |-> block.id, name |-> reqs[block.id].name,
                 status |-> "QUEUED", recent |-> TRUE]
<1>2. CloudTypeOK' /\ CloudInv' /\ Kept /\ Durable /\ Accepted(r)
  <2>1. "DELETE" \in Methods \ {"POST"}
    BY Zenon DEF Methods
  <2> QED
    BY Zenon, <1>1, <2>1, RequestSubmitted DEF Delete
<1>3. r.name = BlockName
  OBVIOUS
<1> HIDE DEF r
<1>4. CloudStep /\ Len(reqs) \in Nat
  <2>1. \A k \in DOMAIN reqs' \ DOMAIN reqs : reqs'[k].name = BlockName
    BY Zenon, <1>2, <1>3 DEF Accepted
  <2> QED
    BY Zenon, <1>2, <2>1 DEF CloudStep, CloudOK, Accepted, BlocksDurable, Durable
<1>5. Recorded(mem', mem)
  <2>1. Len(reqs) + 1 \in Nat /\ mem \in Clusters
    BY <1>1, <1>4 DEF LocalType
  <2> QED
    BY Zenon, <2>1, RequestRecorded
<1>6. LocalType' /\ EnvType' /\ UNCHANGED machines
  BY Zenon, <1>1, <1>5 DEF LocalType, EnvType, Recorded, envVars
<1>7. ~machines /\ Moves
  BY Zenon, <1>1 DEF Seen, Moves
<1>8. CopyStep /\ Knows' /\ Seen'
  BY Zenon, <1>5, RecordedStep, Ends
<1> QED
  BY Zenon, <1>4, <1>6, <1>7, <1>8, StepKeeps

LEMMA DeleteBlockKeeps ==
  ASSUME EndpointInv, DeleteBlock
  PROVE  EndpointInv'
<1>1. /\ pc = "decide" /\ pc' = "finalize" /\ Deleting /\ reqs[block.id].name = BlockName
      /\ UNCHANGED <<obj, cached, base, block, request, envVars, panicked, faults>>
  BY Zenon DEF DeleteBlock
<1>2. CloudTypeOK /\ EnvType
  BY Zenon DEF EndpointInv, CloudOK
<1>3. panicked' \in BOOLEAN /\ {0} \cup DOMAIN reqs \subseteq Nat
  BY <1>1, <1>2 DEF EnvType, CloudTypeOK
<1>4. PICK i \in {0} \cup DOMAIN reqs :
        IF i # 0 /\ isPending(i)
        THEN mem' = [mem EXCEPT !.request = i] /\ UNCHANGED cloudVars
        ELSE deleteControlPlaneEndpointIPBlock
  BY Zenon DEF DeleteBlock
<1>5. CASE mem' = [mem EXCEPT !.request = i] /\ UNCHANGED cloudVars
  BY Zenon, <1>1, <1>3, <1>5, DecidedToWait
<1>6. CASE UNCHANGED <<cloudVars, mem>>
  BY Zenon, <1>1, <1>3, <1>6, DecidedToWait
<1>7. CASE Delete(block.id) /\ mem' = [mem EXCEPT !.request = Len(reqs) + 1]
  BY Zenon, <1>1, <1>7, DeletionRequested
<1> QED
  BY Zenon, <1>4, <1>5, <1>6, <1>7 DEF deleteControlPlaneEndpointIPBlock

LEMMA RemoveFinalizersKeeps ==
  ASSUME EndpointInv, RemoveFinalizers
  PROVE  EndpointInv'
<1>1. /\ pc = "credentials" /\ pc' = "finalize" /\ mem' = [mem EXCEPT !.finalizer = FALSE]
      /\ UNCHANGED <<cloudVars, obj, cached, base, block, request, owner, machines, panicked, faults>>
  BY Zenon DEF RemoveFinalizers
<1>2. LocalType /\ EnvType /\ Seen
  BY Zenon DEF EndpointInv
<1>3. secret' \in {"free", "held", "deleting", "gone"} /\ panicked' \in BOOLEAN
  BY Zenon, <1>1, <1>2 DEF RemoveFinalizers, removeCredentialsFinalizer, EnvType
<1>4. /\ mem' \in Clusters /\ mem'.host = mem.host /\ mem'.blockID = mem.blockID
      /\ mem'.provisioned = mem.provisioned
  BY Zenon, <1>1, <1>2 DEF LocalType, Clusters
<1>5. CopyStep
  BY Zenon, <1>1, <1>2, <1>4 DEF CopyStep, Seen
<1> QED
  BY Zenon, <1>1, <1>3, <1>4, <1>5, Decided

LEMMA StepErrorKeeps ==
  ASSUME EndpointInv, StepError
  PROVE  EndpointInv'
<1>1. LocalType /\ EnvType
  BY Zenon DEF EndpointInv
<1>2. /\ pc \notin {"idle", "finalize"} /\ pc' = "finalize" /\ Fault
      /\ UNCHANGED <<cloudVars, obj, cached, mem, base, block, request, owner, machines, secret, panicked>>
  BY Zenon DEF StepError, memVars, envVars
<1>3. faults' \in Nat
  BY Zenon, <1>1, <1>2, FaultType
<1>4. LocalType' /\ EnvType'
  BY Zenon, <1>1, <1>2, <1>3 DEF LocalType, EnvType
<1> QED
  BY Zenon, <1>2, <1>4, Ends, RecordedStep, CopyOnly

-----------------------------------------------------------------------------
(***************************************************************************)
(* Steps that change the object or one of its copies.                      *)
(***************************************************************************)
LEMMA ObjectStepKeeps ==
  ASSUME EndpointInv, UNCHANGED <<cloudVars, machines>>, LocalType', ObjectType', EnvType',
         UserHost', StateInv', CopyInv',
         \/ pc' \in {"idle", "check", "machines", "finalize"}
         \/ UNCHANGED <<mem, base, pc, block, request>>
  PROVE  EndpointInv'
<1>1. CloudOK /\ Knows /\ Seen
  BY Zenon DEF EndpointInv
<1>2. CloudStep /\ Remembered
  BY Zenon, <1>1, NoCall
<1>3. CloudOK' /\ Newest' /\ UserCreated' /\ Undeleted'
  BY Zenon, <1>2, CloudStepKeeps
<1>4. Knows' /\ Seen'
  BY Zenon, <1>1, <1>2, Ends, StillKnown
<1> QED
  BY Zenon, <1>3, <1>4 DEF EndpointInv

LEMMA BlocksUnchanged ==
  ASSUME UNCHANGED cloudVars
  PROVE  /\ UNCHANGED reqs /\ Created' = Created /\ EndpointBlocks' = EndpointBlocks
         /\ NoDeletion' = NoDeletion
BY Zenon DEF cloudVars, Created, EndpointBlocks, NoDeletion, isPending, isDone, Listed

\* Reconcile gets the object from the cache.
LEMMA StartReconcileKeeps ==
  ASSUME EndpointInv, StartReconcile
  PROVE  EndpointInv'
<1>1. LocalType /\ ObjectType /\ EnvType /\ UserHost /\ StateInv /\ CopyInv
  BY Zenon DEF EndpointInv
<1>2. /\ pc' \in {"check", "finalize"} /\ base' = cached /\ cached.state # "gone"
      /\ mem' = cached \/ mem' = [cached EXCEPT !.finalizer = TRUE]
      /\ UNCHANGED <<cloudVars, obj, cached, block, request, owner, machines, panicked, faults>>
  BY Zenon DEF StartReconcile
<1>3. /\ UNCHANGED reqs /\ Created' = Created /\ EndpointBlocks' = EndpointBlocks
      /\ NoDeletion' = NoDeletion
  BY Zenon, <1>2, BlocksUnchanged
<1>4. cached \in Clusters /\ cached.state \in {"live", "deleting"}
  BY Zenon, <1>1, <1>2 DEF ObjectType, Clusters
<1>5. /\ mem' \in Clusters /\ mem'.host = cached.host /\ mem'.blockID = cached.blockID
      /\ mem'.provisioned = cached.provisioned /\ (cached.finalizer => mem'.finalizer)
  BY Zenon, <1>2, <1>4 DEF Clusters
<1>6. secret' \in {"free", "held", "deleting", "gone"}
  BY Zenon, <1>1 DEF StartReconcile, ensureSecretControlledByCluster, EnvType
<1>7. LocalType' /\ ObjectType' /\ EnvType'
  BY Zenon, <1>1, <1>2, <1>4, <1>5, <1>6 DEF LocalType, ObjectType, EnvType
<1>8. UserHost'
  BY Zenon, <1>1, <1>2, <1>3, <1>5 DEF UserHost
<1>9. StateInv'
  BY Zenon, <1>1, <1>2, <1>3, <1>4 DEF StateInv, Deleting
<1>10. CopyInv'
  <2>1. Endpoint(obj)' /\ Endpoint(cached)' /\ Endpoint(base)'
    BY Zenon, <1>1, <1>2, <1>3 DEF CopyInv, Endpoint
  <2>2. Endpoint(mem)'
    BY Zenon, <1>1, <1>3, <1>5 DEF CopyInv, Endpoint
  <2> QED
    BY Zenon, <1>1, <1>2, <1>5, <2>1, <2>2 DEF CopyInv
<1> QED
  BY Zenon, <1>2, <1>7, <1>8, <1>9, <1>10, ObjectStepKeeps

\* What a patch makes of the object.  What differs in the copy goes to the object, and
\* nothing that was recorded is taken back.
Patch(p) ==
  /\ p \in Clusters
  /\ p.state = "live" => obj.state = "live"
  /\ p.host \in {obj.host, mem.host} /\ (mem.host = base.host => p.host = obj.host)
  /\ p.blockID \in {obj.blockID, mem.blockID} /\ (obj.blockID # 0 => p.blockID # 0)
  /\ p.provisioned => p.blockID # 0
  /\ obj.finalizer => p.finalizer \/ (base.finalizer /\ ~mem.finalizer)

LEMMA SpecPatched ==
  ASSUME mem \in Clusters, base \in Clusters, NEW o \in Clusters
  PROVE  LET p == PatchSpec(o)
         IN /\ p \in Clusters /\ p.state = o.state
            /\ p.host \in {o.host, mem.host} /\ (mem.host = base.host => p.host = o.host)
            /\ p.blockID = o.blockID /\ p.provisioned = o.provisioned
            /\ o.finalizer => p.finalizer \/ (base.finalizer /\ ~mem.finalizer)
<1>1. /\ Merge(o, "finalizer") \in BOOLEAN /\ Merge(o, "host") \in Nat
      /\ o.finalizer => Merge(o, "finalizer") \/ (base.finalizer /\ ~mem.finalizer)
      /\ Merge(o, "host") \in {o.host, mem.host} /\ (mem.host = base.host => Merge(o, "host") = o.host)
  BY Zenon DEF Clusters, Merge
<1> DEFINE f == Merge(o, "finalizer")  h == Merge(o, "host")
           p == [o EXCEPT !.finalizer = f, !.host = h]
<1> HIDE DEF f, h
<1>2. /\ p \in Clusters /\ p.state = o.state /\ p.blockID = o.blockID
      /\ p.provisioned = o.provisioned /\ p.finalizer = f /\ p.host = h
  BY Zenon, <1>1 DEF Clusters, f, h
<1> QED
  BY Zenon, <1>1, <1>2 DEF PatchSpec, f, h

\* The recorded block and provisioned are patched by one call.
LEMMA StatusPatched ==
  ASSUME mem \in Clusters, base \in Clusters, CopyInv, NEW o \in Clusters,
         o.provisioned => o.blockID # 0, base.blockID # 0 => o.blockID # 0
  PROVE  LET p == PatchStatus(o)
         IN /\ p \in Clusters /\ p.state = o.state /\ p.finalizer = o.finalizer /\ p.host = o.host
            /\ p.blockID \in {o.blockID, mem.blockID} /\ (o.blockID # 0 => p.blockID # 0)
            /\ p.provisioned => p.blockID # 0
<1>1. /\ mem.blockID = 0 => base.blockID = 0
      /\ base.provisioned => mem.provisioned
      /\ mem.provisioned => mem.blockID # 0
  BY Zenon DEF CopyInv, Endpoint
<1>2. /\ Merge(o, "provisioned") \in BOOLEAN /\ Merge(o, "request") \in Nat /\ Merge(o, "blockID") \in Nat
      /\ Merge(o, "blockID") \in {o.blockID, mem.blockID}
      /\ o.blockID # 0 => Merge(o, "blockID") # 0
      /\ Merge(o, "provisioned") => Merge(o, "blockID") # 0
  BY Zenon, <1>1 DEF Clusters, Merge
<1> DEFINE v == Merge(o, "provisioned")  n == Merge(o, "request")  id == Merge(o, "blockID")
           p == [o EXCEPT !.blockID = id, !.request = n, !.provisioned = v]
<1> HIDE DEF v, n, id
<1>3. /\ p \in Clusters /\ p.state = o.state /\ p.finalizer = o.finalizer /\ p.host = o.host
      /\ p.blockID = id /\ p.provisioned = v
  BY Zenon, <1>2 DEF Clusters, v, n, id
<1> QED
  BY Zenon, <1>2, <1>3 DEF PatchStatus, v, n, id

LEMMA Collected ==
  ASSUME NEW o \in Clusters
  PROVE  LET p == Collect(o)
         IN /\ p \in Clusters /\ p.finalizer = o.finalizer /\ p.host = o.host
            /\ p.blockID = o.blockID /\ p.provisioned = o.provisioned
            /\ p.state = "live" => o.state = "live"
<1> DEFINE q == [o EXCEPT !.state = "gone"]
<1>1. /\ q \in Clusters /\ q.finalizer = o.finalizer /\ q.host = o.host
      /\ q.blockID = o.blockID /\ q.provisioned = o.provisioned /\ q.state = "gone"
  BY Zenon DEF Clusters
<1> HIDE DEF q
<1> QED
  BY Zenon, <1>1 DEF Collect, q

\* One of the two calls of PatchObject may fail, or both.
LEMMA FinalizePatches ==
  ASSUME EndpointInv, Finalize
  PROVE  Patch(obj')
<1>1. /\ mem \in Clusters /\ base \in Clusters /\ obj \in Clusters /\ CopyInv
      /\ obj.provisioned => obj.blockID # 0
      /\ base.blockID # 0 => obj.blockID # 0
  BY Zenon DEF EndpointInv, LocalType, ObjectType, CopyInv, Endpoint
<1> DEFINE s == PatchSpec(obj)  t == PatchStatus(s)  u == PatchStatus(obj)
<1>2. /\ s \in Clusters /\ s.state = obj.state
      /\ s.host \in {obj.host, mem.host} /\ (mem.host = base.host => s.host = obj.host)
      /\ s.blockID = obj.blockID /\ s.provisioned = obj.provisioned
      /\ obj.finalizer => s.finalizer \/ (base.finalizer /\ ~mem.finalizer)
  BY Zenon, <1>1, SpecPatched
<1>3. /\ t \in Clusters /\ t.state = s.state /\ t.finalizer = s.finalizer /\ t.host = s.host
      /\ t.blockID \in {s.blockID, mem.blockID} /\ (s.blockID # 0 => t.blockID # 0)
      /\ t.provisioned => t.blockID # 0
  <2> HIDE DEF s
  <2> QED
    BY Zenon, <1>1, <1>2, StatusPatched
<1>4. /\ u \in Clusters /\ u.state = obj.state /\ u.finalizer = obj.finalizer /\ u.host = obj.host
      /\ u.blockID \in {obj.blockID, mem.blockID} /\ (obj.blockID # 0 => u.blockID # 0)
      /\ u.provisioned => u.blockID # 0
  BY Zenon, <1>1, StatusPatched
<1>5. obj' \in {obj, Collect(t), Collect(s), u}
  BY Zenon DEF Finalize
<1> HIDE DEF s, t, u
<1>6. Patch(obj) /\ Patch(s) /\ Patch(u)
  BY Zenon, <1>1, <1>2, <1>4 DEF Patch
<1>7. Patch(t)
  BY Zenon, <1>1, <1>2, <1>3 DEF Patch
<1>8. Patch(Collect(s)) /\ Patch(Collect(t))
  BY Zenon, <1>2, <1>3, <1>6, <1>7, Collected DEF Patch
<1> QED
  BY Zenon, <1>5, <1>6, <1>8

\* The copies are forgotten at the end of a reconcile.
LEMMA NewCopies ==
  ASSUME Forget, pc' = "idle"
  PROVE  /\ LocalType' /\ Endpoint(mem)' /\ Endpoint(base)'
         /\ base'.blockID = 0 /\ ~base'.provisioned /\ ~base'.finalizer
<1>1. /\ NewCluster \in Clusters /\ NewCluster.host = 0 /\ NewCluster.blockID = 0
      /\ ~NewCluster.provisioned /\ ~NewCluster.finalizer
  BY Zenon DEF NewCluster, Clusters
<1>2. NoBlock \in [id : Nat, available : BOOLEAN] /\ NoRequest \in [id : Nat, pending : BOOLEAN]
  BY Zenon DEF NoBlock, NoRequest
<1> QED
  BY Zenon, <1>1, <1>2 DEF Forget, LocalType, Endpoint

LEMMA FinalizeKeeps ==
  ASSUME EndpointInv, Finalize
  PROVE  EndpointInv'
<1>1. ObjectType /\ EnvType /\ UserHost /\ StateInv /\ CopyInv
  BY Zenon DEF EndpointInv
<1>2. /\ pc = "finalize" /\ pc' = "idle" /\ Forget
      /\ UNCHANGED <<cloudVars, cached, owner, machines, secret, panicked>>
      /\ Fault \/ UNCHANGED faults
  BY Zenon DEF Finalize, envVars
<1>3. /\ UNCHANGED reqs /\ Created' = Created /\ EndpointBlocks' = EndpointBlocks
      /\ NoDeletion' = NoDeletion
  BY Zenon, <1>2, BlocksUnchanged
<1>4. /\ LocalType' /\ Endpoint(mem)' /\ Endpoint(base)'
      /\ base'.blockID = 0 /\ ~base'.provisioned /\ ~base'.finalizer
  BY Zenon, <1>2, NewCopies
<1>5. Patch(obj')
  BY Zenon, FinalizePatches
<1>6. faults' \in Nat
  BY Zenon, <1>1, <1>2, FaultType
<1>7. ObjectType' /\ EnvType'
  BY Zenon, <1>1, <1>2, <1>5, <1>6 DEF ObjectType, EnvType, Patch
<1>8. UserHost'
  BY Zenon, <1>1, <1>2, <1>3, <1>5 DEF UserHost, Patch
<1>9. StateInv'
  BY Zenon, <1>1, <1>2, <1>3, <1>5 DEF StateInv, Patch
<1>10. CopyInv'
  <2>1. Endpoint(obj)' /\ Endpoint(cached)'
    BY Zenon, <1>1, <1>2, <1>3, <1>5 DEF CopyInv, Endpoint, Patch
  <2> QED
    BY Zenon, <1>1, <1>2, <1>4, <1>5, <2>1 DEF CopyInv, Patch
<1> QED
  BY Zenon, <1>2, <1>4, <1>7, <1>8, <1>9, <1>10, ObjectStepKeeps

\* The cache is synchronised, also by a restart of the controller.
LEMMA CacheSyncKeeps ==
  ASSUME EndpointInv, CacheSync \/ Crash
  PROVE  EndpointInv'
<1>1. LocalType /\ ObjectType /\ EnvType /\ UserHost /\ StateInv /\ CopyInv
  BY Zenon DEF EndpointInv
<1>2. /\ cached' = obj /\ UNCHANGED <<cloudVars, obj, owner, machines, secret, panicked>>
      /\ Fault \/ UNCHANGED faults
      /\ (pc' = "idle" /\ Forget) \/ UNCHANGED <<mem, base, pc, block, request>>
  BY Zenon DEF CacheSync, Crash, memVars, envVars
<1>3. /\ UNCHANGED reqs /\ Created' = Created /\ EndpointBlocks' = EndpointBlocks
      /\ NoDeletion' = NoDeletion
  BY Zenon, <1>2, BlocksUnchanged
<1>4. faults' \in Nat
  BY Zenon, <1>1, <1>2, FaultType
<1>5. ObjectType' /\ EnvType'
  BY Zenon, <1>1, <1>2, <1>4 DEF ObjectType, EnvType
<1>6. Endpoint(obj)' /\ Endpoint(cached)'
  BY Zenon, <1>1, <1>2, <1>3 DEF CopyInv, Endpoint
<1>7. CASE pc' = "idle" /\ Forget
  <2>1. /\ LocalType' /\ Endpoint(mem)' /\ Endpoint(base)'
        /\ base'.blockID = 0 /\ ~base'.provisioned /\ ~base'.finalizer
    BY Zenon, <1>7, NewCopies
  <2>2. CopyInv'
    BY Zenon, <1>1, <1>2, <1>6, <2>1 DEF CopyInv
  <2>3. UserHost' /\ StateInv'
    BY Zenon, <1>1, <1>2, <1>3, <1>7 DEF UserHost, StateInv
  <2> QED
    BY Zenon, <1>2, <1>5, <1>7, <2>1, <2>2, <2>3, ObjectStepKeeps
<1>8. CASE UNCHANGED <<mem, base, pc, block, request>>
  <2>1. LocalType' /\ Endpoint(mem)' /\ Endpoint(base)'
    BY Zenon, <1>1, <1>3, <1>8 DEF LocalType, CopyInv, Endpoint
  <2>2. CopyInv'
    BY Zenon, <1>1, <1>2, <1>3, <1>6, <1>8, <2>1 DEF CopyInv
  <2>3. UserHost'
    BY Zenon, <1>1, <1>2, <1>3, <1>8 DEF UserHost
  <2>4. StateInv'
    BY Zenon, <1>1, <1>2, <1>3, <1>8 DEF StateInv, Deleting
  <2> QED
    BY Zenon, <1>2, <1>5, <1>8, <2>1, <2>2, <2>3, <2>4, ObjectStepKeeps
<1> QED
  BY Zenon, <1>2, <1>7, <1>8

LEMMA DeleteIonosClusterKeeps ==
  ASSUME EndpointInv, DeleteIonosCluster
  PROVE  EndpointInv'
<1>1. LocalType /\ ObjectType /\ EnvType /\ UserHost /\ StateInv /\ CopyInv
  BY Zenon DEF EndpointInv
<1>2. UNCHANGED <<cloudVars, cached, mem, base, block, request, pc, owner, machines, secret, panicked, faults>>
  BY Zenon DEF DeleteIonosCluster, memVars, envVars
<1>3. /\ UNCHANGED reqs /\ Created' = Created /\ EndpointBlocks' = EndpointBlocks
      /\ NoDeletion' = NoDeletion
  BY Zenon, <1>2, BlocksUnchanged
<1>4. /\ obj' \in Clusters /\ obj'.state # "live" /\ obj'.finalizer = obj.finalizer
      /\ obj'.host = obj.host /\ obj'.blockID = obj.blockID /\ obj'.provisioned = obj.provisioned
  <2> DEFINE d == [obj EXCEPT !.state = "deleting"]
  <2>1. /\ d \in Clusters /\ d.state = "deleting" /\ d.finalizer = obj.finalizer /\ d.host = obj.host
        /\ d.blockID = obj.blockID /\ d.provisioned = obj.provisioned
    BY Zenon, <1>1 DEF ObjectType, Clusters
  <2>2. obj' = Collect(d)
    BY Zenon DEF DeleteIonosCluster
  <2> HIDE DEF d
  <2> QED
    BY Zenon, <2>1, <2>2, Collected
<1>5. LocalType' /\ ObjectType' /\ EnvType'
  BY Zenon, <1>1, <1>2, <1>4 DEF LocalType, ObjectType, EnvType
<1>6. UserHost'
  BY Zenon, <1>1, <1>2, <1>3, <1>4 DEF UserHost
<1>7. StateInv'
  BY Zenon, <1>1, <1>2, <1>3, <1>4 DEF StateInv, Deleting
<1>8. CopyInv'
  <2>1. Endpoint(obj)' /\ Endpoint(cached)' /\ Endpoint(mem)' /\ Endpoint(base)'
    BY Zenon, <1>1, <1>2, <1>3, <1>4 DEF CopyInv, Endpoint
  <2> QED
    BY Zenon, <1>1, <1>2, <1>3, <1>4, <2>1 DEF CopyInv
<1> QED
  BY Zenon, <1>2, <1>5, <1>6, <1>7, <1>8, ObjectStepKeeps

-----------------------------------------------------------------------------
(***************************************************************************)
(* Steps of the cloud and of the rest of the world.                        *)
(***************************************************************************)
\* Nothing of the controller changes.
LEMMA EnvironmentKeeps ==
  ASSUME EndpointInv, EnvType', machines' => machines,
         UNCHANGED <<obj, cached, mem, base, pc, block, request>>,
         CloudStep, NoDeletion' = NoDeletion, Remembered \/ pc = "idle"
  PROVE  EndpointInv'
<1>1. LocalType /\ Knows /\ Seen
  BY Zenon DEF EndpointInv
<1>2. LocalType' /\ Moves
  BY Zenon, <1>1 DEF LocalType, Moves
<1>3. Knows' /\ Seen'
  BY Zenon, <1>1, StillKnown
<1> QED
  BY Zenon, <1>2, <1>3, RecordedStep, StepKeeps

LEMMA CloudRequestKeeps ==
  ASSUME EndpointInv, NEW i \in DOMAIN reqs, BlockRequest(i) \/ AgeRequest(i)
  PROVE  EndpointInv'
<1>1. CloudTypeOK /\ CloudInv /\ EnvType
  BY Zenon DEF EndpointInv, CloudOK
<1>2. /\ UNCHANGED <<obj, cached, mem, base, pc, block, request, owner, machines, secret, panicked>>
      /\ Fault \/ UNCHANGED faults
  BY Zenon DEF BlockRequest, AgeRequest, memVars, envVars
<1>3. faults' \in Nat
  BY Zenon, <1>1, <1>2, FaultType
<1>4. EnvType'
  BY Zenon, <1>1, <1>2, <1>3 DEF EnvType
<1>5. /\ CloudTypeOK' /\ CloudInv' /\ Kept /\ Durable /\ DOMAIN reqs' = DOMAIN reqs
      /\ Remembered \/ pc = "idle"
  BY Zenon, <1>1, RequestExecuted, RequestAged DEF BlockRequest, AgeRequest
<1>6. CloudStep
  BY Zenon, <1>5 DEF CloudStep, CloudOK, BlocksDurable, Durable
<1>7. NoDeletion' = NoDeletion
  BY Zenon, <1>5 DEF NoDeletion, Kept
<1> QED
  BY Zenon, <1>2, <1>4, <1>5, <1>6, <1>7, EnvironmentKeeps

\* A block that the user removes is not one that the controller reserved.
LEMMA UserBlockRemoved ==
  ASSUME EndpointInv, DeleteUserBlock
  PROVE  CloudStep /\ Remembered /\ UNCHANGED reqs
<1>1. CloudTypeOK /\ CloudInv /\ UserCreated
  BY Zenon DEF EndpointInv, CloudOK
<1>2. /\ UserBlock \in DOMAIN reqs /\ reqs[UserBlock].name = UserName
      /\ reqs' = reqs /\ res' = [res EXCEPT ![UserBlock] = "absent"]
  BY <1>1 DEF DeleteUserBlock, ListedAs, CloudTypeOK
<1>3. reqs[UserBlock].method = "POST" /\ isDone(UserBlock)
  BY Zenon, <1>1, <1>2 DEF UserCreated, Created
<1>4. /\ CloudTypeOK' /\ DOMAIN res' = DOMAIN res /\ DOMAIN res = DOMAIN reqs
      /\ res'[UserBlock] = "absent"
      /\ \A k \in DOMAIN res : k # UserBlock => res'[k] = res[k]
  <2>1. "absent" \in ResourceStates
    BY Zenon DEF ResourceStates
  <2> QED
    BY <1>1, <1>2, <2>1 DEF CloudTypeOK
<1>5. CloudInv'
  <2>1. \A k \in DOMAIN reqs : res'[k] = res[k] \/ (k = UserBlock /\ res'[k] = "absent")
    BY Zenon, <1>4
  <2>2. ~isPending(UserBlock)
    BY Zenon, <1>3 DEF isPending, isDone
  <2> QED
    BY <1>1, <1>2, <1>3, <2>1, <2>2 DEF CloudInv, isPending
<1>6. Kept /\ Remembered
  <2>1. Resources' \subseteq Resources
    BY Zenon, <1>2, <1>4 DEF Resources, Listed, isPending
  <2> QED
    BY Zenon, <1>2, <2>1 DEF Kept, Remembered
<1>7. BlocksDurable
  <2> SUFFICES ASSUME NEW k \in Resources, reqs[k].name = BlockName, reqs'[k].status = "DONE"
               PROVE  Listed(k)'
    BY Zenon DEF BlocksDurable
  <2>1. k # UserBlock
    BY Zenon, <1>2 DEF UserName, BlockName
  <2>2. Listed(k)
    BY Zenon, <1>2 DEF Resources, isPending
  <2> QED
    BY Zenon, <1>4, <2>1, <2>2 DEF Listed
<1> QED
  BY Zenon, <1>2, <1>4, <1>5, <1>6, <1>7 DEF CloudStep, CloudOK

LEMMA DeleteUserBlockKeeps ==
  ASSUME EndpointInv, DeleteUserBlock
  PROVE  EndpointInv'
<1>1. CloudStep /\ Remembered /\ NoDeletion' = NoDeletion
  BY Zenon, UserBlockRemoved DEF NoDeletion
<1>2. UNCHANGED <<obj, cached, mem, base, pc, block, request, owner, machines, secret, panicked, faults>>
  BY Zenon DEF DeleteUserBlock, memVars, envVars
<1>3. EnvType'
  BY Zenon, <1>2 DEF EnvType, EndpointInv
<1> QED
  BY Zenon, <1>1, <1>2, <1>3, EnvironmentKeeps

\* The Cluster and the machines are deleted, and the secret.
LEMMA WorldKeeps ==
  ASSUME EndpointInv, DeleteCluster \/ SeeOwner \/ MachinesGo \/ DeleteSecret
  PROVE  EndpointInv'
<1>1. CloudOK /\ EnvType
  BY Zenon DEF EndpointInv
<1>2. /\ UNCHANGED <<obj, cached, mem, base, pc, block, request, cloudVars, panicked, faults>>
      /\ machines' = FALSE \/ UNCHANGED machines
      /\ owner' \in {"deleting", "seen"} \/ UNCHANGED owner
      /\ secret' \in {"deleting", "gone"} \/ UNCHANGED secret
  BY Zenon DEF DeleteCluster, SeeOwner, MachinesGo, DeleteSecret, memVars
<1>3. EnvType' /\ (machines' => machines)
  <2>1. machines' \in BOOLEAN /\ (machines' => machines)
    <3>1. CASE machines' = FALSE
      BY Zenon, <3>1
    <3>2. CASE UNCHANGED machines
      BY Zenon, <1>1, <3>2 DEF EnvType
    <3> QED
      BY Zenon, <1>2, <3>1, <3>2
  <2>2. owner' \in {"live", "deleting", "seen"} /\ secret' \in {"free", "held", "deleting", "gone"}
    BY Zenon, <1>1, <1>2 DEF EnvType
  <2> QED
    BY Zenon, <1>1, <1>2, <2>1, <2>2 DEF EnvType
<1>4. CloudStep /\ Remembered /\ NoDeletion' = NoDeletion
  BY Zenon, <1>1, <1>2, NoCall
<1> QED
  BY Zenon, <1>2, <1>3, <1>4, EnvironmentKeeps

LEMMA StutterKeeps ==
  ASSUME EndpointInv, UNCHANGED vars
  PROVE  EndpointInv'
<1>1. CloudOK /\ EnvType
  BY Zenon DEF EndpointInv
<1>2. UNCHANGED <<obj, cached, mem, base, pc, block, request, cloudVars, owner, machines, secret, panicked, faults>>
  BY Zenon DEF vars, memVars, envVars
<1>3. EnvType'
  BY Zenon, <1>1, <1>2 DEF EnvType
<1>4. CloudStep /\ Remembered /\ NoDeletion' = NoDeletion
  BY Zenon, <1>1, <1>2, NoCall
<1> QED
  BY Zenon, <1>2, <1>3, <1>4, EnvironmentKeeps

-----------------------------------------------------------------------------
(***************************************************************************)
(* The theorems.                                                           *)
(***************************************************************************)
LEMMA InitEndpointInv == Init => EndpointInv
<1> SUFFICES ASSUME Init PROVE EndpointInv
  OBVIOUS
<1>1. /\ NewCluster \in Clusters /\ NewCluster.state = "live" /\ NewCluster.host = 0
      /\ NewCluster.blockID = 0 /\ ~NewCluster.provisioned /\ ~NewCluster.finalizer
  BY Zenon DEF NewCluster, Clusters
<1> DEFINE userSet == [NewCluster EXCEPT !.host = UserBlock]
           r == [method |-> "POST", id |-> UserBlock, name |-> UserName,
                 status |-> "DONE", recent |-> FALSE]
<1>2. /\ userSet \in Clusters /\ userSet.state = "live" /\ userSet.host = UserBlock
      /\ userSet.blockID = 0 /\ ~userSet.provisioned
  BY Zenon DEF NewCluster, Clusters, UserBlock
<1>3. /\ r \in Requests /\ r.method = "POST" /\ r.id = UserBlock /\ r.name = UserName
      /\ r.status = "DONE"
  BY Zenon, EndpointAssumption DEF Requests, Methods, Statuses, UserBlock
<1> HIDE DEF userSet, r
<1>4. /\ pc = "idle" /\ mem = NewCluster /\ base = NewCluster /\ cached = obj
      /\ block = NoBlock /\ request = NoRequest
  BY Zenon DEF Init
<1>5. LocalType
  BY Zenon, <1>1, <1>4 DEF LocalType, NoBlock, NoRequest
<1>6. EnvType
  BY Zenon DEF Init, EnvType
<1>7. Knows /\ Seen
  BY Zenon, <1>4 DEF Knows, Seen
<1>8. CASE obj = NewCluster /\ reqs = <<>> /\ res = <<>>
  <2>1. DOMAIN reqs = {} /\ CloudTypeOK
    BY <1>8 DEF CloudTypeOK
  <2>2. Created = {} /\ Resources = {} /\ NoDeletion
    BY Zenon, <2>1 DEF Created, Resources, NoDeletion
  <2>3. CloudInv /\ Newest /\ UserCreated /\ UserHost /\ Undeleted
    BY Zenon, <2>1, <2>2 DEF CloudInv, Newest, UserCreated, UserHost, Undeleted
  <2>4. ObjectType /\ StateInv
    BY Zenon, <1>1, <1>4, <1>8, <2>2 DEF ObjectType, StateInv
  <2>5. CopyInv
    BY Zenon, <1>1, <1>4, <1>8 DEF CopyInv, Endpoint
  <2> QED
    BY Zenon, <1>5, <1>6, <1>7, <2>1, <2>3, <2>4, <2>5 DEF EndpointInv, CloudOK
<1>9. CASE obj = userSet /\ reqs = <<r>> /\ res = <<"AVAILABLE">>
  <2>1. /\ DOMAIN reqs = {UserBlock} /\ reqs[UserBlock] = r
        /\ DOMAIN res = {UserBlock} /\ res[UserBlock] = "AVAILABLE"
    BY <1>9 DEF UserBlock
  <2>2. CloudTypeOK
    BY <1>3, <1>9 DEF CloudTypeOK, ResourceStates
  <2>3. Created = {UserBlock} /\ Resources = {UserBlock} /\ NoDeletion
    BY Zenon, <1>3, <2>1 DEF Created, Resources, NoDeletion, isDone, isPending, Listed
  <2>4. CloudInv
    BY Zenon, <1>3, <2>1 DEF CloudInv, isPending, UserBlock
  <2>5. Newest
    BY <2>1, <2>3 DEF Newest, UserBlock
  <2>6. UserCreated /\ UserHost /\ Undeleted
    BY Zenon, <1>2, <1>3, <1>4, <1>9, <2>1, <2>3 DEF UserCreated, UserHost, Undeleted, UserName, BlockName
  <2>7. ObjectType /\ StateInv
    BY Zenon, <1>2, <1>4, <1>9, <2>3 DEF ObjectType, StateInv
  <2>8. CopyInv
    BY Zenon, <1>1, <1>2, <1>4, <1>9, <2>3 DEF CopyInv, Endpoint
  <2> QED
    BY Zenon, <1>5, <1>6, <1>7, <2>2, <2>4, <2>5, <2>6, <2>7, <2>8 DEF EndpointInv, CloudOK
<1> QED
  BY Zenon, <1>8, <1>9 DEF Init, userSet, r

LEMMA NextKeepsEndpointInv ==
  ASSUME EndpointInv, [Next]_vars
  PROVE  EndpointInv'
<1>1. CASE Reconcile
  <2>1. CASE Lookup
    BY Zenon, <2>1, TryLookupKeeps DEF Lookup
  <2>2. CASE LookupAgain
    BY Zenon, <2>2, TryLookupKeeps DEF LookupAgain
  <2> QED
    BY Zenon, <1>1, <2>1, <2>2, StartReconcileKeeps, CheckRequestStatusKeeps, CheckMachinesKeeps,
       CheckQueueKeeps, UseBlockKeeps, ReserveBlockKeeps, SkipBlockKeeps, AwaitBlockKeeps,
       DeleteBlockKeeps, RemoveFinalizersKeeps, FinalizeKeeps DEF Reconcile
<1>2. CASE Environment
  BY Zenon, <1>2, CacheSyncKeeps, WorldKeeps, DeleteIonosClusterKeeps, DeleteUserBlockKeeps,
     CloudRequestKeeps DEF Environment
<1>3. CASE Idle \/ UNCHANGED vars
  BY Zenon, <1>3, StutterKeeps DEF Idle
<1> QED
  BY Zenon, <1>1, <1>2, <1>3, StepErrorKeeps, CacheSyncKeeps DEF Next

\* The invariant that the theorems below rest on: after a block none is reserved, a
\* reconcile that decides to reserve one has seen that there is none, only blocks that
\* were created are recorded, and only a deletion without machines deletes them.
THEOREM EndpointInvariant == Spec => []EndpointInv
BY InitEndpointInv, NextKeepsEndpointInv, PTL DEF Spec

\* Every variable keeps its type.
THEOREM EndpointTypeOK == Spec => []TypeOK
<1>1. EndpointInv => TypeOK
  BY Zenon DEF EndpointInv, CloudOK, LocalType, ObjectType, EnvType, TypeOK
<1> QED
  BY <1>1, EndpointInvariant, PTL

\* reserveControlPlaneEndpointIPBlock never reserves a second block, whatever is lost of
\* what Finalize should have recorded.
THEOREM OneEndpointBlock == Spec => []AtMostOneBlock
<1>1. EndpointInv => AtMostOneBlock
  <2> SUFFICES ASSUME EndpointInv, NEW i \in EndpointBlocks, NEW j \in EndpointBlocks PROVE i = j
    BY Zenon DEF AtMostOneBlock
  <2>1. CloudTypeOK /\ Newest
    BY Zenon DEF EndpointInv, CloudOK
  <2>2. /\ i \in Resources /\ i \in DOMAIN reqs /\ reqs[i].method = "POST"
        /\ j \in Resources /\ j \in DOMAIN reqs /\ reqs[j].method = "POST"
    BY Zenon DEF EndpointBlocks, Resources
  <2>3. i <= j /\ j <= i
    BY Zenon, <2>1, <2>2 DEF Newest
  <2>4. i \in Nat /\ j \in Nat
    BY <2>1, <2>2 DEF CloudTypeOK
  <2> QED
    BY <2>3, <2>4
<1> QED
  BY <1>1, EndpointInvariant, PTL

\* The host and the block ID that ReconcileControlPlaneEndpoint records are those of one
\* block, whichever of the two patches of PatchObject fails.
THEOREM RecordedBlockIsEndpoint == Spec => []EndpointMatchesBlock
<1>1. EndpointInv => EndpointMatchesBlock
  <2> SUFFICES ASSUME EndpointInv PROVE EndpointMatchesBlock
    OBVIOUS
  <2>1. CloudTypeOK /\ Newest /\ Endpoint(obj)
    BY Zenon DEF EndpointInv, CloudOK, CopyInv
  <2>2. ASSUME obj.host # 0, obj.blockID # 0 PROVE obj.host = obj.blockID
    <3>1. obj.host \in Created /\ obj.blockID \in Created
      BY Zenon, <2>1, <2>2 DEF Endpoint
    <3>2. obj.host <= obj.blockID /\ obj.blockID <= obj.host
      BY Zenon, <2>1, <3>1 DEF Newest, Created
    <3>3. obj.host \in Nat /\ obj.blockID \in Nat
      BY <2>1, <3>1 DEF CloudTypeOK, Created
    <3> QED
      BY <3>2, <3>3
  <2> QED
    BY Zenon, <2>1, <2>2 DEF EndpointMatchesBlock, Endpoint
<1> QED
  BY <1>1, EndpointInvariant, PTL

\* With an endpoint of the user's, reserveControlPlaneEndpointIPBlock and
\* deleteControlPlaneEndpointIPBlock are never called, and the endpoint stays: the
\* user's block is the newest one, and every copy of the object has its IP.
THEOREM UserEndpointUntouched == Spec => []UserEndpointKept
<1>1. EndpointInv => UserEndpointKept
  <2> SUFFICES ASSUME EndpointInv, NEW i \in DOMAIN reqs, reqs[i].name = UserName
               PROVE  DOMAIN reqs = {i} /\ obj.host = i
    BY Zenon DEF UserEndpointKept
  <2>1. CloudTypeOK /\ CloudInv /\ UserCreated /\ UserHost /\ Newest
    BY Zenon DEF EndpointInv, CloudOK
  <2>2. obj.host = i
    BY Zenon, <2>1 DEF UserHost
  <2>3. i = UserBlock /\ i \in Created
    BY Zenon, <2>1 DEF UserCreated
  <2>4. ASSUME NEW j \in DOMAIN reqs, reqs[j].method = "POST"
        PROVE  j = i
    <3>1. j <= i
      BY Zenon, <2>1, <2>3, <2>4 DEF Newest
    <3>2. j \in Nat \ {0}
      BY <2>1 DEF CloudTypeOK
    <3> QED
      BY <2>3, <3>1, <3>2 DEF UserBlock
  <2>5. ASSUME NEW j \in DOMAIN reqs, reqs[j].method # "POST"
        PROVE  FALSE
    <3>1. /\ reqs[j].id \in DOMAIN reqs /\ reqs[reqs[j].id].method = "POST"
          /\ reqs[j].name = reqs[reqs[j].id].name
      BY Zenon, <2>1, <2>5 DEF CloudInv
    <3>2. reqs[j].name = UserName
      BY Zenon, <2>4, <3>1
    <3> QED
      BY Zenon, <2>1, <2>5, <3>2 DEF UserCreated, Created
  <2> QED
    BY Zenon, <2>2, <2>4, <2>5
<1> QED
  BY <1>1, EndpointInvariant, PTL

\* What a step does to the blocks.
LEMMA NextOnBlocks ==
  ASSUME EndpointInv, [Next]_vars
  PROVE  UNCHANGED res \/ res' = Append(res, "absent") \/ (Kept /\ BlocksDurable)
<1>1. CASE Reconcile
  <2>1. UNCHANGED cloudVars \/ Post(BlockName) \/ Delete(block.id)
    BY Zenon, <1>1 DEF Reconcile, StartReconcile, CheckRequestStatus, CheckMachines, Lookup, LookupAgain,
       TryLookup, CheckQueue, UseBlock, ReserveBlock, reserveControlPlaneEndpointIPBlock, SkipBlock,
       AwaitBlock, DeleteBlock, deleteControlPlaneEndpointIPBlock, RemoveFinalizers, Finalize
  <2> QED
    BY Zenon, <2>1 DEF cloudVars, Post, Delete, Submit
<1>2. CASE Environment
  <2>1. CASE DeleteUserBlock
    BY Zenon, <2>1, UserBlockRemoved DEF CloudStep
  <2>2. ASSUME NEW i \in DOMAIN reqs, BlockRequest(i) \/ AgeRequest(i)
        PROVE  Kept /\ BlocksDurable
    <3>1. Kept /\ Durable
      BY Zenon, <2>2, RequestExecuted, RequestAged DEF BlockRequest, AgeRequest, EndpointInv, CloudOK
    <3> QED
      BY Zenon, <3>1 DEF Durable, BlocksDurable
  <2> QED
    BY Zenon, <1>2, <2>1, <2>2 DEF Environment, CacheSync, SeeOwner, DeleteCluster,
       DeleteIonosCluster, MachinesGo, DeleteSecret, cloudVars
<1>3. CASE StepError \/ Crash \/ Idle \/ UNCHANGED vars
  BY Zenon, <1>3 DEF StepError, Crash, Idle, vars, cloudVars
<1> QED
  BY Zenon, <1>1, <1>2, <1>3 DEF Next

\* No step of the code or of the cloud takes the block of the endpoint away while there
\* are machines: reconcileDelete waits for them before it requests a deletion.
THEOREM BlockOutlivesMachines == Spec => EndpointOutlivesMachines
<1> DEFINE Step == \A i \in DOMAIN res :
                     machines /\ reqs[i].name = BlockName /\ Listed(i) /\ isDone(i) => Listed(i)'
<1>1. ASSUME CloudOK, StateInv, BlocksDurable, Kept PROVE Step
  <2> SUFFICES ASSUME NEW i \in DOMAIN res, machines, reqs[i].name = BlockName, Listed(i), isDone(i)
               PROVE  Listed(i)'
    OBVIOUS
  <2>1. i \in DOMAIN reqs
    BY <1>1 DEF CloudOK, CloudTypeOK
  <2>2. reqs[i].method = "POST"
    BY Zenon, <1>1, <2>1 DEF CloudOK, CloudInv, Listed
  <2>3. i \in Resources /\ NoDeletion
    BY Zenon, <1>1, <2>1, <2>2 DEF Resources, StateInv
  <2>4. reqs'[i].status = "DONE"
    BY Zenon, <1>1, <2>1 DEF Kept, isDone, isPending
  <2> QED
    BY Zenon, <1>1, <2>3, <2>4 DEF BlocksDurable, NoDeletion
<1> HIDE DEF Step
<1>2. ASSUME EndpointInv, [Next]_vars PROVE Step
  <2>1. CloudOK /\ StateInv
    BY Zenon, <1>2 DEF EndpointInv
  <2>2. CASE Kept /\ BlocksDurable
    BY Zenon, <1>1, <2>1, <2>2
  <2>3. CASE UNCHANGED res
    BY Zenon, <2>3 DEF Step, Listed
  <2>4. CASE res' = Append(res, "absent")
    <3>1. /\ DOMAIN res \subseteq DOMAIN res'
          /\ \A i \in DOMAIN res : res'[i] = res[i]
      BY <2>1, <2>4 DEF CloudOK, CloudTypeOK
    <3> QED
      BY Zenon, <3>1 DEF Step, Listed
  <2> QED
    BY Zenon, <1>2, <2>2, <2>3, <2>4, NextOnBlocks
<1>3. EndpointOutlivesMachines <=> [][Step]_vars
  BY Zenon DEF EndpointOutlivesMachines, Step
<1> QED
  BY <1>2, <1>3, EndpointInvariant, PTL DEF Spec

\* The finalizer of the object is removed only by Finalize, after a reconcile that saw
\* that there is no block and none is being reserved.
THEOREM FinalizerOutlivesBlock == Spec => FinalizerAfterBlock
<1> DEFINE Step == obj.finalizer /\ ~obj'.finalizer => EndpointBlocks = {}
<1>1. ASSUME EndpointInv, [Next]_vars PROVE Step
  <2>1. CASE Finalize
    <3>1. obj.finalizer => obj'.finalizer \/ (base.finalizer /\ ~mem.finalizer)
      BY Zenon, <1>1, <2>1, FinalizePatches DEF Patch
    <3> QED
      BY Zenon, <1>1, <3>1 DEF EndpointInv, CopyInv
  <2>2. CASE DeleteIonosCluster
    <3> DEFINE d == [obj EXCEPT !.state = "deleting"]
    <3>1. d \in Clusters /\ d.finalizer = obj.finalizer
      BY Zenon, <1>1 DEF EndpointInv, ObjectType, Clusters
    <3>2. obj' = Collect(d)
      BY Zenon, <2>2 DEF DeleteIonosCluster
    <3> HIDE DEF d
    <3>3. obj'.finalizer = obj.finalizer
      BY Zenon, <3>1, <3>2, Collected
    <3> QED
      BY Zenon, <3>3
  <2>3. CASE UNCHANGED obj
    BY Zenon, <2>3
  <2>4. Reconcile => Finalize \/ UNCHANGED obj
    BY Zenon DEF Reconcile, StartReconcile, CheckRequestStatus, CheckMachines, Lookup, LookupAgain,
       TryLookup, CheckQueue, UseBlock, ReserveBlock, SkipBlock, AwaitBlock, DeleteBlock, RemoveFinalizers
  <2>5. Environment => DeleteIonosCluster \/ UNCHANGED obj
    BY Zenon DEF Environment, CacheSync, SeeOwner, DeleteCluster, MachinesGo, DeleteSecret,
       DeleteUserBlock, BlockRequest, AgeRequest
  <2>6. StepError \/ Crash \/ Idle \/ UNCHANGED vars => UNCHANGED obj
    BY Zenon DEF StepError, Crash, Idle, vars
  <2> QED
    BY Zenon, <1>1, <2>1, <2>2, <2>3, <2>4, <2>5, <2>6 DEF Next
<1>2. FinalizerAfterBlock <=> [][Step]_vars
  BY Zenon DEF FinalizerAfterBlock
<1> QED
  BY <1>1, <1>2, EndpointInvariant, PTL DEF Spec
=============================================================================
