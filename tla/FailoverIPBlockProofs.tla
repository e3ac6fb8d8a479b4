------------------------ MODULE FailoverIPBlockProofs ------------------------
(***************************************************************************)
(* One block for the workers of a MachineDeployment, and none without      *)
(* them, for any number of workers, reservations and faults.  The holder   *)
(* of the lock knows from the list and the queue, asked in this order,     *)
(* which block there can be, and nobody else adds one.  Step by step, the  *)
(* workers implement ManagedResource.                                      *)
(***************************************************************************)
EXTENDS FailoverIPBlock, CloudAPIProofs

-----------------------------------------------------------------------------
(***************************************************************************)
(* The inductive invariant.                                                *)
(***************************************************************************)
\* The requests are those for the block, and none is older than 24 hours.
RequestInv == /\ CloudInv
              /\ \A i \in DOMAIN reqs : /\ reqs[i].method \in {"POST", "DELETE"}
                                        /\ reqs[i].recent /\ reqs[i].name = BlockName

\* The block is the newest one requested.
Newest == \A b \in Blocks, j \in Posts : j <= b

\* The steps after the server of a worker is gone.
BlockSteps == {"lockD", "queueD", "refindD", "decideD", "requestD", "lanD", "deleteD"}
LockedSteps == {"queue", "refind", "decide"} \cup (BlockSteps \ {"lockD"})

\* What the holder of the lock found out stays true until it acts.
Knows(m) ==
  /\ pc[m] \in LockedSteps => lock = m
  /\ pc[m] \in {"queue", "queueD"} => block[m] = NoBlock
  /\ pc[m] \in {"refind", "refindD"} => \A b \in Blocks : ~isPending(b)
  /\ pc[m] \in {"decide", "decideD"} /\ block[m] = NoBlock /\ ~creationPending(m) => Blocks = {}
  /\ pc[m] \in {"decide", "decideD"} /\ block[m] # NoBlock => Blocks \subseteq {block[m].id}
  /\ pc[m] \in {"requestD", "lanD", "deleteD"} => Blocks \subseteq {block[m].id}

\* What the cache and the step say of the object and the server.
ObjectAt(m) ==
  /\ cached[m] = obj[m] \/ (cached[m] = "deleting" /\ obj[m] = "gone")
  /\ pc[m] \in NormalSteps => obj[m] \in {"live", "deleting"} /\ srv[m] = "up"
  /\ pc[m] \in DeleteSteps => obj[m] \in {"deleting", "gone"}
  /\ pc[m] \in BlockSteps => ~HasServer(m)
  /\ HasServer(m) => obj[m] \in {"live", "deleting"}

GroupInv == \A e \in group : HasServer(e.nic)

\* The type in the parts that the steps of a reconcile change one by one.
Steps == {"idle"} \cup NormalSteps \cup DeleteSteps
LocalType == /\ pc \in [Machines -> Steps]
             /\ block \in [Machines -> [id : Nat, available : BOOLEAN]]
             /\ request \in [Machines -> [id : Nat, status : Statuses]]
             /\ ip \in [Machines -> Nat]
             /\ lock \in Machines \cup {None}
ObjectType == /\ obj \in [Machines -> ObjectStates] /\ cached \in [Machines -> ObjectStates]
              /\ srv \in [Machines -> {"none", "up", "deleting", "gone"}]
              /\ nicIPs \in [Machines -> SUBSET Nat]
              /\ group \subseteq [ip : Nat, nic : Machines]
StatusType == curReq \in [Machines -> Nat] /\ faults \in Nat

CloudOK == CloudTypeOK /\ RequestInv

BlockInv == /\ CloudOK /\ LocalType /\ ObjectType /\ StatusType
            /\ Newest /\ GroupInv
            /\ \A m \in Machines : Knows(m) /\ ObjectAt(m)
            /\ NoOrphanedFailoverBlock

\* What a step that reserves no block does to the blocks.
Shrinks == /\ Blocks' \subseteq Blocks
           /\ Posts' \subseteq Posts
           /\ \A b \in Blocks' : isPending(b)' => isPending(b)
CloudStep == CloudOK' /\ Shrinks

-----------------------------------------------------------------------------
(***************************************************************************)
(* The cloud.                                                              *)
(***************************************************************************)
\* A step that creates no resource leaves the requests and the block in order.
LEMMA BlocksShrink ==
  ASSUME CloudTypeOK, CloudInv', RequestInv, Kept, Remembered,
         \A k \in DOMAIN reqs' : k \notin DOMAIN reqs => /\ reqs'[k].method = "DELETE"
                                                         /\ reqs'[k].recent
                                                         /\ reqs'[k].name = BlockName
  PROVE  RequestInv' /\ Shrinks
<1>1. \A i \in DOMAIN reqs' : /\ reqs'[i].method \in {"POST", "DELETE"}
                              /\ reqs'[i].recent /\ reqs'[i].name = BlockName
  BY Zenon DEF RequestInv, Kept, Remembered
<1>2. \A k \in DOMAIN reqs : isPending(k)' => isPending(k)
  BY Zenon DEF Kept, isPending
<1>3. Blocks = Resources /\ Blocks' = Resources' /\ Posts' \subseteq Posts
  BY Zenon DEF Blocks, Posts, Resources, Kept
<1> QED
  BY Zenon, <1>1, <1>2, <1>3 DEF RequestInv, Shrinks, Kept, Blocks, Posts

LEMMA CloudRequestKeeps ==
  ASSUME CloudOK, NEW i \in DOMAIN reqs, Run(i) \/ Finish(i, {}) \/ Fail(i)
  PROVE  CloudStep
<1>1. CloudTypeOK /\ RequestInv /\ CloudInv
  BY Zenon DEF CloudOK, RequestInv
<1> QED
  BY Zenon, <1>1, RequestExecuted, BlocksShrink DEF CloudStep, CloudOK

\* deleteIPBlock's request makes no block.
LEMMA DeleteKeeps ==
  ASSUME CloudOK, NEW id \in Nat, Delete(id)
  PROVE  CloudStep
<1> DEFINE r == [method |-> "DELETE", id |-> id, name |-> reqs[id].name,
                 status |-> "QUEUED", recent |-> TRUE]
<1>1. /\ "DELETE" \in Methods \ {"POST"} /\ Submit("DELETE", id)
      /\ CloudTypeOK /\ RequestInv /\ CloudInv
  BY Zenon DEF Methods, Delete, RequestInv, CloudOK
<1>2. /\ CloudTypeOK' /\ CloudInv' /\ Kept /\ Remembered /\ id \in DOMAIN reqs
      /\ Accepted(r)
  BY Zenon, <1>1, RequestSubmitted
<1>3. r.method = "DELETE" /\ r.recent /\ r.name = BlockName
  BY Zenon, <1>1, <1>2 DEF RequestInv
<1> HIDE DEF r
<1>4. \A k \in DOMAIN reqs' : k \notin DOMAIN reqs => reqs'[k] = r
  BY Zenon, <1>2 DEF Accepted
<1> QED
  BY Zenon, <1>1, <1>2, <1>3, <1>4, BlocksShrink DEF CloudStep, CloudOK

\* reserveMachineDeploymentFailoverIPBlock's request is the newest and the only new block.
LEMMA PostKeeps ==
  ASSUME CloudOK, Post(BlockName)
  PROVE  /\ CloudOK'
         /\ Blocks' \subseteq Blocks \cup {Len(reqs) + 1}
         /\ \A j \in DOMAIN reqs' : j <= Len(reqs) + 1
<1> DEFINE r == [method |-> "POST", id |-> Len(reqs) + 1, name |-> BlockName,
                 status |-> "QUEUED", recent |-> TRUE]
<1>1. BlockName \in Names /\ CloudTypeOK /\ RequestInv /\ CloudInv
  BY Zenon, BlockAssumption DEF RequestInv, CloudOK
<1>2. /\ CloudTypeOK' /\ CloudInv' /\ Accepted(r)
      /\ Resources' = Resources \cup {Len(reqs) + 1}
  BY Zenon, <1>1, ResourcePosted
<1>3. r.method = "POST" /\ r.recent /\ r.name = BlockName
  OBVIOUS
<1> HIDE DEF r
<1>4. RequestInv' /\ \A j \in DOMAIN reqs' : j <= Len(reqs) + 1
  BY <1>1, <1>2, <1>3 DEF RequestInv, Accepted
<1>5. Blocks = Resources /\ Blocks' = Resources'
  BY Zenon DEF Blocks, Posts, Resources
<1> QED
  BY Zenon, <1>2, <1>4, <1>5 DEF CloudOK

\* A step that makes no call of the cloud.
LEMMA CloudKept ==
  ASSUME CloudOK, UNCHANGED cloudVars
  PROVE  CloudStep
<1>1. CloudTypeOK /\ RequestInv /\ CloudInv
  BY Zenon DEF CloudOK, RequestInv
<1> QED
  BY Zenon, <1>1, CloudUnchanged, BlocksShrink DEF CloudStep, CloudOK

-----------------------------------------------------------------------------
(***************************************************************************)
(* The workers.                                                            *)
(***************************************************************************)
Present(m) == obj[m] \in {"live", "deleting"}

\* The reconcile of m goes to step and leaves the others where they are.
Moved(m, step) ==
  /\ LocalType' /\ pc'[m] = step
  /\ \A n \in Machines \ {m} : /\ pc'[n] = pc[n] /\ block'[n] = block[n] /\ request'[n] = request[n]
                               /\ lock = n => lock' = n

\* The object and the server allow the reconcile of m to be at step.
StepFits(m, step) ==
  /\ step \in NormalSteps => obj[m] \in {"live", "deleting"} /\ srv[m] = "up"
  /\ step \in DeleteSteps => obj[m] \in {"deleting", "gone"}
  /\ step \in BlockSteps => ~HasServer(m)

ObjectsKept == UNCHANGED <<obj, cached, srv, nicIPs, group>>

\* What a worker found out stays true while the others act.
LEMMA KnowsKept ==
  ASSUME NEW n \in Machines, Knows(n), Shrinks,
         pc'[n] = pc[n], block'[n] = block[n], request'[n] = request[n],
         lock = n => lock' = n
  PROVE  Knows(n)'
BY Zenon DEF Knows, Shrinks, NoBlock, creationPending

\* A step of worker m that reserves no block preserves BlockInv when m's own part of it
\* is preserved, and when m goes only without a block or before another one.
LEMMA WorkerStep ==
  ASSUME BlockInv, NEW m \in Machines, NEW step, Moved(m, step),
         CloudStep, ObjectType', StatusType', Knows(m)', ObjectAt(m)', GroupInv',
         \A n \in Machines \ {m} : obj'[n] = obj[n] /\ cached'[n] = cached[n] /\ srv'[n] = srv[n],
         Present(m) => \/ Present(m)' \/ Blocks = {}
                       \/ \E n \in Machines \ {m} : Present(n)
  PROVE  BlockInv'
<1>1. Newest /\ NoOrphanedFailoverBlock /\ \A n \in Machines : Knows(n) /\ ObjectAt(n)
  BY Zenon DEF BlockInv
<1>2. CloudOK' /\ Shrinks
  BY Zenon DEF CloudStep
<1>3. Newest'
  BY Zenon, <1>1, <1>2 DEF Newest, Shrinks
<1>4. \A n \in Machines : Knows(n)' /\ ObjectAt(n)'
  <2> SUFFICES ASSUME NEW n \in Machines, n # m PROVE Knows(n)' /\ ObjectAt(n)'
    OBVIOUS
  <2>1. Knows(n)'
    BY Zenon, <1>1, <1>2, KnowsKept DEF Moved
  <2>2. ObjectAt(n)'
    BY Zenon, <1>1 DEF ObjectAt, HasServer, Moved
  <2> QED
    BY Zenon, <2>1, <2>2
<1>5. NoOrphanedFailoverBlock'
  BY Zenon, <1>1, <1>2 DEF NoOrphanedFailoverBlock, Present, Shrinks
<1>6. LocalType'
  BY Zenon DEF Moved
<1> QED
  BY Zenon, <1>2, <1>3, <1>4, <1>5, <1>6 DEF BlockInv

\* A step of worker m that changes none of the objects and servers.
LEMMA LocalStep ==
  ASSUME BlockInv, NEW m \in Machines, NEW step, Moved(m, step), CloudStep, StatusType',
         ObjectsKept, Knows(m)', StepFits(m, step)
  PROVE  BlockInv'
<1>1. ObjectType /\ GroupInv /\ ObjectAt(m)
  BY Zenon DEF BlockInv
<1>2. ObjectType' /\ GroupInv'
  BY Zenon, <1>1 DEF ObjectType, GroupInv, ObjectsKept, HasServer
<1>3. ObjectAt(m)' /\ (Present(m) => Present(m)')
  BY Zenon, <1>1 DEF ObjectAt, ObjectsKept, HasServer, StepFits, Moved, Present
<1> QED
  BY Zenon, <1>2, <1>3, WorkerStep DEF ObjectsKept

\* The reconcile of m returns or goes on without the lock.
LEMMA LeaveMoves ==
  ASSUME LocalType, NEW m \in Machines, NEW step \in Steps, Leave(m, step), ip' \in [Machines -> Nat]
  PROVE  Moved(m, step)
<1>1. NoBlock \in [id : Nat, available : BOOLEAN] /\ NoRequest \in [id : Nat, status : Statuses]
  BY Zenon DEF NoBlock, NoRequest, Statuses, None
<1> QED
  BY <1>1, ZenonT(30) DEF LocalType, Leave, Goto, Moved

LEMMA ReturnMoves ==
  ASSUME LocalType, NEW m \in Machines, Return(m)
  PROVE  Moved(m, "idle")
<1>1. Leave(m, "idle") /\ ip' \in [Machines -> Nat] /\ "idle" \in Steps
  BY Zenon DEF Return, LocalType, None, Steps
<1> QED
  BY Zenon, <1>1, LeaveMoves

\* A step to which nothing but the step itself changes for m.
LEMMA GotoMoves ==
  ASSUME LocalType, NEW m \in Machines, NEW step \in Steps, Goto(m, step),
         UNCHANGED <<block, request, ip, lock>>
  PROVE  Moved(m, step)
BY Zenon DEF LocalType, Goto, Moved

\* Nothing is asked of a worker before it has the lock and after its reconcile is over.
LEMMA IdleKnows ==
  ASSUME NEW m \in Machines, NEW step \in {"idle", "nic", "group", "lock", "releaseD", "serverD", "lockD"},
         Moved(m, step)
  PROVE  Knows(m)'
BY Zenon DEF Knows, LockedSteps, BlockSteps, Moved

\* The worker returns without having changed an object, a server or the group.
LEMMA ReturnKeeps ==
  ASSUME BlockInv, NEW m \in Machines, Return(m), CloudStep, StatusType', ObjectsKept
  PROVE  BlockInv'
<1>1. Moved(m, "idle")
  BY Zenon, ReturnMoves DEF BlockInv
<1>2. Knows(m)' /\ StepFits(m, "idle")
  BY Zenon, <1>1, IdleKnows DEF StepFits, NormalSteps, DeleteSteps, BlockSteps
<1> QED
  BY Zenon, <1>1, <1>2, LocalStep

\* The worker goes on to a later step of the same reconcile and changes nothing else.
LEMMA GoOnKeeps ==
  ASSUME BlockInv, NEW m \in Machines, NEW step \in Steps, Goto(m, step),
         UNCHANGED <<block, request, ip, lock, curReq, faults, cloudVars>>, ObjectsKept,
         Knows(m)', StepFits(m, step)
  PROVE  BlockInv'
<1>1. CloudOK /\ LocalType /\ StatusType
  BY Zenon DEF BlockInv
<1>2. CloudStep /\ Moved(m, step)
  BY Zenon, <1>1, CloudKept, GotoMoves
<1>3. StatusType'
  BY Zenon, <1>1 DEF StatusType
<1> QED
  BY Zenon, <1>2, <1>3, LocalStep

\* StartReconcile: what the cache says of the object is still true enough.
LEMMA StartReconcileKeeps ==
  ASSUME BlockInv, NEW m \in Machines, StartReconcile(m)
  PROVE  BlockInv'
<1>1. CloudOK /\ LocalType /\ StatusType /\ ObjectAt(m)
  BY Zenon DEF BlockInv
<1>2. CloudStep
  BY Zenon, <1>1, CloudKept DEF StartReconcile
<1>3. /\ ObjectsKept /\ UNCHANGED <<block, request, ip, lock>>
      /\ cached[m] = "deleting" \/ (cached[m] = "live" /\ srv[m] = "up")
  BY Zenon DEF StartReconcile, groupVars, localVars, ObjectsKept
<1>4. PICK step \in {"idle", IF cached[m] = "live" THEN "lock" ELSE "releaseD"} : Goto(m, step)
  BY Zenon DEF StartReconcile
<1>5. StatusType'
  BY <1>1, BlockAssumption DEF StartReconcile, StatusType, Fault, None
<1>6. Moved(m, step) /\ Knows(m)'
  <2>1. step \in Steps /\ step \in {"idle", "lock", "releaseD"}
    BY Zenon DEF Steps, NormalSteps, DeleteSteps
  <2> QED
    BY Zenon, <1>1, <1>3, <1>4, <2>1, GotoMoves, IdleKnows
<1>7. StepFits(m, step)
  BY Zenon, <1>1, <1>3 DEF StepFits, ObjectAt, NormalSteps, DeleteSteps, BlockSteps
<1> QED
  BY Zenon, <1>2, <1>3, <1>5, <1>6, <1>7, LocalStep

\* getFailoverIPBlock returns nil only when no block is listed; otherwise the block
\* that it returns is the only one.
LEMMA LookupType ==
  ASSUME BlockInv, NEW m \in Machines, getFailoverIPBlock(m)
  PROVE  \E found \in [id : Nat, available : BOOLEAN] :
           /\ block' = [block EXCEPT ![m] = found]
           /\ found = NoBlock => \A b \in Blocks : isPending(b)
           /\ found # NoBlock => Blocks \subseteq {found.id}
<1>1. /\ DOMAIN res = DOMAIN reqs /\ DOMAIN reqs \subseteq Nat \ {0}
      /\ RequestInv /\ CloudInv /\ Newest
  BY DEF BlockInv, CloudOK, RequestInv, CloudTypeOK
<1>2. CASE ListedAs(BlockName) = {}
  <2>1. block' = [block EXCEPT ![m] = NoBlock] /\ NoBlock \in [id : Nat, available : BOOLEAN]
    BY Zenon, <1>2 DEF getFailoverIPBlock, NoBlock, None
  <2>2. \A b \in Blocks : isPending(b)
    BY Zenon, <1>1, <1>2 DEF ListedAs, Blocks, Posts, RequestInv
  <2> QED
    BY Zenon, <2>1, <2>2
<1>3. CASE ListedAs(BlockName) # {}
  <2>1. PICK b \in ListedAs(BlockName) :
          block' = [block EXCEPT ![m] = [id |-> b, available |-> isAvailable(b)]]
    BY Zenon, <1>3 DEF getFailoverIPBlock
  <2> DEFINE found == [id |-> b, available |-> isAvailable(b)]
  <2>2. b \in DOMAIN reqs /\ Listed(b) /\ b # 0
    BY Zenon, <1>1 DEF ListedAs
  <2>3. found \in [id : Nat, available : BOOLEAN] /\ found # NoBlock /\ found.id = b
    BY Zenon, <1>1, <2>2 DEF isAvailable, NoBlock, None
  <2>4. b \in Blocks
    BY Zenon, <1>1, <2>2 DEF Blocks, Posts, CloudInv, Listed
  <2>5. Blocks \subseteq {b}
    BY <1>1, <2>4 DEF Newest, Blocks, Posts
  <2> HIDE DEF found
  <2> QED
    BY Zenon, <2>1, <2>3, <2>5 DEF found
<1> QED
  BY Zenon, <1>2, <1>3

\* LockBlock and LookUpAgain: a block that is not listed is being created, and it is
\* not when its request was done.
LEMMA LookupKeeps ==
  ASSUME BlockInv, NEW m \in Machines, LockBlock(m) \/ LookUpAgain(m)
  PROVE  BlockInv'
<1>1. CloudOK /\ LocalType /\ StatusType /\ Knows(m) /\ ObjectAt(m)
  BY Zenon DEF BlockInv
<1>2. CloudStep
  BY Zenon, <1>1, CloudKept DEF LockBlock, LookUpAgain
<1>3. /\ ObjectsKept /\ UNCHANGED <<request, ip, curReq, faults>>
      /\ pc[m] \in {"lock", "lockD", "refind", "refindD"}
      /\ lock' = m /\ lock \in {m, None}
  BY Zenon, <1>1 DEF LockBlock, LookUpAgain, groupVars, Knows, LockedSteps, BlockSteps, ObjectsKept
<1>4. PICK found \in [id : Nat, available : BOOLEAN] :
           /\ block' = [block EXCEPT ![m] = found]
           /\ found = NoBlock => \A b \in Blocks : isPending(b)
           /\ found # NoBlock => Blocks \subseteq {found.id}
  BY Zenon, LookupType DEF LockBlock, LookUpAgain
<1>5. block'[m] = found
  BY Zenon, <1>1, <1>4 DEF LocalType
<1> DEFINE step == IF pc[m] = "lock" /\ found = NoBlock THEN "queue"
                   ELSE IF pc[m] = "lockD" /\ found = NoBlock THEN "queueD"
                   ELSE IF pc[m] \in {"lock", "refind"} THEN "decide" ELSE "decideD"
<1>6. pc' = [pc EXCEPT ![m] = step]
  BY Zenon, <1>5 DEF LockBlock, LookUpAgain, Goto
<1>7. /\ step \in {"queue", "queueD", "decide", "decideD"}
      /\ step \in {"queue", "queueD"} => found = NoBlock
      /\ step \in {"decide", "decideD"} /\ found = NoBlock => pc[m] \in {"refind", "refindD"}
      /\ step \in NormalSteps => pc[m] \in NormalSteps
      /\ step \in DeleteSteps => pc[m] \in DeleteSteps
      /\ step \in BlockSteps => pc[m] \in BlockSteps
  BY Zenon, <1>3 DEF NormalSteps, DeleteSteps, BlockSteps
<1> HIDE DEF step
<1>8. Moved(m, step)
  <2>1. step \in Steps
    BY Zenon, <1>7 DEF Steps, NormalSteps, DeleteSteps
  <2>2. LocalType' /\ pc'[m] = step
    BY Zenon, <1>1, <1>3, <1>4, <1>6, <2>1 DEF LocalType
  <2> QED
    BY Zenon, <1>1, <1>3, <1>4, <1>6, <2>2, BlockAssumption DEF Moved, LocalType
<1>9. Knows(m)'
  <2>1. Blocks' \subseteq Blocks
    BY Zenon, <1>2 DEF CloudStep, Shrinks
  <2>2. pc[m] \in {"refind", "refindD"} /\ found = NoBlock => Blocks = {}
    BY Zenon, <1>1, <1>4 DEF Knows
  <2>3. pc'[m] = step
    BY Zenon, <1>8 DEF Moved
  <2> QED
    BY <1>3, <1>4, <1>5, <1>7, <2>1, <2>2, <2>3, ZenonT(30) DEF Knows, NoBlock
<1>10. StepFits(m, step) /\ StatusType'
  BY Zenon, <1>1, <1>3, <1>7 DEF StepFits, ObjectAt, StatusType
<1> QED
  BY Zenon, <1>2, <1>3, <1>8, <1>9, <1>10, LocalStep

\* findResource's look at the request list: the reservation of the block, if there is
\* one, is the request that getLatestIPBlockCreationRequest returns.
LEMMA CheckQueueKeeps ==
  ASSUME BlockInv, NEW m \in Machines, CheckQueue(m)
  PROVE  BlockInv'
<1>1. CloudOK /\ LocalType /\ StatusType /\ Knows(m) /\ ObjectAt(m) /\ Newest
  BY Zenon DEF BlockInv
<1>2. CloudStep
  BY Zenon, <1>1, CloudKept DEF CheckQueue
<1>3. /\ ObjectsKept /\ UNCHANGED <<block, ip, curReq, lock, faults, reqs, res>>
      /\ pc[m] \in {"queue", "queueD"} /\ block[m] = NoBlock /\ lock = m
  BY Zenon, <1>1 DEF CheckQueue, groupVars, cloudVars, Knows, LockedSteps, BlockSteps, ObjectsKept
<1>4. /\ DOMAIN reqs \subseteq Nat \ {0} /\ \A i \in DOMAIN reqs : reqs[i] \in Requests
      /\ RequestInv /\ CloudInv
  BY <1>1 DEF CloudOK, CloudTypeOK, RequestInv
<1>5. PICK i \in DOMAIN reqs \cup {None} :
        /\ CreationRequest(i, BlockName)
        /\ request' = [request EXCEPT ![m] = IF i = None THEN NoRequest
                                             ELSE [id |-> i, status |-> reqs[i].status]]
  BY ZenonT(30) DEF CheckQueue
<1> DEFINE r == IF i = None THEN NoRequest ELSE [id |-> i, status |-> reqs[i].status]
<1>6. r \in [id : Nat, status : Statuses]
  BY Zenon, <1>4 DEF NoRequest, None, Statuses, Requests
<1>7. r.status = IF i = None THEN "FAILED" ELSE reqs[i].status
  BY Zenon DEF NoRequest
<1>8. request' = [request EXCEPT ![m] = r] /\ request'[m] = r
  BY Zenon, <1>1, <1>5 DEF LocalType
<1> HIDE DEF r
<1> DEFINE step == IF pc[m] = "queue" THEN IF r.status = "DONE" THEN "refind" ELSE "decide"
                                      ELSE IF r.status = "DONE" THEN "refindD" ELSE "decideD"
<1>9. pc' = [pc EXCEPT ![m] = step]
  BY <1>3, <1>8, ZenonT(30) DEF CheckQueue, Goto
<1>10. /\ step \in {"refind", "refindD", "decide", "decideD"}
       /\ step \in {"refind", "refindD"} <=> r.status = "DONE"
       /\ step \in NormalSteps => pc[m] \in NormalSteps
       /\ step \in DeleteSteps => pc[m] \in DeleteSteps
       /\ step \in BlockSteps => pc[m] \in BlockSteps
  BY Zenon, <1>3 DEF NormalSteps, DeleteSteps, BlockSteps
<1> HIDE DEF step
<1>11. Moved(m, step)
  <2>1. step \in Steps
    BY Zenon, <1>10 DEF Steps, NormalSteps, DeleteSteps
  <2>2. LocalType' /\ pc'[m] = step
    BY Zenon, <1>1, <1>3, <1>6, <1>8, <1>9, <2>1 DEF LocalType
  <2> QED
    BY Zenon, <1>1, <1>3, <1>8, <1>9, <2>2 DEF Moved, LocalType
<1>12. \A b \in Blocks : b = i /\ i # None
  <2> SUFFICES ASSUME NEW b \in Blocks PROVE b = i /\ i # None
    OBVIOUS
  <2>1. b \in DOMAIN reqs /\ reqs[b].recent /\ reqs[b].method = "POST" /\ reqs[b].name = BlockName
    BY Zenon, <1>4 DEF Blocks, Posts, RequestInv
  <2>2. i # None /\ i \in Posts /\ b <= i
    BY Zenon, <1>4, <1>5, <2>1 DEF CreationRequest, getMatchingRequest, Posts, None
  <2> QED
    BY <1>1, <1>4, <2>1, <2>2 DEF Newest, Posts
<1>13. i # None /\ reqs[i].status = "FAILED" => i \notin Blocks
  BY Zenon, <1>4 DEF Blocks, Posts, Listed, isPending, CloudInv
<1>14. Knows(m)'
  <2>1. \A b \in Blocks' : b \in Blocks /\ (isPending(b)' => isPending(b))
    BY Zenon, <1>2 DEF CloudStep, Shrinks
  <2>2. r.status = "DONE" => \A b \in Blocks : ~isPending(b)
    BY Zenon, <1>7, <1>12 DEF isPending
  <2>3. r.status = "FAILED" => Blocks = {}
    BY Zenon, <1>7, <1>12, <1>13
  <2>4. r.status \in {"QUEUED", "RUNNING", "DONE", "FAILED"}
    BY Zenon, <1>6 DEF Statuses
  <2>5. pc'[m] = step
    BY Zenon, <1>11 DEF Moved
  <2>6. pc'[m] \in {"refind", "refindD"} => \A b \in Blocks' : ~isPending(b)'
    BY Zenon, <1>10, <2>1, <2>2, <2>5
  <2>7. pc'[m] \in {"decide", "decideD"} /\ ~creationPending(m)' => Blocks' = {}
    BY Zenon, <1>8, <1>10, <2>1, <2>3, <2>4, <2>5 DEF creationPending
  <2> QED
    BY Zenon, <1>3, <1>10, <2>5, <2>6, <2>7 DEF Knows, NoBlock
<1>15. StepFits(m, step) /\ StatusType'
  BY Zenon, <1>1, <1>3, <1>10 DEF StepFits, ObjectAt, StatusType
<1> QED
  BY Zenon, <1>2, <1>3, <1>11, <1>14, <1>15, LocalStep

-----------------------------------------------------------------------------
(***************************************************************************)
(* ReconcileIPFailover.                                                    *)
(***************************************************************************)
LEMMA CurrentRequestType ==
  ASSUME StatusType, NEW m \in Machines, NEW i \in Nat, SetCurrentRequest(m, i)
  PROVE  StatusType'
BY BlockAssumption DEF StatusType, SetCurrentRequest, Fault

\* A block is reserved only when there is none, by a worker that has still to go.
LEMMA PostStep ==
  ASSUME BlockInv, NEW m \in Machines, pc[m] = "decide", block[m] = NoBlock, ~creationPending(m),
         Post(BlockName), SetCurrentRequest(m, Len(reqs) + 1), Return(m), ObjectsKept
  PROVE  BlockInv'
<1>1. /\ CloudOK /\ LocalType /\ ObjectType /\ StatusType /\ GroupInv
      /\ \A n \in Machines : Knows(n) /\ ObjectAt(n)
  BY Zenon DEF BlockInv
<1>2. Blocks = {} /\ lock = m /\ Present(m)
  BY Zenon, <1>1 DEF Knows, ObjectAt, NormalSteps, LockedSteps, Present
<1>3. CloudOK' /\ Blocks' \subseteq {Len(reqs) + 1} /\ \A j \in DOMAIN reqs' : j <= Len(reqs) + 1
  BY Zenon, <1>1, <1>2, PostKeeps
<1>4. Moved(m, "idle")
  BY Zenon, <1>1, ReturnMoves
<1>5. StatusType'
  BY <1>1, CurrentRequestType DEF CloudOK, CloudTypeOK
<1>6. Newest'
  BY Zenon, <1>3 DEF Newest, Posts
<1>7. \A n \in Machines : Knows(n)'
  <2> SUFFICES ASSUME NEW n \in Machines, n # m PROVE Knows(n)'
    BY Zenon, <1>4, IdleKnows
  <2>1. pc'[n] \notin LockedSteps
    BY Zenon, <1>1, <1>2, <1>4 DEF Knows, Moved
  <2> QED
    BY Zenon, <2>1 DEF Knows, LockedSteps, BlockSteps
<1>8. \A n \in Machines : ObjectAt(n)'
  BY Zenon, <1>1, <1>4 DEF ObjectAt, HasServer, NormalSteps, DeleteSteps, BlockSteps, ObjectsKept, Moved
<1>9. ObjectType' /\ GroupInv' /\ NoOrphanedFailoverBlock'
  BY Zenon, <1>1, <1>2 DEF ObjectType, GroupInv, HasServer, NoOrphanedFailoverBlock, Present, ObjectsKept
<1> QED
  BY Zenon, <1>3, <1>4, <1>5, <1>6, <1>7, <1>8, <1>9 DEF BlockInv, Moved

\* retrieveFailoverIPForMachine: the IP is had, waited for or reserved.
LEMMA RetrieveFailoverIPKeeps ==
  ASSUME BlockInv, NEW m \in Machines, RetrieveFailoverIP(m)
  PROVE  BlockInv'
<1>1. CloudOK /\ LocalType /\ StatusType /\ ObjectAt(m)
  BY Zenon DEF BlockInv
<1>2. ObjectsKept /\ pc[m] = "decide"
  BY Zenon DEF RetrieveFailoverIP, groupVars, ObjectsKept
<1>3. CASE /\ ip' = [ip EXCEPT ![m] = block[m].id] /\ Leave(m, "nic")
           /\ UNCHANGED <<cloudVars, curReq, faults>>
  <2>1. CloudStep /\ StatusType'
    BY Zenon, <1>1, <1>3, CloudKept DEF StatusType
  <2>2. ip' \in [Machines -> Nat] /\ "nic" \in Steps
    BY Zenon, <1>1, <1>3 DEF LocalType, NormalSteps, Steps
  <2>3. Moved(m, "nic")
    BY Zenon, <1>1, <1>3, <2>2, LeaveMoves
  <2>4. Knows(m)' /\ StepFits(m, "nic")
    BY Zenon, <1>1, <1>2, <2>3, IdleKnows DEF StepFits, ObjectAt, NormalSteps, DeleteSteps, BlockSteps
  <2> QED
    BY Zenon, <1>2, <2>1, <2>3, <2>4, LocalStep
<1>4. CASE Return(m) /\ UNCHANGED <<cloudVars, curReq, faults>>
  <2>1. CloudStep /\ StatusType'
    BY Zenon, <1>1, <1>4, CloudKept DEF StatusType
  <2> QED
    BY Zenon, <1>2, <1>4, <2>1, ReturnKeeps
<1>5. CASE /\ block[m] = NoBlock /\ ~creationPending(m) /\ Return(m)
           /\ Post(BlockName) /\ SetCurrentRequest(m, Len(reqs) + 1)
  BY Zenon, <1>2, <1>5, PostStep
<1> QED
  BY <1>3, <1>4, <1>5, ZenonT(30) DEF RetrieveFailoverIP, ReserveBlock

\* reconcileNICConfig changes nothing but the IPs of the NIC.
LEMMA ReconcileNICKeeps ==
  ASSUME BlockInv, NEW m \in Machines, ReconcileNIC(m)
  PROVE  BlockInv'
<1>1. CloudOK /\ LocalType /\ ObjectType /\ StatusType /\ ObjectAt(m) /\ GroupInv
  BY Zenon DEF BlockInv
<1>2. CloudStep /\ StatusType' /\ UNCHANGED <<obj, cached, srv, group>> /\ pc[m] = "nic"
  BY Zenon, <1>1, CloudKept DEF ReconcileNIC, StatusType
<1>3. CASE Return(m) /\ UNCHANGED nicIPs
  BY Zenon, <1>2, <1>3, ReturnKeeps DEF ObjectsKept
<1>4. CASE /\ nicIPs' = [nicIPs EXCEPT ![m] = @ \cup {ip[m]}] /\ Goto(m, "group")
           /\ UNCHANGED <<block, request, ip, lock>>
  <2>1. Moved(m, "group") /\ Knows(m)'
    <3>1. "group" \in Steps
      BY Zenon DEF Steps, NormalSteps
    <3> QED
      BY Zenon, <1>1, <1>4, <3>1, GotoMoves, IdleKnows
  <2>2. ObjectType'
    BY Zenon, <1>1, <1>2, <1>4 DEF ObjectType, LocalType
  <2>3. ObjectAt(m)' /\ GroupInv' /\ (Present(m) => Present(m)')
    BY Zenon, <1>1, <1>2, <2>1 DEF ObjectAt, GroupInv, HasServer, Present, NormalSteps, DeleteSteps,
       BlockSteps, Moved
  <2> QED
    BY Zenon, <1>2, <2>1, <2>2, <2>3, WorkerStep
<1> QED
  BY <1>3, <1>4, ZenonT(30) DEF ReconcileNIC, localVars

\* A step that returns and changes the group, for the NICs of servers that are there.
LEMMA GroupStep ==
  ASSUME BlockInv, NEW m \in Machines, Return(m), group' \subseteq [ip : Nat, nic : Machines],
         \A e \in group' : HasServer(e.nic),
         UNCHANGED <<obj, cached, curReq, srv, nicIPs, faults, cloudVars>>
  PROVE  BlockInv'
<1>1. CloudOK /\ LocalType /\ ObjectType /\ StatusType /\ ObjectAt(m)
  BY Zenon DEF BlockInv
<1>2. CloudStep /\ Moved(m, "idle") /\ StatusType'
  BY Zenon, <1>1, CloudKept, ReturnMoves DEF StatusType
<1>3. Knows(m)' /\ ObjectType'
  BY Zenon, <1>1, <1>2, IdleKnows DEF ObjectType
<1>4. ObjectAt(m)' /\ GroupInv' /\ (Present(m) => Present(m)')
  BY <1>1, <1>2, ZenonT(30) DEF ObjectAt, GroupInv, HasServer, Present, NormalSteps, DeleteSteps,
     BlockSteps, Moved
<1> QED
  BY Zenon, <1>2, <1>3, <1>4, WorkerStep

\* reconcileIPFailoverGroup: a worker that enters itself has a server.
LEMMA reconcileIPFailoverGroupKeeps ==
  ASSUME BlockInv, NEW m \in Machines, reconcileIPFailoverGroup(m)
  PROVE  BlockInv'
<1> DEFINE own == [ip |-> ip[m], nic |-> m]
<1>1. LocalType /\ ObjectType /\ GroupInv /\ ObjectAt(m) /\ pc[m] = "group"
  BY Zenon DEF BlockInv, reconcileIPFailoverGroup
<1>2. own \in [ip : Nat, nic : Machines] /\ own.nic = m /\ HasServer(m)
  BY Zenon, <1>1 DEF LocalType, ObjectAt, HasServer, NormalSteps
<1>3. group' \subseteq group \cup {own}
  BY ZenonT(30) DEF reconcileIPFailoverGroup
<1> HIDE DEF own
<1>4. group' \subseteq [ip : Nat, nic : Machines] /\ \A e \in group' : HasServer(e.nic)
  BY Zenon, <1>1, <1>2, <1>3 DEF ObjectType, GroupInv
<1> QED
  BY <1>4, GroupStep, ZenonT(30) DEF reconcileIPFailoverGroup

-----------------------------------------------------------------------------
(***************************************************************************)
(* The deletion.                                                           *)
(***************************************************************************)
\* ReconcileIPFailoverDeletion: the entry is handed over to a server that is there.
LEMMA ReconcileIPFailoverDeletionKeeps ==
  ASSUME BlockInv, NEW m \in Machines, ReconcileIPFailoverDeletion(m)
  PROVE  BlockInv'
<1>1. LocalType /\ ObjectType /\ GroupInv /\ ObjectAt(m)
  BY Zenon DEF BlockInv
<1>2. pc[m] = "releaseD" /\ UNCHANGED <<obj, cached, curReq, srv, nicIPs, faults, cloudVars>>
  BY Zenon DEF ReconcileIPFailoverDeletion
<1>3. CASE Goto(m, "serverD") /\ UNCHANGED <<group, localVars, lock>>
  <2>1. ObjectsKept /\ UNCHANGED <<block, request, ip, lock>>
    BY Zenon, <1>2, <1>3 DEF localVars, ObjectsKept
  <2>2. "serverD" \in Steps /\ StepFits(m, "serverD")
    BY Zenon, <1>1, <1>2 DEF Steps, StepFits, ObjectAt, NormalSteps, DeleteSteps, BlockSteps
  <2>3. Knows(m)'
    BY Zenon, <1>1, <1>3, <2>1, <2>2, GotoMoves, IdleKnows
  <2> QED
    BY Zenon, <1>2, <1>3, <2>1, <2>2, <2>3, GoOnKeeps
<1>4. ASSUME NEW e \in group, group' = group \ {e}, Return(m)
      PROVE  BlockInv'
  <2>1. group' \subseteq [ip : Nat, nic : Machines] /\ \A f \in group' : HasServer(f.nic)
    BY Zenon, <1>1, <1>4 DEF ObjectType, GroupInv
  <2> QED
    BY Zenon, <1>2, <1>4, <2>1, GroupStep
<1>5. ASSUME NEW e \in group, NEW n \in ListMachines \ {m}, Return(m),
             group' = IF HasServer(n) THEN (group \ {e}) \cup {[e EXCEPT !.nic = n]} ELSE group
      PROVE  BlockInv'
  <2> DEFINE f == [e EXCEPT !.nic = n]
  <2>1. f \in [ip : Nat, nic : Machines] /\ f.nic = n
    BY <1>1, ZenonT(30) DEF ObjectType, ListMachines
  <2>2. group' = IF HasServer(n) THEN (group \ {e}) \cup {f} ELSE group
    BY Zenon, <1>5
  <2> HIDE DEF f
  <2>3. group' \subseteq [ip : Nat, nic : Machines] /\ \A g \in group' : HasServer(g.nic)
    BY Zenon, <1>1, <2>1, <2>2 DEF ObjectType, GroupInv
  <2> QED
    BY Zenon, <1>2, <1>5, <2>3, GroupStep
<1> QED
  BY Zenon, <1>3, <1>4, <1>5 DEF ReconcileIPFailoverDeletion

\* ReconcileServerDeletion: the steps at the block come after the server.
LEMMA ReconcileServerDeletionKeeps ==
  ASSUME BlockInv, NEW m \in Machines, ReconcileServerDeletion(m)
  PROVE  BlockInv'
<1>1. CloudOK /\ LocalType /\ ObjectType /\ StatusType /\ GroupInv /\ ObjectAt(m)
  BY Zenon DEF BlockInv
<1>2. pc[m] = "serverD" /\ UNCHANGED <<obj, cached, curReq, nicIPs, group, faults, cloudVars>>
  BY Zenon DEF ReconcileServerDeletion
<1>3. CASE ~HasServer(m) /\ Goto(m, "lockD") /\ UNCHANGED <<srv, localVars, lock>>
  <2>1. ObjectsKept /\ UNCHANGED <<block, request, ip, lock>>
    BY Zenon, <1>2, <1>3 DEF localVars, ObjectsKept
  <2>2. "lockD" \in Steps /\ StepFits(m, "lockD")
    BY Zenon, <1>1, <1>2, <1>3 DEF Steps, StepFits, ObjectAt, NormalSteps, DeleteSteps
  <2>3. Knows(m)'
    BY Zenon, <1>1, <1>3, <2>1, <2>2, GotoMoves, IdleKnows
  <2> QED
    BY Zenon, <1>2, <1>3, <2>1, <2>2, <2>3, GoOnKeeps
<1>4. CASE HasServer(m) /\ srv' = [srv EXCEPT ![m] = "deleting"] /\ Return(m)
  <2>1. CloudStep /\ Moved(m, "idle") /\ StatusType'
    BY Zenon, <1>1, <1>2, <1>4, CloudKept, ReturnMoves DEF StatusType
  <2>2. /\ srv'[m] = "deleting" /\ \A n \in Machines \ {m} : srv'[n] = srv[n]
        /\ ObjectType'
    BY Zenon, <1>1, <1>2, <1>4 DEF ObjectType
  <2>3. Knows(m)'
    BY Zenon, <2>1, IdleKnows
  <2>4. ObjectAt(m)' /\ (Present(m) => Present(m)')
    BY Zenon, <1>1, <1>2, <1>4, <2>1, <2>2 DEF ObjectAt, HasServer, Present, NormalSteps, DeleteSteps,
       BlockSteps, Moved
  <2>5. GroupInv'
    BY Zenon, <1>1, <1>2, <2>2 DEF GroupInv, HasServer, ObjectType
  <2> QED
    BY Zenon, <1>2, <2>1, <2>2, <2>3, <2>4, <2>5, WorkerStep
<1> QED
  BY <1>3, <1>4, ZenonT(30) DEF ReconcileServerDeletion

\* The finalizer is removed without a block, or before another worker that has still to
\* come past it.
LEMMA FinalizerStep ==
  ASSUME BlockInv, NEW m \in Machines, pc[m] \in BlockSteps, RemoveFinalizer(m), StatusType',
         UNCHANGED <<cached, groupVars, cloudVars>>,
         Blocks = {} \/ \E n \in Machines \ {m} : Present(n)
  PROVE  BlockInv'
<1>1. CloudOK /\ LocalType /\ ObjectType /\ GroupInv /\ ObjectAt(m)
  BY Zenon DEF BlockInv
<1>2. CloudStep /\ Moved(m, "idle")
  BY Zenon, <1>1, CloudKept, ReturnMoves DEF RemoveFinalizer
<1>3. /\ UNCHANGED <<cached, srv, nicIPs, group>> /\ obj'[m] = "gone"
      /\ ObjectType' /\ \A n \in Machines \ {m} : obj'[n] = obj[n]
  BY Zenon, <1>1 DEF groupVars, RemoveFinalizer, ObjectType, ObjectStates
<1>4. Knows(m)'
  BY Zenon, <1>2, IdleKnows
<1>5. ObjectAt(m)' /\ GroupInv'
  <2>1. ~HasServer(m) /\ cached[m] \in {"deleting", "gone"} /\ pc'[m] = "idle"
    BY Zenon, <1>1, <1>2 DEF ObjectAt, BlockSteps, DeleteSteps, Moved
  <2> QED
    BY Zenon, <1>1, <1>3, <2>1 DEF ObjectAt, GroupInv, HasServer, NormalSteps, DeleteSteps, BlockSteps
<1> QED
  BY Zenon, <1>2, <1>3, <1>4, <1>5, WorkerStep

\* A step of the block's deletion goes on to the next one.
LEMMA BlockGoOn ==
  ASSUME BlockInv, NEW m \in Machines, NEW step \in {"requestD", "lanD", "deleteD"},
         pc[m] \in {"decideD", "requestD", "lanD"}, pc[m] = "decideD" => block[m] # NoBlock,
         Goto(m, step),
         UNCHANGED <<obj, cached, curReq, localVars, lock, faults, groupVars, cloudVars>>
  PROVE  BlockInv'
<1>1. LocalType /\ Knows(m) /\ ObjectAt(m)
  BY Zenon DEF BlockInv
<1>2. ObjectsKept /\ UNCHANGED <<block, request, ip, lock, reqs, res>>
  BY Zenon DEF localVars, groupVars, cloudVars, ObjectsKept
<1>3. step \in Steps /\ StepFits(m, step)
  BY Zenon, <1>1 DEF Steps, StepFits, ObjectAt, NormalSteps, DeleteSteps, BlockSteps
<1>4. pc'[m] = step
  BY Zenon, <1>1, <1>2, <1>3, GotoMoves DEF Moved
<1>5. Blocks' = Blocks /\ Blocks \subseteq {block[m].id} /\ lock = m
  BY Zenon, <1>1, <1>2 DEF Blocks, Posts, Listed, isPending, Knows, LockedSteps, BlockSteps
<1>6. Knows(m)'
  BY Zenon, <1>2, <1>4, <1>5 DEF Knows
<1> QED
  BY Zenon, <1>2, <1>3, <1>6, GoOnKeeps

\* A creation that is pending is waited for; without one there is no block.
LEMMA AwaitCreationKeeps ==
  ASSUME BlockInv, NEW m \in Machines, AwaitCreation(m)
  PROVE  BlockInv'
<1>1. CloudOK /\ LocalType /\ StatusType /\ Knows(m)
  BY Zenon DEF BlockInv
<1>2. pc[m] = "decideD" /\ UNCHANGED <<cached, groupVars, cloudVars>>
  BY Zenon DEF AwaitCreation
<1>3. CASE block[m] # NoBlock /\ Goto(m, "requestD") /\ UNCHANGED <<obj, curReq, localVars, lock, faults>>
  BY Zenon, <1>2, <1>3, BlockGoOn
<1>4. CASE SetCurrentRequest(m, request[m].id) /\ Return(m) /\ UNCHANGED obj
  <2>1. request[m].id \in Nat /\ ObjectsKept
    BY Zenon, <1>1, <1>2, <1>4 DEF LocalType, ObjectsKept, groupVars
  <2>2. CloudStep /\ StatusType'
    BY Zenon, <1>1, <1>2, <1>4, <2>1, CloudKept, CurrentRequestType
  <2> QED
    BY Zenon, <1>4, <2>1, <2>2, ReturnKeeps
<1>5. CASE /\ block[m] = NoBlock /\ ~creationPending(m) /\ RemoveFinalizer(m)
           /\ curReq' = [curReq EXCEPT ![m] = None] /\ UNCHANGED faults
  <2>1. Blocks = {} /\ pc[m] \in BlockSteps
    BY Zenon, <1>1, <1>2, <1>5 DEF Knows, BlockSteps
  <2>2. StatusType'
    BY Zenon, <1>1, <1>5 DEF StatusType, None
  <2> QED
    BY Zenon, <1>2, <1>5, <2>1, <2>2, FinalizerStep
<1> QED
  BY <1>3, <1>4, <1>5, ZenonT(30) DEF AwaitCreation

\* A deletion that is DONE was that of the only block.
LEMMA AwaitDeletionKeeps ==
  ASSUME BlockInv, NEW m \in Machines, AwaitDeletion(m)
  PROVE  BlockInv'
<1>1. CloudOK /\ StatusType /\ Knows(m)
  BY Zenon DEF BlockInv
<1>2. pc[m] = "requestD" /\ UNCHANGED <<cached, groupVars, cloudVars>>
  BY Zenon DEF AwaitDeletion
<1>3. DOMAIN reqs \subseteq Nat \ {0} /\ CloudInv
  BY <1>1 DEF CloudOK, CloudTypeOK, RequestInv
<1>4. ASSUME NEW i \in DOMAIN reqs, SetCurrentRequest(m, i), Return(m), UNCHANGED obj
      PROVE  BlockInv'
  <2>1. CloudStep /\ StatusType'
    BY Zenon, <1>1, <1>2, <1>3, <1>4, CloudKept, CurrentRequestType
  <2>2. ObjectsKept
    BY Zenon, <1>2, <1>4 DEF ObjectsKept, groupVars
  <2> QED
    BY Zenon, <1>4, <2>1, <2>2, ReturnKeeps
<1>5. ASSUME NEW i \in DOMAIN reqs, DeletionRequest(i, block[m].id), isDone(i), RemoveFinalizer(m),
             curReq' = [curReq EXCEPT ![m] = None], UNCHANGED faults
      PROVE  BlockInv'
  <2>1. reqs[i].method = "DELETE" /\ reqs[i].id = block[m].id
    BY Zenon, <1>3, <1>5 DEF DeletionRequest, getMatchingRequest
  <2>2. block[m].id \notin Blocks
    <3>1. /\ reqs[i].id \in DOMAIN reqs /\ reqs[i].id < i /\ res[reqs[i].id] = "absent"
          /\ reqs[reqs[i].id].method = "POST" /\ reqs[i].status = "DONE"
      BY Zenon, <1>3, <1>5, <2>1 DEF CloudInv, isDone
    <3>2. ~isPending(block[m].id)
      BY <1>3, <2>1, <3>1 DEF CloudInv
    <3> QED
      BY Zenon, <2>1, <3>1, <3>2 DEF Blocks, Listed
  <2>3. Blocks = {} /\ pc[m] \in BlockSteps
    BY Zenon, <1>1, <1>2, <2>2 DEF Knows, BlockSteps
  <2>4. StatusType'
    BY Zenon, <1>1, <1>5 DEF StatusType, None
  <2> QED
    BY Zenon, <1>2, <1>5, <2>3, <2>4, FinalizerStep
<1>6. CASE Goto(m, "lanD") /\ UNCHANGED <<obj, curReq, localVars, lock, faults>>
  BY Zenon, <1>2, <1>6, BlockGoOn
<1> QED
  BY Zenon, <1>4, <1>5, <1>6 DEF AwaitDeletion

\* An entry of the group that has the block's IP belongs to another worker, since the
\* server of this one is gone.
LEMMA CheckBlockUseKeeps ==
  ASSUME BlockInv, NEW m \in Machines, CheckBlockUse(m)
  PROVE  BlockInv'
<1>1. StatusType /\ ObjectType /\ GroupInv /\ \A n \in Machines : ObjectAt(n)
  BY Zenon DEF BlockInv
<1>2. pc[m] = "lanD" /\ UNCHANGED <<cached, curReq, groupVars, faults, cloudVars>>
  BY Zenon DEF CheckBlockUse
<1>3. CASE shouldSkipIPBlockDeletion(block[m].id) /\ RemoveFinalizer(m)
  <2>1. PICK e \in group : e.ip = block[m].id
    BY Zenon, <1>3 DEF shouldSkipIPBlockDeletion
  <2>2. e.nic \in Machines /\ HasServer(e.nic) /\ Present(e.nic)
    BY Zenon, <1>1 DEF ObjectType, GroupInv, ObjectAt, Present
  <2>3. ~HasServer(m) /\ pc[m] \in BlockSteps
    BY Zenon, <1>1, <1>2 DEF ObjectAt, BlockSteps
  <2>4. StatusType'
    BY Zenon, <1>1, <1>2 DEF StatusType
  <2> QED
    BY <1>2, <1>3, <2>2, <2>3, <2>4, FinalizerStep, ZenonT(30)
<1>4. CASE Goto(m, "deleteD") /\ UNCHANGED <<obj, localVars, lock>>
  BY Zenon, <1>2, <1>4, BlockGoOn
<1> QED
  BY <1>3, <1>4, ZenonT(30) DEF CheckBlockUse

\* deleteFailoverIPBlock: the finalizer stays until the request is seen to be DONE.
LEMMA deleteFailoverIPBlockKeeps ==
  ASSUME BlockInv, NEW m \in Machines, deleteFailoverIPBlock(m)
  PROVE  BlockInv'
<1>1. CloudOK /\ StatusType /\ block[m].id \in Nat
  BY Zenon DEF BlockInv, LocalType
<1>2. ObjectsKept /\ Return(m)
  BY Zenon DEF deleteFailoverIPBlock, ObjectsKept, groupVars
<1>3. CASE Delete(block[m].id) /\ SetCurrentRequest(m, Len(reqs) + 1)
  <2>1. Len(reqs) + 1 \in Nat
    BY <1>1 DEF CloudOK, CloudTypeOK
  <2>2. CloudStep /\ StatusType'
    BY Zenon, <1>1, <1>3, <2>1, DeleteKeeps, CurrentRequestType
  <2> QED
    BY Zenon, <1>2, <2>2, ReturnKeeps
<1>4. CASE UNCHANGED <<cloudVars, curReq, faults>>
  <2>1. CloudStep /\ StatusType'
    BY Zenon, <1>1, <1>4, CloudKept DEF StatusType
  <2> QED
    BY Zenon, <1>2, <2>1, ReturnKeeps
<1> QED
  BY <1>3, <1>4, ZenonT(30) DEF deleteFailoverIPBlock

-----------------------------------------------------------------------------
(***************************************************************************)
(* Faults, and what happens outside the controller.                        *)
(***************************************************************************)
LEMMA StepErrorKeeps ==
  ASSUME BlockInv, NEW m \in Machines, StepError(m)
  PROVE  BlockInv'
<1>1. CloudOK /\ StatusType
  BY Zenon DEF BlockInv
<1>2. CloudStep /\ StatusType'
  BY <1>1, CloudKept DEF StepError, Fault, StatusType
<1> QED
  BY Zenon, <1>2, ReturnKeeps DEF StepError, ObjectsKept, groupVars

\* A step of nobody's reconcile, which changes none of the objects in the API server,
\* the servers and the group.
LEMMA CloudOnly ==
  ASSUME BlockInv, CloudStep, LocalType', StatusType',
         UNCHANGED <<obj, srv, nicIPs, group>>, ObjectType',
         \A m \in Machines : Knows(m)' /\ ObjectAt(m)'
  PROVE  BlockInv'
<1>1. Newest /\ GroupInv /\ NoOrphanedFailoverBlock
  BY Zenon DEF BlockInv
<1>2. Newest' /\ GroupInv' /\ NoOrphanedFailoverBlock'
  BY <1>1, ZenonT(30) DEF Newest, GroupInv, HasServer, NoOrphanedFailoverBlock, CloudStep, Shrinks
<1> QED
  BY Zenon, <1>2 DEF BlockInv, CloudStep

\* A crash takes the lock and what the holder knew, and none of the objects.
LEMMA CrashKeeps ==
  ASSUME BlockInv, Crash
  PROVE  BlockInv'
<1>1. CloudOK /\ LocalType /\ ObjectType /\ StatusType /\ \A m \in Machines : ObjectAt(m)
  BY Zenon DEF BlockInv
<1>2. CloudStep
  BY Zenon, <1>1, CloudKept DEF Crash
<1>3. /\ UNCHANGED <<obj, curReq, srv, nicIPs, group>> /\ cached' = obj
      /\ \A m \in Machines : pc'[m] = "idle"
  BY Zenon DEF Crash, groupVars
<1>4. LocalType' /\ StatusType'
  BY <1>1 DEF Crash, Fault, LocalType, StatusType, NoBlock, NoRequest, None, Statuses, Steps
<1>5. ObjectType' /\ \A m \in Machines : ObjectAt(m)'
  BY Zenon, <1>1, <1>3 DEF ObjectType, ObjectAt, HasServer, NormalSteps, DeleteSteps, BlockSteps
<1>6. \A m \in Machines : Knows(m)'
  BY Zenon, <1>3 DEF Knows, LockedSteps, BlockSteps
<1> QED
  BY Zenon, <1>2, <1>3, <1>4, <1>5, <1>6, CloudOnly

LEMMA BlockRequestKeeps ==
  ASSUME BlockInv, NEW i \in DOMAIN reqs, BlockRequest(i)
  PROVE  BlockInv'
<1>1. /\ CloudOK /\ LocalType /\ ObjectType /\ StatusType
      /\ \A m \in Machines : Knows(m) /\ ObjectAt(m)
  BY Zenon DEF BlockInv
<1>2. CloudStep
  BY Zenon, <1>1, CloudRequestKeeps DEF BlockRequest
<1>3. UNCHANGED <<obj, cached, curReq, pc, block, request, ip, lock, srv, nicIPs, group>>
  BY Zenon DEF BlockRequest, localVars, groupVars
<1>4. LocalType' /\ ObjectType'
  BY Zenon, <1>1, <1>3 DEF LocalType, ObjectType
<1>5. StatusType'
  BY <1>1, <1>3 DEF BlockRequest, Fault, StatusType
<1>6. \A m \in Machines : Knows(m)'
  BY Zenon, <1>1, <1>2, <1>3, KnowsKept DEF CloudStep
<1>7. \A m \in Machines : ObjectAt(m)'
  BY <1>1, <1>3, ZenonT(30) DEF ObjectAt, HasServer
<1> QED
  BY Zenon, <1>2, <1>3, <1>4, <1>5, <1>6, <1>7, CloudOnly

LEMMA StutterKeeps ==
  ASSUME BlockInv, UNCHANGED vars
  PROVE  BlockInv'
<1>1. /\ CloudOK /\ LocalType /\ ObjectType /\ StatusType
      /\ \A m \in Machines : Knows(m) /\ ObjectAt(m)
  BY Zenon DEF BlockInv
<1>2. UNCHANGED <<obj, cached, curReq, pc, block, request, ip, lock, srv, nicIPs, group, faults>>
  BY Zenon DEF vars, localVars, groupVars
<1>3. CloudStep
  BY Zenon, <1>1, CloudKept DEF vars
<1>4. LocalType' /\ ObjectType' /\ StatusType'
  BY Zenon, <1>1, <1>2 DEF LocalType, ObjectType, StatusType
<1>5. \A m \in Machines : Knows(m)'
  BY Zenon, <1>1, <1>2, <1>3, KnowsKept DEF CloudStep
<1>6. \A m \in Machines : ObjectAt(m)'
  BY <1>1, <1>2, ZenonT(30) DEF ObjectAt, HasServer
<1> QED
  BY Zenon, <1>2, <1>3, <1>4, <1>5, <1>6, CloudOnly

\* The user, the cache and the servers: no step of a reconcile.
LEMMA OutsideKeeps ==
  ASSUME BlockInv, NEW m \in Machines,
         CacheSync(m) \/ CreateMachine(m) \/ DeleteMachine(m) \/ ServerRequest(m)
  PROVE  BlockInv'
<1>1. CloudOK /\ LocalType /\ ObjectType /\ StatusType /\ Knows(m) /\ ObjectAt(m) /\ GroupInv
  BY Zenon DEF BlockInv
<1>2. UNCHANGED <<curReq, pc, block, request, ip, lock, nicIPs, group, faults, cloudVars>>
  BY Zenon DEF CacheSync, CreateMachine, DeleteMachine, SetObject, ServerRequest, localVars, groupVars
<1>3. CloudStep /\ Shrinks
  BY Zenon, <1>1, <1>2, CloudKept DEF CloudStep
<1>4. Moved(m, pc[m]) /\ StatusType'
  BY Zenon, <1>1, <1>2 DEF Moved, LocalType, StatusType
<1>5. Knows(m)'
  BY Zenon, <1>1, <1>2, <1>3, KnowsKept
<1>6. CASE CacheSync(m)
  <2>1. /\ UNCHANGED <<obj, srv>> /\ cached'[m] = obj[m] /\ ObjectType'
        /\ \A n \in Machines \ {m} : cached'[n] = cached[n]
    BY Zenon, <1>1, <1>2, <1>6 DEF CacheSync, ObjectType, groupVars
  <2>2. ObjectAt(m)' /\ GroupInv' /\ (Present(m) => Present(m)')
    BY Zenon, <1>1, <1>2, <2>1 DEF ObjectAt, GroupInv, HasServer, Present
  <2> QED
    BY Zenon, <1>3, <1>4, <1>5, <2>1, <2>2, WorkerStep
<1>7. ASSUME NEW from, NEW to \in {"live", "deleting"}, SetObject(m, from, to),
             from \in {"absent", "live"}, from = "live" => to = "deleting", from = "absent" => to = "live"
      PROVE  BlockInv'
  <2>1. /\ obj[m] = from /\ obj'[m] = to /\ cached'[m] = to /\ UNCHANGED srv /\ ObjectType'
        /\ \A n \in Machines \ {m} : obj'[n] = obj[n] /\ cached'[n] = cached[n]
    BY Zenon, <1>1, <1>2, <1>7 DEF SetObject, ObjectType, ObjectStates, groupVars
  <2>2. ObjectAt(m)' /\ GroupInv' /\ Present(m)'
    BY Zenon, <1>1, <1>2, <1>7, <2>1 DEF ObjectAt, GroupInv, HasServer, Present, NormalSteps, DeleteSteps
  <2> QED
    BY Zenon, <1>3, <1>4, <1>5, <2>1, <2>2, WorkerStep
<1>8. CASE ServerRequest(m)
  <2>1. /\ UNCHANGED <<obj, cached>> /\ ObjectType' /\ \A n \in Machines \ {m} : srv'[n] = srv[n]
        /\ \/ srv[m] = "none" /\ obj[m] = "live" /\ srv'[m] = "up"
           \/ srv[m] = "deleting" /\ srv'[m] \in {"up", "gone"}
        /\ srv[m] = "deleting" /\ (\E e \in group : e.nic = m) => srv'[m] = "up"
    BY Zenon, <1>1, <1>2, <1>8 DEF ServerRequest, ObjectType
  <2>2. ObjectAt(m)' /\ (Present(m) => Present(m)')
    BY Zenon, <1>1, <1>2, <2>1 DEF ObjectAt, HasServer, Present, NormalSteps, DeleteSteps, BlockSteps
  <2>3. GroupInv'
    BY <1>1, <1>2, <2>1, ZenonT(30) DEF GroupInv, HasServer, ObjectType
  <2> QED
    BY Zenon, <1>3, <1>4, <1>5, <2>1, <2>2, <2>3, WorkerStep
<1> QED
  BY Zenon, <1>6, <1>7, <1>8 DEF CreateMachine, DeleteMachine

-----------------------------------------------------------------------------
(***************************************************************************)
(* The theorems.                                                           *)
(***************************************************************************)
\* The inductive invariant: what the requests say of the blocks, what the holder of the
\* lock knows of them, and who still has to come past the block.
THEOREM BlockInvariant == Spec => []BlockInv
<1>1. Init => BlockInv
  <2> SUFFICES ASSUME Init PROVE BlockInv
    OBVIOUS
  <2>1. reqs = <<>> /\ res = <<>> /\ DOMAIN reqs = {}
    BY DEF Init
  <2>2. CloudOK /\ Blocks = {} /\ Newest
    BY <2>1 DEF CloudOK, CloudTypeOK, Posts, Blocks, RequestInv, CloudInv, Newest
  <2>3. LocalType /\ ObjectType /\ StatusType
    BY Zenon DEF Init, LocalType, ObjectType, StatusType, Steps, ObjectStates, NoBlock, NoRequest, None, Statuses
  <2>4. \A m \in Machines : Knows(m) /\ ObjectAt(m)
    BY Zenon DEF Init, Knows, ObjectAt, HasServer, LockedSteps, BlockSteps, NormalSteps, DeleteSteps
  <2>5. GroupInv /\ NoOrphanedFailoverBlock
    BY Zenon, <2>2 DEF Init, GroupInv, NoOrphanedFailoverBlock
  <2> QED
    BY Zenon, <2>2, <2>3, <2>4, <2>5 DEF BlockInv
<1>2. BlockInv /\ [Next]_vars => BlockInv'
  <2> SUFFICES ASSUME BlockInv, [Next]_vars PROVE BlockInv'
    OBVIOUS
  <2>1. ASSUME NEW m \in Machines, Reconcile(m) PROVE BlockInv'
    BY Zenon, <2>1, StartReconcileKeeps, LookupKeeps, CheckQueueKeeps, RetrieveFailoverIPKeeps,
       ReconcileNICKeeps, reconcileIPFailoverGroupKeeps, ReconcileIPFailoverDeletionKeeps,
       ReconcileServerDeletionKeeps, AwaitCreationKeeps, AwaitDeletionKeeps,
       CheckBlockUseKeeps, deleteFailoverIPBlockKeeps DEF Reconcile
  <2>2. ASSUME NEW m \in Machines,
               \/ StepError(m) \/ CacheSync(m) \/ CreateMachine(m)
               \/ DeleteMachine(m) \/ ServerRequest(m)
        PROVE  BlockInv'
    BY Zenon, <2>2, StepErrorKeeps, OutsideKeeps
  <2>3. CASE UNCHANGED vars
    BY Zenon, <2>3, StutterKeeps
  <2> QED
    BY Zenon, <2>1, <2>2, <2>3, BlockRequestKeeps, CrashKeeps DEF Next
<1> QED
  BY <1>1, <1>2, PTL DEF Spec

\* Type correctness of the workers, the block's requests and the failover group.
THEOREM BlockTypeOK == Spec => []TypeOK
<1>1. BlockInv => TypeOK
  BY Zenon DEF BlockInv, CloudOK, LocalType, ObjectType, StatusType, Steps, TypeOK
<1> QED
  BY <1>1, BlockInvariant, PTL

\* The workers of a MachineDeployment never reserve two failover IP blocks
\* (retrieveFailoverIPForMachine), whatever fails and whenever the controller restarts.
THEOREM OneFailoverBlock == Spec => []AtMostOneFailoverBlock
<1>1. BlockInv => AtMostOneFailoverBlock
  <2> SUFFICES ASSUME BlockInv, NEW b \in Blocks, NEW c \in Blocks PROVE b = c
    BY Zenon DEF AtMostOneFailoverBlock
  <2>1. CloudTypeOK /\ Newest
    BY Zenon DEF BlockInv, CloudOK
  <2>2. b \in Nat /\ c \in Nat /\ b \in Posts /\ c \in Posts
    BY <2>1 DEF CloudTypeOK, Blocks, Posts
  <2> QED
    BY <2>1, <2>2 DEF Newest
<1> QED
  BY <1>1, BlockInvariant, PTL

\* A block is left behind by a worker (ReconcileFailoverIPBlockDeletion) only while
\* another worker has still to come past it.
THEOREM FailoverBlockNotOrphaned == Spec => []NoOrphanedFailoverBlock
<1>1. BlockInv => NoOrphanedFailoverBlock
  BY Zenon DEF BlockInv
<1> QED
  BY <1>1, BlockInvariant, PTL

-----------------------------------------------------------------------------
(***************************************************************************)
(* The block is a managed resource of the workers.                         *)
(***************************************************************************)
LEMMA BlocksNamed ==
  ASSUME BlockInv, BlockInv'
  PROVE  /\ Blocks = ResourcesOf(BlockName) /\ Blocks' = ResourcesOf(BlockName)'
         /\ CreatedBlocks = CreatedOf(BlockName) /\ CreatedBlocks' = CreatedOf(BlockName)'
<1>1. RequestInv /\ RequestInv'
  BY Zenon DEF BlockInv, CloudOK
<1>2. Blocks = ResourcesOf(BlockName) /\ Blocks' = ResourcesOf(BlockName)'
  BY Zenon, <1>1 DEF RequestInv, Blocks, Posts, ResourcesOf, Resources
<1> QED
  BY Zenon, <1>2 DEF CreatedBlocks, CreatedOf

\* A step makes no call, or it reserves the block for a worker that has its finalizer, or
\* it creates no resource; a deletion is requested for a worker that is deleted.
LEMMA BlockCalls ==
  ASSUME BlockInv, [Next]_vars
  PROVE  \/ UNCHANGED cloudVars
         \/ UNCHANGED obj /\ Post(BlockName) /\ Blocks = {} /\ Held
         \/ UNCHANGED obj /\ Kept /\ Durable /\ (Ending \/ (NoDeletion => NoDeletion'))
<1>1. /\ CloudTypeOK /\ CloudInv /\ LocalType
      /\ \A m \in Machines : Knows(m) /\ ObjectAt(m)
  BY Zenon DEF BlockInv, CloudOK, RequestInv
<1>2. ASSUME NEW m \in Machines, RetrieveFailoverIP(m)
      PROVE  UNCHANGED cloudVars \/ (UNCHANGED obj /\ Post(BlockName) /\ Blocks = {} /\ Held)
  <2>1. /\ pc[m] = "decide" /\ UNCHANGED obj
        /\ UNCHANGED cloudVars \/ (Post(BlockName) /\ block[m] = NoBlock /\ ~creationPending(m))
    BY Zenon, <1>2 DEF RetrieveFailoverIP, ReserveBlock
  <2>2. block[m] = NoBlock /\ ~creationPending(m) => Blocks = {}
    BY Zenon, <1>1, <2>1 DEF Knows
  <2>3. Held
    BY Zenon, <1>1, <2>1 DEF ObjectAt, NormalSteps, Held
  <2> QED
    BY Zenon, <2>1, <2>2, <2>3
<1>3. ASSUME NEW m \in Machines, deleteFailoverIPBlock(m)
      PROVE  UNCHANGED cloudVars \/ (UNCHANGED obj /\ Kept /\ Durable /\ Ending)
  <2>1. /\ pc[m] = "deleteD" /\ UNCHANGED obj
        /\ UNCHANGED cloudVars \/ Submit("DELETE", block[m].id)
    BY Zenon, <1>3 DEF deleteFailoverIPBlock, Delete
  <2>2. Ending
    BY Zenon, <1>1, <2>1 DEF ObjectAt, DeleteSteps, Ending
  <2>3. "DELETE" \in Methods \ {"POST"} /\ block[m].id \in Nat
    <3>1. block[m] \in [id : Nat, available : BOOLEAN]
      BY Zenon, <1>1 DEF LocalType
    <3> QED
      BY Zenon, <3>1 DEF Methods
  <2> QED
    BY Zenon, <1>1, <2>1, <2>2, <2>3, RequestSubmitted
<1>4. ASSUME NEW i \in DOMAIN reqs, BlockRequest(i)
      PROVE  UNCHANGED obj /\ Kept /\ Durable /\ (NoDeletion => NoDeletion')
  <2>1. UNCHANGED obj /\ (Run(i) \/ Finish(i, {}) \/ Fail(i))
    BY Zenon, <1>4 DEF BlockRequest
  <2>2. Kept /\ Durable /\ DOMAIN reqs' = DOMAIN reqs
    BY Zenon, <1>1, <2>1, RequestExecuted
  <2> QED
    BY Zenon, <2>1, <2>2 DEF NoDeletion, Kept
<1>5. ASSUME NEW m \in Machines,
             StartReconcile(m) \/ LockBlock(m) \/ CheckQueue(m) \/ LookUpAgain(m)
               \/ ReconcileNIC(m) \/ reconcileIPFailoverGroup(m)
               \/ ReconcileIPFailoverDeletion(m) \/ ReconcileServerDeletion(m)
      PROVE  UNCHANGED cloudVars
  BY Zenon, <1>5 DEF StartReconcile, LockBlock, CheckQueue, LookUpAgain, ReconcileNIC, reconcileIPFailoverGroup,
     ReconcileIPFailoverDeletion, ReconcileServerDeletion
<1>6. ASSUME NEW m \in Machines,
             AwaitCreation(m) \/ AwaitDeletion(m) \/ CheckBlockUse(m) \/ StepError(m) \/ CacheSync(m)
               \/ CreateMachine(m) \/ DeleteMachine(m) \/ ServerRequest(m)
      PROVE  UNCHANGED cloudVars
  BY Zenon, <1>6 DEF AwaitCreation, AwaitDeletion, CheckBlockUse, StepError, CacheSync, CreateMachine, DeleteMachine,
     SetObject, ServerRequest
<1>7. CASE Crash \/ UNCHANGED vars
  BY Zenon, <1>7 DEF Crash, vars
<1> QED
  BY Zenon, <1>2, <1>3, <1>4, <1>5, <1>6, <1>7 DEF Next, Reconcile

\* What becomes of a worker in the API server.
Moves == {<<"absent", "live">>, <<"live", "deleting">>, <<"deleting", "gone">>}

LEMMA ObjectMoves ==
  ASSUME BlockInv, [Next]_vars
  PROVE  obj' = obj \/ \E m \in Machines, to \in ObjectStates :
                         <<obj[m], to>> \in Moves /\ obj' = [obj EXCEPT ![m] = to]
<1>1. obj \in [Machines -> ObjectStates] /\ \A m \in Machines : ObjectAt(m)
  BY Zenon DEF BlockInv, ObjectType
<1>2. ASSUME NEW m \in Machines, NEW to \in ObjectStates, obj[m] = to, obj' = [obj EXCEPT ![m] = to]
      PROVE  obj' = obj
  BY Zenon, <1>1, <1>2
<1>3. {"live", "deleting", "gone"} \subseteq ObjectStates
  BY Zenon DEF ObjectStates
<1>4. ASSUME NEW m \in Machines, AwaitCreation(m) \/ AwaitDeletion(m) \/ CheckBlockUse(m)
      PROVE  obj' = obj \/ (obj[m] \in {"deleting", "gone"} /\ obj' = [obj EXCEPT ![m] = "gone"])
  <2>1. pc[m] \in DeleteSteps
    BY Zenon, <1>4 DEF AwaitCreation, AwaitDeletion, CheckBlockUse, DeleteSteps
  <2>2. obj' = obj \/ RemoveFinalizer(m)
    BY Zenon, <1>4 DEF AwaitCreation, AwaitDeletion, CheckBlockUse
  <2> QED
    BY Zenon, <1>1, <2>1, <2>2 DEF ObjectAt, RemoveFinalizer
<1>5. ASSUME NEW m \in Machines, CreateMachine(m) \/ DeleteMachine(m)
      PROVE  \/ obj[m] = "absent" /\ obj' = [obj EXCEPT ![m] = "live"]
             \/ obj[m] = "live" /\ obj' = [obj EXCEPT ![m] = "deleting"]
  BY Zenon, <1>5 DEF CreateMachine, DeleteMachine, SetObject
<1>6. ASSUME NEW m \in Machines,
             StartReconcile(m) \/ LockBlock(m) \/ CheckQueue(m) \/ LookUpAgain(m) \/ RetrieveFailoverIP(m)
               \/ ReconcileNIC(m) \/ reconcileIPFailoverGroup(m)
      PROVE  obj' = obj
  BY Zenon, <1>6 DEF StartReconcile, LockBlock, CheckQueue, LookUpAgain, RetrieveFailoverIP, ReconcileNIC,
     reconcileIPFailoverGroup
<1>7. ASSUME NEW m \in Machines,
             ReconcileIPFailoverDeletion(m) \/ ReconcileServerDeletion(m) \/ deleteFailoverIPBlock(m)
               \/ StepError(m) \/ CacheSync(m) \/ ServerRequest(m)
      PROVE  obj' = obj
  BY Zenon, <1>7 DEF ReconcileIPFailoverDeletion, ReconcileServerDeletion, deleteFailoverIPBlock, StepError, CacheSync,
     ServerRequest
<1>8. ASSUME Crash \/ UNCHANGED vars \/ \E i \in DOMAIN reqs : BlockRequest(i)
      PROVE  obj' = obj
  BY Zenon, <1>8 DEF Crash, vars, BlockRequest
<1>9. ASSUME NEW m \in Machines,
             AwaitCreation(m) \/ AwaitDeletion(m) \/ CheckBlockUse(m) \/ CreateMachine(m) \/ DeleteMachine(m)
      PROVE  obj' = obj \/ \E to \in ObjectStates : <<obj[m], to>> \in Moves /\ obj' = [obj EXCEPT ![m] = to]
  BY Zenon, <1>2, <1>3, <1>4, <1>5, <1>9 DEF Moves
<1> QED
  BY Zenon, <1>6, <1>7, <1>8, <1>9 DEF Next, Reconcile

\* Held and Ending follow the worker that moves, never both in one step, and the
\* deletion of a worker is not taken back.
LEMMA HoldersMove ==
  ASSUME BlockInv, [Next]_vars
  PROVE  /\ Held \in BOOLEAN /\ Held' \in BOOLEAN /\ Ending \in BOOLEAN /\ Ending' \in BOOLEAN
         /\ Ending => Ending'
         /\ ~Ending /\ Ending' => Held' = Held
<1>0. Held \in BOOLEAN /\ Held' \in BOOLEAN /\ Ending \in BOOLEAN /\ Ending' \in BOOLEAN
  BY Zenon DEF Held, Ending
<1>1. obj \in [Machines -> ObjectStates]
  BY Zenon DEF BlockInv, ObjectType
<1>2. CASE obj' = obj
  BY Zenon, <1>0, <1>2 DEF Held, Ending
<1>3. ASSUME NEW m \in Machines, NEW to \in ObjectStates,
             <<obj[m], to>> \in Moves, obj' = [obj EXCEPT ![m] = to]
      PROVE  (Ending => Ending') /\ (~Ending /\ Ending' => Held' = Held)
  <2>1. obj'[m] = to /\ \A n \in Machines : n # m => obj'[n] = obj[n]
    BY Zenon, <1>1, <1>3
  <2>2. \/ obj[m] = "absent" /\ to = "live"
        \/ obj[m] = "live" /\ to = "deleting"
        \/ obj[m] = "deleting" /\ to = "gone"
    BY Zenon, <1>3 DEF Moves
  <2>3. Ending => Ending'
    BY Zenon, <2>1, <2>2 DEF Ending
  <2>4. ASSUME ~Ending, Ending' PROVE Held' = Held
    <3>1. obj[m] = "live" /\ to = "deleting"
      BY Zenon, <2>1, <2>2, <2>4 DEF Ending
    <3>2. Held' /\ Held
      BY Zenon, <2>1, <3>1 DEF Held
    <3> QED
      BY Zenon, <1>0, <3>2
  <2> QED
    BY Zenon, <2>3, <2>4
<1> QED
  BY Zenon, <1>0, <1>2, <1>3, ObjectMoves

\* The block's deletion is requested only after the deletion of a worker.
DeletionInv == ~NoDeletion => Ending

LEMMA BlockDeletionInvariant == Spec => []DeletionInv
<1>1. Init => DeletionInv
  <2> SUFFICES ASSUME Init PROVE NoDeletion
    BY Zenon DEF DeletionInv
  <2>1. DOMAIN reqs = {}
    BY DEF Init
  <2> QED
    BY Zenon, <2>1 DEF NoDeletion
<1>2. BlockInv /\ BlockInv' /\ DeletionInv /\ [Next]_vars => DeletionInv'
  <2> SUFFICES ASSUME BlockInv, BlockInv', DeletionInv, [Next]_vars, ~Ending PROVE NoDeletion' \/ Ending'
    BY Zenon, HoldersMove DEF DeletionInv
  <2>1. NoDeletion
    BY Zenon DEF DeletionInv
  <2>2. CASE UNCHANGED cloudVars
    BY Zenon, <2>1, <2>2 DEF NoDeletion, cloudVars
  <2>3. CASE Post(BlockName) /\ Blocks = {}
    <3>1. CloudTypeOK /\ CloudInv /\ BlockName \in Names
      BY Zenon, BlockAssumption DEF BlockInv, CloudOK, RequestInv
    <3> QED
      BY Zenon, <2>1, <2>3, <3>1, ResourceRequested, BlocksNamed
  <2> QED
    BY Zenon, <2>1, <2>2, <2>3, BlockCalls
<1> QED
  BY <1>1, <1>2, BlockInvariant, PTL DEF Spec

\* With the invariants, every step is one of the managed resource or leaves it alone.
LEMMA BlockResourceStep ==
  ASSUME BlockInv, BlockInv', DeletionInv, [Next]_vars
  PROVE  [Resource!Next]_(Resource!resourceVars)
<1>1. CloudTypeOK /\ CloudInv /\ \A b, c \in Blocks : b = c
  <2>1. CloudTypeOK /\ CloudInv /\ Newest
    BY Zenon DEF BlockInv, CloudOK, RequestInv
  <2>2. \A b \in Blocks : b \in Nat /\ b \in Posts
    BY <2>1 DEF CloudTypeOK, Blocks, Posts
  <2> QED
    BY <2>1, <2>2 DEF Newest
<1>2. CASE UNCHANGED cloudVars
  <2>1. Blocks' = Blocks /\ CreatedBlocks' = CreatedBlocks
    BY Zenon, <1>2 DEF cloudVars, Blocks, CreatedBlocks, Posts, isPending, Listed
  <2>2. ~Held' => Blocks = {}
    BY Zenon, <2>1 DEF BlockInv, NoOrphanedFailoverBlock, Held
  <2> QED
    BY Zenon, <2>1, <2>2, HoldersMove DEF Resource!Next, Resource!Hold, Resource!Release, Resource!End,
       Resource!resourceVars
<1>3. CASE UNCHANGED obj /\ Post(BlockName) /\ Blocks = {} /\ Held
  <2>1. BlockName \in Names
    BY Zenon, BlockAssumption
  <2>2. (\E id \in Blocks' : Blocks' = {id}) /\ CreatedBlocks' = {} /\ CreatedBlocks = {}
    BY Zenon, <1>1, <1>3, <2>1, ResourceRequested, BlocksNamed
  <2>3. Held' = Held /\ Ending' = Ending
    BY Zenon, <1>3 DEF Held, Ending
  <2> QED
    BY Zenon, <1>3, <2>2, <2>3 DEF Resource!Next, Resource!Request
<1>4. CASE UNCHANGED obj /\ Kept /\ Durable
  <2>0. \A b, c \in ResourcesOf(BlockName) : b = c
    BY Zenon, <1>1, BlocksNamed
  <2>1. ResourceMoves(BlockName)
    BY Zenon, <1>1, <1>4, <2>0, ResourceStep
  <2>2. Held' = Held /\ Ending' = Ending
    BY Zenon, <1>4 DEF Held, Ending
  <2> QED
    BY Zenon, <2>1, <2>2, BlocksNamed DEF DeletionInv, ResourceMoves, Resource!Next, Resource!Complete, Resource!Fail,
       Resource!Remove, Resource!resourceVars
<1> QED
  BY Zenon, <1>2, <1>3, <1>4, BlockCalls

\* retrieveFailoverIPForMachine and ReconcileFailoverIPBlockDeletion, run by all the
\* workers of a MachineDeployment, implement one managed resource.
THEOREM FailoverBlockImplementsResource == Spec => FailoverBlockManaged
<1>1. Init => Resource!Init
  <2> SUFFICES ASSUME Init PROVE Resource!Init
    OBVIOUS
  <2>1. DOMAIN reqs = {}
    BY DEF Init
  <2>2. Blocks = {} /\ CreatedBlocks = {}
    BY Zenon, <2>1 DEF Blocks, Posts, CreatedBlocks
  <2>3. ~Held /\ ~Ending
    BY DEF Init, Held, Ending
  <2> QED
    BY Zenon, <2>2, <2>3 DEF Resource!Init
<1>2. BlockInv /\ BlockInv' /\ DeletionInv /\ [Next]_vars => [Resource!Next]_(Resource!resourceVars)
  BY Zenon, BlockResourceStep
<1> QED
  BY <1>1, <1>2, BlockInvariant, BlockDeletionInvariant, PTL DEF Spec, FailoverBlockManaged, Resource!Spec
=============================================================================
