-------------------------- MODULE ClusterLANProofs --------------------------
(***************************************************************************)
(* There is never more than one LAN of a cluster, and none is left when    *)
(* the machines are gone, for every number of machines, creations and      *)
(* faults; step by step, the machines implement ManagedResource.           *)
(***************************************************************************)
EXTENDS ClusterLAN, CloudAPIProofs

(***************************************************************************)
(* The inductive invariant.                                                *)
(***************************************************************************)
\* The LAN is the newest one requested, so that getLatestLANCreationRequest finds
\* its request, and what the holder of the lock found out stays true until it acts.
Newest == \A i \in ClusterLANs, j \in DOMAIN reqs :
            reqs[j].method = "POST" /\ reqs[j].name = ClusterName => j <= i
Knows(m) ==
  /\ pc[m] \in {"queue", "queueD"} => lan[m] = NoLAN /\ \A i \in ClusterLANs : reqs[i].recent
  /\ pc[m] \in {"relookup", "relookupD"} => \A i \in ClusterLANs : ~isPending(i)
  /\ pc[m] \in {"decide", "decideD"} /\ lan[m] = NoLAN /\ request[m] # "pending"
       => ClusterLANs = {}
FindInv == Newest /\ \A m \in Machines : (pc[m] \in LockedSteps => lock = m) /\ Knows(m)

\* What the cache and the program counter say of the object and of the server.
ObjectAt(m) ==
  /\ cached[m] = "live" => obj[m] \in {"live", "deleting"}
  /\ cached[m] = "deleting" => obj[m] \in {"deleting", "gone"}
  /\ cached[m] = "gone" => obj[m] = "gone"
  /\ pc[m] \in NormalSteps => obj[m] \in {"live", "deleting"}
  /\ pc[m] \in DeleteSteps => cached[m] \in {"deleting", "gone"}
  /\ srv[m] # "none" => obj[m] \in {"live", "deleting"}
  /\ pc[m] \in NoServerSteps => srv[m] = "none"
ObjectInv == \A m \in Machines : ObjectAt(m)

\* A machine that did not decide yet to leave the LAN to the others.
Stays(m) == obj[m] \in {"live", "deleting"} /\ pc[m] # "finalizerD"

\* Somebody is left to delete the LAN, also when a machine is about to skip it.
OwnerInv ==
  /\ ClusterLANs # {} => \E m \in Machines : Stays(m)
  /\ \A m \in Machines : pc[m] = "decideD" /\ lan[m].used => \E n \in Machines \ {m} : Stays(n)

LANInv == TypeOK /\ CloudInv /\ FindInv /\ ObjectInv /\ OwnerInv

-----------------------------------------------------------------------------
ClusterPosts == {j \in DOMAIN reqs : reqs[j].method = "POST" /\ reqs[j].name = ClusterName}

\* What a step that requests no creation does to the cluster's LANs.
Shrinks == /\ ClusterLANs' \subseteq ClusterLANs
           /\ ClusterPosts' \subseteq ClusterPosts
           /\ \A k \in ClusterLANs' : isPending(k)' => isPending(k)

\* The same, and no request drops out of the list of the last 24 hours.
Remembers == Shrinks /\ \A k \in ClusterLANs' : reqs[k].recent => reqs'[k].recent

-----------------------------------------------------------------------------
(***************************************************************************)
(* The cloud.                                                              *)
(***************************************************************************)
\* A step that makes no resource makes no LAN of the cluster.
LEMMA KeptShrinks ==
  ASSUME Kept
  PROVE  Shrinks /\ (Remembered => Remembers)
<1>1. /\ \A k \in DOMAIN reqs' : reqs'[k].method = "POST" =>
             /\ k \in DOMAIN reqs /\ reqs[k].method = "POST" /\ reqs'[k].name = reqs[k].name
             /\ isPending(k)' => isPending(k)
      /\ Resources' \subseteq Resources
  BY Zenon DEF Kept, isPending
<1>2. ClusterPosts' \subseteq ClusterPosts
  BY Zenon, <1>1 DEF ClusterPosts
<1>3. ClusterLANs' \subseteq ClusterLANs
  <2> SUFFICES ASSUME NEW k \in ClusterLANs' PROVE k \in ClusterLANs
    OBVIOUS
  <2>1. k \in Resources' /\ reqs'[k].name = ClusterName /\ k \in DOMAIN reqs' /\ reqs'[k].method = "POST"
    BY Zenon DEF ClusterLANs, Resources
  <2>2. k \in Resources /\ reqs[k].name = ClusterName
    BY Zenon, <1>1, <2>1
  <2> QED
    BY Zenon, <2>2 DEF ClusterLANs, Resources
<1>4. \A k \in ClusterLANs' : isPending(k)' => isPending(k)
  BY Zenon, <1>1 DEF ClusterLANs
<1>5. Remembered => \A k \in ClusterLANs' : reqs[k].recent => reqs'[k].recent
  BY Zenon, <1>3 DEF ClusterLANs, Remembered
<1> QED
  BY Zenon, <1>2, <1>3, <1>4, <1>5 DEF Shrinks, Remembers

\* A request of the cloud (a LAN is created, deleted or neither) leaves the requests in
\* order and creates no LAN that was not requested.
LEMMA LANRequestKeeps ==
  ASSUME CloudTypeOK, CloudInv, NEW i \in DOMAIN reqs, LANRequest(i)
  PROVE  CloudTypeOK' /\ CloudInv' /\ Remembers
<1>1. Run(i) \/ Finish(i, {}) \/ Fail(i)
  BY Zenon DEF LANRequest, Finish
<1> QED
  BY Zenon, <1>1, RequestExecuted, KeptShrinks

\* deleteLAN's request creates no LAN.
LEMMA DeleteKeeps ==
  ASSUME CloudTypeOK, CloudInv, NEW id, Delete(id)
  PROVE  CloudTypeOK' /\ CloudInv' /\ Remembers
<1>1. "DELETE" \in Methods \ {"POST"}
  BY Zenon DEF Methods
<1>2. CloudTypeOK' /\ CloudInv' /\ Kept /\ Remembered
  BY Zenon, <1>1, RequestSubmitted DEF Delete
<1> QED
  BY Zenon, <1>2, KeptShrinks

\* createLAN's request is the newest and the only new LAN.
LEMMA PostKeeps ==
  ASSUME CloudTypeOK, CloudInv, Post(ClusterName)
  PROVE  /\ CloudTypeOK' /\ CloudInv'
         /\ ClusterLANs' \subseteq ClusterLANs \cup {Len(reqs) + 1}
         /\ \A j \in DOMAIN reqs' : j <= Len(reqs) + 1
<1> DEFINE r == [method |-> "POST", id |-> Len(reqs) + 1, name |-> ClusterName,
                 status |-> "QUEUED", recent |-> TRUE]
<1>1. CloudTypeOK' /\ CloudInv' /\ Accepted(r)
  BY Zenon, ResourcePosted, LANAssumption
<1> HIDE DEF r
<1>2. \A j \in DOMAIN reqs' : j <= Len(reqs) + 1
  BY <1>1 DEF Accepted, CloudTypeOK
<1>3. ClusterLANs' \subseteq ClusterLANs \cup {Len(reqs) + 1}
  BY Zenon, <1>1 DEF Accepted, ClusterLANs, Listed, isPending
<1> QED
  BY Zenon, <1>1, <1>2, <1>3

\* A step that makes no call of the cloud.
LEMMA CloudKept ==
  ASSUME CloudTypeOK, CloudInv, UNCHANGED cloudVars
  PROVE  CloudTypeOK' /\ CloudInv' /\ Remembers
BY Zenon, CloudUnchanged, KeptShrinks

-----------------------------------------------------------------------------
(***************************************************************************)
(* The machines.                                                           *)
(***************************************************************************)
\* getLAN returns nil only when no LAN of the cluster is listed, and the LAN it
\* returns as used has a NIC.
LEMMA getLANType ==
  ASSUME TypeOK
  PROVE  /\ getLAN \in [id : Nat, available : BOOLEAN, used : BOOLEAN]
         /\ getLAN = NoLAN => ListedAs(ClusterName) = {}
         /\ getLAN.used => Attached(getLAN.id) # {}
<1> DEFINE found == IF UsesNetworkID THEN {UserLAN} ELSE ListedAs(ClusterName)
           some == CHOOSE id \in found : TRUE
<1>1. found \subseteq Nat \ {0}
  BY DEF UserLAN, ListedAs, TypeOK, CloudTypeOK
<1>2. CASE found = {}
  <2>1. getLAN = NoLAN
    BY Zenon, <1>2 DEF getLAN
  <2>2. ~UsesNetworkID
    BY Zenon, <1>2
  <2> QED
    BY Zenon, <1>2, <2>1, <2>2 DEF NoLAN
<1>3. CASE found # {}
  <2>1. some \in found
    BY Zenon, <1>3
  <2>2. getLAN = Snapshot(some)
    BY Zenon, <1>3 DEF getLAN
  <2> HIDE DEF some
  <2> QED
    BY Zenon, <1>1, <2>1, <2>2 DEF Snapshot, NoLAN, isAvailable
<1> QED
  BY Zenon, <1>2, <1>3

\* The LAN stays the newest one when none is requested.
LEMMA NewestKept ==
  ASSUME Newest, Shrinks
  PROVE  Newest'
BY Zenon DEF Newest, Shrinks, ClusterPosts

\* What a machine found out stays true while others act.
LEMMA KnowsKept ==
  ASSUME NEW n \in Machines, Knows(n), Remembers,
         pc'[n] = pc[n], lan'[n] = lan[n], request'[n] = request[n]
  PROVE  Knows(n)'
BY Zenon DEF Knows, Remembers, Shrinks, NoLAN

\* A step of machine m leaves the others where they are.
OthersKept(m) == \A n \in Machines \ {m} :
  /\ pc'[n] = pc[n] /\ lan'[n] = lan[n] /\ request'[n] = request[n]
  /\ obj'[n] = obj[n] /\ cached'[n] = cached[n] /\ srv'[n] = srv[n]
  /\ lock = n => lock' = n

\* A step of machine m that creates no LAN preserves LANInv when m's own part of it
\* is preserved, and when m leaves the LAN to others only if there are others or
\* no LAN.
LEMMA MachineStep ==
  ASSUME LANInv, NEW m \in Machines, TypeOK', CloudInv', Remembers, OthersKept(m),
         pc'[m] \in LockedSteps => lock' = m,
         Knows(m)', ObjectAt(m)',
         Stays(m) /\ ~Stays(m)' => /\ pc[m] = "decideD"
                                  /\ \/ ClusterLANs = {}
                                     \/ \E n \in Machines \ {m} : Stays(n),
         pc'[m] = "decideD" /\ lan'[m].used => \E n \in Machines \ {m} : Stays(n)
  PROVE  LANInv'
<1> USE DEF LANInv
<1>1. Newest'
  BY Zenon, NewestKept DEF Remembers, FindInv
<1>2. ASSUME NEW n \in Machines
      PROVE  (pc'[n] \in LockedSteps => lock' = n) /\ Knows(n)'
  <2>1. CASE n = m
    BY Zenon, <2>1
  <2>2. CASE n # m
    BY Zenon, <2>2, KnowsKept DEF OthersKept, FindInv
  <2> QED
    BY Zenon, <2>1, <2>2
<1>3. ObjectInv'
  BY DEF ObjectInv, ObjectAt, OthersKept
<1>4. \A n \in Machines \ {m} : Stays(n) => Stays(n)'
  BY Zenon DEF Stays, OthersKept
<1>5. ClusterLANs' # {} => \E n \in Machines : Stays(n)'
  BY Zenon, <1>4 DEF OwnerInv, Remembers, Shrinks
<1>6. ASSUME NEW n \in Machines, pc'[n] = "decideD", lan'[n].used
      PROVE  \E k \in Machines \ {n} : Stays(k)'
  <2>1. CASE n = m
    BY Zenon, <1>4, <1>6, <2>1
  <2>2. CASE n # m
    <3>1. pc[n] = "decideD" /\ lan[n].used
      BY Zenon, <1>6, <2>2 DEF OthersKept
    <3>2. pc[m] # "decideD"
      BY Zenon, <2>2, <3>1 DEF FindInv, LockedSteps
    <3>3. PICK k \in Machines \ {n} : Stays(k)
      BY Zenon, <3>1 DEF OwnerInv
    <3> QED
      BY Zenon, <1>4, <3>2, <3>3
  <2> QED
    BY Zenon, <2>1, <2>2
<1> QED
  BY Zenon, <1>1, <1>2, <1>3, <1>5, <1>6 DEF FindInv, OwnerInv

\* The reconcile of m returns and gives the lock back.
LEMMA ReturnStep ==
  ASSUME LANInv, NEW m \in Machines, TypeOK', CloudInv', Remembers, Return(m),
         UNCHANGED cached, \A n \in Machines \ {m} : obj'[n] = obj[n] /\ srv'[n] = srv[n],
         ObjectAt(m)', Stays(m) => obj'[m] \in {"live", "deleting"}
  PROVE  LANInv'
<1>1. pc'[m] = "idle" /\ OthersKept(m)
  BY DEF Return, Leave, Goto, Unlocked, OthersKept, LANInv, TypeOK
<1>2. Knows(m)' /\ pc'[m] \notin LockedSteps
  BY Zenon, <1>1 DEF Knows, LockedSteps
<1>3. Stays(m) => Stays(m)'
  BY Zenon, <1>1 DEF Stays
<1> QED
  BY Zenon, <1>1, <1>2, <1>3, MachineStep

\* StartReconcile: what the cache says of the object is still true enough.
LEMMA StartReconcileKeeps ==
  ASSUME LANInv, NEW m \in Machines, StartReconcile(m)
  PROVE  LANInv'
<1> USE DEF LANInv
<1>1. TypeOK' /\ CloudInv' /\ Remembers
  <2>1. CloudTypeOK' /\ CloudInv' /\ Remembers
    BY Zenon, CloudKept DEF StartReconcile, TypeOK
  <2>2. faults' = faults \/ faults' = faults + 1
    BY Zenon DEF StartReconcile, Fault
  <2>3. faults' \in Nat /\ 0 \in Nat /\ DOMAIN reqs \subseteq Nat
    BY <2>2 DEF TypeOK, CloudTypeOK
  <2>4. scopeReq' \in [Machines -> Nat]
    <3>1. PICK r \in {0} \cup DOMAIN reqs : scopeReq' = [scopeReq EXCEPT ![m] = r]
      BY Zenon DEF StartReconcile
    <3>2. r \in Nat /\ scopeReq \in [Machines -> Nat]
      BY Zenon, <2>3 DEF TypeOK
    <3> QED
      BY Zenon, <3>1, <3>2
  <2>5. obj' \in [Machines -> ObjectStates] /\ pc' \in [Machines -> {"idle"} \cup NormalSteps \cup DeleteSteps]
    BY Zenon DEF StartReconcile, Goto, TypeOK, ObjectStates, NormalSteps, DeleteSteps
  <2> QED
    BY Zenon, <2>1, <2>3, <2>4, <2>5 DEF StartReconcile, TypeOK, srvVars
<1>2. OthersKept(m) /\ pc'[m] \in {"check", "checkD"}
  BY Zenon DEF StartReconcile, Goto, OthersKept, TypeOK, srvVars
<1>3. ObjectAt(m)'
  BY DEF ObjectInv, ObjectAt, StartReconcile, Goto, TypeOK, ObjectStates, NormalSteps, DeleteSteps,
         NoServerSteps, srvVars
<1>4. Knows(m)' /\ pc'[m] \notin LockedSteps
  BY Zenon, <1>2 DEF Knows, LockedSteps
<1>5. Stays(m) => Stays(m)'
  BY Zenon, <1>2 DEF Stays, StartReconcile, TypeOK
<1> QED
  BY Zenon, <1>1, <1>2, <1>3, <1>4, <1>5, MachineStep

\* Whether status.currentRequest is set stays a truth value when it is assigned.
LEMMA FlagType ==
  ASSUME NEW m \in Machines, NEW f \in [Machines -> BOOLEAN], NEW b \in BOOLEAN
  PROVE  [f EXCEPT ![m] = b] \in [Machines -> BOOLEAN]
OBVIOUS

\* CheckRequestStates decides whether to requeue and touches none of the objects.
LEMMA CheckRequestStatesKeeps ==
  ASSUME LANInv, NEW m \in Machines, CheckRequestStates(m)
  PROVE  LANInv'
<1> USE DEF LANInv
<1>1. CloudTypeOK' /\ CloudInv' /\ Remembers
  BY Zenon, CloudKept DEF CheckRequestStates, TypeOK
<1>2. /\ UNCHANGED <<obj, cached, srv, nic>>
      /\ machineReq' \in [Machines -> BOOLEAN] /\ faults' \in Nat /\ curReq' \in Nat
      /\ pc[m] \in {"check", "checkD"}
  <2>1. /\ UNCHANGED <<obj, cached, srv, nic>> /\ pc[m] \in {"check", "checkD"}
        /\ faults' = faults \/ faults' = faults + 1
        /\ curReq' \in {0, curReq}
    BY Zenon DEF CheckRequestStates, objVars, Fault, Cleared
  <2>2. faults' \in Nat /\ curReq' \in Nat
    BY <2>1 DEF TypeOK
  <2>3. PICK b \in BOOLEAN : machineReq' = [machineReq EXCEPT ![m] = @ /\ (b => machinePending(m))]
    BY Zenon DEF CheckRequestStates
  <2>4. machineReq' \in [Machines -> BOOLEAN]
    BY Zenon, <2>3, FlagType DEF TypeOK
  <2> QED
    BY Zenon, <2>1, <2>2, <2>4
<1>3. \/ Return(m)
      \/ /\ Goto(m, IF pc[m] = "check" THEN "lockLAN" ELSE "serverD")
         /\ UNCHANGED <<lock, lan, request>> /\ scopeReq' \in [Machines -> Nat]
  <2>1. [scopeReq EXCEPT ![m] = IF scopeReq[m] # 0 /\ pc[m] = "checkD" THEN 1 ELSE 0] \in [Machines -> Nat]
    BY DEF TypeOK
  <2> QED
    BY Zenon, <2>1 DEF CheckRequestStates
<1>4. CASE Return(m)
  <2>1. TypeOK'
    BY Zenon, <1>1, <1>2, <1>4 DEF TypeOK, Return, Leave, Goto, Unlocked, NoLAN
  <2>2. ObjectAt(m)'
    BY Zenon, <1>2, <1>4 DEF ObjectInv, ObjectAt, Return, Leave, Goto, TypeOK, NormalSteps, DeleteSteps, NoServerSteps
  <2> QED
    BY Zenon, <1>1, <1>2, <1>4, <2>1, <2>2, ReturnStep DEF Stays
<1>5. CASE /\ Goto(m, IF pc[m] = "check" THEN "lockLAN" ELSE "serverD")
           /\ UNCHANGED <<lock, lan, request>> /\ scopeReq' \in [Machines -> Nat]
  <2>1. TypeOK'
    BY <1>1, <1>2, <1>5 DEF TypeOK, Goto, NormalSteps, DeleteSteps
  <2>2. OthersKept(m) /\ pc'[m] = IF pc[m] = "check" THEN "lockLAN" ELSE "serverD"
    BY Zenon, <1>2, <1>5 DEF Goto, OthersKept, TypeOK
  <2>3. ObjectAt(m)'
    BY Zenon, <1>2, <2>2 DEF ObjectInv, ObjectAt, NormalSteps, DeleteSteps, NoServerSteps
  <2>4. Knows(m)' /\ pc'[m] \notin LockedSteps /\ pc'[m] # "decideD"
    BY Zenon, <1>2, <2>2 DEF Knows, LockedSteps
  <2>5. Stays(m) => Stays(m)'
    BY Zenon, <1>2, <2>2 DEF Stays
  <2> QED
    BY Zenon, <1>1, <2>1, <2>2, <2>3, <2>4, <2>5, MachineStep
<1> QED
  BY Zenon, <1>3, <1>4, <1>5

\* LockLAN: nobody else is past this step when the key is free.
LEMMA LockLANKeeps ==
  ASSUME LANInv, NEW m \in Machines, LockLAN(m)
  PROVE  LANInv'
<1> USE DEF LANInv
<1>1. CloudTypeOK' /\ CloudInv' /\ Remembers
  BY Zenon, CloudKept DEF LockLAN, TypeOK
<1>2. /\ UNCHANGED <<obj, cached, srv, lan, request>>
      /\ pc'[m] = IF pc[m] = "lockLAN" THEN "lookup" ELSE "lookupD"
      /\ pc[m] \in {"lockLAN", "lockLAND"} /\ lock' = m
  BY Zenon DEF LockLAN, Goto, TypeOK, objVars, srvVars, localVars
<1>3. TypeOK'
  BY Zenon, <1>1, <1>2 DEF LockLAN, Goto, TypeOK, objVars, srvVars, localVars, NormalSteps, DeleteSteps
<1>4. OthersKept(m)
  BY Zenon, <1>2, LANAssumption DEF LockLAN, Goto, OthersKept, TypeOK
<1>5. ObjectAt(m)'
  BY Zenon, <1>2 DEF ObjectInv, ObjectAt, NormalSteps, DeleteSteps, NoServerSteps
<1>6. Knows(m)' /\ (Stays(m) => Stays(m)')
  BY Zenon, <1>2 DEF Knows, Stays
<1> QED
  BY Zenon, <1>1, <1>2, <1>3, <1>4, <1>5, <1>6, MachineStep

\* A LAN that getLAN does not list is being created, and its request is recent.
LEMMA Unlisted ==
  ASSUME LANInv, getLAN = NoLAN
  PROVE  \A i \in ClusterLANs : isPending(i) /\ reqs[i].recent
<1>1. ListedAs(ClusterName) = {}
  BY Zenon, getLANType DEF LANInv
<1> QED
  BY <1>1 DEF ClusterLANs, ListedAs, Listed, LANInv, TypeOK, CloudTypeOK, CloudInv

\* A NIC in the LAN that m sees when its own server is gone is that of a machine
\* that still has to go through ReconcileLANDeletion.
LEMMA UsedByOther ==
  ASSUME LANInv, NEW m \in Machines, pc[m] \in NoServerSteps, getLAN.used
  PROVE  \E n \in Machines \ {m} : Stays(n)
<1>1. PICK n \in Machines : srv[n] \in {"up", "deleting"}
  BY Zenon, getLANType DEF LANInv, Attached
<1>2. n # m /\ obj[n] \in {"live", "deleting"} /\ pc[n] # "finalizerD"
  BY Zenon, <1>1 DEF LANInv, ObjectInv, ObjectAt, NoServerSteps, DeleteSteps
<1> QED
  BY Zenon, <1>2 DEF Stays

\* findResource's lookups: nil leads to the request list or, after that, shows that
\* there is no LAN; a LAN is used by others or may be deleted.
LEMMA TryLookupKeeps ==
  ASSUME LANInv, NEW m \in Machines, Lookup(m) \/ LookupAgain(m)
  PROVE  LANInv'
<1> USE DEF LANInv
<1>1. /\ CloudTypeOK' /\ CloudInv' /\ Remembers
      /\ UNCHANGED <<reqs, res, obj, cached, curReq, srv, nic, machineReq, faults>>
  BY Zenon, CloudKept DEF Lookup, LookupAgain, TypeOK, cloudVars, objVars, srvVars
<1>2. pc[m] \in {"lookup", "lookupD", "relookup", "relookupD"} /\ lock = m
  BY Zenon DEF Lookup, LookupAgain, FindInv, LockedSteps
<1>3. CASE Return(m)
  <2>1. TypeOK'
    BY Zenon, <1>1, <1>3 DEF TypeOK, Return, Leave, Goto, Unlocked, NoLAN
  <2>2. ObjectAt(m)'
    BY Zenon, <1>1, <1>3 DEF ObjectInv, ObjectAt, Return, Leave, Goto, TypeOK, NormalSteps, DeleteSteps, NoServerSteps
  <2> QED
    BY Zenon, <1>1, <1>3, <2>1, <2>2, ReturnStep DEF Stays
<1> DEFINE found == IF pc[m] \in {"lookup", "relookup"} THEN "decide" ELSE "decideD"
           notFound == CASE pc[m] = "lookup"  -> "queue"
                         [] pc[m] = "lookupD" -> "queueD"
                         [] OTHER             -> found
<1>4. CASE ~Return(m)
  <2>1. /\ lan' = [lan EXCEPT ![m] = getLAN]
        /\ request' = [request EXCEPT ![m] = IF getLAN = NoLAN THEN @ ELSE "none"]
        /\ pc' = [pc EXCEPT ![m] = IF getLAN = NoLAN THEN notFound ELSE found]
        /\ UNCHANGED <<lock, scopeReq>>
    BY Zenon, <1>2, <1>4 DEF Lookup, LookupAgain, TryLookup, Goto
  <2>2. /\ found \in LockedSteps /\ notFound \in LockedSteps
        /\ found \in {"idle"} \cup NormalSteps \cup DeleteSteps
        /\ notFound \in {"idle"} \cup NormalSteps \cup DeleteSteps
    BY Zenon, <1>2 DEF LockedSteps, NormalSteps, DeleteSteps
  <2>3. TypeOK'
    BY Zenon, <1>1, <2>1, <2>2, getLANType DEF TypeOK
  <2>4. /\ OthersKept(m)
        /\ pc'[m] = IF getLAN = NoLAN THEN notFound ELSE found
        /\ lan'[m] = getLAN
    BY Zenon, <1>1, <2>1 DEF OthersKept, TypeOK
  <2>5. ObjectAt(m)'
    BY Zenon, <1>1, <1>2, <2>4 DEF ObjectInv, ObjectAt, NormalSteps, DeleteSteps, NoServerSteps
  <2>6. \A i \in ClusterLANs' : /\ i \in ClusterLANs
                               /\ reqs'[i].recent = reqs[i].recent
    BY Zenon, <1>1 DEF Remembers, Shrinks
  <2>7. Knows(m)'
    <3>1. CASE getLAN # NoLAN
      BY Zenon, <3>1, <1>2, <2>4 DEF Knows, NoLAN
    <3>2. CASE getLAN = NoLAN /\ pc[m] \in {"lookup", "lookupD"}
      BY Zenon, <3>2, <2>4, <2>6, Unlisted DEF Knows, NoLAN
    <3>3. CASE getLAN = NoLAN /\ pc[m] \in {"relookup", "relookupD"}
      <4>1. ClusterLANs = {}
        BY Zenon, <3>3, Unlisted DEF FindInv, Knows
      <4> QED
        BY Zenon, <3>3, <4>1, <2>4, <2>6 DEF Knows
    <3> QED
      BY Zenon, <1>2, <3>1, <3>2, <3>3
  <2>8. pc'[m] = "decideD" /\ lan'[m].used => \E n \in Machines \ {m} : Stays(n)
    <3>1. pc'[m] = "decideD" => pc[m] \in NoServerSteps
      BY Zenon, <1>2, <2>4 DEF NoServerSteps, DeleteSteps
    <3> QED
      BY Zenon, <2>4, <3>1, UsedByOther
  <2>9. Stays(m) => Stays(m)'
    BY Zenon, <1>1, <1>2, <2>4 DEF Stays
  <2> QED
    BY Zenon, <1>1, <1>2, <2>1, <2>3, <2>4, <2>5, <2>7, <2>8, <2>9, MachineStep
<1> QED
  BY Zenon, <1>3, <1>4

\* findResource's look at the request list.  The creation of the LAN, if there is one,
\* is in the list and is the request getLatestLANCreationRequest returns.
LEMMA CheckQueueKeeps ==
  ASSUME LANInv, NEW m \in Machines, CheckQueue(m)
  PROVE  LANInv'
<1> USE DEF LANInv
<1>1. /\ CloudTypeOK' /\ CloudInv' /\ Remembers
      /\ UNCHANGED <<reqs, res, obj, cached, curReq, srv, nic, machineReq, faults, lock, lan, scopeReq>>
  BY Zenon, CloudKept DEF CheckQueue, TypeOK, cloudVars, objVars, srvVars
<1>2. pc[m] \in {"queue", "queueD"} /\ lock = m /\ lan[m] = NoLAN
  BY Zenon DEF CheckQueue, FindInv, LockedSteps, Knows
<1>3. PICK i \in {0} \cup DOMAIN reqs :
        /\ CreationRequest(i, ClusterName)
        /\ request' = [request EXCEPT ![m] =
                         IF i = 0 THEN "none" ELSE IF isPending(i) THEN "pending" ELSE "finished"]
        /\ pc' = [pc EXCEPT ![m] =
                    IF pc[m] = "queue" THEN IF i # 0 /\ isDone(i) THEN "relookup" ELSE "decide"
                                       ELSE IF i # 0 /\ isDone(i) THEN "relookupD" ELSE "decideD"]
  BY Zenon DEF CheckQueue, Goto
<1>4. \A k \in ClusterLANs : k = i /\ i # 0
  <2> SUFFICES ASSUME NEW k \in ClusterLANs PROVE k = i /\ i # 0
    OBVIOUS
  <2>1. k \in DOMAIN reqs /\ reqs[k].recent /\ reqs[k].method = "POST" /\ reqs[k].name = ClusterName
    BY Zenon, <1>2 DEF ClusterLANs, FindInv, Knows
  <2>2. i # 0 /\ i \in DOMAIN reqs /\ k <= i /\ reqs[i].method = "POST" /\ reqs[i].name = ClusterName
    <3>1. 0 \notin DOMAIN reqs
      BY DEF TypeOK, CloudTypeOK
    <3> QED
      BY Zenon, <1>3, <2>1, <3>1 DEF CreationRequest, getMatchingRequest
  <2>3. i <= k
    BY Zenon, <2>2 DEF FindInv, Newest
  <2> QED
    BY <2>1, <2>2, <2>3 DEF TypeOK, CloudTypeOK
<1>5. i # 0 /\ ~isPending(i) /\ ~isDone(i) => i \notin ClusterLANs
  <2> SUFFICES ASSUME i # 0, ~isPending(i), ~isDone(i) PROVE i \notin ClusterLANs
    OBVIOUS
  <2>1. i \in DOMAIN reqs /\ reqs[i] \in Requests
    BY DEF TypeOK, CloudTypeOK
  <2>2. reqs[i].status = "FAILED"
    BY Zenon, <2>1 DEF isPending, isDone, Requests, Statuses
  <2> QED
    BY Zenon, <2>1, <2>2 DEF ClusterLANs, Listed, CloudInv
<1>6. TypeOK'
  BY Zenon, <1>1, <1>3 DEF TypeOK, NormalSteps, DeleteSteps
<1>7. /\ OthersKept(m)
      /\ pc'[m] = IF pc[m] = "queue" THEN IF i # 0 /\ isDone(i) THEN "relookup" ELSE "decide"
                                     ELSE IF i # 0 /\ isDone(i) THEN "relookupD" ELSE "decideD"
      /\ request'[m] = IF i = 0 THEN "none" ELSE IF isPending(i) THEN "pending" ELSE "finished"
  BY Zenon, <1>1, <1>3 DEF OthersKept, TypeOK
<1>8. ObjectAt(m)'
  BY Zenon, <1>1, <1>2, <1>7 DEF ObjectInv, ObjectAt, NormalSteps, DeleteSteps, NoServerSteps
<1>9. Knows(m)'
  <2>1. \A k \in ClusterLANs' : k \in ClusterLANs /\ (isPending(k)' => isPending(k))
    BY Zenon, <1>1 DEF Remembers, Shrinks
  <2>2. isDone(i) => ~isPending(i)
    BY Zenon DEF isDone, isPending
  <2> QED
    BY Zenon, <1>2, <1>4, <1>5, <1>7, <2>1, <2>2 DEF Knows
<1>10. pc'[m] \in LockedSteps /\ ~lan'[m].used
  BY <1>1, <1>2, <1>7 DEF LockedSteps, NoLAN
<1>11. Stays(m) => Stays(m)'
  BY Zenon, <1>1, <1>7 DEF Stays
<1> QED
  BY Zenon, <1>1, <1>2, <1>6, <1>7, <1>8, <1>9, <1>10, <1>11, MachineStep

-----------------------------------------------------------------------------
(***************************************************************************)
(* The decisions of a reconcile, and what follows them.                    *)
(***************************************************************************)
\* createLAN: there is no LAN, and the machine that asks for one stays to delete it.
LEMMA CreateLANKeeps ==
  ASSUME LANInv, NEW m \in Machines, CreateLAN(m)
  PROVE  LANInv'
<1> USE DEF LANInv
<1>1. /\ pc[m] = "decide" /\ lock = m /\ ClusterLANs = {}
      /\ UNCHANGED <<obj, cached, srv, nic, machineReq>> /\ Return(m)
      /\ obj[m] \in {"live", "deleting"}
  BY Zenon DEF CreateLAN, FindInv, Knows, LockedSteps, objVars, srvVars, ObjectInv, ObjectAt, NormalSteps
<1>2. /\ pc' = [pc EXCEPT ![m] = "idle"] /\ pc'[m] = "idle" /\ OthersKept(m)
  BY Zenon, <1>1 DEF Return, Leave, Goto, Unlocked, OthersKept, TypeOK
<1>3. ObjectAt(m)'
  BY Zenon, <1>1, <1>2 DEF ObjectInv, ObjectAt, NormalSteps, DeleteSteps, NoServerSteps
<1>4. CASE UNCHANGED <<cloudVars, curReq, faults>>
  <2>1. CloudTypeOK' /\ CloudInv' /\ Remembers
    BY Zenon, <1>4, CloudKept DEF TypeOK
  <2>2. TypeOK'
    BY Zenon, <1>1, <1>4, <2>1 DEF TypeOK, Return, Leave, Goto, Unlocked, NoLAN
  <2> QED
    BY Zenon, <1>1, <1>3, <2>1, <2>2, ReturnStep
<1>5. CASE Post(ClusterName) /\ RecordRequest
  <2>1. /\ CloudTypeOK' /\ CloudInv' /\ ClusterLANs' \subseteq {Len(reqs) + 1}
        /\ \A j \in DOMAIN reqs' : j <= Len(reqs) + 1
    BY Zenon, <1>1, <1>5, PostKeeps DEF TypeOK
  <2>2. curReq' \in Nat /\ faults' \in Nat
    BY <1>5 DEF RecordRequest, Fault, TypeOK, CloudTypeOK
  <2>3. TypeOK'
    BY Zenon, <1>1, <2>1, <2>2 DEF TypeOK, Return, Leave, Goto, Unlocked, NoLAN
  <2>4. Newest'
    BY Zenon, <2>1 DEF Newest
  <2>5. \A n \in Machines : pc'[n] \notin LockedSteps
    BY Zenon, <1>1, <1>2 DEF FindInv, LockedSteps, OthersKept
  <2>6. \A n \in Machines : Knows(n)' /\ pc'[n] # "decideD"
    BY Zenon, <2>5 DEF Knows, LockedSteps
  <2>7. ObjectInv'
    BY <1>2, <1>3 DEF ObjectInv, ObjectAt, OthersKept
  <2>8. Stays(m)'
    BY Zenon, <1>1, <1>2 DEF Stays
  <2> QED
    BY Zenon, <2>1, <2>3, <2>4, <2>5, <2>6, <2>7, <2>8 DEF FindInv, OwnerInv
<1> QED
  BY Zenon, <1>4, <1>5 DEF CreateLAN, createLAN

\* The LAN is used, or the reconcile is requeued.
LEMMA UseLANKeeps ==
  ASSUME LANInv, NEW m \in Machines, UseLAN(m)
  PROVE  LANInv'
<1> USE DEF LANInv
<1>1. /\ CloudTypeOK' /\ CloudInv' /\ Remembers
      /\ UNCHANGED <<reqs, res, obj, cached, curReq, srv, nic, machineReq, faults>>
      /\ pc[m] = "decide"
  BY Zenon, CloudKept DEF UseLAN, TypeOK, cloudVars, objVars, srvVars
<1>2. Return(m) \/ Leave(m, "server")
  BY Zenon DEF UseLAN
<1>3. TypeOK'
  <2>1. CASE Return(m)
    BY Zenon, <1>1, <2>1 DEF TypeOK, Return, Leave, Goto, Unlocked, NoLAN
  <2>2. CASE Leave(m, "server")
    BY Zenon, <1>1, <2>2 DEF TypeOK, Leave, Goto, Unlocked, NoLAN, NormalSteps
  <2> QED
    BY Zenon, <1>2, <2>1, <2>2
<1>4. OthersKept(m) /\ pc'[m] \in {"idle", "server"}
  BY Zenon, <1>1, <1>2 DEF Return, Leave, Goto, Unlocked, OthersKept, TypeOK
<1>5. ObjectAt(m)'
  BY Zenon, <1>1, <1>4 DEF ObjectInv, ObjectAt, NormalSteps, DeleteSteps, NoServerSteps
<1>6. Knows(m)' /\ pc'[m] \notin LockedSteps /\ (Stays(m) => Stays(m)')
  BY Zenon, <1>1, <1>4 DEF Knows, LockedSteps, Stays
<1> QED
  BY Zenon, <1>1, <1>3, <1>4, <1>5, <1>6, MachineStep

\* ReconcileServer: a server is created for a machine with a finalizer.
LEMMA ReconcileServerKeeps ==
  ASSUME LANInv, NEW m \in Machines, ReconcileServer(m)
  PROVE  LANInv'
<1> USE DEF LANInv
<1>1. /\ CloudTypeOK' /\ CloudInv' /\ Remembers
      /\ UNCHANGED <<reqs, res, obj, cached, curReq>> /\ Return(m)
      /\ pc[m] = "server" /\ obj[m] \in {"live", "deleting"}
  BY Zenon, CloudKept DEF ReconcileServer, TypeOK, cloudVars, objVars, ObjectInv, ObjectAt, NormalSteps
<1>2. /\ srv' \in [Machines -> {"none", "pending", "up", "deleting"}]
      /\ \A n \in Machines \ {m} : srv'[n] = srv[n]
      /\ nic' \in [Machines -> Nat] /\ machineReq' \in [Machines -> BOOLEAN] /\ faults' \in Nat
  <2>1. getLAN.id \in Nat
    BY Zenon, getLANType
  <2>2. CASE UNCHANGED <<srvVars, faults>>
    BY Zenon, <2>2 DEF TypeOK, srvVars
  <2>3. CASE ~UNCHANGED <<srvVars, faults>>
    <3>1. /\ srv' = [srv EXCEPT ![m] = "pending"] /\ nic' = [nic EXCEPT ![m] = getLAN.id]
          /\ machineReq' = [machineReq EXCEPT ![m] = TRUE] \/ machineReq' = machineReq
          /\ faults' = faults \/ faults' = faults + 1
      BY Zenon, <2>3 DEF ReconcileServer, Fault
    <3>2. machineReq' \in [Machines -> BOOLEAN]
      BY Zenon, <3>1, FlagType DEF TypeOK
    <3>3. nic' \in [Machines -> Nat]
      BY Zenon, <2>1, <3>1 DEF TypeOK
    <3>4. /\ srv' \in [Machines -> {"none", "pending", "up", "deleting"}]
          /\ \A n \in Machines \ {m} : srv'[n] = srv[n]
      BY Zenon, <3>1 DEF TypeOK
    <3>5. faults' \in Nat
      BY <3>1 DEF TypeOK
    <3> QED
      BY Zenon, <3>2, <3>3, <3>4, <3>5
  <2> QED
    BY Zenon, <2>2, <2>3
<1>3. TypeOK'
  BY Zenon, <1>1, <1>2 DEF TypeOK, Return, Leave, Goto, Unlocked, NoLAN
<1>4. ObjectAt(m)'
  BY Zenon, <1>1 DEF ObjectInv, ObjectAt, Return, Leave, Goto, TypeOK, NormalSteps, DeleteSteps, NoServerSteps
<1> QED
  BY Zenon, <1>1, <1>2, <1>3, <1>4, ReturnStep

\* ReconcileServerDeletion: the sequence goes on without a server only.
LEMMA ReconcileServerDeletionKeeps ==
  ASSUME LANInv, NEW m \in Machines, ReconcileServerDeletion(m)
  PROVE  LANInv'
<1> USE DEF LANInv
<1>1. /\ CloudTypeOK' /\ CloudInv' /\ Remembers
      /\ UNCHANGED <<reqs, res, obj, cached, curReq, nic>> /\ pc[m] = "serverD"
  BY Zenon, CloudKept DEF ReconcileServerDeletion, TypeOK, cloudVars, objVars
<1>2. /\ srv' \in [Machines -> {"none", "pending", "up", "deleting"}]
      /\ \A n \in Machines \ {m} : srv'[n] = srv[n]
      /\ srv'[m] # "none" <=> srv[m] # "none"
      /\ machineReq' \in [Machines -> BOOLEAN] /\ faults' \in Nat
  <2>1. /\ srv' = [srv EXCEPT ![m] = IF @ = "up" THEN "deleting" ELSE @]
        /\ \/ machineReq' = [machineReq EXCEPT ![m] = srv[m] # "none"]
           \/ machineReq' = machineReq
        /\ faults' = faults \/ faults' = faults + 1
    BY Zenon DEF ReconcileServerDeletion, Fault
  <2>2. machineReq' \in [Machines -> BOOLEAN]
    BY Zenon, <2>1, FlagType DEF TypeOK
  <2>3. srv' \in [Machines -> {"none", "pending", "up", "deleting"}] /\ faults' \in Nat
    BY <2>1 DEF TypeOK
  <2> QED
    BY Zenon, <2>1, <2>2, <2>3 DEF TypeOK
<1>3. CASE srv[m] # "none"
  <2>1. Return(m)
    BY Zenon, <1>3 DEF ReconcileServerDeletion
  <2>2. TypeOK'
    BY Zenon, <1>1, <1>2, <2>1 DEF TypeOK, Return, Leave, Goto, Unlocked, NoLAN
  <2>3. ObjectAt(m)'
    BY ZenonT(30), <1>1, <1>2, <2>1 DEF ObjectInv, ObjectAt, Return, Leave, Goto, TypeOK, NormalSteps, DeleteSteps, NoServerSteps
  <2> QED
    BY Zenon, <1>1, <1>2, <2>1, <2>2, <2>3, ReturnStep DEF Stays
<1>4. CASE srv[m] = "none"
  <2>1. Goto(m, "lockLAND") /\ UNCHANGED <<lock, lan, request, scopeReq>>
    BY Zenon, <1>4 DEF ReconcileServerDeletion, localVars
  <2>2. TypeOK'
    BY Zenon, <1>1, <1>2, <2>1 DEF TypeOK, Goto, DeleteSteps
  <2>3. OthersKept(m) /\ pc'[m] = "lockLAND"
    BY Zenon, <1>1, <1>2, <2>1 DEF Goto, OthersKept, TypeOK
  <2>4. ObjectAt(m)'
    BY Zenon, <1>1, <1>2, <1>4, <2>3 DEF ObjectInv, ObjectAt, NormalSteps, DeleteSteps, NoServerSteps
  <2>5. Knows(m)' /\ pc'[m] \notin LockedSteps /\ (Stays(m) => Stays(m)')
    BY Zenon, <1>1, <2>3 DEF Knows, LockedSteps, Stays
  <2> QED
    BY Zenon, <1>1, <2>2, <2>3, <2>4, <2>5, MachineStep
<1> QED
  BY Zenon, <1>3, <1>4

\* A machine goes on to its finalizer when there is no LAN, or one that a machine
\* uses which stays.
LEMMA LeaveLANStep ==
  ASSUME LANInv, NEW m \in Machines, UNCHANGED cloudVars, UNCHANGED <<objVars, srvVars>>,
         pc[m] = "decideD", Leave(m, "finalizerD"), curReq' \in Nat, faults' \in Nat,
         ClusterLANs = {} \/ lan[m].used
  PROVE  LANInv'
<1> USE DEF LANInv
<1>1. CloudTypeOK' /\ CloudInv' /\ Remembers /\ UNCHANGED <<obj, cached, srv, nic, machineReq>>
  BY Zenon, CloudKept DEF TypeOK, objVars, srvVars
<1>2. TypeOK'
  BY Zenon, <1>1 DEF TypeOK, Leave, Goto, Unlocked, NoLAN, DeleteSteps
<1>3. OthersKept(m) /\ pc'[m] = "finalizerD"
  BY Zenon, <1>1 DEF Leave, Goto, Unlocked, OthersKept, TypeOK
<1>4. ObjectAt(m)' /\ Knows(m)' /\ pc'[m] \notin LockedSteps
  BY Zenon, <1>1, <1>3 DEF ObjectInv, ObjectAt, NormalSteps, DeleteSteps, NoServerSteps, Knows, LockedSteps
<1>5. ClusterLANs = {} \/ \E n \in Machines \ {m} : Stays(n)
  BY Zenon DEF OwnerInv
<1> QED
  BY Zenon, <1>1, <1>2, <1>3, <1>4, <1>5, MachineStep

\* ReconcileLANDeletion without a LAN.
LEMMA ForgetLANKeeps ==
  ASSUME LANInv, NEW m \in Machines, ForgetLAN(m)
  PROVE  LANInv'
<1>1. ClusterLANs = {}
  BY Zenon DEF ForgetLAN, LANInv, FindInv, Knows
<1>2. /\ UNCHANGED cloudVars /\ UNCHANGED <<objVars, srvVars>>
      /\ pc[m] = "decideD" /\ Leave(m, "finalizerD")
      /\ curReq' \in Nat /\ faults' \in Nat
  BY Zenon DEF ForgetLAN, LANInv, TypeOK, Cleared
<1> QED
  BY Zenon, <1>1, <1>2, LeaveLANStep

\* ReconcileLANDeletion with a LAN: wait, leave it to others or go on to delete it.
LEMMA CheckDeletionKeeps ==
  ASSUME LANInv, NEW m \in Machines, CheckDeletion(m)
  PROVE  LANInv'
<1> USE DEF LANInv
<1>1. /\ CloudTypeOK' /\ CloudInv' /\ Remembers
      /\ UNCHANGED <<obj, cached, curReq, srv, nic, machineReq, faults>> /\ pc[m] = "decideD"
      /\ UNCHANGED cloudVars /\ UNCHANGED <<objVars, srvVars>>
  BY Zenon, CloudKept DEF CheckDeletion, TypeOK, objVars, srvVars
<1>2. \/ Return(m)
      \/ lan[m].used /\ Leave(m, "finalizerD")
      \/ Goto(m, "deleteD") /\ UNCHANGED <<lock, lan, request, scopeReq>>
  BY Zenon DEF CheckDeletion, localVars
<1>3. CASE Return(m)
  <2>1. TypeOK'
    BY Zenon, <1>1, <1>3 DEF TypeOK, Return, Leave, Goto, Unlocked, NoLAN
  <2>2. ObjectAt(m)'
    BY Zenon, <1>1, <1>3 DEF ObjectInv, ObjectAt, Return, Leave, Goto, TypeOK, NormalSteps, DeleteSteps, NoServerSteps
  <2> QED
    BY Zenon, <1>1, <1>3, <2>1, <2>2, ReturnStep DEF Stays
<1>4. CASE lan[m].used /\ Leave(m, "finalizerD")
  <2>1. curReq' \in Nat /\ faults' \in Nat
    BY Zenon, <1>1 DEF TypeOK
  <2> QED
    BY Zenon, <1>1, <1>4, <2>1, LeaveLANStep
<1>5. CASE Goto(m, "deleteD") /\ UNCHANGED <<lock, lan, request, scopeReq>>
  <2>1. TypeOK'
    BY Zenon, <1>1, <1>5 DEF TypeOK, Goto, DeleteSteps
  <2>2. OthersKept(m) /\ pc'[m] = "deleteD" /\ lock' = m
    BY Zenon, <1>1, <1>5 DEF Goto, OthersKept, TypeOK, FindInv, LockedSteps
  <2>3. ObjectAt(m)'
    BY Zenon, <1>1, <2>2 DEF ObjectInv, ObjectAt, NormalSteps, DeleteSteps, NoServerSteps
  <2>4. Knows(m)' /\ (Stays(m) => Stays(m)')
    BY Zenon, <1>1, <2>2 DEF Knows, Stays
  <2> QED
    BY Zenon, <1>1, <2>1, <2>2, <2>3, <2>4, MachineStep
<1> QED
  BY Zenon, <1>2, <1>3, <1>4, <1>5

\* deleteLAN.
LEMMA DeleteLANKeeps ==
  ASSUME LANInv, NEW m \in Machines, DeleteLAN(m)
  PROVE  LANInv'
<1> USE DEF LANInv
<1>1. UNCHANGED <<obj, cached, srv, nic, machineReq>> /\ pc[m] = "deleteD" /\ Return(m)
  BY Zenon DEF DeleteLAN, objVars, srvVars
<1>2. \/ UNCHANGED <<cloudVars, curReq, faults>>
      \/ Delete(lan[m].id) /\ RecordRequest
  BY Zenon DEF DeleteLAN, deleteLAN
<1>3. CloudTypeOK' /\ CloudInv' /\ Remembers
  BY Zenon, <1>2, CloudKept, DeleteKeeps DEF TypeOK
<1>4. curReq' \in Nat /\ faults' \in Nat
  BY <1>2 DEF RecordRequest, Fault, TypeOK, CloudTypeOK
<1>5. TypeOK'
  BY Zenon, <1>1, <1>3, <1>4 DEF TypeOK, Return, Leave, Goto, Unlocked, NoLAN
<1>6. ObjectAt(m)'
  BY Zenon, <1>1 DEF ObjectInv, ObjectAt, Return, Leave, Goto, TypeOK, NormalSteps, DeleteSteps, NoServerSteps
<1> QED
  BY Zenon, <1>1, <1>3, <1>5, <1>6, ReturnStep DEF Stays

\* The finalizer is removed from a machine that has no server and that others do not
\* count on.
LEMMA RemoveFinalizerKeeps ==
  ASSUME LANInv, NEW m \in Machines, RemoveFinalizer(m)
  PROVE  LANInv'
<1> USE DEF LANInv
<1>1. /\ CloudTypeOK' /\ CloudInv' /\ Remembers
      /\ UNCHANGED <<cached, curReq, srv, nic, machineReq, faults>>
      /\ pc[m] = "finalizerD" /\ Return(m) /\ obj' = [obj EXCEPT ![m] = "gone"]
  BY Zenon, CloudKept DEF RemoveFinalizer, TypeOK, srvVars
<1>2. TypeOK'
  BY Zenon, <1>1 DEF TypeOK, ObjectStates, Return, Leave, Goto, Unlocked, NoLAN
<1>3. ObjectAt(m)' /\ \A n \in Machines \ {m} : obj'[n] = obj[n] /\ srv'[n] = srv[n]
  BY Zenon, <1>1 DEF ObjectInv, ObjectAt, Return, Leave, Goto, TypeOK, NormalSteps, DeleteSteps, NoServerSteps
<1> QED
  BY Zenon, <1>1, <1>2, <1>3, ReturnStep DEF Stays

\* A step that fails ends the reconcile.
LEMMA StepErrorKeeps ==
  ASSUME LANInv, NEW m \in Machines, StepError(m)
  PROVE  LANInv'
<1> USE DEF LANInv
<1>1. /\ CloudTypeOK' /\ CloudInv' /\ Remembers
      /\ UNCHANGED <<obj, cached, curReq, srv, nic, machineReq>> /\ Return(m) /\ faults' \in Nat
  BY CloudKept DEF StepError, TypeOK, objVars, srvVars, Fault
<1>2. TypeOK'
  BY Zenon, <1>1 DEF TypeOK, Return, Leave, Goto, Unlocked, NoLAN
<1>3. ObjectAt(m)'
  BY Zenon, <1>1 DEF ObjectInv, ObjectAt, Return, Leave, Goto, TypeOK, NormalSteps, DeleteSteps, NoServerSteps
<1> QED
  BY Zenon, <1>1, <1>2, <1>3, ReturnStep DEF Stays

-----------------------------------------------------------------------------
(***************************************************************************)
(* The environment.                                                        *)
(***************************************************************************)
\* What happens to a machine while its reconcile stands still: the cache follows, the
\* user deletes it, or its server changes.
LEMMA EnvironmentStep ==
  ASSUME LANInv, NEW m \in Machines, UNCHANGED cloudVars,
         UNCHANGED <<curReq, pc, localVars, lock>>, TypeOK',
         \A n \in Machines \ {m} : obj'[n] = obj[n] /\ cached'[n] = cached[n] /\ srv'[n] = srv[n],
         ObjectAt(m)', obj[m] \in {"live", "deleting"} => obj'[m] \in {"live", "deleting"}
  PROVE  LANInv'
<1> USE DEF LANInv
<1>1. CloudInv' /\ Remembers /\ UNCHANGED <<pc, lan, request, lock>>
  BY Zenon, CloudKept DEF TypeOK, localVars
<1>2. OthersKept(m) /\ Knows(m)' /\ (pc'[m] \in LockedSteps => lock' = m)
  BY Zenon, <1>1, KnowsKept DEF OthersKept, FindInv
<1>3. Stays(m) => Stays(m)'
  BY Zenon, <1>1 DEF Stays
<1>4. pc'[m] = "decideD" /\ lan'[m].used => \E n \in Machines \ {m} : Stays(n)
  BY Zenon, <1>1 DEF OwnerInv
<1> QED
  BY Zenon, <1>1, <1>2, <1>3, <1>4, MachineStep

\* CacheSync and UserDelete keep the order new, live, deleting, gone.
LEMMA ObjectStepKeeps ==
  ASSUME LANInv, NEW m \in Machines, CacheSync(m) \/ UserDelete(m)
  PROVE  LANInv'
<1> USE DEF LANInv
<1>1. /\ UNCHANGED cloudVars /\ UNCHANGED <<curReq, pc, localVars, lock>>
      /\ UNCHANGED <<scopeReq, lan, request, srv, nic, machineReq, faults>>
  BY Zenon DEF CacheSync, UserDelete, localVars, srvVars
<1>2. /\ obj' \in [Machines -> ObjectStates] /\ cached' \in [Machines -> ObjectStates]
      /\ \A n \in Machines \ {m} : obj'[n] = obj[n] /\ cached'[n] = cached[n]
      /\ \/ obj'[m] = obj[m] /\ cached'[m] = obj[m]
         \/ cached'[m] = cached[m] /\ obj[m] = "new" /\ obj'[m] = "gone"
         \/ cached'[m] = cached[m] /\ obj[m] = "live" /\ obj'[m] = "deleting"
  BY Zenon DEF CacheSync, UserDelete, TypeOK, ObjectStates
<1>3. TypeOK'
  <2>1. CloudTypeOK'
    BY Zenon, <1>1, CloudKept DEF TypeOK
  <2> QED
    BY Zenon, <1>1, <1>2, <2>1 DEF TypeOK
<1>4. ObjectAt(m)'
  BY Zenon, <1>1, <1>2 DEF ObjectInv, ObjectAt, NormalSteps, DeleteSteps
<1> QED
  BY Zenon, <1>1, <1>2, <1>3, <1>4, EnvironmentStep

\* A server is created or deleted only for a machine that has one.
LEMMA ServerRequestKeeps ==
  ASSUME LANInv, NEW m \in Machines, ServerRequest(m)
  PROVE  LANInv'
<1> USE DEF LANInv
<1>1. /\ UNCHANGED cloudVars /\ UNCHANGED <<curReq, pc, localVars, lock>>
      /\ UNCHANGED <<scopeReq, lan, request, obj, cached, machineReq>>
  BY Zenon DEF ServerRequest, localVars, objVars
<1>2. /\ srv' \in [Machines -> {"none", "pending", "up", "deleting"}]
      /\ \A n \in Machines \ {m} : srv'[n] = srv[n]
      /\ srv[m] # "none" /\ nic' \in [Machines -> Nat] /\ faults' \in Nat
  <2>1. /\ \E v \in {"none", "up"} : srv' = [srv EXCEPT ![m] = v]
        /\ srv[m] # "none"
        /\ nic' = nic \/ nic' = [nic EXCEPT ![m] = 0]
        /\ faults' = faults \/ faults' = faults + 1
    BY Zenon DEF ServerRequest, Fault
  <2> QED
    BY <2>1 DEF TypeOK
<1>3. TypeOK'
  <2>1. CloudTypeOK'
    BY Zenon, <1>1, CloudKept DEF TypeOK
  <2> QED
    BY Zenon, <1>1, <1>2, <2>1 DEF TypeOK
<1>4. ObjectAt(m)'
  BY Zenon, <1>1, <1>2 DEF ObjectInv, ObjectAt
<1> QED
  BY Zenon, <1>1, <1>2, <1>3, <1>4, EnvironmentStep

\* No reconcile is under way: nobody's knowledge can become stale.
LEMMA IdleStep ==
  ASSUME LANInv, TypeOK', CloudInv', Shrinks, \A n \in Machines : pc'[n] = "idle",
         UNCHANGED <<obj, srv>>, cached' = obj \/ cached' = cached
  PROVE  LANInv'
<1> USE DEF LANInv
<1>1. Newest'
  BY Zenon, NewestKept DEF FindInv
<1>2. FindInv'
  BY Zenon, <1>1 DEF FindInv, Knows, LockedSteps
<1>3. ObjectInv'
  BY Zenon DEF ObjectInv, ObjectAt, NormalSteps, DeleteSteps, NoServerSteps
<1>4. OwnerInv'
  BY Zenon DEF OwnerInv, Stays, Shrinks
<1> QED
  BY Zenon, <1>2, <1>3, <1>4

\* The process restarts.
LEMMA CrashKeeps ==
  ASSUME LANInv, Crash
  PROVE  LANInv'
<1> USE DEF LANInv
<1>1. /\ CloudTypeOK' /\ CloudInv' /\ Shrinks
      /\ UNCHANGED <<obj, curReq, srv, nic, machineReq>> /\ cached' = obj /\ faults' \in Nat
  BY SMTT(30), CloudKept DEF Crash, TypeOK, srvVars, Fault, Remembers
<1>2. TypeOK' /\ \A n \in Machines : pc'[n] = "idle"
  BY Zenon, <1>1 DEF Crash, TypeOK, NoLAN
<1> QED
  BY Zenon, <1>1, <1>2, IdleStep

\* Requests drop out of the list.
LEMMA AgeRequestKeeps ==
  ASSUME LANInv, NEW i \in DOMAIN reqs, AgeRequest(i)
  PROVE  LANInv'
<1> USE DEF LANInv
<1>1. CloudTypeOK' /\ CloudInv' /\ Shrinks
  BY Zenon, RequestAged, KeptShrinks DEF AgeRequest, TypeOK
<1>2. UNCHANGED <<obj, cached, curReq, pc, lan, request, scopeReq, lock, srv, nic, machineReq, faults>>
  BY Zenon DEF AgeRequest, objVars, localVars, srvVars
<1>3. TypeOK' /\ \A n \in Machines : pc'[n] = "idle"
  BY Zenon, <1>1, <1>2 DEF AgeRequest, TypeOK
<1> QED
  BY Zenon, <1>1, <1>2, <1>3, IdleStep

\* The cloud executes a request, or nothing changes.
LEMMA LANRequestStep ==
  ASSUME LANInv, \/ \E i \in DOMAIN reqs : LANRequest(i)
                 \/ UNCHANGED vars
  PROVE  LANInv'
<1> USE DEF LANInv
<1>1. CloudTypeOK' /\ CloudInv' /\ Remembers
  BY Zenon, LANRequestKeeps, CloudKept DEF TypeOK, vars
<1>2. UNCHANGED <<obj, cached, curReq, pc, lan, request, scopeReq, lock, srv, nic, machineReq>>
  BY Zenon DEF LANRequest, vars, objVars, localVars, srvVars
<1>3. faults' \in Nat
  <2>1. faults' = faults \/ Fault
    BY Zenon DEF LANRequest, vars
  <2> QED
    BY <2>1 DEF Fault, TypeOK
<1>4. TypeOK'
  BY Zenon, <1>1, <1>2, <1>3 DEF TypeOK
<1>5. FindInv'
  <2>1. Newest'
    BY Zenon, <1>1, NewestKept DEF FindInv, Remembers
  <2>2. \A n \in Machines : Knows(n)'
    BY Zenon, <1>1, <1>2, KnowsKept DEF FindInv
  <2> QED
    BY Zenon, <1>2, <2>1, <2>2 DEF FindInv
<1>6. ObjectInv' /\ OwnerInv'
  BY <1>1, <1>2 DEF ObjectInv, ObjectAt, OwnerInv, Stays, Remembers, Shrinks
<1> QED
  BY Zenon, <1>1, <1>4, <1>5, <1>6

-----------------------------------------------------------------------------
(***************************************************************************)
(* The theorems.                                                           *)
(***************************************************************************)
\* No machine, no LAN, or the user's LAN only.
LEMMA LANInit == Init => LANInv
<1> SUFFICES ASSUME Init PROVE LANInv
  OBVIOUS
<1>1. CloudTypeOK /\ CloudInv /\ ClusterLANs = {}
  <2>1. CASE UsesNetworkID
    <3> DEFINE r == [method |-> "POST", id |-> UserLAN, name |-> UserName,
                     status |-> "DONE", recent |-> FALSE]
    <3>1. r \in Requests /\ "AVAILABLE" \in ResourceStates
      BY Zenon, LANAssumption DEF Requests, Methods, Statuses, ResourceStates, UserLAN
    <3>2. reqs = <<r>> /\ res = <<"AVAILABLE">>
      BY Zenon, <2>1 DEF Init
    <3>3. /\ r.method = "POST" /\ r.id = 1 /\ r.status = "DONE" /\ r.name # ClusterName
      BY Zenon DEF UserLAN, UserName, ClusterName
    <3> HIDE DEF r
    <3>4. DOMAIN reqs = {1} /\ reqs[1] = r
      BY <3>2
    <3>5. CloudTypeOK
      BY SMTT(30), <3>1, <3>2 DEF CloudTypeOK
    <3> QED
      BY Zenon, <3>3, <3>4, <3>5 DEF CloudInv, ClusterLANs, isPending
  <2>2. CASE ~UsesNetworkID
    <3>1. reqs = <<>> /\ res = <<>>
      BY Zenon, <2>2 DEF Init
    <3> QED
      BY <3>1 DEF CloudTypeOK, CloudInv, ClusterLANs
  <2> QED
    BY Zenon, <2>1, <2>2
<1>2. TypeOK
  BY Zenon, <1>1, LANAssumption DEF Init, TypeOK, ObjectStates, NoLAN
<1>3. FindInv /\ ObjectInv /\ OwnerInv
  BY Zenon, <1>1 DEF Init, FindInv, Newest, Knows, ObjectInv, ObjectAt, OwnerInv, Stays, LockedSteps,
              NormalSteps, DeleteSteps, NoServerSteps
<1> QED
  BY Zenon, <1>1, <1>2, <1>3 DEF LANInv

\* LANInv is inductive: what a machine found out about the LAN under the lock is
\* true until it acts, and somebody is always left to delete the LAN.
THEOREM LANInvariant == Spec => []LANInv
<1>1. LANInv /\ [Next]_vars => LANInv'
  <2> SUFFICES ASSUME LANInv, [Next]_vars PROVE LANInv'
    OBVIOUS
  <2>1. ASSUME NEW m \in Machines, Reconcile(m)
        PROVE  LANInv'
    BY Zenon, <2>1, StartReconcileKeeps, CheckRequestStatesKeeps, LockLANKeeps, TryLookupKeeps,
       CheckQueueKeeps, CreateLANKeeps, UseLANKeeps, ReconcileServerKeeps,
       ReconcileServerDeletionKeeps, ForgetLANKeeps, CheckDeletionKeeps, DeleteLANKeeps,
       RemoveFinalizerKeeps
    DEF Reconcile
  <2>2. ASSUME NEW m \in Machines, StepError(m) \/ CacheSync(m) \/ UserDelete(m) \/ ServerRequest(m)
        PROVE  LANInv'
    BY Zenon, <2>2, StepErrorKeeps, ObjectStepKeeps, ServerRequestKeeps
  <2>3. CASE Crash
    BY Zenon, <2>3, CrashKeeps
  <2>4. ASSUME NEW i \in DOMAIN reqs, LANRequest(i) \/ AgeRequest(i)
        PROVE  LANInv'
    BY Zenon, <2>4, LANRequestStep, AgeRequestKeeps
  <2>5. CASE UNCHANGED vars
    BY Zenon, <2>5, LANRequestStep
  <2> QED
    BY Zenon, <2>1, <2>2, <2>3, <2>4, <2>5 DEF Next, Cloud, Idle
<1> QED
  BY <1>1, LANInit, PTL DEF Spec

\* Type correctness of the LAN model.
THEOREM LANTypeOK == Spec => []TypeOK
<1>1. LANInv => TypeOK
  BY Zenon DEF LANInv
<1> QED
  BY <1>1, LANInvariant, PTL

\* However many machines run ReconcileLAN at once and wherever the process dies,
\* there is at most one LAN of the cluster or creation of one.
THEOREM LANUnique == Spec => []AtMostOneClusterLAN
<1>1. LANInv => AtMostOneClusterLAN
  BY SMTT(30) DEF LANInv, FindInv, Newest, ClusterLANs, TypeOK, CloudTypeOK, AtMostOneClusterLAN
<1> QED
  BY <1>1, LANInvariant, PTL

\* No LAN and no creation of one outlives the machines with a finalizer.
THEOREM LANNotOrphaned == Spec => []NoOrphanedLAN
<1>1. LANInv => NoOrphanedLAN
  BY Zenon DEF LANInv, OwnerInv, Stays, NoOrphanedLAN
<1> QED
  BY <1>1, LANInvariant, PTL

-----------------------------------------------------------------------------
(***************************************************************************)
(* The LAN is a managed resource of the machines.                          *)
(***************************************************************************)
LEMMA LANsNamed == /\ ClusterLANs = ResourcesOf(ClusterName) /\ ClusterLANs' = ResourcesOf(ClusterName)'
                   /\ CreatedLANs = CreatedOf(ClusterName) /\ CreatedLANs' = CreatedOf(ClusterName)'
<1>1. ClusterLANs = ResourcesOf(ClusterName) /\ ClusterLANs' = ResourcesOf(ClusterName)'
  BY Zenon DEF ClusterLANs, ResourcesOf, Resources
<1> QED
  BY Zenon, <1>1 DEF CreatedLANs, CreatedOf

\* A step makes no call, or it requests the LAN for a machine that has its finalizer, or
\* it executes a request, or it requests the deletion of the LAN for a machine that is
\* deleted.
LEMMA LANCalls ==
  ASSUME LANInv, [Next]_vars
  PROVE  \/ UNCHANGED cloudVars
         \/ UNCHANGED obj /\ Post(ClusterName) /\ ClusterLANs = {} /\ Held
         \/ UNCHANGED obj /\ Kept /\ Durable /\ DOMAIN reqs' = DOMAIN reqs
         \/ /\ UNCHANGED obj /\ Kept /\ Durable /\ Ending
            /\ \E m \in Machines : DeleteLAN(m) /\ Submit("DELETE", lan[m].id)
<1>1. CloudTypeOK /\ CloudInv /\ FindInv /\ ObjectInv
  BY Zenon DEF LANInv, TypeOK
<1>2. ASSUME NEW m \in Machines, CreateLAN(m)
      PROVE  UNCHANGED cloudVars \/ (UNCHANGED obj /\ Post(ClusterName) /\ ClusterLANs = {} /\ Held)
  <2>1. /\ pc[m] = "decide" /\ request[m] # "pending" /\ lan[m] = NoLAN /\ UNCHANGED obj
        /\ UNCHANGED cloudVars \/ Post(ClusterName)
    BY Zenon, <1>2 DEF CreateLAN, createLAN, objVars
  <2>2. ClusterLANs = {}
    BY Zenon, <1>1, <2>1 DEF FindInv, Knows
  <2>3. Held
    BY Zenon, <1>1, <2>1 DEF ObjectInv, ObjectAt, NormalSteps, Held
  <2> QED
    BY Zenon, <2>1, <2>2, <2>3
<1>3. ASSUME NEW m \in Machines, DeleteLAN(m)
      PROVE  \/ UNCHANGED cloudVars
             \/ UNCHANGED obj /\ Kept /\ Durable /\ Ending /\ Submit("DELETE", lan[m].id)
  <2>1. /\ pc[m] = "deleteD" /\ UNCHANGED obj
        /\ UNCHANGED cloudVars \/ Submit("DELETE", lan[m].id)
    BY Zenon, <1>3 DEF DeleteLAN, deleteLAN, Delete, objVars
  <2>2. Ending
    BY Zenon, <1>1, <2>1 DEF ObjectInv, ObjectAt, DeleteSteps, Ending
  <2>3. "DELETE" \in Methods \ {"POST"}
    BY Zenon DEF Methods
  <2> QED
    BY Zenon, <1>1, <2>1, <2>2, <2>3, RequestSubmitted
<1>4. ASSUME NEW i \in DOMAIN reqs, LANRequest(i) \/ AgeRequest(i)
      PROVE  UNCHANGED obj /\ Kept /\ Durable /\ DOMAIN reqs' = DOMAIN reqs
  <2>1. UNCHANGED obj /\ (Run(i) \/ Finish(i, {}) \/ Fail(i) \/ Age(i))
    BY Zenon, <1>4 DEF LANRequest, AgeRequest, objVars, Finish
  <2> QED
    BY Zenon, <1>1, <2>1, RequestExecuted, RequestAged
<1>5. ASSUME NEW m \in Machines,
             StartReconcile(m) \/ CheckRequestStates(m) \/ LockLAN(m) \/ Lookup(m) \/ CheckQueue(m)
               \/ LookupAgain(m) \/ UseLAN(m) \/ ReconcileServer(m)
      PROVE  UNCHANGED cloudVars
  BY Zenon, <1>5 DEF StartReconcile, CheckRequestStates, LockLAN, Lookup, CheckQueue, LookupAgain, UseLAN, ReconcileServer
<1>6. ASSUME NEW m \in Machines,
             ReconcileServerDeletion(m) \/ ForgetLAN(m) \/ CheckDeletion(m) \/ RemoveFinalizer(m)
               \/ StepError(m) \/ CacheSync(m) \/ UserDelete(m) \/ ServerRequest(m)
      PROVE  UNCHANGED cloudVars
  BY Zenon, <1>6 DEF ReconcileServerDeletion, ForgetLAN, CheckDeletion, RemoveFinalizer, StepError, CacheSync, UserDelete, ServerRequest
<1>7. CASE Crash \/ Idle \/ UNCHANGED vars
  BY Zenon, <1>7 DEF Crash, Idle, vars
<1> QED
  BY Zenon, <1>2, <1>3, <1>4, <1>5, <1>6, <1>7 DEF Next, Reconcile, Cloud

\* What becomes of a machine in the API server.
Moves == {<<"new", "live">>, <<"new", "gone">>, <<"live", "deleting">>, <<"deleting", "gone">>}

LEMMA ObjectMoves ==
  ASSUME LANInv, [Next]_vars
  PROVE  obj' = obj \/ \E m \in Machines, to \in ObjectStates :
                         <<obj[m], to>> \in Moves /\ obj' = [obj EXCEPT ![m] = to]
<1>1. ObjectInv /\ obj \in [Machines -> ObjectStates]
  BY Zenon DEF LANInv, TypeOK
<1>2. ASSUME NEW m \in Machines, NEW to \in ObjectStates, obj[m] = to, obj' = [obj EXCEPT ![m] = to]
      PROVE  obj' = obj
  BY Zenon, <1>1, <1>2
<1>3. {"new", "live", "deleting", "gone"} \subseteq ObjectStates
  BY Zenon DEF ObjectStates
<1>4. ASSUME NEW m \in Machines, StartReconcile(m)
      PROVE  obj' = obj \/ (obj[m] = "new" /\ obj' = [obj EXCEPT ![m] = "live"])
  BY Zenon, <1>1, <1>4 DEF StartReconcile
<1>5. ASSUME NEW m \in Machines, RemoveFinalizer(m)
      PROVE  obj[m] \in {"deleting", "gone"} /\ obj' = [obj EXCEPT ![m] = "gone"]
  BY Zenon, <1>1, <1>5 DEF RemoveFinalizer, ObjectInv, ObjectAt, DeleteSteps
<1>6. ASSUME NEW m \in Machines, UserDelete(m)
      PROVE  \/ obj[m] = "new" /\ obj' = [obj EXCEPT ![m] = "gone"]
             \/ obj[m] = "live" /\ obj' = [obj EXCEPT ![m] = "deleting"]
  BY Zenon, <1>6 DEF UserDelete
<1>7. ASSUME NEW m \in Machines,
             CheckRequestStates(m) \/ LockLAN(m) \/ Lookup(m) \/ CheckQueue(m)
               \/ LookupAgain(m) \/ UseLAN(m) \/ ReconcileServer(m) \/ CreateLAN(m)
      PROVE  obj' = obj
  BY Zenon, <1>7 DEF CheckRequestStates, LockLAN, Lookup, CheckQueue, LookupAgain, UseLAN, ReconcileServer, CreateLAN, objVars
<1>8. ASSUME NEW m \in Machines,
             ReconcileServerDeletion(m) \/ ForgetLAN(m) \/ CheckDeletion(m) \/ DeleteLAN(m)
               \/ StepError(m) \/ CacheSync(m) \/ ServerRequest(m)
      PROVE  obj' = obj
  BY Zenon, <1>8 DEF ReconcileServerDeletion, ForgetLAN, CheckDeletion, DeleteLAN, StepError, CacheSync, ServerRequest, objVars
<1>9. ASSUME Crash \/ Idle \/ UNCHANGED vars \/ \E i \in DOMAIN reqs : LANRequest(i) \/ AgeRequest(i)
      PROVE  obj' = obj
  BY Zenon, <1>9 DEF Crash, Idle, vars, LANRequest, AgeRequest, objVars
<1>10. ASSUME NEW m \in Machines, StartReconcile(m) \/ RemoveFinalizer(m) \/ UserDelete(m)
       PROVE  obj' = obj \/ \E to \in ObjectStates : <<obj[m], to>> \in Moves /\ obj' = [obj EXCEPT ![m] = to]
  BY Zenon, <1>2, <1>3, <1>4, <1>5, <1>6, <1>10 DEF Moves
<1> QED
  BY Zenon, <1>7, <1>8, <1>9, <1>10 DEF Next, Reconcile, Cloud

\* Held and Ending follow the machine that moves, never both in one step, and the
\* deletion of a machine is not taken back.
LEMMA HoldersMove ==
  ASSUME LANInv, [Next]_vars
  PROVE  /\ Held \in BOOLEAN /\ Held' \in BOOLEAN /\ Ending \in BOOLEAN /\ Ending' \in BOOLEAN
         /\ Ending => Ending'
         /\ ~Ending /\ Ending' => Held' = Held
<1>0. Held \in BOOLEAN /\ Held' \in BOOLEAN /\ Ending \in BOOLEAN /\ Ending' \in BOOLEAN
  BY Zenon DEF Held, Ending
<1>1. obj \in [Machines -> ObjectStates]
  BY Zenon DEF LANInv, TypeOK
<1>2. CASE obj' = obj
  BY Zenon, <1>0, <1>2 DEF Held, Ending
<1>3. ASSUME NEW m \in Machines, NEW to \in ObjectStates,
             <<obj[m], to>> \in Moves, obj' = [obj EXCEPT ![m] = to]
      PROVE  (Ending => Ending') /\ (~Ending /\ Ending' => Held' = Held)
  <2>1. obj'[m] = to /\ \A n \in Machines : n # m => obj'[n] = obj[n]
    BY Zenon, <1>1, <1>3
  <2>2. \/ obj[m] = "new" /\ to \in {"live", "gone"}
        \/ obj[m] = "live" /\ to = "deleting"
        \/ obj[m] = "deleting" /\ to = "gone"
    BY Zenon, <1>3 DEF Moves
  <2>3. Ending => Ending'
    BY Zenon, <2>1, <2>2 DEF Ending
  <2>4. ASSUME ~Ending, Ending' PROVE Held' = Held
    <3>1. \/ obj[m] = "new" /\ to = "gone"
          \/ obj[m] = "live" /\ to = "deleting"
      BY Zenon, <2>1, <2>2, <2>4 DEF Ending
    <3>2. Held' <=> Held
      BY Zenon, <2>1, <3>1 DEF Held
    <3> QED
      BY Zenon, <1>0, <3>2
  <2> QED
    BY Zenon, <2>3, <2>4
<1> QED
  BY Zenon, <1>0, <1>2, <1>3, ObjectMoves

\* A LAN's deletion is requested only after the deletion of a machine.
DeletionInv == ~NoDeletion => Ending

LEMMA LANDeletionInvariant == Spec => []DeletionInv
<1>1. Init => DeletionInv
  <2> SUFFICES ASSUME Init PROVE NoDeletion
    BY Zenon DEF DeletionInv
  <2>1. \A i \in DOMAIN reqs : reqs[i].method = "POST"
    BY DEF Init
  <2> QED
    BY Zenon, <2>1 DEF NoDeletion
<1>2. LANInv /\ LANInv' /\ DeletionInv /\ [Next]_vars => DeletionInv'
  <2> SUFFICES ASSUME LANInv, DeletionInv, [Next]_vars, ~Ending PROVE NoDeletion' \/ Ending'
    BY Zenon, HoldersMove DEF DeletionInv
  <2>1. NoDeletion
    BY Zenon DEF DeletionInv
  <2>2. CASE UNCHANGED cloudVars
    BY Zenon, <2>1, <2>2 DEF NoDeletion, cloudVars
  <2>3. CASE Post(ClusterName) /\ ClusterLANs = {}
    <3>1. CloudTypeOK /\ CloudInv /\ ClusterName \in Names
      BY Zenon, LANAssumption DEF LANInv, TypeOK
    <3> QED
      BY Zenon, <2>1, <2>3, <3>1, ResourceRequested, LANsNamed
  <2>4. CASE Kept /\ DOMAIN reqs' = DOMAIN reqs
    BY Zenon, <2>1, <2>4 DEF NoDeletion, Kept
  <2> QED
    BY Zenon, <2>2, <2>3, <2>4, LANCalls
<1> QED
  BY <1>1, <1>2, LANInvariant, PTL DEF Spec

\* With the invariants, every step is one of the managed resource or leaves it alone.
LEMMA LANResourceStep ==
  ASSUME LANInv, LANInv', DeletionInv, [Next]_vars
  PROVE  [Resource!Next]_(Resource!resourceVars)
<1>1. CloudTypeOK /\ CloudInv /\ \A i, j \in ClusterLANs : i = j
  <2>1. CloudTypeOK /\ CloudInv /\ Newest
    BY Zenon DEF LANInv, TypeOK, FindInv
  <2>2. \A i \in ClusterLANs : i \in DOMAIN reqs /\ reqs[i].method = "POST" /\ reqs[i].name = ClusterName
    BY Zenon DEF ClusterLANs
  <2> QED
    BY <2>1, <2>2 DEF CloudTypeOK, Newest
<1>2. CASE UNCHANGED cloudVars
  <2>1. ClusterLANs' = ClusterLANs /\ CreatedLANs' = CreatedLANs
    BY Zenon, <1>2 DEF cloudVars, ClusterLANs, CreatedLANs, isPending, Listed
  <2>2. ~Held' => ClusterLANs = {}
    BY Zenon, <2>1 DEF LANInv, OwnerInv, Stays, Held
  <2> QED
    BY Zenon, <2>1, <2>2, HoldersMove DEF Resource!Next, Resource!Hold, Resource!Release, Resource!End,
       Resource!resourceVars
<1>3. CASE UNCHANGED obj /\ Post(ClusterName) /\ ClusterLANs = {} /\ Held
  <2>1. ClusterName \in Names
    BY Zenon, LANAssumption
  <2>2. (\E id \in ClusterLANs' : ClusterLANs' = {id}) /\ CreatedLANs' = {} /\ CreatedLANs = {}
    BY Zenon, <1>1, <1>3, <2>1, ResourceRequested, LANsNamed
  <2>3. Held' = Held /\ Ending' = Ending
    BY Zenon, <1>3 DEF Held, Ending
  <2> QED
    BY Zenon, <1>3, <2>2, <2>3 DEF Resource!Next, Resource!Request
<1>4. CASE UNCHANGED obj /\ Kept /\ Durable
  <2>1. ResourceMoves(ClusterName)
    BY Zenon, <1>1, <1>4, ResourceStep, LANsNamed
  <2>2. Held' = Held /\ Ending' = Ending
    BY Zenon, <1>4 DEF Held, Ending
  <2> QED
    BY Zenon, <2>1, <2>2, LANsNamed DEF DeletionInv, ResourceMoves, Resource!Next, Resource!Complete, Resource!Fail,
       Resource!Remove, Resource!resourceVars
<1> QED
  BY Zenon, <1>2, <1>3, <1>4, LANCalls

\* ReconcileLAN and ReconcileLANDeletion, run by all the machines, implement one managed
\* resource.
THEOREM LANImplementsResource == Spec => LANManaged
<1>1. Init => Resource!Init
  <2> SUFFICES ASSUME Init PROVE Resource!Init
    OBVIOUS
  <2>1. \A i \in DOMAIN reqs : reqs[i].name # ClusterName
    BY DEF Init, UserName, ClusterName
  <2>2. ClusterLANs = {} /\ CreatedLANs = {}
    BY Zenon, <2>1 DEF ClusterLANs, CreatedLANs
  <2>3. ~Held /\ ~Ending
    BY DEF Init, Held, Ending
  <2> QED
    BY Zenon, <2>2, <2>3 DEF Resource!Init
<1>2. LANInv /\ LANInv' /\ DeletionInv /\ [Next]_vars => [Resource!Next]_(Resource!resourceVars)
  BY Zenon, LANResourceStep
<1> QED
  BY <1>1, <1>2, LANInvariant, LANDeletionInvariant, PTL DEF Spec, LANManaged, Resource!Spec

-----------------------------------------------------------------------------
(***************************************************************************)
(* One deletion at a time.                                                 *)
(***************************************************************************)
Deletions(id) == {i \in DOMAIN reqs : reqs[i].method = "DELETE" /\ reqs[i].id = id /\ isPending(i)}

\* The machine that is about to send a deletion is right in believing that there is none.
OnceInv == /\ DeletesOnce
           /\ \A m \in Machines : pc[m] = "deleteD" => Deletions(lan[m].id) = {}

\* Nothing is pending that was not pending before.
NoneAdded == \A id : Deletions(id)' \subseteq Deletions(id)

\* Requests of a LAN are executed in their order, so that the latest one, which
\* getLatestLANDeletionRequest returns, tells of all of them.
LEMMA LatestTells ==
  ASSUME LANInv, NEW id, NEW i \in {0} \cup DOMAIN reqs, DeletionRequest(i, id), i # 0 => ~isPending(i)
  PROVE  Deletions(id) = {}
<1>0. CloudTypeOK /\ CloudInv
  BY Zenon DEF LANInv, TypeOK
<1> SUFFICES ASSUME NEW j \in Deletions(id) PROVE FALSE
  OBVIOUS
<1>1. j \in DOMAIN reqs /\ reqs[j].method = "DELETE" /\ reqs[j].id = id /\ isPending(j)
  BY Zenon DEF Deletions
<1>2. reqs[j].recent /\ 0 \notin DOMAIN reqs
  BY <1>0, <1>1 DEF CloudInv, CloudTypeOK
<1>3. i # 0 /\ i \in DOMAIN reqs /\ j <= i /\ reqs[i].id = id
  BY Zenon, <1>1, <1>2 DEF DeletionRequest, getMatchingRequest
<1>4. i # j
  BY Zenon, <1>1, <1>3
<1>5. j < i
  BY <1>0, <1>1, <1>3, <1>4 DEF CloudTypeOK
<1>6. reqs[i].status = "QUEUED"
  BY SMTT(30), <1>0, <1>1, <1>3, <1>5 DEF CloudInv
<1> QED
  BY Zenon, <1>3, <1>6 DEF isPending

\* A machine comes to send a deletion from CheckDeletion only, with the LAN it looked at.
LEMMA ComesToDelete ==
  ASSUME LANInv, [Next]_vars, NEW n \in Machines, pc'[n] = "deleteD"
  PROVE  lan'[n] = lan[n] /\ (pc[n] = "deleteD" \/ CheckDeletion(n))
<1>0. pc \in [Machines -> {"idle"} \cup NormalSteps \cup DeleteSteps] /\ DOMAIN pc = Machines /\ DOMAIN lan = Machines
  BY Zenon DEF LANInv, TypeOK
<1>1. ASSUME NEW m \in Machines, NEW step, Leave(m, step), step # "deleteD"
      PROVE  n # m /\ pc[n] = "deleteD" /\ lan'[n] = lan[n]
  BY Zenon, <1>0, <1>1 DEF Leave, Goto
<1>2. ASSUME NEW m \in Machines, NEW step, Goto(m, step), step # "deleteD", UNCHANGED lan
      PROVE  pc[n] = "deleteD" /\ lan'[n] = lan[n]
  BY Zenon, <1>0, <1>2 DEF Goto
<1>3. ASSUME NEW m \in Machines,
             StartReconcile(m) \/ CheckRequestStates(m) \/ LockLAN(m) \/ ReconcileServerDeletion(m)
      PROVE  \/ Return(m)
             \/ /\ UNCHANGED lan
                /\ \E step \in {"check", "checkD", "lockLAN", "serverD", "lookup", "lookupD", "lockLAND"} :
                      Goto(m, step)
  BY Zenon, <1>3 DEF StartReconcile, CheckRequestStates, LockLAN, ReconcileServerDeletion, localVars
<1>4. ASSUME NEW m \in Machines, CheckQueue(m)
      PROVE  UNCHANGED lan /\ \E step \in {"decide", "relookup", "decideD", "relookupD"} : Goto(m, step)
  BY Zenon, <1>4 DEF CheckQueue
<1>5. ASSUME NEW m \in Machines, Lookup(m) \/ LookupAgain(m)
      PROVE  \/ Return(m)
             \/ /\ lan' = [lan EXCEPT ![m] = getLAN]
                /\ \E step \in {"queue", "decide", "queueD", "decideD"} : Goto(m, step)
  BY Zenon, <1>5 DEF Lookup, LookupAgain, TryLookup
<1>6. ASSUME NEW m \in Machines,
             CreateLAN(m) \/ UseLAN(m) \/ ReconcileServer(m) \/ ForgetLAN(m) \/ DeleteLAN(m)
               \/ RemoveFinalizer(m) \/ StepError(m)
      PROVE  \E step \in {"idle", "server", "finalizerD"} : Leave(m, step)
  BY Zenon, <1>6 DEF CreateLAN, UseLAN, ReconcileServer, ForgetLAN, DeleteLAN, RemoveFinalizer, StepError, Return
<1>7. ASSUME NEW m \in Machines, CheckDeletion(m)
      PROVE  lan'[n] = lan[n] /\ (pc[n] = "deleteD" \/ n = m)
  <2>1. \/ \E step \in {"idle", "finalizerD"} : Leave(m, step)
        \/ Goto(m, "deleteD") /\ UNCHANGED lan
    BY Zenon, <1>7 DEF CheckDeletion, Return, localVars
  <2> QED
    BY Zenon, <1>0, <1>1, <2>1 DEF Goto
<1>8. ASSUME NEW m \in Machines, CacheSync(m) \/ UserDelete(m) \/ ServerRequest(m)
      PROVE  UNCHANGED <<pc, lan>>
  BY Zenon, <1>8 DEF CacheSync, UserDelete, ServerRequest, localVars
<1>9. ASSUME Idle \/ UNCHANGED vars \/ \E i \in DOMAIN reqs : LANRequest(i) \/ AgeRequest(i)
      PROVE  UNCHANGED <<pc, lan>>
  BY Zenon, <1>9 DEF Idle, vars, LANRequest, AgeRequest, localVars
<1>10. ~Crash
  BY Zenon DEF Crash
<1>11. ASSUME NEW m \in Machines, Reconcile(m)
       PROVE  lan'[n] = lan[n] /\ (pc[n] = "deleteD" \/ CheckDeletion(n))
  <2>1. CASE Return(m)
    BY Zenon, <1>1, <2>1 DEF Return
  <2>2. CASE StartReconcile(m) \/ CheckRequestStates(m) \/ LockLAN(m) \/ ReconcileServerDeletion(m) \/ CheckQueue(m)
    BY Zenon, <1>2, <1>3, <1>4, <2>1, <2>2
  <2>3. CASE Lookup(m) \/ LookupAgain(m)
    BY Zenon, <1>0, <1>5, <2>1, <2>3 DEF Goto
  <2>4. CASE \/ CreateLAN(m) \/ UseLAN(m) \/ ReconcileServer(m) \/ ForgetLAN(m) \/ DeleteLAN(m)
             \/ RemoveFinalizer(m)
    BY Zenon, <1>1, <1>6, <2>4
  <2>5. CASE CheckDeletion(m)
    BY Zenon, <1>7, <2>5
  <2> QED
    BY Zenon, <1>11, <2>2, <2>3, <2>4, <2>5 DEF Reconcile
<1>12. ASSUME NEW m \in Machines, StepError(m)
       PROVE  lan'[n] = lan[n] /\ pc[n] = "deleteD"
  BY Zenon, <1>1, <1>6, <1>12
<1> QED
  BY Zenon, <1>8, <1>9, <1>10, <1>11, <1>12 DEF Next, Cloud

\* Every step but deleteLAN's adds no deletion.
LEMMA DeletionAdded ==
  ASSUME LANInv, [Next]_vars
  PROVE  NoneAdded \/ \E m \in Machines : DeleteLAN(m) /\ Submit("DELETE", lan[m].id)
<1>0. CloudTypeOK /\ CloudInv /\ ClusterName \in Names
  BY Zenon, LANAssumption DEF LANInv, TypeOK
<1>1. CASE Kept /\ DOMAIN reqs' = DOMAIN reqs
  BY Zenon, <1>1 DEF Kept, NoneAdded, Deletions, isPending
<1>2. CASE UNCHANGED cloudVars
  BY Zenon, <1>2 DEF cloudVars, NoneAdded, Deletions, isPending
<1>3. CASE Post(ClusterName)
  <2> DEFINE r == [method |-> "POST", id |-> Len(reqs) + 1, name |-> ClusterName,
                   status |-> "QUEUED", recent |-> TRUE]
  <2>1. Accepted(r) /\ r.method # "DELETE"
    BY Zenon, <1>0, <1>3, ResourcePosted
  <2> HIDE DEF r
  <2> QED
    BY Zenon, <2>1 DEF Accepted, NoneAdded, Deletions, isPending
<1> QED
  BY Zenon, <1>1, <1>2, <1>3, LANCalls

\* OnceInv is inductive with LANInv: under the lock, the answer CheckDeletion got is
\* still right when deleteLAN acts on it.
LEMMA OnceStep ==
  ASSUME LANInv, OnceInv, [Next]_vars
  PROVE  OnceInv'
<1>1. CASE NoneAdded
  <2>1. DeletesOnce'
    <3>1. SUFFICES ASSUME NEW id, NEW i \in Deletions(id)', NEW j \in Deletions(id)'
                   PROVE  i = j
      BY Zenon DEF DeletesOnce, Deletions
    <3>2. i \in Deletions(id) /\ j \in Deletions(id)
      BY Zenon, <1>1 DEF NoneAdded
    <3> QED
      BY Zenon, <3>2 DEF OnceInv, DeletesOnce, Deletions
  <2>2. ASSUME NEW n \in Machines, pc'[n] = "deleteD"
        PROVE  Deletions(lan[n].id) = {} /\ lan'[n] = lan[n]
    <3>1. lan'[n] = lan[n] /\ (pc[n] = "deleteD" \/ CheckDeletion(n))
      BY Zenon, <2>2, ComesToDelete
    <3>2. CASE CheckDeletion(n) /\ pc[n] # "deleteD"
      <4>1. PICK i \in {0} \cup DOMAIN reqs : /\ DeletionRequest(i, lan[n].id)
                                              /\ (i # 0 => ~isPending(i)) \/ Return(n)
        BY Zenon, <3>2 DEF CheckDeletion
      <4>2. ~Return(n)
        BY Zenon, <2>2 DEF Return, Leave, Goto, LANInv, TypeOK
      <4> QED
        BY Zenon, <3>1, <4>1, <4>2, LatestTells
    <3> QED
      BY Zenon, <3>1, <3>2 DEF OnceInv
  <2> QED
    BY Zenon, <1>1, <2>1, <2>2 DEF OnceInv, NoneAdded
<1>2. ASSUME NEW m \in Machines, DeleteLAN(m), Submit("DELETE", lan[m].id)
      PROVE  OnceInv'
  <2> DEFINE r == [method |-> "DELETE", id |-> lan[m].id, name |-> reqs[lan[m].id].name,
                   status |-> "QUEUED", recent |-> TRUE]
  <2>1. Accepted(r) /\ r.id = lan[m].id
    <3>1. CloudTypeOK /\ CloudInv /\ "DELETE" \in Methods \ {"POST"}
      BY Zenon DEF LANInv, TypeOK, Methods
    <3> QED
      BY Zenon, <1>2, <3>1, RequestSubmitted
  <2> HIDE DEF r
  <2>2. pc[m] = "deleteD" /\ Deletions(lan[m].id) = {} /\ Return(m) /\ lock = m
    BY Zenon, <1>2 DEF DeleteLAN, OnceInv, LANInv, FindInv, LockedSteps
  <2>3. \A id : Deletions(id)' \subseteq Deletions(id) \cup (IF id = lan[m].id THEN {Len(reqs) + 1} ELSE {})
    BY Zenon, <2>1 DEF Accepted, Deletions, isPending
  <2>4. DeletesOnce'
    <3>1. ASSUME NEW id, NEW i \in Deletions(id)', NEW j \in Deletions(id)' PROVE i = j
      <4>1. CASE id = lan[m].id
        BY Zenon, <2>2, <2>3, <3>1, <4>1
      <4>2. CASE id # lan[m].id
        <5>1. i \in Deletions(id) /\ j \in Deletions(id)
          BY Zenon, <2>3, <3>1, <4>2
        <5> QED
          BY Zenon, <5>1 DEF OnceInv, DeletesOnce, Deletions
      <4> QED
        BY Zenon, <4>1, <4>2
    <3> QED
      BY Zenon, <3>1 DEF DeletesOnce, Deletions
  <2>5. \A n \in Machines : pc'[n] # "deleteD"
    BY Zenon, <2>2 DEF Return, Leave, Goto, LANInv, TypeOK, FindInv, LockedSteps
  <2> QED
    BY Zenon, <2>4, <2>5 DEF OnceInv
<1> QED
  BY Zenon, <1>1, <1>2, DeletionAdded

\* Two deletions of one LAN are never pending together, whatever interleaving of the
\* machines, failed calls, lost records and crashes led there.
THEOREM LANDeletedOnce == Spec => []DeletesOnce
<1>1. Init => OnceInv
  <2> SUFFICES ASSUME Init PROVE OnceInv
    OBVIOUS
  <2>1. \A i \in DOMAIN reqs : reqs[i].method = "POST"
    BY DEF Init
  <2>2. \A m \in Machines : pc[m] # "deleteD"
    BY Zenon DEF Init
  <2> QED
    BY Zenon, <2>1, <2>2 DEF OnceInv, DeletesOnce
<1>2. LANInv /\ OnceInv /\ [Next]_vars => OnceInv'
  BY Zenon, OnceStep
<1>3. OnceInv => DeletesOnce
  BY Zenon DEF OnceInv
<1> QED
  BY <1>1, <1>2, <1>3, LANInvariant, PTL DEF Spec
=============================================================================
