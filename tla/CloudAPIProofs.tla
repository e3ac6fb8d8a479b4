--------------------------- MODULE CloudAPIProofs ---------------------------
(***************************************************************************)
(* What the requests of the cloud do to its resources, for every component *)
(* that creates and deletes resources through CloudAPI.                    *)
(***************************************************************************)
EXTENDS CloudAPI, TLAPS

\* The resources that exist or are being created.
Resources == {i \in DOMAIN reqs : reqs[i].method = "POST" /\ (isPending(i) \/ Listed(i))}

\* What the requests say of each other and of the resources.
CloudInv ==
  \A i \in DOMAIN reqs :
    /\ isPending(i) => reqs[i].recent
    /\ reqs[i].method = "POST" =>
         /\ reqs[i].id = i
         /\ reqs[i].status = "FAILED" => res[i] = "absent"
         /\ isPending(i) => res[i] # "AVAILABLE"
    /\ reqs[i].method # "POST" =>
         /\ reqs[i].id \in DOMAIN reqs /\ reqs[i].id < i
         /\ reqs[reqs[i].id].method = "POST" /\ reqs[reqs[i].id].name = reqs[i].name
         /\ res[i] = "absent"
    /\ reqs[i].method = "DELETE" /\ reqs[i].status = "DONE" => res[reqs[i].id] = "absent"
    /\ \A j \in DOMAIN reqs :
         j < i /\ reqs[j].id = reqs[i].id /\ isPending(j) => reqs[i].status = "QUEUED"

\* No request is forgotten, one that is finished stays as it is, and no resource is
\* there that was not there or being created before.
Kept == /\ \A k \in DOMAIN reqs :
             /\ k \in DOMAIN reqs'
             /\ reqs'[k].method = reqs[k].method
             /\ reqs'[k].id = reqs[k].id
             /\ reqs'[k].name = reqs[k].name
             /\ ~isPending(k) => reqs'[k].status = reqs[k].status
        /\ \A k \in DOMAIN reqs' : reqs'[k].method = "POST" => k \in DOMAIN reqs
        /\ Resources' \subseteq Resources

\* No request drops out of the list of the last 24 hours.
Remembered == \A k \in DOMAIN reqs : reqs[k].recent => reqs'[k].recent

\* A resource whose creation is DONE is there until its deletion is requested.
Durable == \A k \in Resources :
  (\A j \in DOMAIN reqs : reqs[j].method = "DELETE" => reqs[j].id # k) =>
     (reqs'[k].status = "DONE" => Listed(k)')

-----------------------------------------------------------------------------
\* A request stays a request when its status changes.
LEMMA StatusChanged ==
  ASSUME NEW r \in Requests, NEW st \in Statuses
  PROVE  [r EXCEPT !.status = st] \in Requests
BY Zenon DEF Requests

\* What executing request i does: it changes the status of i and the resource of i.
Effect(i, st, new) ==
  /\ reqs' = [reqs EXCEPT ![i].status = st]
  /\ res' = [res EXCEPT ![reqs[i].id] = new]
  /\ isPending(i) /\ st # "QUEUED"
  /\ new # "absent" => Listed(reqs[i].id) \/ reqs[i].method = "POST"
  /\ new = "absent" => ~Listed(reqs[i].id) \/ reqs[i].method \in {"POST", "DELETE"}
  /\ reqs[i].method = "POST" => /\ st = "RUNNING" => new # "AVAILABLE"
                                /\ st = "FAILED" => new = "absent"
                                /\ st = "DONE" => new # "absent"
  /\ reqs[i].method = "DELETE" /\ st = "DONE" => new = "absent"

LEMMA ExecutionEffect ==
  ASSUME CloudTypeOK, CloudInv, NEW i \in DOMAIN reqs, Run(i) \/ Finish(i, {}) \/ Fail(i)
  PROVE  \E st \in Statuses, new \in ResourceStates : Effect(i, st, new)
<1> DEFINE id == reqs[i].id
<1>1. id \in DOMAIN reqs /\ DOMAIN res = DOMAIN reqs
  BY DEF CloudTypeOK, CloudInv
<1>2. res[id] \in ResourceStates /\ res = [res EXCEPT ![id] = res[id]]
  BY <1>1 DEF CloudTypeOK
<1>3. /\ {"RUNNING", "DONE", "FAILED"} \subseteq Statuses
      /\ {"absent", "BUSY", "AVAILABLE"} \subseteq ResourceStates
      /\ reqs[i].status \in {"QUEUED", "RUNNING"} => isPending(i)
      /\ Listed(id) <=> res[id] # "absent"
  BY Zenon, <1>1 DEF Statuses, ResourceStates, isPending, Listed
<1>4. CASE Run(i)
  <2>1. CASE UNCHANGED res
    <3>1. reqs[i].method = "POST" => id = i /\ res[i] # "AVAILABLE"
      BY Zenon, <1>4, <1>3 DEF Run, CloudInv
    <3>2. Effect(i, "RUNNING", res[id])
      BY Zenon, <1>2, <1>3, <1>4, <2>1, <3>1 DEF Run, SetStatus, Effect
    <3> QED
      BY Zenon, <3>2, <1>2, <1>3
  <2>2. CASE ~UNCHANGED res
    <3>1. Effect(i, "RUNNING", "BUSY")
      BY Zenon, <1>3, <1>4, <2>2 DEF Run, SetStatus, Effect
    <3> QED
      BY Zenon, <3>1, <1>3
  <2> QED
    BY Zenon, <2>1, <2>2
<1>5. CASE Finish(i, {})
  <2>1. CASE reqs[i].method = "POST"
    <3>1. Effect(i, "DONE", "AVAILABLE")
      BY Zenon, <1>3, <1>5, <2>1 DEF Finish, SetStatus, Effect
    <3> QED
      BY Zenon, <3>1, <1>3
  <2>2. CASE reqs[i].method = "DELETE"
    <3>1. Effect(i, "DONE", "absent")
      BY Zenon, <1>3, <1>5, <2>2 DEF Finish, SetStatus, Effect
    <3> QED
      BY Zenon, <3>1, <1>3
  <2>3. CASE reqs[i].method \notin {"POST", "DELETE"}
    <3>1. Effect(i, "DONE", res[id])
      BY Zenon, <1>1, <1>2, <1>3, <1>5, <2>3 DEF Finish, SetStatus, Effect
    <3> QED
      BY Zenon, <3>1, <1>2, <1>3
  <2> QED
    BY Zenon, <2>1, <2>2, <2>3
<1>6. CASE Fail(i)
  <2>1. CASE reqs[i].method = "POST" \/ res[id] = "absent"
    <3>1. Effect(i, "FAILED", "absent")
      BY Zenon, <1>1, <1>3, <1>6, <2>1 DEF Fail, SetStatus, Effect, CloudTypeOK
    <3> QED
      BY Zenon, <3>1, <1>3
  <2>2. CASE ~(reqs[i].method = "POST" \/ res[id] = "absent")
    <3>1. Effect(i, "FAILED", "AVAILABLE")
      BY Zenon, <1>1, <1>3, <1>6, <2>2 DEF Fail, SetStatus, Effect, CloudTypeOK
    <3> QED
      BY Zenon, <3>1, <1>3
  <2> QED
    BY Zenon, <2>1, <2>2
<1> QED
  BY Zenon, <1>4, <1>5, <1>6

\* The cloud executes the requests for a resource one after the other.
LEMMA ExecutedInTurn ==
  ASSUME CloudTypeOK, CloudInv, NEW i \in DOMAIN reqs, Run(i) \/ Finish(i, {}) \/ Fail(i)
  PROVE  \A j \in DOMAIN reqs : j < i /\ reqs[j].id = reqs[i].id => ~isPending(j)
<1>1. CASE Run(i)
  BY <1>1 DEF Run, CloudTypeOK
<1>2. CASE ~Run(i)
  <2>1. reqs[i].status = "RUNNING"
    BY Zenon, <1>2 DEF Finish, Fail
  <2> QED
    BY Zenon, <2>1 DEF CloudInv
<1> QED
  BY Zenon, <1>1, <1>2

\* Executing a request leaves the requests and the resources in order.
LEMMA RequestExecuted ==
  ASSUME CloudTypeOK, CloudInv, NEW i \in DOMAIN reqs, Run(i) \/ Finish(i, {}) \/ Fail(i)
  PROVE  CloudTypeOK' /\ CloudInv' /\ Kept /\ Remembered /\ Durable /\ DOMAIN reqs' = DOMAIN reqs
<1> DEFINE id == reqs[i].id
<1>1. /\ id \in DOMAIN reqs /\ reqs[id].method = "POST" /\ reqs[id].id = id
      /\ reqs[i].method = "POST" => id = i
      /\ DOMAIN res = DOMAIN reqs
  BY DEF CloudTypeOK, CloudInv
<1>2. PICK st \in Statuses, new \in ResourceStates : Effect(i, st, new)
  BY Zenon, ExecutionEffect
<1>3. CloudTypeOK'
  <2>1. [reqs[i] EXCEPT !.status = st] \in Requests
    BY StatusChanged DEF CloudTypeOK
  <2>2. reqs' \in Seq(Requests) /\ Len(reqs') = Len(reqs)
    BY <1>2, <2>1 DEF CloudTypeOK, Effect
  <2> QED
    BY <1>1, <1>2, <2>2 DEF CloudTypeOK, Effect
<1>4. /\ DOMAIN reqs' = DOMAIN reqs /\ DOMAIN res' = DOMAIN res
      /\ \A k \in DOMAIN reqs : /\ reqs'[k].method = reqs[k].method
                                /\ reqs'[k].id = reqs[k].id
                                /\ reqs'[k].name = reqs[k].name
                                /\ reqs'[k].recent = reqs[k].recent
                                /\ reqs'[k].status = IF k = i THEN st ELSE reqs[k].status
                                /\ res'[k] = IF k = id THEN new ELSE res[k]
  BY <1>1, <1>2 DEF CloudTypeOK, Requests, Effect
<1>5. /\ isPending(i) /\ st # "QUEUED"
      /\ new # "absent" => Listed(id) \/ reqs[i].method = "POST"
      /\ new = "absent" => ~Listed(id) \/ reqs[i].method \in {"POST", "DELETE"}
      /\ reqs[i].method = "POST" => /\ st = "RUNNING" => new # "AVAILABLE"
                                    /\ st = "FAILED" => new = "absent"
                                    /\ st = "DONE" => new # "absent"
      /\ reqs[i].method = "DELETE" /\ st = "DONE" => new = "absent"
  BY Zenon, <1>2 DEF Effect
<1>6. /\ \A k \in DOMAIN reqs : isPending(k)' => isPending(k)
      /\ reqs[i].method # "POST" => id # i /\ ~isPending(id)
  <2>1. reqs[i].method # "POST" => id < i
    BY Zenon DEF CloudInv
  <2>2. DOMAIN reqs \subseteq Nat
    BY DEF CloudTypeOK
  <2> QED
    BY Zenon, <1>1, <1>4, <1>5, <2>1, <2>2, ExecutedInTurn DEF isPending
<1>7. \A k \in DOMAIN reqs : reqs[k].method = "POST" =>
        /\ reqs'[k].id = k
        /\ reqs'[k].status = "FAILED" => res'[k] = "absent"
        /\ isPending(k)' => res'[k] # "AVAILABLE"
  <2> SUFFICES ASSUME NEW k \in DOMAIN reqs, reqs[k].method = "POST"
               PROVE  /\ reqs'[k].id = k
                      /\ reqs'[k].status = "FAILED" => res'[k] = "absent"
                      /\ isPending(k)' => res'[k] # "AVAILABLE"
    OBVIOUS
  <2>1. /\ reqs[k].id = k
        /\ reqs[k].status = "FAILED" => res[k] = "absent"
        /\ isPending(k) => res[k] # "AVAILABLE"
    BY Zenon DEF CloudInv
  <2> QED
    BY Zenon, <1>1, <1>4, <1>5, <1>6, <2>1 DEF isPending, Listed
<1>8. \A k \in DOMAIN reqs :
        reqs[k].method = "DELETE" /\ reqs'[k].status = "DONE" => res'[reqs[k].id] = "absent"
  <2> SUFFICES ASSUME NEW k \in DOMAIN reqs, reqs[k].method = "DELETE", reqs'[k].status = "DONE"
               PROVE  res'[reqs[k].id] = "absent"
    OBVIOUS
  <2>1. CASE k = i
    BY Zenon, <2>1, <1>1, <1>4, <1>5
  <2>2. CASE k # i
    <3>1. /\ reqs[k].status = "DONE" /\ reqs[k].id \in DOMAIN reqs /\ reqs[k].id < k
          /\ res[reqs[k].id] = "absent"
      BY <2>2, <1>4 DEF CloudInv
    <3>2. reqs[k].id = id => reqs[i].method # "POST" /\ ~Listed(id)
      <4> SUFFICES ASSUME reqs[k].id = id PROVE reqs[i].method # "POST" /\ ~Listed(id)
        OBVIOUS
      <4>1. reqs[i].method = "POST" => i < k /\ reqs[k].status = "QUEUED"
        BY <3>1, <1>5 DEF CloudInv
      <4> QED
        BY Zenon, <4>1, <3>1 DEF Listed
    <3> QED
      BY Zenon, <1>1, <1>4, <1>5, <3>1, <3>2
  <2> QED
    BY Zenon, <2>1, <2>2
<1>9. CloudInv'
  <2>1. \A k, j \in DOMAIN reqs :
          j < k /\ reqs'[j].id = reqs'[k].id /\ isPending(j)' => reqs'[k].status = "QUEUED"
    BY <1>4, <1>6, ExecutedInTurn DEF CloudInv
  <2>2. \A k \in DOMAIN reqs : reqs[k].method # "POST" =>
          /\ reqs[k].id \in DOMAIN reqs /\ reqs[k].id < k
          /\ reqs[reqs[k].id].method = "POST" /\ reqs[reqs[k].id].name = reqs[k].name
          /\ res'[k] = "absent"
    BY <1>1, <1>4 DEF CloudInv
  <2>3. \A k \in DOMAIN reqs : isPending(k)' => reqs'[k].recent
    BY Zenon, <1>4, <1>6 DEF CloudInv
  <2> HIDE DEF id
  <2> QED
    BY <1>4, <1>7, <1>8, <2>1, <2>2, <2>3 DEF CloudInv
<1>10. Resources' \subseteq Resources
  BY <1>1, <1>4, <1>5, <1>6 DEF Resources, Listed, CloudInv
<1>11. Kept /\ Remembered
  BY Zenon, <1>4, <1>5, <1>10 DEF Kept, Remembered, isPending
<1>12. Durable
  BY <1>1, <1>4, <1>5 DEF Durable, Resources, Listed, isPending
<1> QED
  BY Zenon, <1>3, <1>4, <1>9, <1>11, <1>12

\* An accepted request is the last one of the list and the others stay as they are.
Accepted(r) ==
  /\ Len(reqs) \in Nat /\ Len(reqs) + 1 \notin DOMAIN reqs
  /\ DOMAIN reqs' = DOMAIN reqs \cup {Len(reqs) + 1}
  /\ DOMAIN res = DOMAIN reqs /\ DOMAIN res' = DOMAIN reqs'
  /\ \A k \in DOMAIN reqs : reqs'[k] = reqs[k] /\ res'[k] = res[k] /\ k <= Len(reqs)
  /\ reqs'[Len(reqs) + 1] = r /\ res'[Len(reqs) + 1] = "absent"

LEMMA Appended ==
  ASSUME CloudTypeOK, NEW r \in Requests,
         reqs' = Append(reqs, r), res' = Append(res, "absent")
  PROVE  CloudTypeOK' /\ Accepted(r)
<1>1. "absent" \in ResourceStates
  BY Zenon DEF ResourceStates
<1> QED
  BY <1>1 DEF CloudTypeOK, Accepted

\* A request for a resource that is listed makes no resource.
LEMMA RequestSubmitted ==
  ASSUME CloudTypeOK, CloudInv, NEW method \in Methods \ {"POST"}, NEW id, Submit(method, id)
  PROVE  /\ CloudTypeOK' /\ CloudInv' /\ Kept /\ Remembered /\ Durable
         /\ id \in DOMAIN reqs /\ reqs[id].method = "POST"
         /\ Accepted([method |-> method, id |-> id, name |-> reqs[id].name,
                      status |-> "QUEUED", recent |-> TRUE])
<1> DEFINE r == [method |-> method, id |-> id, name |-> reqs[id].name,
                 status |-> "QUEUED", recent |-> TRUE]
<1>0. id \in DOMAIN reqs /\ id \in Nat /\ reqs[id] \in Requests /\ res[id] # "absent"
  BY DEF Submit, Listed, CloudTypeOK
<1>1. reqs[id].method = "POST" /\ r \in Requests
  BY Zenon, <1>0 DEF CloudInv, Requests, Statuses
<1>2. reqs' = Append(reqs, r) /\ res' = Append(res, "absent")
  BY Zenon DEF Submit
<1>3. /\ r.method = method /\ r.method # "POST" /\ r.id = id /\ r.recent /\ r.status = "QUEUED"
      /\ r.name = reqs[id].name
  OBVIOUS
<1> HIDE DEF r
<1>4. CloudTypeOK' /\ Accepted(r)
  BY Zenon, <1>1, <1>2, Appended
<1>5. CloudInv'
  BY <1>0, <1>1, <1>3, <1>4 DEF CloudInv, isPending, Accepted
<1>6. Kept /\ Remembered /\ Durable
  BY Zenon, <1>1, <1>3, <1>4 DEF Kept, Remembered, Durable, Resources, Listed, isPending, Accepted
<1> QED
  BY Zenon, <1>0, <1>1, <1>4, <1>5, <1>6 DEF r

\* A creation is the newest request, and it makes the only new resource.
LEMMA ResourcePosted ==
  ASSUME CloudTypeOK, CloudInv, NEW name \in Names, Post(name)
  PROVE  /\ CloudTypeOK' /\ CloudInv' /\ Remembered
         /\ Accepted([method |-> "POST", id |-> Len(reqs) + 1, name |-> name,
                      status |-> "QUEUED", recent |-> TRUE])
         /\ Resources' = Resources \cup {Len(reqs) + 1}
<1> DEFINE r == [method |-> "POST", id |-> Len(reqs) + 1, name |-> name,
                 status |-> "QUEUED", recent |-> TRUE]
<1>1. r \in Requests
  BY DEF CloudTypeOK, Requests, Methods, Statuses
<1>2. reqs' = Append(reqs, r) /\ res' = Append(res, "absent")
  BY Zenon DEF Post
<1>3. /\ r.method = "POST" /\ r.id = Len(reqs) + 1 /\ r.recent /\ r.status = "QUEUED"
  OBVIOUS
<1> HIDE DEF r
<1>4. CloudTypeOK' /\ Accepted(r)
  BY Zenon, <1>1, <1>2, Appended
<1>5. CloudInv'
  BY <1>3, <1>4 DEF CloudInv, isPending, Accepted
<1>6. Remembered /\ Resources' = Resources \cup {Len(reqs) + 1}
  BY Zenon, <1>3, <1>4 DEF Remembered, Resources, Listed, isPending, Accepted
<1> QED
  BY Zenon, <1>4, <1>5, <1>6 DEF r

\* A request that drops out of the list of the last 24 hours is not pending.
LEMMA RequestAged ==
  ASSUME CloudTypeOK, CloudInv, NEW i \in DOMAIN reqs, Age(i)
  PROVE  CloudTypeOK' /\ CloudInv' /\ Kept /\ Durable /\ UNCHANGED res /\ DOMAIN reqs' = DOMAIN reqs
<1>1. [reqs[i] EXCEPT !.recent = FALSE] \in Requests
  <2>1. \A r \in Requests : [r EXCEPT !.recent = FALSE] \in Requests
    BY Zenon DEF Requests
  <2> QED
    BY <2>1 DEF CloudTypeOK
<1>2. /\ reqs' \in Seq(Requests) /\ Len(reqs') = Len(reqs) /\ res' = res
      /\ DOMAIN reqs' = DOMAIN reqs
  BY <1>1 DEF CloudTypeOK, Age
<1>3. CloudTypeOK'
  BY Zenon, <1>2 DEF CloudTypeOK
<1>4. \A k \in DOMAIN reqs : /\ reqs'[k].method = reqs[k].method
                             /\ reqs'[k].id = reqs[k].id
                             /\ reqs'[k].name = reqs[k].name
                             /\ reqs'[k].status = reqs[k].status
                             /\ k # i => reqs'[k].recent = reqs[k].recent
  <2>1. res' = res /\ reqs' = [reqs EXCEPT ![i] = [reqs[i] EXCEPT !.recent = FALSE]]
    BY Zenon DEF Age
  <2>2. \A r \in Requests : LET s == [r EXCEPT !.recent = FALSE]
                           IN /\ s.method = r.method /\ s.id = r.id
                              /\ s.name = r.name /\ s.status = r.status
    BY Zenon DEF Requests
  <2>3. reqs[i] \in Requests /\ DOMAIN reqs' = DOMAIN reqs
    BY <2>1 DEF CloudTypeOK
  <2>4. \A k \in DOMAIN reqs : k # i => reqs'[k] = reqs[k]
    BY Zenon, <2>1 DEF CloudTypeOK
  <2>5. reqs'[i] = [reqs[i] EXCEPT !.recent = FALSE]
    BY Zenon, <2>1 DEF CloudTypeOK
  <2> QED
    BY ZenonT(60), <2>1, <2>2, <2>3, <2>4, <2>5
<1> ~isPending(i)
  BY Zenon DEF Age
<1>5. \A k \in DOMAIN reqs : (isPending(k)' <=> isPending(k)) /\ ~isPending(i)
  BY Zenon, <1>4 DEF isPending, Age
<1>6. CloudInv'
  BY <1>2, <1>4, <1>5 DEF CloudInv
<1>7. Kept /\ Durable
  BY Zenon, <1>2, <1>4, <1>5 DEF Kept, Durable, Resources, Listed, isPending
<1> QED
  BY Zenon, <1>2, <1>3, <1>6, <1>7

\* A step that makes no call of the cloud.
LEMMA CloudUnchanged ==
  ASSUME CloudTypeOK, CloudInv, UNCHANGED cloudVars
  PROVE  CloudTypeOK' /\ CloudInv' /\ Kept /\ Remembered /\ Durable /\ reqs' = reqs /\ res' = res
<1>1. reqs' = reqs /\ res' = res
  BY Zenon DEF cloudVars
<1> QED
  BY <1>1 DEF CloudTypeOK, CloudInv, Kept, Remembered, Durable, Resources, Listed, isPending

-----------------------------------------------------------------------------
(***************************************************************************)
(* The resources of one name, of which there is at most one.               *)
(***************************************************************************)
ResourcesOf(name) == {i \in Resources : reqs[i].name = name}
CreatedOf(name) == {i \in ResourcesOf(name) : ~isPending(i)}

NoDeletion == \A i \in DOMAIN reqs : reqs[i].method # "DELETE"

\* A resource is created, is lost in its creation, or goes after its creation was
\* finished, for which a deletion must have been requested.
ResourceMoves(name) ==
  \/ ResourcesOf(name)' = ResourcesOf(name) /\ CreatedOf(name)' = CreatedOf(name)
  \/ /\ ResourcesOf(name) # {} /\ CreatedOf(name) = {}
     /\ ResourcesOf(name)' = ResourcesOf(name) /\ CreatedOf(name)' = ResourcesOf(name)
  \/ /\ ResourcesOf(name) # {} /\ CreatedOf(name) = {}
     /\ ResourcesOf(name)' = {} /\ CreatedOf(name)' = {}
  \/ /\ CreatedOf(name) # {} /\ ~NoDeletion
     /\ ResourcesOf(name)' = {} /\ CreatedOf(name)' = {}

LEMMA ResourceStep ==
  ASSUME CloudTypeOK, CloudInv, Kept, Durable, NEW name,
         \A i, j \in ResourcesOf(name) : i = j
  PROVE  ResourceMoves(name)
<1>1. /\ ResourcesOf(name)' \subseteq ResourcesOf(name)
      /\ \A i \in ResourcesOf(name) : ~isPending(i) => ~isPending(i)'
      /\ CreatedOf(name)' \subseteq ResourcesOf(name)' /\ CreatedOf(name) \subseteq ResourcesOf(name)
  BY Zenon DEF ResourcesOf, CreatedOf, Kept, Resources, isPending
<1>2. CASE ResourcesOf(name) = {}
  BY Zenon, <1>1, <1>2 DEF ResourceMoves
<1>3. CASE ResourcesOf(name) # {}
  <2>1. PICK i \in ResourcesOf(name) : ResourcesOf(name) = {i}
    BY Zenon, <1>3
  <2>2. /\ CreatedOf(name) = IF isPending(i) THEN {} ELSE {i}
        /\ CreatedOf(name)' = IF i \in ResourcesOf(name)' /\ ~isPending(i)' THEN {i} ELSE {}
        /\ ResourcesOf(name)' = IF i \in ResourcesOf(name)' THEN {i} ELSE {}
    BY Zenon, <1>1, <2>1 DEF CreatedOf
  <2>3. ~isPending(i) /\ NoDeletion => i \in ResourcesOf(name)'
    <3> SUFFICES ASSUME ~isPending(i), NoDeletion PROVE i \in ResourcesOf(name)'
      OBVIOUS
    <3>1. i \in DOMAIN reqs /\ reqs[i].method = "POST" /\ reqs[i].name = name /\ Listed(i) /\ i \in Resources
      BY Zenon, <2>1 DEF ResourcesOf, Resources
    <3>2. reqs[i].status = "DONE"
      <4>1. reqs[i] \in Requests /\ reqs[i].status # "FAILED"
        BY <3>1 DEF CloudTypeOK, CloudInv, Listed
      <4> QED
        BY Zenon, <4>1 DEF Requests, Statuses, isPending
    <3>3. /\ i \in DOMAIN reqs' /\ reqs'[i].method = "POST" /\ reqs'[i].name = name
          /\ reqs'[i].status = "DONE"
      BY Zenon, <3>1, <3>2 DEF Kept
    <3>4. Listed(i)'
      BY Zenon, <3>1, <3>3 DEF Durable, NoDeletion
    <3> QED
      BY Zenon, <3>3, <3>4 DEF ResourcesOf, Resources
  <2>4. ~isPending(i) => ~isPending(i)'
    BY Zenon, <1>1
  <2>5. CASE i \notin ResourcesOf(name)'
    BY Zenon, <1>3, <2>1, <2>2, <2>3, <2>5 DEF ResourceMoves
  <2>6. CASE i \in ResourcesOf(name)'
    BY Zenon, <1>3, <2>1, <2>2, <2>4, <2>6 DEF ResourceMoves
  <2> QED
    BY Zenon, <2>5, <2>6
<1> QED
  BY Zenon, <1>2, <1>3

\* The creation of a resource of which there is none.
LEMMA ResourceRequested ==
  ASSUME CloudTypeOK, CloudInv, NEW name \in Names, Post(name), ResourcesOf(name) = {}
  PROVE  /\ \E id \in ResourcesOf(name)' : ResourcesOf(name)' = {id}
         /\ CreatedOf(name)' = {} /\ CreatedOf(name) = {}
         /\ NoDeletion => NoDeletion'
<1>0. PICK n : n = Len(reqs) + 1
  OBVIOUS
<1> DEFINE r == [method |-> "POST", id |-> n, name |-> name, status |-> "QUEUED", recent |-> TRUE]
<1>1. Accepted(r) /\ Resources' = Resources \cup {n}
  BY Zenon, <1>0, ResourcePosted
<1>2. r.method = "POST" /\ r.name = name /\ r.status = "QUEUED"
  OBVIOUS
<1> HIDE DEF r
<1>3. /\ DOMAIN reqs' = DOMAIN reqs \cup {n} /\ reqs'[n] = r /\ n \notin DOMAIN reqs
      /\ \A k \in DOMAIN reqs : reqs'[k] = reqs[k]
  BY Zenon, <1>0, <1>1 DEF Accepted
<1>4. isPending(n)' /\ reqs'[n].name = name
  BY Zenon, <1>2, <1>3 DEF isPending
<1>5. \A k \in Resources : k \in DOMAIN reqs
  BY Zenon DEF Resources
<1>6. ResourcesOf(name)' = {n}
  <2>1. \A k \in Resources : reqs'[k].name # name
    BY Zenon, <1>3, <1>5 DEF ResourcesOf
  <2> QED
    BY Zenon, <1>1, <1>4, <2>1 DEF ResourcesOf
<1>7. CreatedOf(name)' = {} /\ CreatedOf(name) = {}
  BY Zenon, <1>4, <1>6 DEF CreatedOf
<1>8. NoDeletion => NoDeletion'
  BY Zenon, <1>2, <1>3 DEF NoDeletion
<1> QED
  BY Zenon, <1>6, <1>7, <1>8
=============================================================================
