------------------------------ MODULE CloudAPI ------------------------------
(***************************************************************************)
(* The IONOS Cloud API as internal/service/cloud uses it, for one kind of  *)
(* resource (LANs, IP blocks or servers).  A POST or DELETE is answered    *)
(* with a request that is QUEUED, RUNNING and then DONE or FAILED.  The    *)
(* resource of request i is resource i.  A resource may be listed as soon  *)
(* as its creation runs and is listed when its creation is DONE.           *)
(***************************************************************************)
EXTENDS Naturals, Sequences

CONSTANT Names   \* the names of resources

VARIABLES reqs,  \* the requests, oldest first
          res    \* res[i]: the resource that request i, a POST, creates

cloudVars == <<reqs, res>>

\* Beside POST and DELETE of the resource: starting a server, deleting its boot
\* volume, changing the failover group of a LAN.
Methods  == {"POST", "DELETE", "START", "VOLUME", "PATCH"}
Statuses == {"QUEUED", "RUNNING", "DONE", "FAILED"}
ResourceStates == {"absent", "BUSY", "AVAILABLE"}

\* recent: the request is not older than the 24 hours GetRequests looks back.
Requests == [method : Methods, id : Nat, name : Names, status : Statuses, recent : BOOLEAN]

CloudTypeOK == /\ reqs \in Seq(Requests)
               /\ res \in Seq(ResourceStates)
               /\ Len(res) = Len(reqs)

-----------------------------------------------------------------------------
(***************************************************************************)
(* The client's view: request.go.                                          *)
(***************************************************************************)
isPending(i) == reqs[i].status \in {"QUEUED", "RUNNING"}
isDone(i)    == reqs[i].status = "DONE"
isAvailable(id) == res[id] = "AVAILABLE"

Listed(id) == id \in DOMAIN res /\ res[id] # "absent"
ListedAs(name) == {id \in DOMAIN res : Listed(id) /\ reqs[id].name = name}

\* GetRequests returns the recent requests newest first, and getMatchingRequest
\* the first of them that matches: i is that request, 0 stands for nil.
getMatchingRequest(i, matching) ==
  LET found == {j \in matching : reqs[j].recent}
  IN IF found = {} THEN i = 0 ELSE i \in found /\ \A j \in found : j <= i

CreationRequest(i, name) ==
  getMatchingRequest(i, {j \in DOMAIN reqs : reqs[j].method = "POST" /\ reqs[j].name = name})

DeletionRequest(i, id) ==
  getMatchingRequest(i, {j \in DOMAIN reqs : reqs[j].method = "DELETE" /\ reqs[j].id = id})

Post(name) ==
  /\ reqs' = Append(reqs, [method |-> "POST", id |-> Len(reqs) + 1, name |-> name,
                           status |-> "QUEUED", recent |-> TRUE])
  /\ res' = Append(res, "absent")

Submit(method, id) ==
  /\ Listed(id)
  /\ reqs' = Append(reqs, [method |-> method, id |-> id, name |-> reqs[id].name,
                           status |-> "QUEUED", recent |-> TRUE])
  /\ res' = Append(res, "absent")

Delete(id) == Submit("DELETE", id)

-----------------------------------------------------------------------------
(***************************************************************************)
(* What the cloud does on its own.                                         *)
(***************************************************************************)
SetStatus(i, status) == reqs' = [reqs EXCEPT ![i].status = status]

\* Requests for the same resource are executed in the order they were made.
Run(i) == /\ reqs[i].status = "QUEUED"
          /\ \A j \in 1..(i - 1) : reqs[j].id = reqs[i].id => ~isPending(j)
          /\ SetStatus(i, "RUNNING")
          /\ \/ UNCHANGED res
             \/ /\ reqs[i].method = "POST" \/ (reqs[i].method = "DELETE" /\ Listed(reqs[i].id))
                /\ res' = [res EXCEPT ![reqs[i].id] = "BUSY"]

\* inUse: the resources that cannot be deleted because others are attached.
Finish(i, inUse) ==
  /\ reqs[i].status = "RUNNING"
  /\ reqs[i].method = "DELETE" => reqs[i].id \notin inUse
  /\ SetStatus(i, "DONE")
  /\ res' = [res EXCEPT ![reqs[i].id] = CASE reqs[i].method = "POST"   -> "AVAILABLE"
                                          [] reqs[i].method = "DELETE" -> "absent"
                                          [] OTHER                     -> @]

Fail(i) ==
  /\ reqs[i].status = "RUNNING"
  /\ SetStatus(i, "FAILED")
  /\ res' = [res EXCEPT ![reqs[i].id] = IF reqs[i].method = "POST" \/ @ = "absent"
                                        THEN "absent" ELSE "AVAILABLE"]

\* The oldest request drops out of the 24 hours; it was finished long ago.
Age(i) == /\ ~isPending(i)
          /\ reqs[i].recent /\ \A j \in 1..(i - 1) : ~reqs[j].recent
          /\ reqs' = [reqs EXCEPT ![i].recent = FALSE]
          /\ UNCHANGED res
=============================================================================
