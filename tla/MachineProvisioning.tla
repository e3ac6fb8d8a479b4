------------------------- MODULE MachineProvisioning -------------------------
(***************************************************************************)
(* One machine from its creation to its removal as the machine controller  *)
(* sees it (ionoscloudmachine_controller.go): what starts a reconcile, the *)
(* conditions it checks first, the steps that put the server together      *)
(* (ReconcileIPAddresses, createServer) and what it writes to the status.  *)
(*                                                                         *)
(* The LAN, the failover group and the requests of the server are other    *)
(* modules' business: here these steps go on, requeue or fail.             *)
(***************************************************************************)
EXTENDS IPAddressClaims, ImageLookup

CONSTANTS Networks,     \* the values that spec.additionalNetworks takes, first to last
          Selections,   \* the labels in the cloud and the values of spec.disk.image
          Version,      \* spec.version of the Machine
          MaxPauses,    \* bound: times the cluster is paused
          MaxFaults     \* bound: failed calls, failed requests and crashes

NotRead == [labels |-> {}, image |-> NoImage]

ASSUME ProvisioningAssumption ==
  /\ Pools \subseteq Nat \X {"ipv4", "ipv6"}
  /\ Networks \in Seq(Seq(Nat \ {0})) /\ Networks # <<>>
  /\ NotRead \notin Selections
  /\ \A s \in Selections : s.labels \subseteq Labels /\ Consistent(s.labels) /\ s.image \in ImageSpecs
  /\ MaxPauses \in Nat /\ MaxFaults \in Nat

VARIABLES im,      \* the IonosCloudMachine
          cached,  \* the cached copy of it
          known,   \* what the cache says of the Cluster, the Machine and the objects they refer to
          dirty,   \* the machine is in the work queue
          pc,      \* the step the reconcile is at
          base,    \* the IonosCloudMachine as the reconcile read it
          cur,     \* the reconcile's own copy, patched at its end
          networks, \* spec.additionalNetworks as the reconcile read it
          todo,    \* the claims that the step still has to handle
          nics,    \* the addresses found, per NIC
          waits,   \* an address is still missing
          server,  \* the server: state, networks, addresses per NIC, image
          wanted,  \* the labels in the cloud and spec.disk.image
          missed,  \* the claims a deletion did not come across
          pauses, faults

localVars == <<base, cur, networks, todo, nics, waits>>
queueVars == <<cached, known, dirty>>
vars == <<im, queueVars, pc, localVars, server, wanted, missed, pauses, faults, claimVars>>

Conditions == {"none", "WaitingForClusterInfrastructure", "WaitingForBootstrapData",
               "Provisioning", "ProvisioningFailed", "Provisioned"}

\* What others than the user write of the IonosCloudMachine, and its deletion.  info: what
\* status.machineNetworkInfo was last written by.
Objects == [life : {"live", "deleting", "gone"}, fin : BOOLEAN, cond : Conditions,
            prov : BOOLEAN, info : {"none", "claims", "server"}]
\* owner: the IonosCloudMachine has its owner reference; cluster: the IonosCloudCluster is
\* there; infra, boot: the fields isInfrastructureReady looks at; secret: the bootstrap
\* secret is there; net: the place of spec.additionalNetworks in Networks.
Known == [net : DOMAIN Networks, owner : BOOLEAN, cluster : BOOLEAN, paused : BOOLEAN, infra : BOOLEAN, boot : BOOLEAN, secret : BOOLEAN]
NoServer == [state |-> "none", networks |-> <<>>, nics |-> <<>>, image |-> NoImage]
NewObject == [life |-> "live", fin |-> FALSE, cond |-> "none", prov |-> FALSE, info |-> "none"]

TypeOK == /\ ClaimsTypeOK
          /\ {im, cached, base, cur} \subseteq Objects /\ known \in Known
          /\ dirty \in BOOLEAN /\ waits \in BOOLEAN
          /\ pc \in {"idle", "claims", "server", "serverD", "claimsD"}
          /\ nics \in Seq(SUBSET Keys)
          /\ server.state \in {"none", "creating", "up", "deleting"}
          /\ server.nics \in Seq(SUBSET Keys) /\ Len(server.nics) \in {0, Len(server.networks) + 1}
          /\ missed \subseteq Keys /\ pauses \in 0..MaxPauses /\ faults \in 0..MaxFaults

Init == /\ ClaimsInit
        /\ im = NewObject /\ cached = im /\ base = im /\ cur = im
        /\ known = [net |-> 1, owner |-> FALSE, cluster |-> FALSE, paused |-> FALSE, infra |-> FALSE, boot |-> FALSE, secret |-> FALSE]
        /\ dirty = TRUE /\ pc = "idle"
        /\ networks = <<>> /\ todo = {} /\ nics = <<>> /\ waits = FALSE
        /\ server = NoServer
        /\ wanted = NotRead
        /\ missed = {} /\ pauses = 0 /\ faults = 0

-----------------------------------------------------------------------------
Fault == /\ faults < MaxFaults
         /\ faults' = faults + 1

Goto(step) == pc' = step

\* PatchObject writes the fields that the reconcile changed since it read them.
Patched(from, object) ==
  [im EXCEPT !.cond = IF object.cond # from.cond THEN object.cond ELSE @,
             !.prov = IF object.prov # from.prov THEN object.prov ELSE @,
             !.info = IF object.info # from.info THEN object.info ELSE @,
             !.fin  = IF object.fin # from.fin THEN object.fin ELSE @,
             !.life = IF @ = "deleting" /\ from.fin /\ ~object.fin THEN "gone" ELSE @]

\* The end of a reconcile, with Finalize.  A result with a requeue or an error puts the
\* machine back into the queue; without one only an event does.
Finalize(from, object, queued) ==
  /\ Goto("idle")
  /\ \/ im.life # "gone" /\ im' = Patched(from, object) /\ dirty' = queued
     \/ im.life = "gone" /\ dirty' = (queued \/ object # from) /\ UNCHANGED im
  /\ base' = NewObject /\ cur' = NewObject
  /\ networks' = <<>> /\ todo' = {} /\ nics' = <<>> /\ waits' = FALSE

\* The patch is lost: every try fails, or the process ends before it.
FinalizeLost == /\ Goto("idle") /\ Fault
                /\ dirty' = TRUE /\ UNCHANGED im
                /\ base' = NewObject /\ cur' = NewObject
                /\ networks' = <<>> /\ todo' = {} /\ nics' = <<>> /\ waits' = FALSE

Finish(object, requeue) == \/ Finalize(base, object, dirty \/ requeue) /\ UNCHANGED faults
                           \/ FinalizeLost

setProvisioningCondition(object, cond) ==
  IF object.prov THEN object ELSE [object EXCEPT !.cond = cond]

\* The step returned an error.
Failed(object) == Finish(setProvisioningCondition(object, "ProvisioningFailed"), TRUE)

-----------------------------------------------------------------------------
(***************************************************************************)
(* Reconcile.  The early returns leave the machine to the next event.      *)
(***************************************************************************)
skipped == cached.life = "gone" \/ ~known.owner \/ known.paused \/ ~known.cluster

\* isInfrastructureReady: the condition that is set when it is not.
waitingReason == IF ~known.infra THEN "WaitingForClusterInfrastructure" ELSE "WaitingForBootstrapData"

Begin(step, object) == /\ Goto(step)
                       /\ base' = cached /\ cur' = object
                       /\ networks' = Networks[known.net]
                       /\ nics' = [i \in DOMAIN nicNetworks(networks') |-> {}]
                       /\ waits' = FALSE

\* reconcileNormal up to its sequence of steps.  The finalizer is written at once.
\* A request of the server that is pending is in the status or not.
reconcileNormal ==
  /\ cached.life = "live" /\ known.infra /\ known.boot
  /\ \/ /\ im.life # "gone"
        /\ im' = [im EXCEPT !.fin = TRUE]
        /\ \/ /\ Begin("claims", setProvisioningCondition([cached EXCEPT !.fin = TRUE], "Provisioning"))
              /\ todo' = claimsToHandle(networks')
              /\ dirty' = FALSE
           \/ server.state = "creating" /\ dirty' = TRUE /\ UNCHANGED <<pc, localVars>>
     \/ im.life = "gone" /\ dirty' = TRUE /\ UNCHANGED <<im, pc, localVars>>

StartReconcile ==
  /\ pc = "idle" /\ dirty
  /\ \/ skipped /\ dirty' = FALSE /\ UNCHANGED <<im, pc, localVars>>
     \/ /\ ~skipped /\ cached.life = "deleting"
        /\ Begin("serverD", cached)
        /\ UNCHANGED todo
        /\ dirty' = FALSE /\ UNCHANGED im
     \/ /\ ~skipped /\ cached.life = "live" /\ ~(known.infra /\ known.boot)
        /\ Finalize(cached, [cached EXCEPT !.cond = waitingReason], FALSE)
     \/ ~skipped /\ reconcileNormal
  /\ UNCHANGED <<cached, known, server, wanted, missed, pauses, faults, claimVars>>

-----------------------------------------------------------------------------
(***************************************************************************)
(* The steps of reconcileNormal that put the server together.              *)
(***************************************************************************)
\* handlePrimaryNIC, handleAdditionalNICs: one claim after the other.
HandleClaim ==
  /\ pc = "claims"
  /\ \E c \in todo, result \in {"ip", "wait", "error"} :
       /\ isNext(c, todo)
       /\ handleIPAddressForNIC(c.key, result)
       /\ \/ result = "error" /\ Failed(cur)
          \/ /\ result # "error"
             /\ todo' = todo \ {c}
             /\ nics' = IF result = "ip" THEN [nics EXCEPT ![c.nic] = @ \cup {c.key}] ELSE nics
             /\ waits' = (waits \/ result = "wait")
             /\ UNCHANGED <<im, pc, base, cur, networks, dirty, faults>>
  /\ UNCHANGED <<cached, known, server, wanted, missed, pauses>>

\* ReconcileIPAddresses writes what it found to the status, also when it requeues.
ReconcileIPAddresses ==
  /\ pc = "claims" /\ todo = {}
  /\ \/ waits /\ Finish([cur EXCEPT !.info = "claims"], TRUE)
     \/ /\ ~waits
        /\ Goto("server") /\ cur' = [cur EXCEPT !.info = "claims"]
        /\ UNCHANGED <<im, base, networks, todo, nics, waits, dirty, faults>>
  /\ UNCHANGED <<cached, known, server, wanted, missed, pauses, claimVars>>

\* Mutant: the entry of the NIC before is used.
buildServerEntities_OffByOne(additional, info) ==
  [i \in 1..(Len(additional) + 1) |-> IF i = 1 THEN info[1] ELSE info[i - 1]]

\* The addresses of the primary NIC are NICInfo[0], those of network i NICInfo[i+1].
buildServerEntities(additional, info) == [i \in 1..(Len(additional) + 1) |-> info[i]]

\* The labels and the image's spec do not change; they are chosen when they are looked at.
readSelection == IF wanted = NotRead THEN wanted' \in Selections ELSE UNCHANGED wanted

createServer ==
  /\ readSelection
  /\ \E id \in lookupImageID(wanted'.labels, wanted'.image, Version) :
    \/ id = NoImage /\ Failed(cur) /\ UNCHANGED server
    \/ /\ id # NoImage
       /\ server' = [state |-> "creating", networks |-> networks, image |-> id,
                     nics |-> buildServerEntities(networks, nics)]
       /\ Finish(cur, TRUE)

FinalizeMachineProvisioning(object) == [object EXCEPT !.prov = TRUE, !.cond = "Provisioned"]

\* ReconcileServer, and FinalizeMachineProvisioning when the server is there.
ReconcileServer ==
  /\ pc = "server"
  /\ \/ ~known.secret /\ Finish(cur, TRUE) /\ UNCHANGED <<server, wanted>>
     \/ known.secret /\ server.state = "none" /\ createServer
     \/ /\ known.secret /\ server.state \in {"creating", "deleting"}
        /\ Finish(cur, TRUE) /\ UNCHANGED <<server, wanted>>
     \/ /\ known.secret /\ server.state = "up"
        /\ Finish(FinalizeMachineProvisioning([cur EXCEPT !.info = "server"]), FALSE)
        /\ UNCHANGED <<server, wanted>>
  /\ UNCHANGED <<cached, known, missed, pauses, claimVars>>

-----------------------------------------------------------------------------
(***************************************************************************)
(* reconcileDelete: the server, then the claims, then the finalizer.       *)
(***************************************************************************)
networkDropped == {k \in Keys : \A i \in DOMAIN nicNetworks(networks) : k[1] # nicNetworks(networks)[i]}

ReleaseClaims == /\ Goto("claimsD")
                 /\ todo' = claimsToRelease(networks)
                 /\ missed' = missed \cup networkDropped
                 /\ UNCHANGED <<im, base, cur, networks, nics, waits, dirty, faults>>

\* Mutant: a server that is being created or deleted is not waited for.
ReconcileServerDeletion_NoWait ==
  /\ pc = "serverD"
  /\ server' = [server EXCEPT !.state = IF @ = "up" THEN "deleting" ELSE @]
  /\ ReleaseClaims
  /\ UNCHANGED <<cached, known, wanted, pauses, claimVars>>

ReconcileServerDeletion ==
  /\ pc = "serverD"
  /\ \/ /\ server.state # "none"
        /\ server' = [server EXCEPT !.state = IF @ = "up" THEN "deleting" ELSE @]
        /\ Finish(cur, TRUE) /\ UNCHANGED missed
     \/ server.state = "none" /\ ReleaseClaims /\ UNCHANGED server
  /\ UNCHANGED <<cached, known, wanted, pauses, claimVars>>

\* ReconcileIPAddressClaimsDeletion.  A claim that the cache does not have is skipped.
ReleaseClaim ==
  /\ pc = "claimsD"
  /\ \E c \in todo, result \in {"ok", "error"} :
       /\ isNext(c, todo)
       /\ releaseClaim(c.key, result)
       /\ \/ result = "error" /\ Finish(cur, TRUE)
          \/ result = "ok" /\ todo' = todo \ {c} /\ UNCHANGED <<im, pc, base, cur, networks, nics, waits, dirty, faults>>
       /\ missed' = IF seen[c.key] = "none" /\ claim[c.key] # "none" THEN missed \cup {c.key} ELSE missed
  /\ UNCHANGED <<cached, known, server, wanted, pauses>>

RemoveFinalizer ==
  /\ pc = "claimsD" /\ todo = {}
  /\ Finish([cur EXCEPT !.fin = FALSE], FALSE)
  /\ UNCHANGED <<cached, known, server, wanted, missed, pauses, claimVars>>

-----------------------------------------------------------------------------
(***************************************************************************)
(* Faults.                                                                 *)
(***************************************************************************)
\* A call of a step returns an error.
StepError ==
  /\ pc \in {"claims", "server", "serverD", "claimsD"}
  /\ Fault
  /\ \/ /\ pc \in {"claims", "server"}
        /\ Finalize(base, setProvisioningCondition(cur, "ProvisioningFailed"), TRUE)
     \/ pc \in {"serverD", "claimsD"} /\ Finalize(base, cur, TRUE)
  /\ UNCHANGED <<cached, known, server, wanted, missed, pauses, claimVars>>

\* At the start every object is read and put into the queue.
Crash ==
  /\ pc # "idle"
  /\ Fault
  /\ pc' = "idle" /\ base' = NewObject /\ cur' = NewObject
  /\ networks' = <<>> /\ todo' = {} /\ nics' = <<>> /\ waits' = FALSE
  /\ cached' = im /\ dirty' = TRUE
  /\ seen' = claim /\ addr' = {k \in Keys : claim[k] = "bound"}
  /\ UNCHANGED <<im, known, server, wanted, missed, pauses, claim>>

-----------------------------------------------------------------------------
(***************************************************************************)
(* SetupWithManager: the events of the caches that start a reconcile.      *)
(***************************************************************************)
SyncMachine ==
  /\ cached # im
  /\ cached' = im /\ dirty' = TRUE
  /\ UNCHANGED <<im, known, pc, localVars, server, wanted, missed, pauses, faults, claimVars>>

\* Mutant: the Cluster is not watched.
clusterEvent_None(old, new) == FALSE

\* Mutant: only the transitions of the pause are watched.
clusterEvent_Paused(old, new) == old.paused # new.paused

\* ClusterPausedTransitionsOrInfrastructureProvisioned.
clusterEvent(old, new) == old.paused # new.paused \/ (new.infra /\ ~old.infra)

\* What the cache says changes.  StartReconcile alone looks at all but the secret: a
\* change during a reconcile is one after it.  A change of the IonosCloudMachine's or the
\* Machine's spec is an event; the IonosCloudCluster and the secret are not watched.  The
\* Cluster shows that the IonosCloudCluster is provisioned, and that controller reads it
\* from the same cache.
Prerequisites ==
  /\ pc = "idle"
  /\ \/ ~known.owner /\ known' = [known EXCEPT !.owner = TRUE] /\ dirty' = TRUE
     \/ known.net < Len(Networks) /\ known' = [known EXCEPT !.net = @ + 1] /\ dirty' = TRUE
     \/ ~known.boot /\ known' = [known EXCEPT !.boot = TRUE] /\ dirty' = TRUE
     \/ ~known.cluster /\ known' = [known EXCEPT !.cluster = TRUE] /\ UNCHANGED dirty
     \/ /\ known.cluster /\ ~known.infra /\ known' = [known EXCEPT !.infra = TRUE]
        /\ dirty' = (dirty \/ clusterEvent(known, known'))
  /\ UNCHANGED <<im, cached, pc, localVars, server, wanted, missed, pauses, faults, claimVars>>

\* Before ReconcileServer nobody looks at the secret.
SecretAppears ==
  /\ pc = "server" /\ ~known.secret /\ known' = [known EXCEPT !.secret = TRUE]
  /\ UNCHANGED <<im, cached, dirty, pc, localVars, server, wanted, missed, pauses, faults, claimVars>>

Pause ==
  /\ pc = "idle"
  /\ known' = [known EXCEPT !.paused = ~@]
  /\ dirty' = (dirty \/ clusterEvent(known, known'))
  /\ pauses' = IF known.paused THEN pauses ELSE pauses + 1
  /\ pauses' <= MaxPauses
  /\ UNCHANGED <<im, cached, pc, localVars, server, wanted, missed, faults, claimVars>>

Claims == /\ \E k \in Keys : \/ BindAddress(k) \/ SyncClaim(k) \/ SyncAddress(k)
                             \/ im.life = "gone" /\ CollectClaim(k)
          /\ UNCHANGED <<im, queueVars, pc, localVars, server, wanted, missed, pauses, faults>>

ServerRequest ==
  /\ \/ /\ server.state = "creating"
        /\ \/ server' = [server EXCEPT !.state = "up"] /\ UNCHANGED faults
           \/ server' = NoServer /\ Fault
     \/ /\ server.state = "deleting"
        /\ \/ server' = NoServer /\ UNCHANGED faults
           \/ server' = [server EXCEPT !.state = "up"] /\ Fault
  /\ UNCHANGED <<im, queueVars, pc, localVars, wanted, missed, pauses, claimVars>>

DeleteMachine ==
  /\ im.life = "live"
  /\ im' = [im EXCEPT !.life = IF im.fin THEN "deleting" ELSE "gone"]
  /\ UNCHANGED <<queueVars, pc, localVars, server, wanted, missed, pauses, faults, claimVars>>

-----------------------------------------------------------------------------
Reconcile == \/ StartReconcile
             \/ HandleClaim \/ ReconcileIPAddresses \/ ReconcileServer
             \/ ReconcileServerDeletion \/ ReleaseClaim \/ RemoveFinalizer

Next == \/ Reconcile \/ StepError \/ Crash
        \/ SyncMachine \/ Claims \/ ServerRequest \/ Prerequisites \/ SecretAppears \/ Pause \/ DeleteMachine
        \/ pc = "idle" /\ ~dirty /\ UNCHANGED vars   \* until the next event

Spec == Init /\ [][Next]_vars

\* A queued machine is reconciled, the caches follow, and the cloud and the IPAM
\* provider do their work.  Nothing starts a reconcile of a machine outside the queue.
Fairness == WF_vars(Reconcile) /\ WF_vars(SyncMachine) /\ WF_vars(Claims) /\ WF_vars(ServerRequest)

FairSpec == Spec /\ Fairness

-----------------------------------------------------------------------------
(***************************************************************************)
(* Properties.                                                             *)
(***************************************************************************)
HasServer == server.state # "none"

\* Every NIC of the server was given the addresses of its own claims, for all the pools
\* that the spec named when the server was created, and no others.
ServerHasItsAddresses ==
  HasServer => \A i \in DOMAIN server.nics :
                 server.nics[i] = {k \in Pools : k[1] = nicNetworks(server.networks)[i]}

\* As long as the server is there its addresses are not given back: the claims keep the
\* finalizer until the deletion of the server is finished, whatever fails in between.
AddressesHeld == HasServer => \A i \in DOMAIN server.nics : \A k \in server.nics[i] : claim[k] = "bound"

\* The image of the server is the one its spec selects.
ImageSelected == HasServer => Selected(server.image, wanted.labels, wanted.image, Version)

\* A machine that is gone leaves no claim with its finalizer behind, unless the cache did
\* not have the claim or the network was taken out of the spec.
ClaimsReleased ==
  im.life = "gone" => \A k \in Keys : claim[k] \in {"created", "bound"} => k \in missed

CanRun == known.owner /\ known.cluster /\ ~known.paused

\* Nothing but events starts a reconcile that was skipped, and still a machine whose
\* prerequisites are there, in whatever order they came, is provisioned; while only the
\* bootstrap secret is missing, it stays in the queue.  The status may be wrong for a while: a reconcile with a stale copy resets the condition, a failed one
\* leaves the network info of the claims only.  It does not stay so.
EventuallyProvisioned ==
  <>[](im.life = "live" /\ CanRun /\ known.infra /\ known.boot =>
         \/ ~known.secret /\ (dirty \/ pc # "idle")
         \/ im.prov /\ im.cond = "Provisioned" /\ im.info = "server"
         \/ wanted # NotRead /\ lookupImageID(wanted.labels, wanted.image, Version) = {NoImage})

\* A machine that is deleted goes, unless the cluster stays paused.
MachineReleased == <>[](im.life = "deleting" => ~CanRun)
=============================================================================
