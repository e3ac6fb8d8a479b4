---------------------- MODULE MachineProvisioningProofs ----------------------
(***************************************************************************)
(* What MachineProvisioning promises of the server's image and addresses,  *)
(* for every list of networks and pools, any images and any number of      *)
(* faults: a reconcile works on copies and caches, what it read of them is *)
(* still true when the server is created, and addresses are given back     *)
(* only when there is no server, and before the machine goes.              *)
(***************************************************************************)
EXTENDS MachineProvisioning, TLAPS

-----------------------------------------------------------------------------
(***************************************************************************)
(* lookupImageID.                                                          *)
(***************************************************************************)
\* mapContains on the labels of an image: the image has every label of the selector.
LEMMA MapContainsLabels ==
  ASSUME NEW labels, labels \subseteq Labels, Consistent(labels), NEW id \in Nat,
         NEW b \in SUBSET (STRING \X STRING)
  PROVE  mapContains(imageLabelMap(labels, id), b) <=>
           \A kv \in b : [type |-> "image", id |-> id, key |-> kv[1], value |-> kv[2]] \in labels
<1> DEFINE own == {l \in labels : l.type = "image" /\ l.id = id}
           chosen(k) == CHOOSE l \in own : l.key = k
           map == imageLabelMap(labels, id)
           entry(kv) == [type |-> "image", id |-> id, key |-> kv[1], value |-> kv[2]]
<1>1. /\ DOMAIN map = {l.key : l \in own}
      /\ \A k \in DOMAIN map : map[k] = chosen(k).value
  BY Zenon DEF imageLabelMap
<1>2. ASSUME NEW k \in {l.key : l \in own}
      PROVE  chosen(k) \in own /\ chosen(k).key = k
  OBVIOUS
<1>3. ASSUME NEW kv \in b, kv[1] \in DOMAIN map, map[kv[1]] = kv[2]
      PROVE  entry(kv) \in labels
  <2>1. chosen(kv[1]) \in own /\ chosen(kv[1]).key = kv[1] /\ chosen(kv[1]).value = kv[2]
    BY Zenon, <1>1, <1>2, <1>3
  <2>2. chosen(kv[1]) = entry(kv)
    <3> HIDE DEF chosen
    <3> QED BY <2>1 DEF Labels
  <2> QED BY <2>1, <2>2
<1>4. ASSUME NEW kv \in b, entry(kv) \in labels
      PROVE  kv[1] \in DOMAIN map /\ map[kv[1]] = kv[2]
  <2>1. entry(kv) \in own /\ entry(kv).key = kv[1] /\ entry(kv).value = kv[2]
    BY Zenon, <1>4
  <2>2. kv[1] \in DOMAIN map
    BY <1>1, <2>1
  <2>3. chosen(kv[1]) \in own /\ chosen(kv[1]).key = kv[1]
    BY Zenon, <1>1, <1>2, <2>2
  <2>4. chosen(kv[1]).value = entry(kv).value
    <3> HIDE DEF chosen, entry
    <3> QED BY <2>1, <2>3 DEF Consistent
  <2> QED BY <1>1, <2>1, <2>2, <2>4, SMTT(30)
<1> QED BY <1>3, <1>4, ZenonT(30) DEF mapContains

\* The images that match are those that have every label of the selector.
LEMMA MatchingImages ==
  ASSUME NEW labels, labels \subseteq Labels, Consistent(labels), NEW spec \in ImageSpecs,
         NEW x \in DOMAIN Images
  PROVE  x \in matchingIDs(labels, spec) <=>
           \A kv \in spec.matchLabels : [type |-> "image", id |-> x, key |-> kv[1], value |-> kv[2]] \in labels
<1>0. x \in Nat
  BY Zenon, ImageAssumption
<1>1. spec.matchLabels \in SUBSET (STRING \X STRING) /\ spec.matchLabels # {}
  <2>1. spec.matchLabels \in (SUBSET (STRING \X STRING)) \ {{}}
    BY Zenon DEF ImageSpecs
  <2> QED BY <2>1
<1>2. ASSUME \A kv \in spec.matchLabels : [type |-> "image", id |-> x, key |-> kv[1], value |-> kv[2]] \in labels
      PROVE  x \in {l.id : l \in {y \in labels : y.type = "image"}}
  <2>1. PICK kv \in spec.matchLabels : TRUE
    BY Zenon, <1>1
  <2> DEFINE l == [type |-> "image", id |-> x, key |-> kv[1], value |-> kv[2]]
  <2>2. l \in labels /\ l.type = "image" /\ l.id = x
    BY Zenon, <1>2
  <2> HIDE DEF l
  <2> QED BY <2>2
<1>3. mapContains(imageLabelMap(labels, x), spec.matchLabels) <=>
        \A kv \in spec.matchLabels : [type |-> "image", id |-> x, key |-> kv[1], value |-> kv[2]] \in labels
  BY Zenon, <1>0, <1>1, MapContainsLabels
<1> QED BY <1>2, <1>3 DEF matchingIDs

\* The images that lookupImageID chooses from.
candidates(labels, spec) ==
  IF spec.useMachineVersion THEN filterImagesByName(lookupImagesBySelector(labels, spec))
  ELSE lookupImagesBySelector(labels, spec)

LEMMA CandidatesFit ==
  ASSUME NEW labels, labels \subseteq Labels, Consistent(labels), NEW spec \in ImageSpecs, NEW version,
         matchingIDs(labels, spec) \subseteq DOMAIN Images,
         ~(spec.useMachineVersion /\ version = "")
  PROVE  candidates(labels, spec) = {x \in DOMAIN Images : Fits(x, labels, spec, version)}
BY MatchingImages, ZenonT(30) DEF candidates, lookupImagesBySelector, filterImagesByName, Fits

LEMMA LookupByLabels ==
  ASSUME NEW labels, NEW spec, NEW version, spec.ID = NoImage,
         matchingIDs(labels, spec) \subseteq DOMAIN Images
  PROVE  lookupImageID(labels, spec, version) =
           IF \/ spec.useMachineVersion /\ version = ""
              \/ candidates(labels, spec) = {}
              \/ spec.policy = "Exact" /\ \E x, y \in candidates(labels, spec) : x # y
           THEN {NoImage}
           ELSE IF spec.policy = "Exact" THEN candidates(labels, spec) ELSE newest(candidates(labels, spec))
BY Zenon DEF lookupImageID, candidates

\* lookupImageID meets its reference: an image that it returns is the one the spec
\* names, or fits the selector, and is the only or the newest one that does.
THEOREM LookupSelects ==
  ASSUME NEW labels, labels \subseteq Labels, Consistent(labels), NEW spec \in ImageSpecs, NEW version,
         NEW id \in lookupImageID(labels, spec, version), id # NoImage
  PROVE  Selected(id, labels, spec, version)
<1>1. CASE spec.ID # NoImage
  BY Zenon, <1>1 DEF lookupImageID, Selected
<1>2. CASE spec.ID = NoImage
  <2> DEFINE images == candidates(labels, spec)
  <2>1. matchingIDs(labels, spec) \subseteq DOMAIN Images
    BY <1>2, ZenonT(30) DEF lookupImageID
  <2> HIDE DEF images
  <2>2. /\ ~(spec.useMachineVersion /\ version = "")
        /\ ~(spec.policy = "Exact" /\ \E x, y \in images : x # y)
        /\ id \in IF spec.policy = "Exact" THEN images ELSE newest(images)
    <3> DEFINE fails == \/ spec.useMachineVersion /\ version = ""
                        \/ images = {}
                        \/ spec.policy = "Exact" /\ \E x, y \in images : x # y
    <3>1. lookupImageID(labels, spec, version) =
            IF fails THEN {NoImage} ELSE IF spec.policy = "Exact" THEN images ELSE newest(images)
      BY Zenon, <1>2, <2>1, LookupByLabels DEF images
    <3>2. ~fails
      <4> HIDE DEF fails
      <4> QED BY Zenon, <3>1
    <3>3. id \in IF spec.policy = "Exact" THEN images ELSE newest(images)
      <4> HIDE DEF fails
      <4> QED BY Zenon, <3>1, <3>2
    <3> QED BY Zenon, <3>2, <3>3
  <2>3. images = {x \in DOMAIN Images : Fits(x, labels, spec, version)}
    BY Zenon, <2>1, <2>2, CandidatesFit DEF images
  <2>4. spec.policy \in {"Exact", "Newest"}
    BY Zenon DEF ImageSpecs, Policies
  <2>5. CASE spec.policy = "Exact"
    <3>1. id \in images /\ \A x \in images : x = id
      BY <2>2, <2>5, ZenonT(30)
    <3> QED BY <1>2, <2>3, <3>1, Zenon DEF Selected
  <2>6. CASE spec.policy = "Newest"
    <3>1. id \in newest(images)
      BY <2>2, <2>6, ZenonT(30)
    <3> QED BY <1>2, <2>3, <2>6, <3>1 DEF Selected, newest
  <2> QED BY <2>4, <2>5, <2>6
<1> QED BY <1>1, <1>2

\* The converse: as long as no label that matches has outlived its image, an image that
\* the reference allows is a possible result of lookupImageID, and the lookup does not
\* fail.
THEOREM LookupFinds ==
  ASSUME NEW labels, labels \subseteq Labels, Consistent(labels), NEW spec \in ImageSpecs, NEW version,
         matchingIDs(labels, spec) \subseteq DOMAIN Images,
         NEW id, Selected(id, labels, spec, version)
  PROVE  id \in lookupImageID(labels, spec, version) /\ NoImage \notin lookupImageID(labels, spec, version)
<1>1. CASE spec.ID # NoImage
  BY Zenon, <1>1 DEF lookupImageID, Selected
<1>2. CASE spec.ID = NoImage
  <2> DEFINE images == candidates(labels, spec)
  <2> HIDE DEF images
  <2>1. /\ Fits(id, labels, spec, version) /\ id \in DOMAIN Images
        /\ ~(spec.useMachineVersion /\ version = "")
        /\ \A other \in DOMAIN Images \ {id} : Fits(other, labels, spec, version) =>
             spec.policy = "Newest" /\ Images[other].date <= Images[id].date
    BY Zenon, <1>2 DEF Selected, Fits
  <2>2. images = {x \in DOMAIN Images : Fits(x, labels, spec, version)}
    BY Zenon, <2>1, CandidatesFit DEF images
  <2>3. /\ id \in images /\ images \subseteq DOMAIN Images
        /\ \A x \in images : x # id => spec.policy = "Newest" /\ Images[x].date <= Images[id].date
    BY Zenon, <2>1, <2>2
  <2>4. NoImage \notin images
    BY <2>3, ImageAssumption
  <2>5. lookupImageID(labels, spec, version) = IF spec.policy = "Exact" THEN images ELSE newest(images)
    <3>1. ~(spec.policy = "Exact" /\ \E x, y \in images : x # y) /\ images # {}
      <4>1. "Exact" # "Newest"
        OBVIOUS
      <4> QED BY Zenon, <2>3, <4>1
    <3> QED BY Zenon, <1>2, <2>1, <3>1, LookupByLabels DEF images
  <2>6. id \in newest(images)
    <3>0. \A n \in Nat : n <= n
      OBVIOUS
    <3>1. Images[id].date <= Images[id].date
      BY Zenon, <2>1, <3>0, ImageAssumption
    <3> QED BY Zenon, <2>3, <3>1 DEF newest
  <2> QED BY Zenon, <2>3, <2>4, <2>5, <2>6 DEF newest
<1> QED BY <1>1, <1>2

-----------------------------------------------------------------------------
(***************************************************************************)
(* The inductive invariant.                                                *)
(***************************************************************************)
Servers == [state : {"none", "creating", "up", "deleting"}, networks : Seq(Nat \ {0}),
            nics : Seq(SUBSET Keys), image : Nat]

Working == pc \in {"claims", "server"}

LocalType == /\ im \in Objects /\ cached \in Objects /\ base \in Objects /\ cur \in Objects
             /\ known \in Known
             /\ dirty \in BOOLEAN /\ waits \in BOOLEAN
             /\ pc \in {"idle", "claims", "server", "serverD", "claimsD"}
             /\ networks \in Seq(Nat \ {0}) /\ nics \in Seq(SUBSET Keys)
             /\ Working => DOMAIN nics = 1..(Len(networks) + 1)
             /\ \A c \in todo : c.key \in Keys
             /\ missed \subseteq Keys /\ pauses \in 0..MaxPauses /\ faults \in 0..MaxFaults

\* A deletion is seen after it happened, a reconcile that deletes has seen it, and only
\* such a reconcile, when there is no server any more, gives claims back.
DeletionInv == /\ cached.life # "live" => im.life # "live"
               /\ pc \in {"serverD", "claimsD"} => cached.life # "live"
               /\ pc = "claimsD" => ~HasServer

\* Until the deletion is seen the caches are behind the claims by new claims and bound
\* ones only: an address that is found there is still bound.
ClaimsInv == /\ ClaimsTypeOK
             /\ Working \/ cached.life = "live" =>
                  \A k \in Keys : /\ claim[k] # "released" /\ seen[k] # "released"
                                  /\ seen[k] = "bound" => claim[k] = "bound"
             /\ Working => \A i \in DOMAIN nics : \A k \in nics[i] : claim[k] = "bound"

ServerInv == /\ server \in Servers /\ Len(server.nics) \in {0, Len(server.networks) + 1}
             /\ wanted \in Selections \cup {NotRead}
             /\ HasServer => wanted # NotRead
             /\ AddressesHeld /\ ImageSelected

BaseInv == LocalType /\ DeletionInv /\ ClaimsInv /\ ServerInv

\* What the end of a reconcile leaves.
Ended == /\ pc' = "idle" /\ base' = NewObject /\ cur' = NewObject
         /\ networks' = <<>> /\ todo' = {} /\ nics' = <<>> /\ waits' = FALSE
         /\ im' \in Objects /\ (im.life # "live" => im'.life # "live")
         /\ dirty' \in BOOLEAN /\ faults' \in 0..MaxFaults

-----------------------------------------------------------------------------
(***************************************************************************)
(* The claims of a step.                                                   *)
(***************************************************************************)
LEMMA NICsNetworks ==
  ASSUME NEW ns \in Seq(Nat \ {0})
  PROVE  DOMAIN nicNetworks(ns) = 1..(Len(ns) + 1)
BY DEF nicNetworks

\* claimsToHandle and claimsToRelease list claims that have a pool, each with its NIC.
LEMMA ListedClaims ==
  ASSUME NEW ns
  PROVE  /\ \A c \in claimsToHandle(ns) : c.key \in Keys /\ c.key[1] = nicNetworks(ns)[c.nic]
         /\ \A c \in claimsToRelease(ns) : c.key \in Keys
<1>1. ASSUME NEW c \in claimsToHandle(ns)
      PROVE  c.key \in Keys /\ c.key[1] = nicNetworks(ns)[c.nic]
  <2>1. PICK t \in (DOMAIN nicNetworks(ns)) \X (DOMAIN Formats) :
          c = claimOf(ns, t[1], t[2], t) /\ c.key \in Pools
    BY Zenon, <1>1 DEF claimsToHandle
  <2> QED BY <2>1 DEF claimOf, Keys
<1>2. ASSUME NEW c \in claimsToRelease(ns)
      PROVE  c.key \in Keys
  BY Zenon, <1>2 DEF claimsToRelease
<1> QED BY Zenon, <1>1, <1>2

\* ... and none is left out.
LEMMA ListedAll ==
  ASSUME NEW ns, NEW k \in Keys, NEW i \in DOMAIN nicNetworks(ns), k[1] = nicNetworks(ns)[i]
  PROVE  /\ \E c \in claimsToHandle(ns) : c.nic = i /\ c.key = k
         /\ \E c \in claimsToRelease(ns) : c.key = k
<1>1. k \in Nat \X {"ipv4", "ipv6"} /\ k \in Pools
  BY Zenon, ProvisioningAssumption DEF Keys
<1>2. DOMAIN Formats = {1, 2} /\ Formats[1] = "ipv4" /\ Formats[2] = "ipv6"
  BY DEF Formats
<1>3. PICK f \in DOMAIN Formats : k = <<nicNetworks(ns)[i], Formats[f]>>
  BY <1>1, <1>2
<1>4. /\ claimOf(ns, i, f, <<i, f>>).key = k /\ claimOf(ns, i, f, <<i, f>>).nic = i
      /\ claimOf(ns, i, f, <<f, i>>).key = k
  BY Zenon, <1>3 DEF claimOf
<1>5. claimOf(ns, i, f, <<i, f>>) \in claimsToHandle(ns)
  <2> DEFINE t == <<i, f>>
  <2>1. t \in (DOMAIN nicNetworks(ns)) \X (DOMAIN Formats) /\ t[1] = i /\ t[2] = f
    OBVIOUS
  <2> QED BY <1>1, <1>4, <2>1, ZenonT(30) DEF claimsToHandle
<1>6. claimOf(ns, i, f, <<f, i>>) \in claimsToRelease(ns)
  <2> DEFINE t == <<f, i>>
  <2>1. t \in (DOMAIN Formats) \X (DOMAIN nicNetworks(ns)) /\ t[2] = i /\ t[1] = f
    OBVIOUS
  <2> QED BY <1>4, <2>1, ZenonT(30) DEF claimsToRelease
<1> QED BY Zenon, <1>4, <1>5, <1>6

-----------------------------------------------------------------------------
(***************************************************************************)
(* The end and the begin of a reconcile.                                   *)
(***************************************************************************)
LEMMA NewObjectType == NewObject \in Objects
BY Zenon DEF NewObject, Objects, Conditions

LEMMA PatchedType ==
  ASSUME im \in Objects, NEW from \in Objects, NEW object \in Objects
  PROVE  Patched(from, object) \in Objects /\ (im.life # "live" => Patched(from, object).life # "live")
BY ZenonT(30) DEF Patched, Objects

LEMMA FinalizeEnds ==
  ASSUME im \in Objects, NEW from \in Objects, NEW object \in Objects, NEW queued \in BOOLEAN,
         Finalize(from, object, queued), faults' \in 0..MaxFaults
  PROVE  Ended
<1>1. im' \in Objects /\ (im.life # "live" => im'.life # "live")
  BY Zenon, PatchedType DEF Finalize
<1>2. dirty' \in BOOLEAN
  BY ZenonT(30) DEF Finalize
<1> QED BY <1>1, <1>2 DEF Finalize, Ended, Goto

LEMMA FaultType ==
  ASSUME faults \in 0..MaxFaults, Fault
  PROVE  faults' \in 0..MaxFaults
BY ProvisioningAssumption DEF Fault

LEMMA FinishEnds ==
  ASSUME LocalType, NEW object \in Objects, NEW requeue \in BOOLEAN, Finish(object, requeue)
  PROVE  Ended
<1>1. CASE Finalize(base, object, dirty \/ requeue) /\ UNCHANGED faults
  <2>1. (dirty \/ requeue) \in BOOLEAN /\ faults' \in 0..MaxFaults
    BY Zenon, <1>1 DEF LocalType
  <2> QED BY <1>1, <2>1, FinalizeEnds DEF LocalType
<1>2. CASE FinalizeLost
  BY Zenon, <1>2, FaultType DEF FinalizeLost, LocalType, Ended, Goto
<1> QED BY <1>1, <1>2 DEF Finish

LEMMA ConditionType ==
  ASSUME NEW object \in Objects, NEW cond \in Conditions
  PROVE  setProvisioningCondition(object, cond) \in Objects
BY Zenon DEF setProvisioningCondition, Objects

LEMMA FailedEnds ==
  ASSUME LocalType, NEW object \in Objects, Failed(object)
  PROVE  Ended
<1>1. setProvisioningCondition(object, "ProvisioningFailed") \in Objects
  BY Zenon, ConditionType DEF Conditions
<1> QED BY <1>1, FinishEnds, ZenonT(30) DEF Failed

LEMMA BeginType ==
  ASSUME LocalType, NEW step, NEW object \in Objects, Begin(step, object)
  PROVE  /\ pc' = step /\ base' \in Objects /\ cur' \in Objects /\ waits' = FALSE
         /\ networks' \in Seq(Nat \ {0})
         /\ nics' \in Seq(SUBSET Keys) /\ DOMAIN nics' = 1..(Len(networks') + 1)
         /\ \A i \in DOMAIN nics' : nics'[i] = {}
<1>1. networks' \in Seq(Nat \ {0})
  BY ProvisioningAssumption DEF Begin, LocalType, Known
<1>2. DOMAIN nicNetworks(networks') = 1..(Len(networks') + 1)
  BY <1>1 DEF nicNetworks
<1>3. nics' = [i \in 1..(Len(networks') + 1) |-> {}]
  BY Zenon, <1>2 DEF Begin
<1>4. nics' \in Seq(SUBSET Keys)
  BY <1>1, <1>3
<1> QED BY <1>1, <1>3, <1>4 DEF Begin, Goto, LocalType

\* A reconcile ends: what it had in its hands is forgotten.
LEMMA EndedLocal ==
  ASSUME LocalType, DeletionInv, ClaimsInv, Ended, UNCHANGED <<cached, known, pauses, claimVars>>,
         missed' \subseteq Keys
  PROVE  LocalType' /\ DeletionInv' /\ ClaimsInv'
<1>1. LocalType'
  <2>1. <<>> \in Seq(Nat \ {0}) /\ <<>> \in Seq(SUBSET Keys)
    OBVIOUS
  <2> QED BY <2>1, NewObjectType, ZenonT(30) DEF LocalType, Ended, Working
<1>2. DeletionInv'
  BY Zenon DEF DeletionInv, Ended
<1>3. ClaimsInv'
  BY Zenon DEF ClaimsInv, ClaimsTypeOK, Ended, Working, claimVars
<1> QED BY <1>1, <1>2, <1>3

\* The server and what its addresses depend on do not change.
LEMMA ServerSame ==
  ASSUME ServerInv, UNCHANGED <<server, wanted, claim>>
  PROVE  ServerInv'
BY Zenon DEF ServerInv, HasServer, AddressesHeld, ImageSelected

-----------------------------------------------------------------------------
(***************************************************************************)
(* One lemma per action.                                                   *)
(***************************************************************************)
LEMMA StartKeeps ==
  ASSUME BaseInv, StartReconcile
  PROVE  BaseInv'
<1> USE DEF BaseInv
<1>1. UNCHANGED <<cached, known, server, wanted, missed, pauses, faults, claim, seen, addr>> /\ pc = "idle"
  BY Zenon DEF StartReconcile, claimVars
<1>2. ServerInv'
  BY Zenon, <1>1, ServerSame
<1>3. CASE skipped /\ dirty' = FALSE /\ UNCHANGED <<im, pc, localVars>>
  BY <1>1, <1>2, <1>3, ZenonT(30) DEF LocalType, DeletionInv, ClaimsInv, ClaimsTypeOK, Working, HasServer, localVars
<1>4. CASE cached.life = "deleting" /\ Begin("serverD", cached) /\ dirty' = FALSE /\ UNCHANGED <<im, todo>>
  <2>1. LocalType'
    BY <1>1, <1>4, BeginType, ZenonT(30) DEF LocalType, Working
  <2>2. pc' = "serverD" /\ UNCHANGED im
    BY Zenon, <1>4 DEF Begin, Goto
  <2>3. DeletionInv'
    BY <1>1, <1>4, <2>2, SMTT(30) DEF DeletionInv
  <2>4. ClaimsInv'
    BY <1>1, <1>4, <2>2, SMTT(30) DEF ClaimsInv, ClaimsTypeOK, Working
  <2> QED BY <1>2, <2>1, <2>3, <2>4, SMTT(30)
<1>5. CASE Finalize(cached, [cached EXCEPT !.cond = waitingReason], FALSE)
  <2>1. [cached EXCEPT !.cond = waitingReason] \in Objects
    BY ZenonT(30) DEF LocalType, Objects, waitingReason, Conditions
  <2>2. Ended
    BY <1>1, <1>5, <2>1, FinalizeEnds, ZenonT(30) DEF LocalType
  <2> QED BY <1>1, <1>2, <2>2, EndedLocal, SMTT(30) DEF LocalType, claimVars
<1>6. CASE reconcileNormal
  <2>1. cached.life = "live"
    BY Zenon, <1>6 DEF reconcileNormal
  <2>2. im' \in Objects /\ im'.life = im.life
    BY <1>6, ZenonT(30) DEF reconcileNormal, LocalType, Objects
  <2>3. CASE /\ Begin("claims", setProvisioningCondition([cached EXCEPT !.fin = TRUE], "Provisioning"))
             /\ todo' = claimsToHandle(networks') /\ dirty' = FALSE
    <3>1. setProvisioningCondition([cached EXCEPT !.fin = TRUE], "Provisioning") \in Objects
      <4>1. [cached EXCEPT !.fin = TRUE] \in Objects
        BY ZenonT(30) DEF LocalType, Objects
      <4> QED BY <4>1, ConditionType DEF Conditions
    <3>2. LocalType'
      <4>1. \A c \in todo' : c.key \in Keys
        BY Zenon, <2>3, ListedClaims
      <4> QED BY <1>1, <2>2, <2>3, <3>1, <4>1, BeginType, ZenonT(30) DEF LocalType
    <3>3. DeletionInv'
      BY <1>1, <2>1, <2>3, SMTT(30) DEF DeletionInv, Begin, Goto
    <3>4. ClaimsInv'
      BY <1>1, <2>1, <2>3, <3>1, BeginType, ZenonT(30) DEF ClaimsInv, ClaimsTypeOK
    <3> QED BY <1>2, <3>2, <3>3, <3>4
  <2>4. CASE dirty' = TRUE /\ UNCHANGED <<pc, localVars>>
    BY <1>1, <1>2, <2>2, <2>4, SMTT(30) DEF LocalType, DeletionInv, ClaimsInv, ClaimsTypeOK, Working, HasServer, localVars
  <2> QED BY <1>6, <2>3, <2>4, ZenonT(30) DEF reconcileNormal
<1> QED BY <1>3, <1>4, <1>5, <1>6, ZenonT(30) DEF StartReconcile

LEMMA ExceptSequence ==
  ASSUME NEW T, NEW s \in Seq(T), NEW j, NEW e, j \in DOMAIN s => e \in T
  PROVE  [s EXCEPT ![j] = e] \in Seq(T) /\ DOMAIN [s EXCEPT ![j] = e] = DOMAIN s
<1>1. Len(s) \in Nat /\ DOMAIN s = 1..Len(s) /\ \A i \in 1..Len(s) : s[i] \in T
  OBVIOUS
<1>2. [s EXCEPT ![j] = e] = [i \in 1..Len(s) |-> IF i = j THEN e ELSE s[i]]
  BY <1>1, ZenonT(30)
<1>3. \A i \in 1..Len(s) : (IF i = j THEN e ELSE s[i]) \in T
  BY Zenon, <1>1
<1>4. [i \in 1..Len(s) |-> IF i = j THEN e ELSE s[i]] \in Seq(T)
  BY <1>1, <1>3, SMTT(30)
<1> QED BY <1>1, <1>2, <1>4, ZenonT(30)

LEMMA HandleClaimKeeps ==
  ASSUME BaseInv, HandleClaim
  PROVE  BaseInv'
<1> USE DEF BaseInv
<1>1. UNCHANGED <<cached, known, server, wanted, missed, pauses>> /\ pc = "claims"
  BY Zenon DEF HandleClaim
<1>2. PICK item \in todo, result \in {"ip", "wait", "error"} :
        /\ handleIPAddressForNIC(item.key, result)
        /\ \/ result = "error" /\ Failed(cur)
           \/ /\ result # "error"
              /\ nics' = IF result = "ip" THEN [nics EXCEPT ![item.nic] = @ \cup {item.key}] ELSE nics
              /\ waits' = (waits \/ result = "wait")
              /\ todo' = todo \ {item}
              /\ UNCHANGED <<im, pc, base, cur, networks, dirty, faults>>
  BY Zenon DEF HandleClaim
\* A claim is created at most: one that is bound stays so.
<1>3. /\ ClaimsTypeOK' /\ UNCHANGED addr
      /\ \A c \in Keys : /\ claim'[c] = claim[c] \/ (claim[c] = "none" /\ claim'[c] = "created")
                         /\ seen'[c] = seen[c] \/ seen'[c] = claim'[c]
  <2>1. CreateIPAddressClaim(item.key) \/ SyncClaim(item.key) \/ UNCHANGED claimVars
    BY Zenon, <1>2 DEF handleIPAddressForNIC
  <2>2. CASE CreateIPAddressClaim(item.key)
    BY Zenon, <2>2 DEF CreateIPAddressClaim, ClaimsInv, ClaimsTypeOK, ClaimStates
  <2>3. CASE SyncClaim(item.key)
    <3>1. item.key \in Keys
      BY Zenon DEF LocalType
    <3> QED BY Zenon, <2>3, <3>1 DEF SyncClaim, ClaimsInv, ClaimsTypeOK
  <2>4. CASE UNCHANGED claimVars
    BY Zenon, <2>4 DEF ClaimsInv, ClaimsTypeOK, claimVars
  <2> QED BY Zenon, <2>1, <2>2, <2>3, <2>4
<1>4. ServerInv'
  <2>1. AddressesHeld'
    BY <1>1, <1>3, SMTT(30) DEF AddressesHeld, HasServer, ServerInv, Servers
  <2> QED BY <1>1, <2>1 DEF ServerInv, HasServer, ImageSelected
<1>5. CASE result = "error"
  <2>1. UNCHANGED claimVars
    BY Zenon, <1>2, <1>5 DEF handleIPAddressForNIC
  <2>2. Ended
    BY <1>2, <1>5, FailedEnds, SMTT(30) DEF LocalType
  <2> QED BY <1>1, <1>4, <2>1, <2>2, EndedLocal, SMTT(30) DEF LocalType
<1>6. CASE result # "error"
  <2>1. UNCHANGED <<im, pc, base, cur, networks, dirty, faults>>
    BY <1>2, <1>6, SMTT(30)
  <2>2. \/ nics' = nics
        \/ /\ nics' = [nics EXCEPT ![item.nic] = @ \cup {item.key}]
           /\ seen[item.key] \in {"bound", "released"} /\ item.key \in addr
    BY Zenon, <1>2, <1>6 DEF handleIPAddressForNIC
  <2>3. nics' \in Seq(SUBSET Keys) /\ DOMAIN nics' = DOMAIN nics
    <3>1. CASE nics' = nics
      BY Zenon, <3>1 DEF LocalType
    <3>2. CASE nics' = [nics EXCEPT ![item.nic] = @ \cup {item.key}] /\ item.key \in addr
      <4>1. item.key \in Keys
        BY Zenon, <3>2 DEF ClaimsInv, ClaimsTypeOK
      <4>2. nics \in Seq(SUBSET Keys)
        BY Zenon DEF LocalType
      <4>3. \A i \in DOMAIN nics : nics[i] \cup {item.key} \in SUBSET Keys
        BY <4>1, <4>2
      <4> QED BY <3>2, <4>2, <4>3, ExceptSequence, ZenonT(30)
    <3> QED BY <2>2, <3>1, <3>2, SMTT(30)
  <2>4. LocalType'
    BY <1>1, <1>2, <1>6, <2>1, <2>3, ZenonT(30) DEF LocalType, Working
  <2>5. DeletionInv'
    BY <1>1, <2>1, SMTT(30) DEF DeletionInv
  <2>6. \A c \in Keys : /\ claim'[c] # "released" /\ seen'[c] # "released"
                        /\ seen'[c] = "bound" => claim'[c] = "bound"
    BY Zenon, <1>1, <1>3 DEF ClaimsInv, Working
  <2>7. \A i \in DOMAIN nics' : \A c \in nics'[i] : claim'[c] = "bound"
    <3>1. SUFFICES ASSUME NEW i \in DOMAIN nics', NEW c \in nics'[i]
                   PROVE  claim'[c] = "bound"
      OBVIOUS
    <3>2. c \in Keys
      BY <2>3
    <3>3. c \in nics[i] \/ (seen[c] \in {"bound", "released"})
      BY <2>2, <2>3, SMTT(30)
    <3>4. claim[c] = "bound"
      BY <1>1, <2>3, <3>2, <3>3, SMTT(30) DEF ClaimsInv, Working
    <3> QED BY <1>3, <3>2, <3>4, SMTT(30)
  <2>8. ClaimsInv'
    BY <1>3, <2>6, <2>7, SMTT(30) DEF ClaimsInv
  <2> QED BY <1>4, <2>4, <2>5, <2>8, SMTT(30)
<1> QED BY <1>2, <1>5, <1>6, SMTT(30)

LEMMA ReconcileIPAddressesKeeps ==
  ASSUME BaseInv, ReconcileIPAddresses
  PROVE  BaseInv'
<1> USE DEF BaseInv
<1>1. UNCHANGED <<cached, known, server, wanted, missed, pauses, claim, seen, addr>> /\ pc = "claims"
  BY Zenon DEF ReconcileIPAddresses, claimVars
<1>2. ServerInv'
  BY Zenon, <1>1, ServerSame
<1>3. [cur EXCEPT !.info = "claims"] \in Objects
  BY ZenonT(30) DEF LocalType, Objects
<1>4. CASE Finish([cur EXCEPT !.info = "claims"], TRUE)
  <2>1. Ended
    BY <1>3, <1>4, FinishEnds, ZenonT(30)
  <2> QED BY <1>1, <1>2, <2>1, EndedLocal, SMTT(30) DEF LocalType, claimVars
<1>5. CASE /\ Goto("server") /\ cur' = [cur EXCEPT !.info = "claims"]
           /\ UNCHANGED <<im, base, networks, todo, nics, waits, dirty, faults>>
  <2>1. LocalType'
    BY Zenon, <1>1, <1>3, <1>5 DEF LocalType, Goto, Working
  <2>2. DeletionInv'
    BY Zenon, <1>1, <1>5 DEF DeletionInv, Goto
  <2>3. ClaimsInv'
    BY Zenon, <1>1, <1>5 DEF ClaimsInv, ClaimsTypeOK, Goto, Working
  <2> QED BY <1>2, <2>1, <2>2, <2>3
<1> QED BY <1>4, <1>5, ZenonT(30) DEF ReconcileIPAddresses

LEMMA SelectionRead ==
  ASSUME ServerInv, readSelection
  PROVE  wanted' \in Selections /\ (wanted # NotRead => wanted' = wanted)
BY Zenon DEF ServerInv, readSelection

\* createServer uses what the reconcile has found: the addresses are still bound.
LEMMA CreateServerKeeps ==
  ASSUME BaseInv, createServer, pc = "server", server.state = "none", UNCHANGED claim
  PROVE  ServerInv' /\ Ended
<1> USE DEF BaseInv
<1>1. wanted' \in Selections
  BY Zenon, SelectionRead DEF createServer
<1>2. PICK id \in lookupImageID(wanted'.labels, wanted'.image, Version) :
        \/ id = NoImage /\ Failed(cur) /\ UNCHANGED server
        \/ /\ id # NoImage
           /\ server' = [state |-> "creating", networks |-> networks, image |-> id,
                         nics |-> buildServerEntities(networks, nics)]
           /\ Finish(cur, TRUE)
  BY ZenonT(30) DEF createServer
<1>3. CASE id = NoImage /\ Failed(cur) /\ UNCHANGED server
  <2>1. Ended
    BY Zenon, <1>3, FailedEnds DEF LocalType
  <2>2. ServerInv'
    BY Zenon, <1>1, <1>3 DEF ServerInv, HasServer, AddressesHeld, ImageSelected
  <2> QED BY <2>1, <2>2
<1>4. CASE /\ id # NoImage /\ Finish(cur, TRUE)
           /\ server' = [state |-> "creating", networks |-> networks, image |-> id,
                         nics |-> buildServerEntities(networks, nics)]
  <2>1. Ended
    BY <1>4, FinishEnds, ZenonT(30) DEF LocalType
  <2>2. Selected(id, wanted'.labels, wanted'.image, Version) /\ wanted'.image \in ImageSpecs
    BY <1>1, <1>4, LookupSelects, ProvisioningAssumption, SMTT(30)
  <2>3. id \in Nat
    BY <2>2, ImageAssumption, ZenonT(30) DEF Selected, Fits, ImageSpecs
  <2>4. networks \in Seq(Nat \ {0}) /\ nics \in Seq(SUBSET Keys) /\ DOMAIN nics = 1..(Len(networks) + 1)
    BY Zenon DEF LocalType, Working
  <2>5. buildServerEntities(networks, nics) = nics /\ Len(nics) = Len(networks) + 1
    BY <2>4 DEF buildServerEntities
  <2>6. server' \in Servers /\ Len(server'.nics) = Len(server'.networks) + 1
    BY <1>4, <2>3, <2>4, <2>5, SMTT(30) DEF Servers
  <2>7. AddressesHeld'
    <3>1. \A i \in DOMAIN nics : \A k \in nics[i] : claim[k] = "bound"
      BY Zenon DEF ClaimsInv, Working
    <3>2. server'.nics = nics
      BY Zenon, <1>4, <2>5
    <3> QED BY <3>1, <3>2, SMTT(30) DEF AddressesHeld
  <2>8. ImageSelected'
    BY Zenon, <1>4, <2>2 DEF ImageSelected
  <2>9. wanted' # NotRead
    BY <1>1, ProvisioningAssumption, SMTT(30)
  <2> QED BY <1>1, <2>1, <2>6, <2>7, <2>8, <2>9, SMTT(30) DEF ServerInv
<1> QED BY <1>2, <1>3, <1>4, ZenonT(30)

LEMMA ReconcileServerKeeps ==
  ASSUME BaseInv, ReconcileServer
  PROVE  BaseInv'
<1> USE DEF BaseInv
<1>1. UNCHANGED <<cached, known, missed, pauses, claim, seen, addr>> /\ pc = "server"
  BY Zenon DEF ReconcileServer, claimVars
<1>2. ServerInv' /\ Ended
  <2>1. CASE Finish(cur, TRUE) /\ UNCHANGED <<server, wanted>>
    <3>1. Ended
      BY <2>1, FinishEnds, ZenonT(30) DEF LocalType
    <3> QED BY <1>1, <2>1, <3>1, ServerSame
  <2>2. CASE server.state = "none" /\ createServer
    BY Zenon, <1>1, <2>2, CreateServerKeeps
  <2>3. CASE /\ Finish(FinalizeMachineProvisioning([cur EXCEPT !.info = "server"]), FALSE)
             /\ UNCHANGED <<server, wanted>>
    <3>1. [cur EXCEPT !.info = "server"] \in Objects
      BY ZenonT(30) DEF LocalType, Objects
    <3>2. FinalizeMachineProvisioning([cur EXCEPT !.info = "server"]) \in Objects
      BY <3>1, ZenonT(30) DEF FinalizeMachineProvisioning, Objects, Conditions
    <3>3. Ended
      BY <2>3, <3>2, FinishEnds, ZenonT(30)
    <3> QED BY <1>1, <2>3, <3>3, ServerSame
  <2> QED BY <2>1, <2>2, <2>3, ZenonT(30) DEF ReconcileServer
<1> QED BY <1>1, <1>2, EndedLocal DEF LocalType, claimVars

LEMMA ReconcileServerDeletionKeeps ==
  ASSUME BaseInv, ReconcileServerDeletion
  PROVE  BaseInv'
<1> USE DEF BaseInv
<1>1. UNCHANGED <<cached, known, wanted, pauses, claim, seen, addr>> /\ pc = "serverD"
  BY Zenon DEF ReconcileServerDeletion, claimVars
<1>2. CASE /\ server.state # "none"
           /\ server' = [server EXCEPT !.state = IF @ = "up" THEN "deleting" ELSE @]
           /\ Finish(cur, TRUE) /\ UNCHANGED missed
  <2>1. Ended
    BY <1>2, FinishEnds, ZenonT(30) DEF LocalType
  <2>2. /\ server' \in Servers /\ server'.state # "none"
        /\ server'.nics = server.nics /\ server'.networks = server.networks /\ server'.image = server.image
    BY <1>2, SMTT(30) DEF ServerInv, Servers
  <2>3. ServerInv'
    BY Zenon, <1>1, <1>2, <2>2 DEF ServerInv, HasServer, AddressesHeld, ImageSelected
  <2> QED BY <1>1, <1>2, <2>1, <2>3, EndedLocal, SMTT(30) DEF LocalType, claimVars
<1>3. CASE server.state = "none" /\ ReleaseClaims /\ UNCHANGED server
  <2>1. ServerInv'
    BY <1>1, <1>3, ServerSame, SMTT(30)
  <2>2. /\ pc' = "claimsD" /\ UNCHANGED <<im, base, cur, networks, nics, waits, dirty, faults>>
        /\ \A c \in todo' : c.key \in Keys
    BY Zenon, <1>3, ListedClaims DEF ReleaseClaims, Goto
  <2>3. missed' \subseteq Keys
    BY Zenon, <1>3 DEF ReleaseClaims, networkDropped, LocalType
  <2>4. LocalType'
    BY Zenon, <1>1, <2>2, <2>3 DEF LocalType, Working
  <2>5. DeletionInv'
    BY <1>1, <1>3, <2>2, SMTT(30) DEF DeletionInv, HasServer
  <2>6. ClaimsInv'
    BY Zenon, <1>1, <2>2 DEF ClaimsInv, ClaimsTypeOK, Working, DeletionInv
  <2> QED BY <2>1, <2>4, <2>5, <2>6
<1> QED BY <1>2, <1>3, ZenonT(30) DEF ReconcileServerDeletion

LEMMA ReleaseClaimKeeps ==
  ASSUME BaseInv, ReleaseClaim
  PROVE  BaseInv'
<1> USE DEF BaseInv
<1>1. UNCHANGED <<cached, known, server, wanted, pauses>> /\ pc = "claimsD"
  BY Zenon DEF ReleaseClaim
<1>2. ~HasServer /\ cached.life # "live"
  BY Zenon, <1>1 DEF DeletionInv
<1>3. ServerInv'
  BY Zenon, <1>1, <1>2 DEF ServerInv, HasServer, AddressesHeld, ImageSelected
<1>4. missed' \subseteq Keys
  BY Zenon DEF ReleaseClaim, LocalType
<1>5. PICK item \in todo, result \in {"ok", "error"} :
        /\ releaseClaim(item.key, result)
        /\ \/ result = "error" /\ Finish(cur, TRUE)
           \/ result = "ok" /\ todo' = todo \ {item} /\ UNCHANGED <<im, pc, base, cur, networks, nics, waits, dirty, faults>>
  BY ZenonT(30) DEF ReleaseClaim
<1>6. CASE result = "error"
  <2>1. UNCHANGED claimVars
    BY Zenon, <1>5, <1>6 DEF releaseClaim
  <2>2. Ended
    BY <1>5, <1>6, FinishEnds, ZenonT(30) DEF LocalType
  <2> QED BY <1>1, <1>3, <1>4, <2>1, <2>2, EndedLocal, SMTT(30)
<1>7. CASE result = "ok"
  <2>1. todo' = todo \ {item} /\ UNCHANGED <<im, pc, base, cur, networks, nics, waits, dirty, faults>>
    BY Zenon, <1>5, <1>7
  <2>2. ClaimsTypeOK'
    BY Zenon, <1>5 DEF releaseClaim, ClaimsInv, ClaimsTypeOK, ClaimStates, claimVars
  <2>3. LocalType'
    BY Zenon, <1>1, <1>4, <2>1 DEF LocalType, Working
  <2>4. DeletionInv'
    BY Zenon, <1>1, <2>1 DEF DeletionInv, HasServer
  <2>5. ClaimsInv'
    BY <1>1, <1>2, <2>1, <2>2, SMTT(30) DEF ClaimsInv, Working
  <2> QED BY <1>3, <2>3, <2>4, <2>5, SMTT(30)
<1> QED BY <1>5, <1>6, <1>7, SMTT(30)

LEMMA RemoveFinalizerKeeps ==
  ASSUME BaseInv, RemoveFinalizer
  PROVE  BaseInv'
<1> USE DEF BaseInv
<1>1. UNCHANGED <<cached, known, server, wanted, missed, pauses, claimVars>>
  BY Zenon DEF RemoveFinalizer
<1>2. [cur EXCEPT !.fin = FALSE] \in Objects
  BY ZenonT(30) DEF LocalType, Objects
<1>3. Ended
  BY <1>2, FinishEnds, ZenonT(30) DEF RemoveFinalizer
<1>4. ServerInv'
  BY <1>1, ServerSame, SMTT(30) DEF claimVars
<1> QED BY <1>1, <1>3, <1>4, EndedLocal DEF LocalType

LEMMA StepErrorKeeps ==
  ASSUME BaseInv, StepError
  PROVE  BaseInv'
<1> USE DEF BaseInv
<1>1. UNCHANGED <<cached, known, server, wanted, missed, pauses, claimVars>>
  BY Zenon DEF StepError
<1>2. faults' \in 0..MaxFaults
  BY Zenon, FaultType DEF StepError, LocalType
<1>3. setProvisioningCondition(cur, "ProvisioningFailed") \in Objects
  BY Zenon, ConditionType DEF Conditions, LocalType
<1>4. Ended
  BY <1>2, <1>3, FinalizeEnds, ZenonT(30) DEF StepError, LocalType
<1>5. ServerInv'
  BY Zenon, <1>1, ServerSame DEF claimVars
<1> QED BY <1>1, <1>4, <1>5, EndedLocal DEF LocalType

LEMMA CrashKeeps ==
  ASSUME BaseInv, Crash
  PROVE  BaseInv'
<1> USE DEF BaseInv
<1>1. UNCHANGED <<im, known, server, wanted, missed, pauses, claim>> /\ cached' = im /\ pc' = "idle"
  BY Zenon DEF Crash
<1>2. ServerInv'
  BY Zenon, <1>1, ServerSame
<1>3. LocalType'
  <2>1. <<>> \in Seq(Nat \ {0}) /\ <<>> \in Seq(SUBSET Keys)
    OBVIOUS
  <2> QED BY <2>1, NewObjectType, FaultType, ZenonT(30) DEF Crash, LocalType, Working
<1>4. DeletionInv'
  BY Zenon, <1>1 DEF DeletionInv
<1>5. ClaimsInv'
  <2>1. seen' = claim /\ addr' \subseteq Keys
    BY Zenon DEF Crash
  <2>2. im.life = "live" => \A k \in Keys : claim[k] # "released"
    BY Zenon DEF DeletionInv, ClaimsInv
  <2> QED BY <1>1, <2>1, <2>2, SMTT(30) DEF ClaimsInv, ClaimsTypeOK, Working
<1> QED BY <1>2, <1>3, <1>4, <1>5

\* The caches, the user and the cluster; the claims stay as they are.
LEMMA EventsKeep ==
  ASSUME BaseInv, SyncMachine \/ Prerequisites \/ SecretAppears \/ Pause \/ DeleteMachine
  PROVE  BaseInv'
<1> USE DEF BaseInv
<1>1. UNCHANGED <<pc, base, cur, networks, todo, nics, waits, server, wanted, missed, faults, claim, seen, addr>>
  BY Zenon DEF SyncMachine, Prerequisites, SecretAppears, Pause, DeleteMachine, localVars, claimVars
<1>2. ServerInv'
  BY Zenon, <1>1, ServerSame
<1>3. /\ im' \in Objects /\ cached' \in Objects
      /\ cached'.life # "live" => im'.life # "live"
      /\ cached.life # "live" => cached'.life # "live"
  <2>1. CASE SyncMachine
    BY Zenon, <2>1 DEF SyncMachine, LocalType, DeletionInv
  <2>2. CASE DeleteMachine
    BY <2>2, ZenonT(30) DEF DeleteMachine, LocalType, DeletionInv, queueVars, Objects
  <2>3. CASE Prerequisites \/ SecretAppears \/ Pause
    BY Zenon, <2>3 DEF Prerequisites, SecretAppears, Pause, LocalType, DeletionInv
  <2> QED BY <2>1, <2>2, <2>3, SMTT(30)
<1>4. known' \in Known /\ dirty' \in BOOLEAN /\ pauses' \in 0..MaxPauses
  <2>1. CASE SyncMachine \/ DeleteMachine
    BY <2>1, ZenonT(30) DEF SyncMachine, DeleteMachine, LocalType, queueVars
  <2>2. CASE SecretAppears
    BY <2>2, ZenonT(30) DEF SecretAppears, LocalType, Known
  <2>3. CASE Prerequisites
    <3>1. pauses' \in 0..MaxPauses
      BY Zenon, <2>3 DEF Prerequisites, LocalType
    <3>2. dirty' \in BOOLEAN
      BY <2>3, ZenonT(30) DEF Prerequisites, LocalType, clusterEvent
    <3>3. known' \in Known
      <4>1. known \in Known
        BY Zenon DEF LocalType
      <4>2. CASE known.net < Len(Networks) /\ known' = [known EXCEPT !.net = @ + 1]
        <5>1. DOMAIN Networks = 1..Len(Networks) /\ Len(Networks) \in Nat
          BY ProvisioningAssumption
        <5>2. known.net \in DOMAIN Networks
          BY Zenon, <4>1 DEF Known
        <5>3. known.net + 1 \in DOMAIN Networks
          BY <4>2, <5>1, <5>2
        <5> QED BY <4>1, <4>2, <5>3, SMTT(30) DEF Known
      <4>3. CASE \E f \in {"owner", "boot", "cluster", "infra"} : known' = [known EXCEPT ![f] = TRUE]
        BY <4>1, <4>3, ZenonT(30) DEF Known
      <4> QED BY <2>3, <4>1, <4>2, <4>3, SMTT(30) DEF Prerequisites, Known
    <3> QED BY <3>1, <3>2, <3>3, SMTT(30)
  <2>4. CASE Pause
    <3>1. pauses' \in 0..MaxPauses
      BY <2>4, ProvisioningAssumption DEF Pause, LocalType
    <3>2. dirty' \in BOOLEAN
      BY Zenon, <2>4 DEF Pause, LocalType, clusterEvent
    <3>3. known' \in Known
      BY <2>4, ZenonT(30) DEF Pause, LocalType, Known
    <3> QED BY <3>1, <3>2, <3>3
  <2> QED BY <2>1, <2>2, <2>3, <2>4, SMTT(30)
<1>5. LocalType'
  BY <1>1, <1>3, <1>4, SMTT(30) DEF LocalType, Working
<1>6. DeletionInv'
  BY <1>1, <1>3, SMTT(30) DEF DeletionInv, HasServer
<1>7. ClaimsInv'
  BY Zenon, <1>1, <1>3 DEF ClaimsInv, ClaimsTypeOK, Working
<1> QED BY <1>2, <1>5, <1>6, <1>7, SMTT(30)

LEMMA ClaimsKeep ==
  ASSUME BaseInv, Claims
  PROVE  BaseInv'
<1> USE DEF BaseInv
<1>1. UNCHANGED <<im, cached, known, dirty, pc, base, cur, networks, todo, nics, waits, server, wanted, missed, pauses, faults>>
  BY Zenon DEF Claims, queueVars, localVars
<1>2. PICK k \in Keys : BindAddress(k) \/ SyncClaim(k) \/ SyncAddress(k) \/ CollectClaim(k)
  BY Zenon DEF Claims
<1>3. ClaimsTypeOK'
  BY Zenon, <1>2 DEF BindAddress, SyncClaim, SyncAddress, CollectClaim, ClaimsInv, ClaimsTypeOK, ClaimStates
<1>4. \A c \in Keys : /\ claim[c] = "bound" => claim'[c] = "bound"
                      /\ claim'[c] = "released" => claim[c] = "released"
                      /\ seen'[c] = seen[c] \/ (seen'[c] = claim[c] /\ claim'[c] = claim[c])
  BY Zenon, <1>2 DEF BindAddress, SyncClaim, SyncAddress, CollectClaim, ClaimsInv, ClaimsTypeOK
<1>5. ClaimsInv'
  <2>1. Working \/ cached.life = "live" =>
          \A c \in Keys : /\ claim'[c] # "released" /\ seen'[c] # "released"
                          /\ seen'[c] = "bound" => claim'[c] = "bound"
    BY Zenon, <1>4 DEF ClaimsInv
  <2>2. Working => \A i \in DOMAIN nics : \A c \in nics[i] : claim'[c] = "bound"
    BY <1>4 DEF ClaimsInv, LocalType
  <2> QED BY <1>1, <1>3, <2>1, <2>2, SMTT(30) DEF ClaimsInv, Working
<1>6. ServerInv'
  <2>1. AddressesHeld'
    BY <1>1, <1>4 DEF AddressesHeld, HasServer, ServerInv, Servers
  <2> QED BY <1>1, <2>1, SMTT(30) DEF ServerInv, HasServer, ImageSelected
<1>7. LocalType' /\ DeletionInv'
  BY <1>1, SMTT(30) DEF LocalType, DeletionInv, Working, HasServer
<1> QED BY <1>5, <1>6, <1>7, SMTT(30)

LEMMA ServerRequestKeeps ==
  ASSUME BaseInv, ServerRequest
  PROVE  BaseInv'
<1> USE DEF BaseInv
<1>1. /\ UNCHANGED <<im, cached, known, dirty, pc, base, cur, networks, todo, nics, waits, wanted, missed, pauses, claim, seen, addr>>
      /\ HasServer
  BY Zenon DEF ServerRequest, queueVars, localVars, claimVars, HasServer
<1>2. faults' \in 0..MaxFaults
  BY Zenon, FaultType DEF ServerRequest, LocalType
<1>3. ServerInv'
  <2>1. CASE server' = [server EXCEPT !.state = "up"]
    <3>1. /\ server' \in Servers /\ server'.nics = server.nics
          /\ server'.networks = server.networks /\ server'.image = server.image
      BY <2>1, SMTT(30) DEF ServerInv, Servers
    <3> QED BY <1>1, <3>1 DEF ServerInv, HasServer, AddressesHeld, ImageSelected
  <2>2. CASE server' = NoServer
    <3>1. <<>> \in Seq(Nat \ {0}) /\ <<>> \in Seq(SUBSET Keys)
      OBVIOUS
    <3>2. /\ server' \in Servers /\ server'.state = "none" /\ Len(server'.nics) = 0
      BY <2>2, <3>1, SMTT(30) DEF NoServer, Servers, NoImage
    <3> QED BY <1>1, <3>2, SMTT(30) DEF ServerInv, HasServer, AddressesHeld, ImageSelected
  <2> QED BY <2>1, <2>2, SMTT(30) DEF ServerRequest
<1>4. LocalType'
  BY Zenon, <1>1, <1>2 DEF LocalType, Working
<1>5. DeletionInv'
  BY Zenon, <1>1 DEF DeletionInv
<1>6. ClaimsInv'
  BY Zenon, <1>1 DEF ClaimsInv, ClaimsTypeOK, Working
<1> QED BY <1>3, <1>4, <1>5, <1>6

-----------------------------------------------------------------------------
(***************************************************************************)
(* The addresses that a reconcile finds, and the claims that the deletion  *)
(* gives back.                                                             *)
(***************************************************************************)
claimsOfNIC(i) == {k \in Pools : k[1] = nicNetworks(networks)[i]}

\* A NIC has addresses of its own claims only, and as long as none is waited for those
\* that it does not have are still to be handled.
FoundInv ==
  /\ Working => /\ todo \subseteq claimsToHandle(networks)
                /\ \A i \in DOMAIN nics :
                     /\ nics[i] \subseteq claimsOfNIC(i)
                     /\ ~waits => \A k \in claimsOfNIC(i) \ nics[i] : \E c \in todo : c.nic = i /\ c.key = k
  /\ pc = "server" => todo = {} /\ ~waits

\* The finalizer is there before a claim is made, and until the deletion is done.
FinalizerInv ==
  /\ im.life = "deleting" => im.fin
  /\ cached.life = "deleting" => cached.fin
  /\ Working => cur.fin /\ im.fin /\ im.life # "gone"
  /\ pc \in {"serverD", "claimsD"} => base.fin /\ cur.fin

\* Without the finalizer no claim was made, and a deletion has the claims that it did not
\* give back in its list.  A claim that was given back is not made again.
ReleaseInv ==
  /\ im.life = "live" /\ ~im.fin => \A k \in Keys : claim[k] = "none"
  /\ ClaimsReleased
  /\ pc = "claimsD" => \A k \in Keys : claim[k] \in {"created", "bound"} =>
                         k \in missed \/ \E c \in todo : c.key = k
  /\ \A k \in Keys : seen[k] = "released" => claim[k] \in {"released", "none"}

ProvisioningInv == BaseInv /\ FoundInv /\ FinalizerInv /\ ReleaseInv /\ ServerHasItsAddresses

\* The patch at the end leaves the finalizer, if there is one.
FinalizerKept == im'.life = im.life /\ (im.fin => im'.fin)

-----------------------------------------------------------------------------
LEMMA FinalizeLeavesFinalizer ==
  ASSUME im \in Objects, NEW from \in Objects, NEW object \in Objects, NEW queued,
         Finalize(from, object, queued), from.fin => object.fin
  PROVE  FinalizerKept
<1>1. CASE im' = im
  BY Zenon, <1>1 DEF FinalizerKept
<1>2. CASE im' = Patched(from, object)
  <2>1. /\ im'.life = (IF im.life = "deleting" /\ from.fin /\ ~object.fin THEN "gone" ELSE im.life)
        /\ im'.fin = (IF object.fin # from.fin THEN object.fin ELSE im.fin)
    BY <1>2, ZenonT(30) DEF Patched, Objects
  <2>2. from.fin \in BOOLEAN /\ object.fin \in BOOLEAN /\ im.fin \in BOOLEAN
    BY Zenon DEF Objects
  <2> QED BY Zenon, <2>1, <2>2 DEF FinalizerKept
<1> QED BY Zenon, <1>1, <1>2 DEF Finalize

LEMMA FinishLeavesFinalizer ==
  ASSUME LocalType, NEW object \in Objects, NEW requeue, Finish(object, requeue), base.fin => object.fin
  PROVE  FinalizerKept
<1>1. CASE Finalize(base, object, dirty \/ requeue)
  BY Zenon, <1>1, FinalizeLeavesFinalizer DEF LocalType
<1>2. CASE FinalizeLost
  BY Zenon, <1>2 DEF FinalizeLost, FinalizerKept
<1> QED BY Zenon, <1>1, <1>2 DEF Finish

LEMMA ConditionLeavesFinalizer ==
  ASSUME NEW object \in Objects, NEW cond
  PROVE  setProvisioningCondition(object, cond).fin = object.fin
BY Zenon DEF setProvisioningCondition, Objects

\* The reconcile ends and leaves the finalizer.
LEMMA EndedKeeps ==
  ASSUME FinalizerInv, ReleaseInv, Ended, FinalizerKept, UNCHANGED <<cached, claim, seen>>,
         missed \subseteq missed'
  PROVE  FoundInv' /\ FinalizerInv' /\ ReleaseInv'
<1>1. FoundInv'
  BY Zenon DEF FoundInv, Ended, Working
<1>2. FinalizerInv'
  BY Zenon DEF FinalizerInv, FinalizerKept, Ended, Working
<1>3. ReleaseInv'
  BY Zenon DEF ReleaseInv, FinalizerKept, Ended, ClaimsReleased
<1> QED BY Zenon, <1>1, <1>2, <1>3

\* The server stays, or only its state changes.
LEMMA AddressesStay ==
  ASSUME ServerHasItsAddresses,
         \/ server' = server
         \/ HasServer /\ server'.nics = server.nics /\ server'.networks = server.networks
  PROVE  ServerHasItsAddresses'
<1> DEFINE own(s, ns) == \A i \in DOMAIN s : s[i] = {k \in Pools : k[1] = nicNetworks(ns)[i]}
<1>1. HasServer => own(server.nics, server.networks)
  BY Zenon DEF ServerHasItsAddresses
<1>2. (HasServer' => own(server'.nics, server'.networks)) => ServerHasItsAddresses'
  BY Zenon DEF ServerHasItsAddresses
<1> HIDE DEF own
<1> QED BY Zenon, <1>1, <1>2 DEF HasServer

LEMMA StartHolds ==
  ASSUME ProvisioningInv, StartReconcile
  PROVE  FoundInv' /\ FinalizerInv' /\ ReleaseInv'
<1> USE DEF ProvisioningInv, BaseInv
<1>1. UNCHANGED <<cached, server, missed, claim, seen, addr>> /\ pc = "idle"
  BY Zenon DEF StartReconcile, claimVars
<1>2. CASE skipped /\ dirty' = FALSE /\ UNCHANGED <<im, pc, localVars>>
  BY Zenon, <1>1, <1>2 DEF FoundInv, FinalizerInv, ReleaseInv, ClaimsReleased, Working, localVars
<1>3. CASE cached.life = "deleting" /\ Begin("serverD", cached) /\ UNCHANGED im
  <2>1. pc' = "serverD" /\ base' = cached /\ cur' = cached
    BY Zenon, <1>3 DEF Begin, Goto
  <2> QED BY Zenon, <1>1, <1>3, <2>1 DEF FoundInv, FinalizerInv, ReleaseInv, ClaimsReleased, Working
<1>4. CASE Finalize(cached, [cached EXCEPT !.cond = waitingReason], FALSE)
  <2>1. [cached EXCEPT !.cond = waitingReason] \in Objects /\ [cached EXCEPT !.cond = waitingReason].fin = cached.fin
    BY ZenonT(30) DEF LocalType, Objects, waitingReason, Conditions
  <2>2. Ended /\ FinalizerKept
    <3>1. faults' \in 0..MaxFaults
      BY Zenon DEF StartReconcile, LocalType
    <3> QED BY Zenon, <1>4, <2>1, <3>1, FinalizeEnds, FinalizeLeavesFinalizer DEF LocalType
  <2> QED BY Zenon, <1>1, <2>2, EndedKeeps
<1>5. CASE reconcileNormal
  <2>1. CASE im.life = "gone" /\ UNCHANGED <<im, pc, localVars>>
    BY Zenon, <1>1, <2>1 DEF FoundInv, FinalizerInv, ReleaseInv, ClaimsReleased, Working, localVars
  <2>2. CASE im.life # "gone" /\ im' = [im EXCEPT !.fin = TRUE]
    <3>1. im'.fin = TRUE /\ im'.life = im.life
      BY Zenon, <2>2 DEF LocalType, Objects
    <3>2. ReleaseInv' \/ pc' = "claimsD"
      BY Zenon, <1>1, <3>1, <2>2 DEF ReleaseInv, ClaimsReleased
    <3>3. CASE UNCHANGED <<pc, localVars>>
      BY Zenon, <1>1, <3>1, <3>2, <3>3 DEF FoundInv, FinalizerInv, Working, localVars
    <3>4. CASE /\ Begin("claims", setProvisioningCondition([cached EXCEPT !.fin = TRUE], "Provisioning"))
               /\ todo' = claimsToHandle(networks')
      <4>1. /\ setProvisioningCondition([cached EXCEPT !.fin = TRUE], "Provisioning").fin = TRUE
            /\ setProvisioningCondition([cached EXCEPT !.fin = TRUE], "Provisioning") \in Objects
        <5>1. [cached EXCEPT !.fin = TRUE] \in Objects /\ [cached EXCEPT !.fin = TRUE].fin = TRUE
          BY ZenonT(30) DEF LocalType, Objects
        <5>2. "Provisioning" \in Conditions
          BY Zenon DEF Conditions
        <5> QED BY Zenon, <5>1, <5>2, ConditionLeavesFinalizer, ConditionType
      <4>2. pc' = "claims" /\ cur'.fin = TRUE
        BY Zenon, <3>4, <4>1 DEF Begin, Goto
      <4>3. networks' \in Seq(Nat \ {0}) /\ DOMAIN nics' = 1..(Len(networks') + 1) /\ \A i \in DOMAIN nics' : nics'[i] = {}
        BY Zenon, <3>4, <4>1, BeginType
      <4>4. DOMAIN nicNetworks(networks') = DOMAIN nics'
        BY Zenon, <4>3, NICsNetworks
      <4>5. ASSUME NEW i \in DOMAIN nics', NEW k \in claimsOfNIC(i)'
            PROVE  \E c \in todo' : c.nic = i /\ c.key = k
        <5>1. k \in Keys /\ k[1] = nicNetworks(networks')[i] /\ i \in DOMAIN nicNetworks(networks')
          BY Zenon, <4>4, <4>5 DEF claimsOfNIC, Keys
        <5>2. \E c \in claimsToHandle(networks') : c.nic = i /\ c.key = k
          BY <5>1, ListedAll
        <5>3. todo' = claimsToHandle(networks')
          BY Zenon, <3>4
        <5> QED BY Zenon, <5>2, <5>3
      <4>6. FoundInv'
        BY ZenonT(30), <3>4, <4>2, <4>3, <4>5 DEF FoundInv
      <4>7. FinalizerInv'
        BY Zenon, <1>1, <2>2, <3>1, <4>2 DEF FinalizerInv
      <4> QED BY Zenon, <3>2, <4>2, <4>6, <4>7
    <3> QED BY Zenon, <1>5, <2>2, <3>3, <3>4 DEF reconcileNormal
  <2> QED BY Zenon, <1>5, <2>1, <2>2 DEF reconcileNormal
<1> QED BY Zenon, <1>2, <1>3, <1>4, <1>5 DEF StartReconcile

LEMMA HandleClaimHolds ==
  ASSUME ProvisioningInv, HandleClaim
  PROVE  FoundInv' /\ FinalizerInv' /\ ReleaseInv'
<1> USE DEF ProvisioningInv, BaseInv
<1>1. UNCHANGED <<cached, server, missed>> /\ pc = "claims"
  BY Zenon DEF HandleClaim
<1>2. PICK item \in todo, result \in {"ip", "wait", "error"} :
        /\ handleIPAddressForNIC(item.key, result)
        /\ \/ result = "error" /\ Failed(cur)
           \/ /\ result # "error"
              /\ todo' = todo \ {item}
              /\ nics' = IF result = "ip" THEN [nics EXCEPT ![item.nic] = @ \cup {item.key}] ELSE nics
              /\ waits' = (waits \/ result = "wait")
              /\ UNCHANGED <<im, pc, base, cur, networks, dirty, faults>>
  BY Zenon DEF HandleClaim
<1>3. \A c \in Keys : \/ claim'[c] = claim[c] /\ (seen'[c] = seen[c] \/ seen'[c] = claim[c])
                      \/ seen[c] = "none" /\ seen'[c] = seen[c] /\ claim'[c] = "created"
  BY Zenon, <1>2 DEF handleIPAddressForNIC, CreateIPAddressClaim, SyncClaim, ClaimsInv, ClaimsTypeOK, claimVars
<1>4. CASE result = "error"
  <2>1. UNCHANGED claimVars
    BY Zenon, <1>2, <1>4 DEF handleIPAddressForNIC
  <2>2. Ended
    BY <1>2, <1>4, FailedEnds, ZenonT(30) DEF LocalType
  <2>3. FinalizerKept
    <3>1. setProvisioningCondition(cur, "ProvisioningFailed") \in Objects
      BY Zenon, ConditionType DEF LocalType, Conditions
    <3>2. setProvisioningCondition(cur, "ProvisioningFailed").fin = cur.fin /\ cur.fin
      BY Zenon, <1>1, ConditionLeavesFinalizer DEF LocalType, FinalizerInv, Working
    <3>3. Finish(setProvisioningCondition(cur, "ProvisioningFailed"), TRUE)
      BY <1>2, <1>4, Zenon DEF Failed
    <3> QED BY Zenon, <3>1, <3>2, <3>3, FinishLeavesFinalizer
  <2> QED BY Zenon, <1>1, <2>1, <2>2, <2>3, EndedKeeps DEF claimVars
<1>5. CASE result # "error"
  <2>1. /\ UNCHANGED <<im, pc, base, cur, networks>> /\ todo' = todo \ {item}
        /\ nics' = IF result = "ip" THEN [nics EXCEPT ![item.nic] = @ \cup {item.key}] ELSE nics
        /\ waits' = (waits \/ result = "wait")
    BY Zenon, <1>2, <1>5
  <2>2. item \in claimsToHandle(networks) /\ item.key \in claimsOfNIC(item.nic)
    <3>1. item \in claimsToHandle(networks)
      BY Zenon, <1>1, <1>2 DEF FoundInv, Working
    <3>2. item.key \in Keys /\ item.key[1] = nicNetworks(networks)[item.nic]
      BY Zenon, <3>1, ListedClaims
    <3> QED BY Zenon, <3>1, <3>2 DEF claimsOfNIC, Keys
  <2>3. /\ DOMAIN nics' = DOMAIN nics
        /\ \A i \in DOMAIN nics : /\ nics[i] \subseteq nics'[i] /\ nics'[i] \subseteq nics[i] \cup {item.key}
                                  /\ i # item.nic => nics'[i] = nics[i]
                                  /\ i = item.nic /\ result = "ip" => item.key \in nics'[i]
    BY <2>1, ZenonT(30)
  <2>4. ASSUME NEW i \in DOMAIN nics
        PROVE  /\ nics'[i] \subseteq claimsOfNIC(i)
               /\ ~waits' => \A k \in claimsOfNIC(i) \ nics'[i] : \E c \in todo' : c.nic = i /\ c.key = k
    <3>1. nics'[i] \subseteq claimsOfNIC(i)
      BY Zenon, <1>1, <2>2, <2>3, <2>4 DEF FoundInv, Working
    <3>2. ASSUME ~waits', NEW k \in claimsOfNIC(i) \ nics'[i]
          PROVE  \E c \in todo' : c.nic = i /\ c.key = k
      <4>1. ~waits /\ result = "ip"
        BY Zenon, <1>5, <2>1, <3>2
      <4>2. PICK c \in todo : c.nic = i /\ c.key = k
        <5>1. k \in claimsOfNIC(i) \ nics[i]
          BY Zenon, <2>3, <2>4, <3>2
        <5> QED BY Zenon, <1>1, <2>4, <4>1, <5>1 DEF FoundInv, Working
      <4>3. c # item
        BY Zenon, <2>3, <2>4, <3>2, <4>1, <4>2
      <4> QED BY Zenon, <2>1, <4>2, <4>3
    <3> QED BY Zenon, <3>1, <3>2
  <2>5. FoundInv'
    <3>1. ASSUME NEW i \in DOMAIN nics'
          PROVE  /\ nics'[i] \subseteq claimsOfNIC(i)'
                 /\ ~waits' => \A k \in claimsOfNIC(i)' \ nics'[i] : \E c \in todo' : c.nic = i /\ c.key = k
      <4>1. claimsOfNIC(i)' = claimsOfNIC(i)
        BY Zenon, <2>1 DEF claimsOfNIC
      <4>2. i \in DOMAIN nics
        BY Zenon, <2>3, <3>1
      <4> QED BY <2>4, <4>1, <4>2
    <3>2. todo' \subseteq claimsToHandle(networks) /\ pc' = "claims" /\ networks' = networks
      BY Zenon, <1>1, <2>1 DEF FoundInv, Working
    <3> QED BY Zenon, <3>1, <3>2 DEF FoundInv
  <2>6. FinalizerInv'
    BY Zenon, <1>1, <2>1 DEF FinalizerInv, Working
  <2>7. ReleaseInv'
    BY Zenon, <1>1, <1>3, <2>1 DEF ReleaseInv, FinalizerInv, Working, ClaimsReleased
  <2> QED BY Zenon, <2>5, <2>6, <2>7
<1> QED BY Zenon, <1>4, <1>5

LEMMA ReconcileIPAddressesHolds ==
  ASSUME ProvisioningInv, ReconcileIPAddresses
  PROVE  FoundInv' /\ FinalizerInv' /\ ReleaseInv'
<1> USE DEF ProvisioningInv, BaseInv
<1>1. UNCHANGED <<cached, server, missed, claim, seen, addr>> /\ pc = "claims" /\ todo = {}
  BY Zenon DEF ReconcileIPAddresses, claimVars
<1>2. [cur EXCEPT !.info = "claims"] \in Objects /\ [cur EXCEPT !.info = "claims"].fin = cur.fin /\ cur.fin
  <2>1. cur.fin
    BY Zenon, <1>1 DEF FinalizerInv, Working
  <2> QED BY <2>1, ZenonT(30) DEF LocalType, Objects
<1>3. CASE Finish([cur EXCEPT !.info = "claims"], TRUE)
  <2>1. Ended /\ FinalizerKept
    BY Zenon, <1>2, <1>3, FinishEnds, FinishLeavesFinalizer
  <2> QED BY Zenon, <1>1, <2>1, EndedKeeps
<1>4. CASE /\ ~waits /\ Goto("server") /\ cur' = [cur EXCEPT !.info = "claims"]
           /\ UNCHANGED <<im, base, networks, todo, nics, waits, dirty, faults>>
  <2>1. FoundInv'
    BY Zenon, <1>1, <1>4 DEF FoundInv, Working, Goto, claimsOfNIC
  <2>2. FinalizerInv'
    BY Zenon, <1>1, <1>2, <1>4 DEF FinalizerInv, Working, Goto
  <2>3. ReleaseInv'
    BY Zenon, <1>1, <1>4 DEF ReleaseInv, Goto, ClaimsReleased
  <2> QED BY Zenon, <2>1, <2>2, <2>3
<1> QED BY Zenon, <1>3, <1>4 DEF ReconcileIPAddresses

\* The server gets the addresses of all its claims: none was waited for.
LEMMA CreateServerHolds ==
  ASSUME ProvisioningInv, createServer, pc = "server"
  PROVE  ServerHasItsAddresses' /\ FinalizerKept
<1> USE DEF ProvisioningInv, BaseInv
<1>1. cur \in Objects /\ cur.fin
  BY Zenon DEF LocalType, FinalizerInv, Working
<1>2. PICK id \in lookupImageID(wanted'.labels, wanted'.image, Version) :
        \/ Failed(cur) /\ UNCHANGED server
        \/ /\ server' = [state |-> "creating", networks |-> networks, image |-> id,
                         nics |-> buildServerEntities(networks, nics)]
           /\ Finish(cur, TRUE)
  BY ZenonT(30) DEF createServer
<1>3. CASE Failed(cur) /\ UNCHANGED server
  <2>1. setProvisioningCondition(cur, "ProvisioningFailed") \in Objects
    BY Zenon, <1>1, ConditionType DEF Conditions
  <2>2. setProvisioningCondition(cur, "ProvisioningFailed").fin
    BY Zenon, <1>1, ConditionLeavesFinalizer
  <2> QED BY Zenon, <1>3, <2>1, <2>2, FinishLeavesFinalizer, AddressesStay DEF Failed
<1>4. CASE /\ server' = [state |-> "creating", networks |-> networks, image |-> id,
                         nics |-> buildServerEntities(networks, nics)]
           /\ Finish(cur, TRUE)
  <2>1. FinalizerKept
    BY Zenon, <1>1, <1>4, FinishLeavesFinalizer
  <2>2. buildServerEntities(networks, nics) = nics
    <3>1. networks \in Seq(Nat \ {0}) /\ nics \in Seq(SUBSET Keys) /\ DOMAIN nics = 1..(Len(networks) + 1)
      BY Zenon DEF LocalType, Working
    <3> QED BY <3>1 DEF buildServerEntities
  <2>3. server'.nics = nics /\ server'.networks = networks
    BY Zenon, <1>4, <2>2
  <2>4. \A i \in DOMAIN nics : nics[i] = claimsOfNIC(i)
    BY Zenon DEF FoundInv, Working
  <2>5. ServerHasItsAddresses'
    BY Zenon, <2>3, <2>4 DEF ServerHasItsAddresses, claimsOfNIC
  <2> QED BY Zenon, <2>1, <2>5
<1> QED BY Zenon, <1>2, <1>3, <1>4

LEMMA ReconcileServerHolds ==
  ASSUME ProvisioningInv, ReconcileServer
  PROVE  FoundInv' /\ FinalizerInv' /\ ReleaseInv' /\ ServerHasItsAddresses'
<1> USE DEF ProvisioningInv, BaseInv
<1>1. UNCHANGED <<cached, known, missed, pauses, claim, seen, addr>> /\ pc = "server"
  BY Zenon DEF ReconcileServer, claimVars
<1>2. cur \in Objects /\ cur.fin
  BY Zenon, <1>1 DEF LocalType, FinalizerInv, Working
<1>3. Ended /\ FinalizerKept /\ ServerHasItsAddresses'
  <2>1. CASE Finish(cur, TRUE) /\ UNCHANGED server
    BY Zenon, <1>2, <2>1, FinishEnds, FinishLeavesFinalizer, AddressesStay
  <2>2. CASE server.state = "none" /\ createServer
    BY Zenon, <1>1, <2>2, CreateServerKeeps, CreateServerHolds
  <2>3. CASE /\ Finish(FinalizeMachineProvisioning([cur EXCEPT !.info = "server"]), FALSE)
             /\ UNCHANGED server
    <3>1. [cur EXCEPT !.info = "server"] \in Objects /\ [cur EXCEPT !.info = "server"].fin = cur.fin
      BY <1>2, ZenonT(30) DEF Objects
    <3>2. /\ FinalizeMachineProvisioning([cur EXCEPT !.info = "server"]) \in Objects
          /\ FinalizeMachineProvisioning([cur EXCEPT !.info = "server"]).fin = [cur EXCEPT !.info = "server"].fin
      BY <3>1, ZenonT(30) DEF FinalizeMachineProvisioning, Objects, Conditions
    <3> QED BY Zenon, <1>2, <2>3, <3>1, <3>2, FinishEnds, FinishLeavesFinalizer, AddressesStay
  <2> QED BY Zenon, <2>1, <2>2, <2>3 DEF ReconcileServer
<1> QED BY Zenon, <1>1, <1>3, EndedKeeps

LEMMA ReconcileServerDeletionHolds ==
  ASSUME ProvisioningInv, ReconcileServerDeletion
  PROVE  FoundInv' /\ FinalizerInv' /\ ReleaseInv' /\ ServerHasItsAddresses'
<1> USE DEF ProvisioningInv, BaseInv
<1>1. UNCHANGED <<cached, claim, seen, addr>> /\ pc = "serverD"
  BY Zenon DEF ReconcileServerDeletion, claimVars
<1>2. CASE /\ server.state # "none"
           /\ server' = [server EXCEPT !.state = IF @ = "up" THEN "deleting" ELSE @]
           /\ Finish(cur, TRUE) /\ UNCHANGED missed
  <2>1. Ended /\ FinalizerKept
    BY Zenon, <1>1, <1>2, FinishEnds, FinishLeavesFinalizer DEF LocalType, FinalizerInv
  <2>2. server'.nics = server.nics /\ server'.networks = server.networks
    BY <1>2, SMTT(30) DEF ServerInv, Servers
  <2>3. ServerHasItsAddresses'
    <3>1. HasServer
      BY Zenon, <1>2 DEF HasServer
    <3> QED BY Zenon, <2>2, <3>1, AddressesStay
  <2> QED BY Zenon, <1>1, <1>2, <2>1, <2>3, EndedKeeps
<1>3. CASE ReleaseClaims /\ UNCHANGED server
  <2>1. /\ pc' = "claimsD" /\ UNCHANGED <<im, base, cur, networks>>
        /\ todo' = claimsToRelease(networks) /\ missed' = missed \cup networkDropped
    BY Zenon, <1>3 DEF ReleaseClaims, Goto
  <2>2. \A k \in Keys : k \in missed' \/ \E c \in todo' : c.key = k
    BY Zenon, <2>1, ListedAll DEF networkDropped
  <2>3. ReleaseInv'
    BY Zenon, <1>1, <2>1, <2>2 DEF ReleaseInv, ClaimsReleased
  <2>4. FoundInv' /\ FinalizerInv'
    BY Zenon, <1>1, <2>1 DEF FoundInv, FinalizerInv, Working
  <2> QED BY Zenon, <1>3, <2>3, <2>4, AddressesStay
<1> QED BY Zenon, <1>2, <1>3 DEF ReconcileServerDeletion

LEMMA ReleaseClaimHolds ==
  ASSUME ProvisioningInv, ReleaseClaim
  PROVE  FoundInv' /\ FinalizerInv' /\ ReleaseInv'
<1> USE DEF ProvisioningInv, BaseInv
<1>1. UNCHANGED cached /\ pc = "claimsD"
  BY Zenon DEF ReleaseClaim
<1>2. PICK item \in todo, result \in {"ok", "error"} :
        /\ releaseClaim(item.key, result)
        /\ \/ result = "error" /\ Finish(cur, TRUE)
           \/ result = "ok" /\ todo' = todo \ {item} /\ UNCHANGED <<im, pc, base, cur, networks, nics, waits, dirty, faults>>
        /\ missed' = IF seen[item.key] = "none" /\ claim[item.key] # "none" THEN missed \cup {item.key} ELSE missed
  BY ZenonT(30) DEF ReleaseClaim
<1>3. missed \subseteq missed' /\ item.key \in Keys
  BY Zenon, <1>2 DEF LocalType
<1>4. CASE result = "error"
  <2>1. UNCHANGED claimVars
    BY Zenon, <1>2, <1>4 DEF releaseClaim
  <2>2. Finish(cur, TRUE)
    BY Zenon, <1>2, <1>4
  <2>3. Ended /\ FinalizerKept
    BY Zenon, <1>1, <2>2, FinishEnds, FinishLeavesFinalizer DEF LocalType, FinalizerInv
  <2> QED BY Zenon, <1>1, <1>3, <2>1, <2>3, EndedKeeps DEF claimVars
<1>5. CASE result = "ok"
  <2>1. todo' = todo \ {item} /\ UNCHANGED <<im, pc, base, cur>>
    BY Zenon, <1>2, <1>5
  <2>2. /\ UNCHANGED seen
        /\ \A k \in Keys : claim'[k] = claim[k] \/ (claim'[k] = "released" /\ claim[k] \in {"created", "bound"})
    <3>1. CASE UNCHANGED claimVars
      BY Zenon, <3>1 DEF claimVars
    <3>2. CASE /\ seen[item.key] \in {"created", "bound"} /\ seen[item.key] = claim[item.key]
               /\ claim' = [claim EXCEPT ![item.key] = "released"] /\ UNCHANGED seen
      BY Zenon, <3>2 DEF ClaimsInv, ClaimsTypeOK
    <3> QED BY Zenon, <1>2, <3>1, <3>2 DEF releaseClaim
  \* The claim is released, was so before, or is missed.
  <2>3. claim'[item.key] \in {"created", "bound"} => item.key \in missed'
    <3>1. seen[item.key] = "released" => claim[item.key] \in {"released", "none"}
      BY Zenon, <1>3 DEF ReleaseInv
    <3>2. CASE seen[item.key] \in {"none", "released"} /\ UNCHANGED claimVars
      <4>1. claim' = claim
        BY Zenon, <3>2 DEF claimVars
      <4>2. CASE seen[item.key] = "none"
        BY Zenon, <1>2, <4>1, <4>2
      <4>3. CASE seen[item.key] = "released"
        BY Zenon, <3>1, <4>1, <4>3
      <4> QED BY Zenon, <3>2, <4>2, <4>3
    <3>3. CASE claim' = [claim EXCEPT ![item.key] = "released"]
      BY Zenon, <1>3, <3>3 DEF ClaimsInv, ClaimsTypeOK
    <3> QED BY Zenon, <1>2, <1>5, <3>2, <3>3 DEF releaseClaim
  <2>4. \A k \in Keys : claim'[k] \in {"created", "bound"} => k \in missed' \/ \E c \in todo' : c.key = k
    BY Zenon, <1>1, <1>3, <2>1, <2>2, <2>3 DEF ReleaseInv
  <2>5. ReleaseInv'
    BY ZenonT(30), <1>1, <1>3, <2>1, <2>2, <2>4 DEF ReleaseInv, ClaimsReleased
  <2>6. FoundInv' /\ FinalizerInv'
    BY Zenon, <1>1, <2>1 DEF FoundInv, FinalizerInv, Working
  <2> QED BY Zenon, <2>5, <2>6
<1> QED BY Zenon, <1>4, <1>5

\* The finalizer goes when every claim was given back or missed.
LEMMA RemoveFinalizerHolds ==
  ASSUME ProvisioningInv, RemoveFinalizer
  PROVE  FoundInv' /\ FinalizerInv' /\ ReleaseInv'
<1> USE DEF ProvisioningInv, BaseInv
<1>1. UNCHANGED <<cached, server, missed, claim, seen, addr>> /\ pc = "claimsD" /\ todo = {}
  BY Zenon DEF RemoveFinalizer, claimVars
<1>2. [cur EXCEPT !.fin = FALSE] \in Objects /\ [cur EXCEPT !.fin = FALSE].fin = FALSE
  BY ZenonT(30) DEF LocalType, Objects
<1>3. Ended
  BY <1>2, FinishEnds, ZenonT(30) DEF RemoveFinalizer
<1>4. im'.life = "gone" \/ im' = im
  <2>1. im.life # "live" /\ base.fin
    BY Zenon, <1>1 DEF DeletionInv, FinalizerInv
  <2>2. CASE im.life # "gone" /\ im' = Patched(base, [cur EXCEPT !.fin = FALSE])
    <3>1. im.life = "deleting"
      BY Zenon, <2>1, <2>2 DEF LocalType, Objects
    <3> QED BY <1>2, <2>1, <2>2, <3>1, ZenonT(30) DEF Patched, LocalType, Objects
  <2> QED BY Zenon, <2>2 DEF RemoveFinalizer, Finish, Finalize, FinalizeLost
<1>5. FoundInv'
  BY Zenon, <1>3 DEF FoundInv, Ended, Working
<1>6. FinalizerInv'
  <2>1. im'.life = "deleting" => im'.fin
    <3>1. CASE im'.life = "gone"
      BY Zenon, <3>1
    <3> QED BY Zenon, <1>4, <3>1 DEF FinalizerInv
  <2> QED BY Zenon, <1>1, <1>3, <2>1 DEF FinalizerInv, Ended, Working
<1>7. ReleaseInv'
  <2>1. \A k \in Keys : claim'[k] \in {"created", "bound"} => k \in missed'
    BY Zenon, <1>1 DEF ReleaseInv
  <2>2. im'.life # "live"
    <3>1. CASE im'.life = "gone"
      BY Zenon, <3>1
    <3> QED BY Zenon, <1>1, <1>4, <3>1 DEF DeletionInv
  <2> QED BY Zenon, <1>1, <1>3, <2>1, <2>2 DEF ReleaseInv, ClaimsReleased, Ended
<1> QED BY Zenon, <1>5, <1>6, <1>7

LEMMA StepErrorHolds ==
  ASSUME ProvisioningInv, StepError
  PROVE  FoundInv' /\ FinalizerInv' /\ ReleaseInv'
<1> USE DEF ProvisioningInv, BaseInv
<1>1. UNCHANGED <<cached, server, missed, claim, seen, addr>>
  BY Zenon DEF StepError, claimVars
<1>2. cur \in Objects /\ base \in Objects /\ im \in Objects /\ cur.fin
  BY Zenon DEF StepError, LocalType, FinalizerInv, Working
<1>3. /\ setProvisioningCondition(cur, "ProvisioningFailed") \in Objects
      /\ setProvisioningCondition(cur, "ProvisioningFailed").fin
  <2>1. "ProvisioningFailed" \in Conditions
    BY Zenon DEF Conditions
  <2> QED BY Zenon, <1>2, <2>1, ConditionType, ConditionLeavesFinalizer
<1>4. faults' \in 0..MaxFaults /\ TRUE \in BOOLEAN
  BY Zenon, FaultType DEF StepError, LocalType
<1>5. Ended /\ FinalizerKept
  BY Zenon, <1>2, <1>3, <1>4, FinalizeEnds, FinalizeLeavesFinalizer DEF StepError
<1> QED BY Zenon, <1>1, <1>5, EndedKeeps

LEMMA CrashHolds ==
  ASSUME ProvisioningInv, Crash
  PROVE  FoundInv' /\ FinalizerInv' /\ ReleaseInv'
<1> USE DEF ProvisioningInv, BaseInv
<1>1. UNCHANGED <<im, server, missed, claim>> /\ cached' = im /\ pc' = "idle" /\ seen' = claim
  BY Zenon DEF Crash
<1>2. FoundInv' /\ FinalizerInv'
  BY Zenon, <1>1 DEF FoundInv, FinalizerInv, Working
<1>3. ReleaseInv'
  BY Zenon, <1>1 DEF ReleaseInv, ClaimsReleased
<1> QED BY Zenon, <1>2, <1>3

LEMMA EventsHold ==
  ASSUME ProvisioningInv, SyncMachine \/ Prerequisites \/ SecretAppears \/ Pause \/ DeleteMachine
  PROVE  FoundInv' /\ FinalizerInv' /\ ReleaseInv'
<1> USE DEF ProvisioningInv, BaseInv
<1>1. UNCHANGED <<pc, base, cur, networks, todo, nics, waits, server, missed, claim, seen, addr>>
  BY Zenon DEF SyncMachine, Prerequisites, SecretAppears, Pause, DeleteMachine, localVars, claimVars
<1>2. FoundInv'
  BY Zenon, <1>1 DEF FoundInv, Working, claimsOfNIC
<1>3. CASE im' = im /\ (cached' = cached \/ cached' = im)
  BY Zenon, <1>1, <1>2, <1>3 DEF FinalizerInv, ReleaseInv, ClaimsReleased, Working
<1>4. CASE DeleteMachine
  <2>1. cached' = cached /\ im.life = "live" /\ im' = [im EXCEPT !.life = IF im.fin THEN "deleting" ELSE "gone"]
    BY Zenon, <1>4 DEF DeleteMachine, queueVars
  <2>2. im'.life = (IF im.fin THEN "deleting" ELSE "gone") /\ im'.fin = im.fin
    BY <2>1, ZenonT(30) DEF LocalType, Objects
  <2>3. FinalizerInv'
    <3>1. CASE im.fin
      BY <1>1, <2>1, <2>2, <3>1 DEF FinalizerInv, Working
    <3>2. CASE ~im.fin
      BY <1>1, <2>1, <2>2, <3>2 DEF FinalizerInv, Working
    <3> QED BY <3>1, <3>2
  <2>4. ReleaseInv'
    <3>1. CASE im.fin
      <4>1. im'.life # "live" /\ im'.life # "gone"
        BY Zenon, <2>2, <3>1
      <4> QED BY Zenon, <1>1, <4>1 DEF ReleaseInv, ClaimsReleased
    <3>2. CASE ~im.fin
      <4>1. im'.life # "live" /\ \A k \in Keys : claim[k] \notin {"created", "bound"}
        BY <2>1, <2>2, <3>2 DEF ReleaseInv
      <4> QED BY Zenon, <1>1, <4>1 DEF ReleaseInv, ClaimsReleased
    <3> QED BY <3>1, <3>2
  <2> QED BY Zenon, <1>2, <2>3, <2>4
<1> QED BY Zenon, <1>3, <1>4 DEF SyncMachine, Prerequisites, SecretAppears, Pause

LEMMA ClaimsHold ==
  ASSUME ProvisioningInv, Claims
  PROVE  FoundInv' /\ FinalizerInv' /\ ReleaseInv'
<1> USE DEF ProvisioningInv, BaseInv
<1>1. UNCHANGED <<im, cached, pc, base, cur, networks, todo, nics, waits, server, missed>>
  BY Zenon DEF Claims, queueVars, localVars
<1>2. PICK k \in Keys : BindAddress(k) \/ SyncClaim(k) \/ SyncAddress(k) \/ CollectClaim(k)
  BY Zenon DEF Claims
<1>3. \A c \in Keys : /\ \/ claim'[c] = claim[c]
                         \/ claim[c] = "created" /\ claim'[c] = "bound"
                         \/ claim[c] = "released" /\ claim'[c] = "none"
                      /\ seen'[c] = seen[c] \/ (seen'[c] = claim[c] /\ claim'[c] = claim[c])
  BY Zenon, <1>2 DEF BindAddress, SyncClaim, SyncAddress, CollectClaim, ClaimsInv, ClaimsTypeOK
<1>4. FoundInv' /\ FinalizerInv'
  BY Zenon, <1>1 DEF FoundInv, FinalizerInv, Working, claimsOfNIC
<1>5. \A c \in Keys : /\ claim'[c] \in {"created", "bound"} => claim[c] \in {"created", "bound"}
                      /\ claim[c] = "none" => claim'[c] = "none"
                      /\ seen'[c] = "released" => claim'[c] \in {"released", "none"}
  BY Zenon, <1>3 DEF ReleaseInv
<1>6. ReleaseInv'
  BY Zenon, <1>1, <1>5 DEF ReleaseInv, ClaimsReleased
<1> QED BY Zenon, <1>4, <1>6

LEMMA ServerRequestHolds ==
  ASSUME ProvisioningInv, ServerRequest
  PROVE  FoundInv' /\ FinalizerInv' /\ ReleaseInv' /\ ServerHasItsAddresses'
<1> USE DEF ProvisioningInv, BaseInv
<1>1. UNCHANGED <<im, cached, pc, base, cur, networks, todo, nics, waits, missed, claim, seen, addr>>
  BY Zenon DEF ServerRequest, queueVars, localVars, claimVars
<1>2. FoundInv' /\ FinalizerInv' /\ ReleaseInv'
  BY Zenon, <1>1 DEF FoundInv, FinalizerInv, ReleaseInv, ClaimsReleased, Working, claimsOfNIC
<1>3. CASE server' = [server EXCEPT !.state = "up"] /\ HasServer
  <2>1. server'.nics = server.nics /\ server'.networks = server.networks
    BY <1>3, SMTT(30) DEF ServerInv, Servers
  <2>2. ServerHasItsAddresses'
    <3>1. HasServer
      BY Zenon, <1>3
    <3> QED BY Zenon, <2>1, <3>1, AddressesStay
  <2> QED BY <1>2, <2>2
<1>4. CASE server' = NoServer
  BY Zenon, <1>2, <1>4 DEF ServerHasItsAddresses, HasServer, NoServer
<1> QED BY Zenon, <1>3, <1>4 DEF ServerRequest, HasServer

-----------------------------------------------------------------------------
(***************************************************************************)
(* The theorems.                                                           *)
(***************************************************************************)
LEMMA InitHolds == Init => ProvisioningInv
<1> SUFFICES ASSUME Init
             PROVE  ProvisioningInv
  OBVIOUS
<1>0. <<>> \in Seq(Nat \ {0}) /\ <<>> \in Seq(SUBSET Keys)
  OBVIOUS
<1>1. known \in Known
  BY ProvisioningAssumption DEF Init, Known
<1>2. LocalType
  <2>1. im \in Objects /\ cached \in Objects /\ base \in Objects /\ cur \in Objects
    BY Zenon, NewObjectType DEF Init
  <2>2. pauses \in 0..MaxPauses /\ faults \in 0..MaxFaults
    BY ProvisioningAssumption DEF Init
  <2>3. pc = "idle" /\ dirty \in BOOLEAN /\ waits \in BOOLEAN /\ networks = <<>> /\ todo = {} /\ nics = <<>> /\ missed = {}
    BY ZenonT(30) DEF Init
  <2> QED BY <1>0, <1>1, <2>1, <2>2, <2>3, SMTT(30) DEF LocalType, Working
<1>3. DeletionInv
  BY Zenon DEF Init, DeletionInv, NewObject
<1>4. ClaimsInv
  BY Zenon DEF Init, ClaimsInit, ClaimsInv, ClaimsTypeOK, ClaimStates, Working
<1>5. ServerInv
  <2>1. server \in Servers /\ server.state = "none" /\ Len(server.nics) = 0
    BY Zenon, <1>0 DEF Init, NoServer, Servers, NoImage
  <2> QED BY <2>1 DEF Init, ServerInv, HasServer, AddressesHeld, ImageSelected
<1>6. FoundInv /\ FinalizerInv /\ ReleaseInv /\ ServerHasItsAddresses
  <2>1. /\ im = NewObject /\ cached = im /\ pc = "idle" /\ server = NoServer /\ seen = claim
        /\ \A k \in Keys : claim[k] = "none"
    BY Zenon DEF Init, ClaimsInit
  <2> QED BY Zenon, <2>1 DEF FoundInv, FinalizerInv, ReleaseInv, ClaimsReleased, ServerHasItsAddresses, HasServer,
                             NoServer, NewObject, Working
<1> QED BY Zenon, <1>2, <1>3, <1>4, <1>5, <1>6 DEF BaseInv, ProvisioningInv

\* The invariant holds in every state: the deletion of the machine is seen late, never too
\* early; until then what the caches say of a bound claim is true; and the finalizer is
\* there from the first claim to the last.
THEOREM ProvisioningInvariant == Spec => []ProvisioningInv
<1>1. ASSUME ProvisioningInv, [Next]_vars
      PROVE  ProvisioningInv'
  <2> BaseInv
    BY Zenon, <1>1 DEF ProvisioningInv
  <2>1. CASE UNCHANGED vars
    <3>1. UNCHANGED <<im, cached, known, dirty, pc, base, cur, networks, todo, nics, waits, server, wanted,
                      missed, pauses, faults, claim, seen, addr>>
      BY Zenon, <2>1 DEF vars, queueVars, localVars, claimVars
    <3>2. LocalType' /\ DeletionInv' /\ ClaimsInv'
      BY Zenon, <3>1 DEF BaseInv, LocalType, DeletionInv, ClaimsInv, ClaimsTypeOK, Working, HasServer
    <3>3. ServerInv' /\ ServerHasItsAddresses'
      BY Zenon, <1>1, <3>1, ServerSame, AddressesStay DEF BaseInv, ProvisioningInv
    <3>4. FoundInv' /\ FinalizerInv' /\ ReleaseInv'
      BY Zenon, <1>1, <3>1 DEF ProvisioningInv, FoundInv, FinalizerInv, ReleaseInv, ClaimsReleased, Working, claimsOfNIC
    <3> QED BY Zenon, <3>2, <3>3, <3>4 DEF BaseInv, ProvisioningInv
  <2>2. CASE StartReconcile \/ HandleClaim \/ ReconcileIPAddresses \/ ReleaseClaim \/ RemoveFinalizer
    <3>1. BaseInv'
      BY Zenon, <2>2, StartKeeps, HandleClaimKeeps, ReconcileIPAddressesKeeps, ReleaseClaimKeeps, RemoveFinalizerKeeps
    <3>2. FoundInv' /\ FinalizerInv' /\ ReleaseInv'
      BY Zenon, <1>1, <2>2, StartHolds, HandleClaimHolds, ReconcileIPAddressesHolds, ReleaseClaimHolds, RemoveFinalizerHolds
    <3>3. server' = server
      BY Zenon, <2>2 DEF StartReconcile, HandleClaim, ReconcileIPAddresses, ReleaseClaim, RemoveFinalizer
    <3> QED BY Zenon, <1>1, <3>1, <3>2, <3>3, AddressesStay DEF ProvisioningInv
  <2>3. CASE ReconcileServer \/ ReconcileServerDeletion \/ ServerRequest
    <3>1. BaseInv'
      BY Zenon, <2>3, ReconcileServerKeeps, ReconcileServerDeletionKeeps, ServerRequestKeeps
    <3> QED BY Zenon, <1>1, <2>3, <3>1, ReconcileServerHolds, ReconcileServerDeletionHolds, ServerRequestHolds
               DEF ProvisioningInv
  <2>4. CASE StepError \/ Crash \/ Claims
    <3>1. BaseInv'
      BY Zenon, <2>4, StepErrorKeeps, CrashKeeps, ClaimsKeep
    <3>2. FoundInv' /\ FinalizerInv' /\ ReleaseInv'
      BY Zenon, <1>1, <2>4, StepErrorHolds, CrashHolds, ClaimsHold
    <3>3. server' = server
      BY Zenon, <2>4 DEF StepError, Crash, Claims
    <3> QED BY Zenon, <1>1, <3>1, <3>2, <3>3, AddressesStay DEF ProvisioningInv
  <2>5. CASE SyncMachine \/ Prerequisites \/ SecretAppears \/ Pause \/ DeleteMachine
    <3>1. server' = server
      BY Zenon, <2>5 DEF SyncMachine, Prerequisites, SecretAppears, Pause, DeleteMachine
    <3> QED BY Zenon, <1>1, <2>5, <3>1, EventsKeep, EventsHold, AddressesStay DEF ProvisioningInv
  <2> QED BY Zenon, <1>1, <2>1, <2>2, <2>3, <2>4, <2>5 DEF Next, Reconcile
<1> QED BY <1>1, InitHolds, PTL DEF Spec

\* Every variable keeps its type.
THEOREM ProvisioningTypeOK == Spec => []TypeOK
<1>1. ProvisioningInv => TypeOK
  BY Zenon DEF ProvisioningInv, BaseInv, LocalType, ClaimsInv, ServerInv, Servers, TypeOK
<1> QED BY <1>1, ProvisioningInvariant, PTL

\* However long a deletion takes, and whatever fails and is tried again, a server's
\* addresses are held until it is gone: ReconcileIPAddressClaimsDeletion comes after it.
THEOREM ServerAddressesHeld == Spec => []AddressesHeld
<1>1. ProvisioningInv => AddressesHeld
  BY Zenon DEF ProvisioningInv, BaseInv, ServerInv
<1> QED BY <1>1, ProvisioningInvariant, PTL

\* A server has the image that lookupImageID may choose for its spec and the labels.
THEOREM ServerImageSelected == Spec => []ImageSelected
<1>1. ProvisioningInv => ImageSelected
  BY Zenon DEF ProvisioningInv, BaseInv, ServerInv
<1> QED BY <1>1, ProvisioningInvariant, PTL

\* Every NIC has the addresses of all its own claims and no others, in whatever order the
\* claims were bound and the caches saw it: createServer comes after all of them.
THEOREM ServerAddressesOwn == Spec => []ServerHasItsAddresses
<1>1. ProvisioningInv => ServerHasItsAddresses
  BY Zenon DEF ProvisioningInv
<1> QED BY <1>1, ProvisioningInvariant, PTL

\* The finalizer of the machine is removed when its claims are given back: a machine that
\* is gone, also one deleted at any step, leaves none but those its deletion cannot see.
THEOREM MachineClaimsReleased == Spec => []ClaimsReleased
<1>1. ProvisioningInv => ClaimsReleased
  BY Zenon DEF ProvisioningInv, ReleaseInv
<1> QED BY <1>1, ProvisioningInvariant, PTL
=============================================================================
