----------------------------- MODULE ImageLookup -----------------------------
(***************************************************************************)
(* internal/service/cloud/image.go: which image the boot volume of a new   *)
(* server gets.  ListLabels returns the labels of all resources, images    *)
(* are then read one by one.  A date is the image's creation time.         *)
(***************************************************************************)
EXTENDS Naturals

CONSTANTS Images,    \* image ID -> [location, named, date]; named: the name contains the version
          Location   \* of the datacenter

NoImage == 0   \* an error

ASSUME ImageAssumption ==
  \A i \in DOMAIN Images : i \in Nat \ {NoImage} /\ Images[i].date \in Nat

Labels == [type : {"image", "snapshot"}, id : Nat, key : STRING, value : STRING]
Policies == {"Exact", "Newest"}
\* ID is spec.disk.image.id, NoImage if it is not set; a selector has a label (MinProperties).
ImageSpecs == [ID : Nat, matchLabels : (SUBSET (STRING \X STRING)) \ {{}}, policy : Policies,
               useMachineVersion : BOOLEAN]

\* A resource has one value per key.
Consistent(labels) ==
  \A l1, l2 \in labels : l1.type = l2.type /\ l1.id = l2.id /\ l1.key = l2.key => l1.value = l2.value

-----------------------------------------------------------------------------
\* The labels of image id.
imageLabelMap(labels, id) ==
  LET own == {l \in labels : l.type = "image" /\ l.id = id}
  IN [k \in {l.key : l \in own} |-> (CHOOSE l \in own : l.key = k).value]

\* Mutant: one label that matches is enough.
mapContains_Any(a, b) == \E kv \in b : kv[1] \in DOMAIN a /\ a[kv[1]] = kv[2]

mapContains(a, b) == \A kv \in b : kv[1] \in DOMAIN a /\ a[kv[1]] = kv[2]

\* The labelled images that match.  A label may outlive its image, which GetImage
\* then does not find.
matchingIDs(labels, spec) ==
  {id \in {l.id : l \in {x \in labels : x.type = "image"}} :
     mapContains(imageLabelMap(labels, id), spec.matchLabels)}

lookupImagesBySelector(labels, spec) ==
  {id \in matchingIDs(labels, spec) : Images[id].location = Location}

filterImagesByName(images) == {id \in images : Images[id].named}

\* The images that may come first after the sort, which is by date and not stable.
newest(images) == {id \in images : \A other \in images : Images[other].date <= Images[id].date}

\* The results that lookupImageID may have.
lookupImageID(labels, spec, version) ==
  IF spec.ID # NoImage THEN {spec.ID}
  ELSE IF \E id \in matchingIDs(labels, spec) : id \notin DOMAIN Images THEN {NoImage}
  ELSE LET listed == lookupImagesBySelector(labels, spec)
           images == IF spec.useMachineVersion THEN filterImagesByName(listed) ELSE listed
       IN IF \/ spec.useMachineVersion /\ version = ""
             \/ images = {}
             \/ spec.policy = "Exact" /\ \E id, other \in images : id # other
          THEN {NoImage}
          ELSE IF spec.policy = "Exact" THEN images ELSE newest(images)

-----------------------------------------------------------------------------
\* What the API types promise (ImageSpec, ImageSelector): the image fits the selector,
\* the location and the machine's version ...
Fits(id, labels, spec, version) ==
  /\ id \in DOMAIN Images /\ Images[id].location = Location
  /\ \A kv \in spec.matchLabels :
       [type |-> "image", id |-> id, key |-> kv[1], value |-> kv[2]] \in labels
  /\ spec.useMachineVersion => version # "" /\ Images[id].named

\* ... and is the only one that does, or the newest one.
Selected(id, labels, spec, version) ==
  \/ spec.ID # NoImage /\ id = spec.ID
  \/ /\ spec.ID = NoImage /\ Fits(id, labels, spec, version)
     /\ \A other \in DOMAIN Images \ {id} : Fits(other, labels, spec, version) =>
          spec.policy = "Newest" /\ Images[other].date <= Images[id].date
=============================================================================
