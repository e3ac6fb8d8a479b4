--------------------------- MODULE IPAddressClaims ---------------------------
(***************************************************************************)
(* internal/service/k8s/ipam.go: the IPAddressClaims of one machine.  A    *)
(* claim stands for one IP of one NIC: <<network, format>>, network 0 is   *)
(* that of the primary NIC.  Claims and addresses are read from the        *)
(* informers' caches.  The claim's address is identified with the claim.   *)
(***************************************************************************)
EXTENDS Naturals, Sequences

CONSTANT Pools   \* the claims' keys for which the spec names an IP pool

Formats == <<"ipv4", "ipv6">>
Keys == Pools
ClaimStates == {"none", "created", "bound", "released"}

VARIABLES claim,  \* the claim: none, created, bound to an address, or without the finalizer
          seen,   \* the cached copy of it
          addr    \* the claims whose IPAddress is in the cache

claimVars == <<claim, seen, addr>>

ClaimsTypeOK == /\ claim \in [Keys -> ClaimStates] /\ seen \in [Keys -> ClaimStates]
                /\ addr \subseteq Keys

ClaimsInit == /\ claim = [k \in Keys |-> "none"] /\ seen = claim
              /\ addr = {}

-----------------------------------------------------------------------------
\* The networks of the NICs, the primary NIC's first.
nicNetworks(networks) == <<0>> \o networks

\* The claim of NIC i for the format f; turn: its place in the order of the step.
claimOf(networks, i, f, turn) ==
  [turn |-> turn, nic |-> i, key |-> <<nicNetworks(networks)[i], Formats[f]>>]

\* The claims of the NICs, ordered as in handlePrimaryNIC and handleAdditionalNICs.
claimsToHandle(networks) ==
  {c \in {claimOf(networks, t[1], t[2], t) : t \in (DOMAIN nicNetworks(networks)) \X (DOMAIN Formats)} :
     c.key \in Pools}

\* Mutant: the claims for IPv6 are forgotten.
claimsToRelease_IPv4(networks) ==
  {c \in {claimOf(networks, t[2], t[1], t) : t \in {1} \X (DOMAIN nicNetworks(networks))} : c.key \in Keys}

\* The claims, ordered as in ReconcileIPAddressClaimsDeletion; one that never was is not
\* found.
claimsToRelease(networks) ==
  {c \in {claimOf(networks, t[2], t[1], t) : t \in (DOMAIN Formats) \X (DOMAIN nicNetworks(networks))} :
     c.key \in Keys}

\* The claim of todo that is next.
isNext(c, todo) ==
  \A d \in todo \ {c} : \/ c.turn[1] < d.turn[1]
                        \/ c.turn[1] = d.turn[1] /\ c.turn[2] < d.turn[2]

\* An informer brings the cached copy of a claim up to date.
SyncClaim(k) == /\ seen[k] # claim[k]
                /\ seen' = [seen EXCEPT ![k] = claim[k]]
                /\ UNCHANGED <<claim, addr>>

\* CreateIPAddressClaim, with the finalizer.
CreateIPAddressClaim(k) == /\ claim[k] = "none"
                           /\ claim' = [claim EXCEPT ![k] = "created"]
                           /\ UNCHANGED <<seen, addr>>

\* handleIPAddressForNIC: the address is used, waited for, or the step fails.  A claim
\* that the cache does not have yet already exists: creating it fails, unless the
\* cache has it when CreateIPAddressClaim looks again.
handleIPAddressForNIC(k, result) ==
  \/ /\ seen[k] = "none" /\ claim[k] = "none"
     /\ CreateIPAddressClaim(k)
     /\ result = "wait"
  \/ /\ seen[k] = "none" /\ SyncClaim(k)
     /\ result = "wait"
  \/ /\ \/ seen[k] = "none" /\ claim[k] # "none" /\ result = "error"
        \/ seen[k] = "created" /\ result = "wait"
        \/ seen[k] \in {"bound", "released"} /\ k \notin addr /\ result = "error"
        \/ seen[k] \in {"bound", "released"} /\ k \in addr /\ result = "ip"
     /\ UNCHANGED claimVars

\* One round of ReconcileIPAddressClaimsDeletion: an Update of a stale copy fails.
releaseClaim(k, result) ==
  \/ /\ seen[k] \in {"none", "released"} /\ result = "ok"
     /\ UNCHANGED claimVars
  \/ /\ seen[k] \in {"created", "bound"} /\ seen[k] = claim[k] /\ result = "ok"
     /\ claim' = [claim EXCEPT ![k] = "released"]
     /\ UNCHANGED <<seen, addr>>
  \/ /\ seen[k] \in {"created", "bound"} /\ seen[k] # claim[k] /\ result = "error"
     /\ UNCHANGED claimVars

-----------------------------------------------------------------------------
(***************************************************************************)
(* The IPAM provider, the garbage collector and the caches.                *)
(***************************************************************************)
BindAddress(k) == /\ claim[k] = "created"
                  /\ claim' = [claim EXCEPT ![k] = "bound"]
                  /\ UNCHANGED <<seen, addr>>

\* A claim goes with its owner, unless it has the finalizer.
CollectClaim(k) == /\ claim[k] = "released"
                   /\ claim' = [claim EXCEPT ![k] = "none"]
                   /\ UNCHANGED <<seen, addr>>

\* The address is looked for when the claim's status names it.
SyncAddress(k) == /\ seen[k] = "bound" /\ k \notin addr
                  /\ addr' = addr \cup {k}
                  /\ UNCHANGED <<claim, seen>>
=============================================================================
