----------------------------- MODULE KeyedMutex -----------------------------
(***************************************************************************)
(* What internal/util/locker promises its callers: for every key at most   *)
(* one caller is inside, a caller that gave up is not inside, and only the *)
(* caller that is inside lets the next one in.                             *)
(***************************************************************************)
EXTENDS FiniteSets

CONSTANTS Callers, Keys

VARIABLES want,   \* want[k]: the callers that asked for k and were not answered
          owner   \* owner[k]: the callers that are inside k

kmVars == <<want, owner>>

KMInit == /\ want  = [k \in Keys |-> {}]
          /\ owner = [k \in Keys |-> {}]

Request(c, k) == /\ \A j \in Keys : c \notin want[j] \cup owner[j]
                 /\ want' = [want EXCEPT ![k] = want[k] \cup {c}]
                 /\ UNCHANGED owner

Grant(c, k) == /\ c \in want[k]
               /\ owner[k] = {}
               /\ want'  = [want EXCEPT ![k] = want[k] \ {c}]
               /\ owner' = [owner EXCEPT ![k] = {c}]

GiveUp(c, k) == /\ c \in want[k]
                /\ want' = [want EXCEPT ![k] = want[k] \ {c}]
                /\ UNCHANGED owner

Release(c, k) == /\ c \in owner[k]
                 /\ owner' = [owner EXCEPT ![k] = owner[k] \ {c}]
                 /\ UNCHANGED want

KMNext == \E c \in Callers, k \in Keys :
            Request(c, k) \/ Grant(c, k) \/ GiveUp(c, k) \/ Release(c, k)

KMSpec == KMInit /\ [][KMNext]_kmVars
=============================================================================
