--------------------------- MODULE ManagedResource ---------------------------
(***************************************************************************)
(* What the controllers promise of a resource that they create in the      *)
(* cloud for an object, or for several objects together: there is at most  *)
(* one of it, it is requested only while an object is held by its          *)
(* finalizer, a finished one is taken away only after the deletion of an   *)
(* object, and the last finalizer goes after it.                           *)
(***************************************************************************)
VARIABLES existing,  \* the resources that are there or being created
          created,   \* those whose creation is finished
          held,      \* an object has its finalizer
          ending     \* an object was deleted

resourceVars == <<existing, created, held, ending>>

Init == existing = {} /\ created = {} /\ ~held /\ ~ending

Request == /\ held /\ existing = {}
           /\ \E id \in existing' : existing' = {id}
           /\ UNCHANGED <<created, held, ending>>

Complete == /\ existing # {} /\ created = {}
            /\ created' = existing
            /\ UNCHANGED <<existing, held, ending>>

\* The creation failed.
Fail == /\ existing # {} /\ created = {}
        /\ existing' = {}
        /\ UNCHANGED <<created, held, ending>>

Remove == /\ ending /\ created # {}
          /\ existing' = {} /\ created' = {}
          /\ UNCHANGED <<held, ending>>

Hold == /\ ~held /\ held' = TRUE
        /\ UNCHANGED <<existing, created, ending>>

Release == /\ held /\ held' = FALSE /\ existing = {}
           /\ UNCHANGED <<existing, created, ending>>

End == /\ ~ending /\ ending' = TRUE
       /\ UNCHANGED <<existing, created, held>>

Next == Request \/ Complete \/ Fail \/ Remove \/ Hold \/ Release \/ End

Spec == Init /\ [][Next]_resourceVars
=============================================================================
