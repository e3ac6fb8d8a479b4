------------------------------- MODULE Locker -------------------------------
(***************************************************************************)
(* internal/util/locker/locker.go: a mutex per key whose entries come and  *)
(* go.  Lock registers the caller as a waiter inside the mutex l.mu and    *)
(* then competes for the key's channel outside of it; Unlock and an        *)
(* aborted Lock delete the entry when nobody needs it any more.            *)
(*                                                                         *)
(* A lockWithCounter is an element of Locks.  An element that neither the  *)
(* map nor a caller refers to is garbage and may be allocated again.       *)
(* Unlock is only called by a caller whose Lock returned nil, as all       *)
(* callers in scope/ and internal/service/cloud do (defer after Lock).     *)
(***************************************************************************)
EXTENDS Integers, FiniteSets

CONSTANTS Callers,      \* goroutines: the reconcilers
          Keys,         \* lock keys
          Locks,        \* the heap of lockWithCounter objects
          Background,   \* callers whose context is never done
          None          \* the nil pointer, the free mutex

ASSUME LockerAssumption == /\ IsFiniteSet(Callers)
                           /\ Background \subseteq Callers
                           /\ None \notin Callers \cup Locks

VARIABLES mu,        \* the caller inside l.mu
          locks,     \* l.locks
          ch,        \* len(lwc.ch)
          waiters,   \* lwc.waiters
          pc,        \* where each caller is
          key,       \* the key of its call
          lwc,       \* the lockWithCounter it works on
          ctxDone    \* its context is done

vars == <<mu, locks, ch, waiters, pc, key, lwc, ctxDone>>

PCs == {"idle", "enter", "select", "acquired", "drop", "held", "release", "panicked"}

Init == /\ mu = None
        /\ locks = [k \in Keys |-> None]
        /\ ch = [l \in Locks |-> 0]
        /\ waiters = [l \in Locks |-> 0]
        /\ pc = [c \in Callers |-> "idle"]
        /\ key \in [Callers -> Keys]
        /\ lwc = [c \in Callers |-> None]
        /\ ctxDone = [c \in Callers |-> FALSE]

(***************************************************************************)
(* Lock                                                                    *)
(***************************************************************************)
Call(c, k) == /\ pc[c] = "idle"
              /\ pc' = [pc EXCEPT ![c] = "enter"]
              /\ key' = [key EXCEPT ![c] = k]
              /\ ctxDone' = [ctxDone EXCEPT ![c] = FALSE]
              /\ UNCHANGED <<mu, locks, ch, waiters, lwc>>

Cancel(c) == /\ c \notin Background
             /\ pc[c] \in {"enter", "select"}
             /\ ~ctxDone[c]
             /\ ctxDone' = [ctxDone EXCEPT ![c] = TRUE]
             /\ UNCHANGED <<mu, locks, ch, waiters, pc, key, lwc>>

\* The context was done before the mutex was acquired.
LockRefused(c) == /\ pc[c] = "enter"
                  /\ mu = None
                  /\ ctxDone[c]
                  /\ pc' = [pc EXCEPT ![c] = "idle"]
                  /\ UNCHANGED <<mu, locks, ch, waiters, key, lwc, ctxDone>>

Garbage(l) == /\ \A k \in Keys : locks[k] # l
              /\ \A c \in Callers : lwc[c] # l

\* The critical section of Lock: find or make the entry, count the caller.
LockRegister(c) ==
  /\ pc[c] = "enter"
  /\ mu = None
  /\ ~ctxDone[c]
  /\ \/ /\ locks[key[c]] # None
        /\ lwc' = [lwc EXCEPT ![c] = locks[key[c]]]
        /\ waiters' = [waiters EXCEPT ![locks[key[c]]] = @ + 1]
        /\ UNCHANGED <<locks, ch>>
     \/ /\ locks[key[c]] = None
        /\ \E l \in Locks :
             /\ Garbage(l)
             /\ locks' = [locks EXCEPT ![key[c]] = l]
             /\ lwc' = [lwc EXCEPT ![c] = l]
             /\ ch' = [ch EXCEPT ![l] = 0]
             /\ waiters' = [waiters EXCEPT ![l] = 1]
  /\ pc' = [pc EXCEPT ![c] = "select"]
  /\ UNCHANGED <<mu, key, ctxDone>>

\* select chose the channel.  It may do so although the context is done.
LockAcquire(c) == /\ pc[c] = "select"
                  /\ ch[lwc[c]] = 0
                  /\ ch' = [ch EXCEPT ![lwc[c]] = 1]
                  /\ pc' = [pc EXCEPT ![c] = "acquired"]
                  /\ UNCHANGED <<mu, locks, waiters, key, lwc, ctxDone>>

\* Mutant: the caller that got the lock still counts as a waiter.
LockReturn_NoDec(c) == /\ pc[c] = "acquired"
                       /\ pc' = [pc EXCEPT ![c] = "held"]
                       /\ UNCHANGED <<mu, locks, ch, waiters, key, lwc, ctxDone>>

\* The decrement after the acquisition happens outside the mutex.
LockReturn(c) == /\ pc[c] = "acquired"
                 /\ waiters' = [waiters EXCEPT ![lwc[c]] = @ - 1]
                 /\ pc' = [pc EXCEPT ![c] = "held"]
                 /\ UNCHANGED <<mu, locks, ch, key, lwc, ctxDone>>

\* select chose ctx.Done(): inside the mutex the caller stops counting.  Only
\* the caller that brings the counter to zero goes on to look at the channel.
LockAbort(c) ==
  /\ pc[c] = "select"
  /\ ctxDone[c]
  /\ mu = None
  /\ waiters' = [waiters EXCEPT ![lwc[c]] = @ - 1]
  /\ \/ /\ waiters[lwc[c]] - 1 = 0
        /\ mu' = c
        /\ pc' = [pc EXCEPT ![c] = "drop"]
        /\ UNCHANGED lwc
     \/ /\ waiters[lwc[c]] - 1 # 0
        /\ pc' = [pc EXCEPT ![c] = "idle"]
        /\ lwc' = [lwc EXCEPT ![c] = None]
        /\ UNCHANGED mu
  /\ UNCHANGED <<locks, ch, key, ctxDone>>

\* Mutant: the entry is dropped although its lock may be held.
LockDrop_Held(c) ==
  /\ pc[c] = "drop"
  /\ locks' = [locks EXCEPT ![key[c]] = None]
  /\ mu' = None
  /\ pc' = [pc EXCEPT ![c] = "idle"]
  /\ lwc' = [lwc EXCEPT ![c] = None]
  /\ UNCHANGED <<ch, waiters, key, ctxDone>>

LockDrop(c) ==
  /\ pc[c] = "drop"
  /\ locks' = IF ch[lwc[c]] = 0 THEN [locks EXCEPT ![key[c]] = None] ELSE locks
  /\ mu' = None
  /\ pc' = [pc EXCEPT ![c] = "idle"]
  /\ lwc' = [lwc EXCEPT ![c] = None]
  /\ UNCHANGED <<ch, waiters, key, ctxDone>>

(***************************************************************************)
(* Unlock                                                                  *)
(***************************************************************************)
\* Mutant: the entry is deleted although callers wait for it.
Unlock_Waiters(c) ==
  LET exists == locks[key[c]] # None
  IN /\ pc[c] = "held"
     /\ mu = None
     /\ lwc' = [lwc EXCEPT ![c] = locks[key[c]]]
     /\ locks' = [locks EXCEPT ![key[c]] = None]
     /\ mu' = IF exists THEN c ELSE None
     /\ pc' = [pc EXCEPT ![c] = IF exists THEN "release" ELSE "panicked"]
     /\ UNCHANGED <<ch, waiters, key, ctxDone>>

Unlock(c) ==
  LET exists == locks[key[c]] # None
  IN /\ pc[c] = "held"
     /\ mu = None
     /\ lwc' = [lwc EXCEPT ![c] = locks[key[c]]]
     /\ locks' = IF exists => waiters[locks[key[c]]] = 0
                 THEN [locks EXCEPT ![key[c]] = None] ELSE locks
     /\ mu' = IF exists THEN c ELSE None
     /\ pc' = [pc EXCEPT ![c] = IF exists THEN "release" ELSE "panicked"]
     /\ UNCHANGED <<ch, waiters, key, ctxDone>>

\* Mutant: the channel is not emptied.
UnlockRelease_Full(c) == /\ pc[c] = "release"
                         /\ mu' = None
                         /\ pc' = [pc EXCEPT ![c] = "idle"]
                         /\ lwc' = [lwc EXCEPT ![c] = None]
                         /\ UNCHANGED <<locks, ch, waiters, key, ctxDone>>

UnlockRelease(c) == /\ pc[c] = "release"
                    /\ ch[lwc[c]] = 1
                    /\ ch' = [ch EXCEPT ![lwc[c]] = 0]
                    /\ mu' = None
                    /\ pc' = [pc EXCEPT ![c] = "idle"]
                    /\ lwc' = [lwc EXCEPT ![c] = None]
                    /\ UNCHANGED <<locks, waiters, key, ctxDone>>

Step(c) == \/ LockRefused(c) \/ LockRegister(c) \/ LockAcquire(c) \/ LockReturn(c)
           \/ LockAbort(c) \/ LockDrop(c) \/ Unlock(c) \/ UnlockRelease(c)

Next == \E c \in Callers : \/ \E k \in Keys : Call(c, k)
                           \/ Cancel(c)
                           \/ Step(c)

Spec == Init /\ [][Next]_vars

(***************************************************************************)
(* sync.Mutex hands itself to a waiter that starves, and a channel serves  *)
(* its blocked senders first come, first served: entering l.mu and sending *)
(* to lwc.ch are strongly fair.  A caller that holds a key unlocks it.     *)
(***************************************************************************)
Fairness == \A c \in Callers : /\ SF_vars(LockRefused(c) \/ LockRegister(c))
                               /\ SF_vars(LockAcquire(c))
                               /\ SF_vars(LockAbort(c))
                               /\ SF_vars(Unlock(c))
                               /\ WF_vars(LockReturn(c) \/ LockDrop(c) \/ UnlockRelease(c))

FairSpec == Spec /\ Fairness

-----------------------------------------------------------------------------
Inside(c)  == pc[c] \in {"acquired", "held", "release"}
Counted(c) == pc[c] \in {"select", "acquired"}
WaitersOf(l) == {c \in Callers : Counted(c) /\ lwc[c] = l}

TypeOK == /\ mu \in Callers \cup {None}
          /\ locks \in [Keys -> Locks \cup {None}]
          /\ ch \in [Locks -> {0, 1}]
          /\ waiters \in [Locks -> Int]
          /\ pc \in [Callers -> PCs]
          /\ key \in [Callers -> Keys]
          /\ lwc \in [Callers -> Locks \cup {None}]
          /\ ctxDone \in [Callers -> BOOLEAN]

\* Two callers are never inside the same key, although the entry of the key is
\* deleted and made anew while callers still hold pointers to the old one.
MutualExclusion == \A c, d \in Callers :
                     Inside(c) /\ Inside(d) /\ key[c] = key[d] => c = d

\* Unlock by a caller whose Lock returned nil finds the entry (no panic), and it
\* never blocks on the empty channel of another entry while it is inside l.mu.
UnlockSucceeds == \A c \in Callers : /\ pc[c] # "panicked"
                                     /\ pc[c] = "release" => ch[lwc[c]] = 1

\* An entry is in the map only while some caller waits for it, holds it or is
\* about to remove it: entries do not pile up, the map is empty at rest.
NoStaleEntry == \A k \in Keys : locks[k] # None =>
                  \E c \in Callers : lwc[c] = locks[k] /\ key[c] = k

\* A caller whose context is never done and that called Lock gets the key.
BackgroundCallerAcquires ==
  \A c \in Background : pc[c] = "enter" ~> pc[c] = "held"

(***************************************************************************)
(* The inductive invariant behind the three safety properties.             *)
(***************************************************************************)
\* Exactly the callers in the two-step critical sections are inside l.mu.
MutexInv == \A c \in Callers : mu = c <=> pc[c] \in {"drop", "release"}

\* A caller works on the entry of its key; only an Unlock that found no waiters
\* works on an entry it has just taken out of the map.
EntryInv ==
  \A c \in Callers :
    /\ pc[c] \in {"idle", "enter"} => lwc[c] = None
    /\ pc[c] \in {"select", "acquired", "held", "drop"} =>
         lwc[c] \in Locks /\ locks[key[c]] = lwc[c]
    /\ pc[c] = "drop" => WaitersOf(lwc[c]) = {}
    /\ pc[c] = "release" => /\ lwc[c] \in Locks
                            /\ \A k \in Keys \ {key[c]} : locks[k] # lwc[c]
                            /\ IF WaitersOf(lwc[c]) = {} THEN locks[key[c]] = None
                                                         ELSE locks[key[c]] = lwc[c]

DistinctEntries == \A j, k \in Keys : locks[j] # None /\ locks[j] = locks[k] => j = k

\* The channel of an entry in use is full exactly when one caller is inside.
ChannelInv == /\ \A c \in Callers : Inside(c) => ch[lwc[c]] = 1
              /\ \A c, d \in Callers : Inside(c) /\ Inside(d) /\ lwc[c] = lwc[d] => c = d
              /\ \A k \in Keys : locks[k] # None /\ ch[locks[k]] = 1 =>
                   \E c \in Callers : Inside(c) /\ lwc[c] = locks[k]

CounterInv == \A l \in Locks : waiters[l] = Cardinality(WaitersOf(l))

\* The conjunction is preserved by every step and implies the safety properties:
\* lwc.waiters counts the callers between inc() and dec(), and whoever takes an
\* entry out of the map is the last one to use it.
LockerInv == /\ TypeOK /\ MutexInv /\ EntryInv /\ DistinctEntries
             /\ ChannelInv /\ CounterInv /\ NoStaleEntry
             /\ \A c \in Callers : pc[c] # "panicked"

(***************************************************************************)
(* The locker implements KeyedMutex.                                       *)
(***************************************************************************)
wantBar  == [k \in Keys |-> {c \in Callers : pc[c] \in {"enter", "select", "drop"} /\ key[c] = k}]
ownerBar == [k \in Keys |-> {c \in Callers : Inside(c) /\ key[c] = k}]

KM == INSTANCE KeyedMutex WITH want <- wantBar, owner <- ownerBar

\* Every step of the locker is a step of the abstract keyed mutex or invisible.
ImplementsKeyedMutex == KM!KMSpec
=============================================================================
