---------------------------- MODULE LockerProofs ----------------------------
(***************************************************************************)
(* Locker is safe for every set of callers, keys and entries: LockerInv is *)
(* inductive and implies the safety properties.  Locker also implements    *)
(* KeyedMutex.                                                             *)
(***************************************************************************)
EXTENDS Locker, FiniteSetTheorems, TLAPS

\* Facts about the set a counter lwc.waiters counts: what it holds and how its
\* cardinality moves when inc() adds a caller or dec() removes one.
LEMMA WaitersFinite ==
  ASSUME NEW l
  PROVE  IsFiniteSet(WaitersOf(l)) /\ Cardinality(WaitersOf(l)) \in Nat
<1>1. WaitersOf(l) \in SUBSET Callers
  BY Zenon DEF WaitersOf
<1>2. IsFiniteSet(WaitersOf(l))
  BY Zenon, <1>1, LockerAssumption, FS_Subset
<1> QED
  BY Zenon, <1>2, FS_CardinalityType

\* No caller counted: lwc.count() is zero exactly for an entry without waiters.
LEMMA WaitersEmpty ==
  ASSUME NEW l
  PROVE  Cardinality(WaitersOf(l)) = 0 <=> WaitersOf(l) = {}
BY Zenon, WaitersFinite, FS_EmptySet

\* inc() by a caller that was not counted adds one.
LEMMA WaitersGrow ==
  ASSUME NEW l, NEW c, c \notin WaitersOf(l)
  PROVE  Cardinality(WaitersOf(l) \cup {c}) = Cardinality(WaitersOf(l)) + 1
BY Zenon, WaitersFinite, FS_AddElement

\* dec() by a caller that was counted takes one away.
LEMMA WaitersShrink ==
  ASSUME NEW l, NEW c, c \in WaitersOf(l)
  PROVE  Cardinality(WaitersOf(l) \ {c}) = Cardinality(WaitersOf(l)) - 1
BY Zenon, WaitersFinite, FS_RemoveElement

\* LockerInv holds when New() has made the empty map.
LEMMA LockerInit == Init => LockerInv
<1> SUFFICES ASSUME Init PROVE LockerInv
  OBVIOUS
<1>1. \A l : WaitersOf(l) = {}
  BY Zenon DEF Init, WaitersOf, Counted
<1>2. CounterInv
  BY Zenon, <1>1, FS_EmptySet DEF CounterInv, Init
<1>3. TypeOK /\ MutexInv /\ EntryInv /\ DistinctEntries
  BY LockerAssumption DEF Init, TypeOK, PCs, MutexInv, EntryInv, DistinctEntries
<1>4. ChannelInv /\ NoStaleEntry /\ \A c \in Callers : pc[c] # "panicked"
  BY Zenon DEF Init, ChannelInv, NoStaleEntry, Inside
<1> QED
  BY Zenon, <1>2, <1>3, <1>4 DEF LockerInv

\* A step that changes neither the entries, nor the counters, nor who waits for
\* or holds what (Call, Cancel, LockRefused) preserves LockerInv.
LEMMA QuietStep ==
  ASSUME LockerInv, NEW c \in Callers,
         pc' = [pc EXCEPT ![c] = pc'[c]],
         pc[c] \in {"idle", "enter", "select"},
         pc'[c] \in {"idle", "enter"} \/ pc'[c] = pc[c],
         pc[c] = "select" => pc'[c] = pc[c],
         key' \in [Callers -> Keys], ctxDone' \in [Callers -> BOOLEAN],
         \A d \in Callers \ {c} : key'[d] = key[d],
         pc[c] # "idle" => key'[c] = key[c],
         UNCHANGED <<mu, locks, ch, waiters, lwc>>
  PROVE  LockerInv'
<1> USE DEF LockerInv
<1>0. pc'[c] \in PCs /\ \A d \in Callers \ {c} : pc'[d] = pc[d]
  BY Zenon DEF TypeOK, PCs
<1>1. TypeOK'
  BY Zenon, <1>0 DEF TypeOK
<1>2. \A l : WaitersOf(l)' = WaitersOf(l)
  BY Zenon, <1>0 DEF WaitersOf, Counted
<1>3. \A d \in Callers : Inside(d)' <=> Inside(d)
  BY Zenon, <1>0 DEF Inside
<1>4. MutexInv'
  BY Zenon, <1>0 DEF MutexInv
<1>5. EntryInv'
  BY <1>0, <1>2 DEF EntryInv
<1>6. DistinctEntries' /\ ChannelInv'
  BY Zenon, <1>3 DEF DistinctEntries, ChannelInv
<1>7. CounterInv'
  BY Zenon, <1>2 DEF CounterInv
<1>8. NoStaleEntry'
  BY <1>0, LockerAssumption DEF NoStaleEntry, EntryInv, TypeOK
<1>9. \A d \in Callers : pc'[d] # "panicked"
  BY Zenon, <1>0
<1> QED
  BY Zenon, <1>1, <1>4, <1>5, <1>6, <1>7, <1>8, <1>9

\* The critical section of Lock, which finds or makes the entry and counts the
\* caller, preserves LockerInv.
LEMMA LockRegisterInv ==
  ASSUME LockerInv, NEW c \in Callers, LockRegister(c)
  PROVE  LockerInv'
<1> USE DEF LockerInv
<1>1. PICK l \in Locks :
        /\ lwc' = [lwc EXCEPT ![c] = l]
        /\ locks' = [locks EXCEPT ![key[c]] = l]
        /\ \/ /\ locks[key[c]] = l
              /\ waiters' = [waiters EXCEPT ![l] = @ + 1]
              /\ ch' = ch
           \/ /\ locks[key[c]] = None /\ Garbage(l)
              /\ waiters' = [waiters EXCEPT ![l] = 1]
              /\ ch' = [ch EXCEPT ![l] = 0]
  <2>1. CASE locks[key[c]] # None
    <3>1. locks[key[c]] \in Locks /\ locks = [locks EXCEPT ![key[c]] = locks[key[c]]]
      BY Zenon, <2>1 DEF TypeOK
    <3> QED
      BY Zenon, <2>1, <3>1 DEF LockRegister
  <2>2. CASE locks[key[c]] = None
    BY Zenon, <2>2 DEF LockRegister
  <2> QED
    BY Zenon, <2>1, <2>2
<1>2. /\ pc[c] = "enter" /\ mu = None /\ lwc[c] = None
      /\ pc' = [pc EXCEPT ![c] = "select"]
      /\ UNCHANGED <<mu, key, ctxDone>>
  BY Zenon DEF LockRegister, EntryInv
<1>3. Garbage(l) => WaitersOf(l) = {}
  BY Zenon DEF Garbage, WaitersOf
<1>4. \A m : WaitersOf(m)' = IF m = l THEN WaitersOf(l) \cup {c} ELSE WaitersOf(m)
  BY <1>1, <1>2, LockerAssumption DEF WaitersOf, Counted, TypeOK
<1>5. \A d \in Callers : /\ Inside(d)' <=> Inside(d)
                         /\ Inside(d) => lwc'[d] = lwc[d] /\ d # c
  BY Zenon, <1>1, <1>2 DEF Inside, TypeOK
<1>6. TypeOK'
  BY <1>1, <1>2 DEF TypeOK, PCs
<1>7. MutexInv'
  BY Zenon, <1>2, LockerAssumption DEF MutexInv, TypeOK
<1>8. EntryInv'
  BY <1>1, <1>2, <1>4, LockerAssumption DEF EntryInv, TypeOK, Garbage, MutexInv
<1>9. DistinctEntries'
  BY Zenon, <1>1, LockerAssumption DEF DistinctEntries, TypeOK, Garbage
<1>10. ChannelInv'
  <2>1. \A d \in Callers : Inside(d) => ch'[lwc[d]] = ch[lwc[d]]
    BY Zenon, <1>1 DEF Garbage, EntryInv, Inside, TypeOK
  <2>2. \A d \in Callers : Inside(d)' => ch'[lwc'[d]] = 1
    BY Zenon, <1>5, <2>1 DEF ChannelInv
  <2>3. \A d, e \in Callers : Inside(d)' /\ Inside(e)' /\ lwc'[d] = lwc'[e] => d = e
    BY Zenon, <1>5 DEF ChannelInv
  <2>4. ASSUME NEW k \in Keys, locks'[k] # None, ch'[locks'[k]] = 1
        PROVE  \E d \in Callers : Inside(d)' /\ lwc'[d] = locks'[k]
    <3>1. locks'[k] = locks[k] /\ ch[locks[k]] = 1
      BY <1>1, <2>4 DEF Garbage, TypeOK
    <3>2. PICK d \in Callers : Inside(d) /\ lwc[d] = locks[k]
      BY Zenon, <2>4, <3>1 DEF ChannelInv
    <3> QED
      BY Zenon, <1>5, <3>1, <3>2
  <2> QED
    BY Zenon, <2>2, <2>3, <2>4 DEF ChannelInv
<1>11. CounterInv'
  <2>1. c \notin WaitersOf(l)
    BY Zenon, <1>2 DEF WaitersOf, Counted
  <2>2. Cardinality(WaitersOf(l) \cup {c}) = Cardinality(WaitersOf(l)) + 1
    BY Zenon, <2>1, WaitersGrow
  <2>3. Garbage(l) => Cardinality(WaitersOf(l)) = 0
    BY Zenon, <1>3, WaitersEmpty
  <2>4. waiters'[l] = Cardinality(WaitersOf(l)) + 1
    BY <1>1, <2>3 DEF CounterInv, TypeOK
  <2> QED
    BY Zenon, <1>1, <1>4, <2>2, <2>4 DEF CounterInv, TypeOK
<1>12. NoStaleEntry'
  BY Zenon, <1>1, <1>2 DEF NoStaleEntry, TypeOK
<1>13. \A d \in Callers : pc'[d] # "panicked"
  BY <1>2
<1> QED
  BY Zenon, <1>6, <1>7, <1>8, <1>9, <1>10, <1>11, <1>12, <1>13

\* Sending to the entry's channel preserves LockerInv: it was empty, so nobody was
\* inside.
LEMMA LockAcquireInv ==
  ASSUME LockerInv, NEW c \in Callers, LockAcquire(c)
  PROVE  LockerInv'
<1> USE DEF LockerInv
<1>1. /\ pc[c] = "select" /\ ch[lwc[c]] = 0
      /\ ch' = [ch EXCEPT ![lwc[c]] = 1]
      /\ pc' = [pc EXCEPT ![c] = "acquired"]
      /\ UNCHANGED <<mu, locks, waiters, key, lwc, ctxDone>>
      /\ lwc[c] \in Locks /\ locks[key[c]] = lwc[c]
  BY Zenon DEF LockAcquire, EntryInv
<1>2. \A l : WaitersOf(l)' = WaitersOf(l)
  BY Zenon, <1>1 DEF WaitersOf, Counted, TypeOK
<1>3. \A d \in Callers : Inside(d)' <=> Inside(d) \/ d = c
  BY Zenon, <1>1 DEF Inside, TypeOK
<1>4. TypeOK'
  BY Zenon, <1>1 DEF TypeOK, PCs
<1>5. MutexInv' /\ DistinctEntries'
  BY Zenon, <1>1 DEF MutexInv, DistinctEntries, TypeOK
<1>6. EntryInv'
  BY Zenon, <1>1, <1>2 DEF EntryInv, TypeOK
<1>7. ChannelInv'
  BY <1>1, <1>3 DEF ChannelInv, TypeOK
<1>8. CounterInv' /\ NoStaleEntry'
  BY Zenon, <1>1, <1>2 DEF CounterInv, NoStaleEntry
<1>9. \A d \in Callers : pc'[d] # "panicked"
  BY <1>1
<1> QED
  BY Zenon, <1>4, <1>5, <1>6, <1>7, <1>8, <1>9

\* The dec() after the acquisition, outside l.mu, preserves LockerInv.
LEMMA LockReturnInv ==
  ASSUME LockerInv, NEW c \in Callers, LockReturn(c)
  PROVE  LockerInv'
<1> USE DEF LockerInv
<1>1. /\ pc[c] = "acquired"
      /\ waiters' = [waiters EXCEPT ![lwc[c]] = @ - 1]
      /\ pc' = [pc EXCEPT ![c] = "held"]
      /\ UNCHANGED <<mu, locks, ch, key, lwc, ctxDone>>
      /\ lwc[c] \in Locks /\ locks[key[c]] = lwc[c]
  BY Zenon DEF LockReturn, EntryInv
<1>2. \A l : WaitersOf(l)' = IF l = lwc[c] THEN WaitersOf(l) \ {c} ELSE WaitersOf(l)
  BY Zenon, <1>1 DEF WaitersOf, Counted, TypeOK
<1>3. \A d \in Callers : Inside(d)' <=> Inside(d)
  BY Zenon, <1>1 DEF Inside, TypeOK
<1>4. TypeOK'
  BY <1>1 DEF TypeOK, PCs
<1>5. MutexInv' /\ DistinctEntries'
  BY Zenon, <1>1 DEF MutexInv, DistinctEntries, TypeOK
<1>6. EntryInv'
  \* c is inside the entry, so no other caller is about to release it.
  <2>1. \A d \in Callers : pc[d] = "release" => lwc[d] # lwc[c]
    BY Zenon, <1>1 DEF ChannelInv, Inside
  <2> QED
    BY Zenon, <1>1, <1>2, <2>1 DEF EntryInv, TypeOK
<1>7. ChannelInv' /\ NoStaleEntry'
  BY <1>1, <1>3 DEF ChannelInv, NoStaleEntry
<1>8. CounterInv'
  <2>1. c \in WaitersOf(lwc[c])
    BY Zenon, <1>1 DEF WaitersOf, Counted
  <2>2. Cardinality(WaitersOf(lwc[c]) \ {c}) = Cardinality(WaitersOf(lwc[c])) - 1
    BY Zenon, <2>1, WaitersShrink
  <2> QED
    BY Zenon, <1>1, <1>2, <2>2 DEF CounterInv, TypeOK
<1>9. \A d \in Callers : pc'[d] # "panicked"
  BY <1>1
<1> QED
  BY Zenon, <1>4, <1>5, <1>6, <1>7, <1>8, <1>9

\* The dec() of a Lock whose context is done preserves LockerInv.
LEMMA LockAbortInv ==
  ASSUME LockerInv, NEW c \in Callers, LockAbort(c)
  PROVE  LockerInv'
<1> USE DEF LockerInv
<1>1. /\ pc[c] = "select" /\ mu = None
      /\ waiters' = [waiters EXCEPT ![lwc[c]] = @ - 1]
      /\ UNCHANGED <<locks, ch, key, ctxDone>>
      /\ lwc[c] \in Locks /\ locks[key[c]] = lwc[c]
  BY Zenon DEF LockAbort, EntryInv
<1>2. \/ /\ waiters[lwc[c]] - 1 = 0 /\ mu' = c
         /\ pc' = [pc EXCEPT ![c] = "drop"] /\ lwc' = lwc
      \/ /\ waiters[lwc[c]] - 1 # 0 /\ mu' = mu
         /\ pc' = [pc EXCEPT ![c] = "idle"] /\ lwc' = [lwc EXCEPT ![c] = None]
  BY Zenon DEF LockAbort
<1>3. \A l \in Locks : WaitersOf(l)' = IF l = lwc[c] THEN WaitersOf(l) \ {c} ELSE WaitersOf(l)
  BY <1>1, <1>2, LockerAssumption DEF WaitersOf, Counted, TypeOK
<1>4. \A d \in Callers : /\ Inside(d)' <=> Inside(d)
                         /\ Inside(d) => lwc'[d] = lwc[d]
  BY Zenon, <1>1, <1>2 DEF Inside, TypeOK
<1>5. Cardinality(WaitersOf(lwc[c]) \ {c}) = waiters[lwc[c]] - 1
  <2>1. c \in WaitersOf(lwc[c])
    BY Zenon, <1>1 DEF WaitersOf, Counted
  <2>2. Cardinality(WaitersOf(lwc[c]) \ {c}) = Cardinality(WaitersOf(lwc[c])) - 1
    BY Zenon, <2>1, WaitersShrink
  <2> QED
    BY Zenon, <1>1, <2>2 DEF CounterInv
<1>6. WaitersOf(lwc[c]) \ {c} = {} <=> waiters[lwc[c]] - 1 = 0
  <2>1. IsFiniteSet(WaitersOf(lwc[c]) \ {c})
    BY Zenon, WaitersFinite, FS_RemoveElement
  <2> QED
    BY Zenon, <1>5, <2>1, FS_EmptySet
<1>7. TypeOK'
  BY <1>1, <1>2 DEF TypeOK, PCs
<1>8. MutexInv' /\ DistinctEntries'
  BY <1>1, <1>2, LockerAssumption DEF MutexInv, DistinctEntries, TypeOK
<1>9. EntryInv'
  \* The mutex was free: nobody else is in "drop" or "release".
  <2>1. \A d \in Callers : pc[d] \notin {"drop", "release"}
    BY Zenon, <1>1, LockerAssumption DEF MutexInv
  <2>2. pc'[c] = "drop" => WaitersOf(lwc[c]) \ {c} = {} /\ lwc'[c] = lwc[c]
    BY Zenon, <1>1, <1>2, <1>6 DEF TypeOK
  <2> QED
    BY <1>1, <1>2, <1>3, <2>1, <2>2 DEF EntryInv, TypeOK
<1>10. ChannelInv'
  BY <1>1, <1>4 DEF ChannelInv
<1>11. CounterInv'
  BY Zenon, <1>1, <1>3, <1>5 DEF CounterInv, TypeOK
<1>12. NoStaleEntry'
  <2>1. CASE lwc' = lwc
    BY Zenon, <1>1, <2>1 DEF NoStaleEntry
  <2>2. CASE waiters[lwc[c]] - 1 # 0 /\ lwc' = [lwc EXCEPT ![c] = None]
    <3>1. PICK d \in Callers \ {c} : lwc[d] = lwc[c] /\ Counted(d)
      BY Zenon, <1>6, <2>2 DEF WaitersOf
    <3>2. key[d] = key[c]
      BY <1>1, <3>1, LockerAssumption DEF EntryInv, Counted, DistinctEntries, TypeOK
    <3>3. \A k \in Keys : locks[k] = lwc[c] => k = key[c]
      BY Zenon, <1>1, LockerAssumption DEF DistinctEntries, TypeOK
    <3> QED
      BY Zenon, <1>1, <2>2, <3>1, <3>2, <3>3 DEF NoStaleEntry, TypeOK
  <2> QED
    BY Zenon, <1>2, <2>1, <2>2
<1>13. \A d \in Callers : pc'[d] # "panicked"
  BY Zenon, <1>2 DEF TypeOK
<1> QED
  BY Zenon, <1>7, <1>8, <1>9, <1>10, <1>11, <1>12, <1>13

\* Deleting the entry after an aborted Lock preserves LockerInv: it is deleted only
\* when nobody waits for it or holds it.
LEMMA LockDropInv ==
  ASSUME LockerInv, NEW c \in Callers, LockDrop(c)
  PROVE  LockerInv'
<1> USE DEF LockerInv
<1>1. /\ pc[c] = "drop" /\ mu = c
      /\ locks' = IF ch[lwc[c]] = 0 THEN [locks EXCEPT ![key[c]] = None] ELSE locks
      /\ mu' = None
      /\ pc' = [pc EXCEPT ![c] = "idle"]
      /\ lwc' = [lwc EXCEPT ![c] = None]
      /\ UNCHANGED <<ch, waiters, key, ctxDone>>
      /\ lwc[c] \in Locks /\ locks[key[c]] = lwc[c] /\ WaitersOf(lwc[c]) = {}
  BY Zenon DEF LockDrop, EntryInv, MutexInv
<1>2. \A l \in Locks : WaitersOf(l)' = WaitersOf(l)
  BY Zenon, <1>1, LockerAssumption DEF WaitersOf, Counted, TypeOK
<1>3. \A d \in Callers : /\ Inside(d)' <=> Inside(d)
                         /\ d # c => lwc'[d] = lwc[d]
                         /\ Inside(d) => d # c
  BY Zenon, <1>1 DEF Inside, TypeOK
\* If the entry goes, nobody else works on it.
<1>4. ch[lwc[c]] = 0 => \A d \in Callers \ {c} : lwc[d] # lwc[c]
  <2> SUFFICES ASSUME ch[lwc[c]] = 0, NEW d \in Callers \ {c}, lwc[d] = lwc[c] PROVE FALSE
    OBVIOUS
  <2>1. ~Inside(d)
    BY DEF ChannelInv
  <2>2. ~Counted(d)
    BY Zenon, <1>1 DEF WaitersOf
  <2>3. pc[d] \notin {"idle", "enter"}
    BY Zenon, <1>1, LockerAssumption DEF EntryInv
  <2>4. pc[d] # "drop"
    BY Zenon, <1>1 DEF MutexInv
  <2> QED
    BY Zenon, <2>1, <2>2, <2>3, <2>4 DEF TypeOK, PCs, Inside, Counted
<1>5. TypeOK'
  BY Zenon, <1>1 DEF TypeOK, PCs
<1>6. MutexInv'
  BY Zenon, <1>1, LockerAssumption DEF MutexInv, TypeOK
<1>7. EntryInv'
  <2>1. \A d \in Callers \ {c} : pc[d] \notin {"drop", "release"}
    BY Zenon, <1>1 DEF MutexInv
  <2>2. \A d \in Callers \ {c} : pc[d] \in {"select", "acquired", "held"} =>
          locks'[key[d]] = lwc[d]
    BY Zenon, <1>1, <1>4 DEF EntryInv, TypeOK
  <2> QED
    BY <1>1, <1>2, <2>1, <2>2 DEF EntryInv, TypeOK
<1>8. DistinctEntries'
  BY Zenon, <1>1 DEF DistinctEntries, TypeOK
<1>9. ChannelInv'
  BY <1>1, <1>3 DEF ChannelInv, TypeOK
<1>10. CounterInv'
  BY Zenon, <1>1, <1>2 DEF CounterInv
<1>11. NoStaleEntry'
  <2>1. CASE ch[lwc[c]] = 0
    BY <1>1, <1>3, <2>1 DEF NoStaleEntry, DistinctEntries, TypeOK
  <2>2. CASE ch[lwc[c]] = 1
    <3>1. PICK d \in Callers : Inside(d) /\ lwc[d] = lwc[c]
      BY SMTT(30), <1>1, <2>2, LockerAssumption DEF ChannelInv, TypeOK
    <3>2. key[d] = key[c]
      BY <1>1, <3>1, LockerAssumption DEF EntryInv, Inside, DistinctEntries, MutexInv, TypeOK
    <3> QED
      BY <1>1, <1>3, <2>2, <3>1, <3>2, LockerAssumption DEF NoStaleEntry, DistinctEntries, TypeOK
  <2> QED
    BY Zenon, <1>1, <2>1, <2>2 DEF TypeOK
<1>12. \A d \in Callers : pc'[d] # "panicked"
  BY Zenon, <1>1 DEF TypeOK
<1> QED
  BY Zenon, <1>5, <1>6, <1>7, <1>8, <1>9, <1>10, <1>11, <1>12

\* The critical section of Unlock, which deletes an entry without waiters,
\* preserves LockerInv.
LEMMA UnlockInv ==
  ASSUME LockerInv, NEW c \in Callers, Unlock(c)
  PROVE  LockerInv'
<1> USE DEF LockerInv
\* The entry of the key is the one the caller locked: no panic.
<1>1. /\ pc[c] = "held" /\ mu = None
      /\ lwc[c] \in Locks /\ locks[key[c]] = lwc[c] /\ locks[key[c]] # None
  BY Zenon, LockerAssumption DEF Unlock, EntryInv
<1>2. /\ lwc' = lwc
      /\ locks' = IF waiters[lwc[c]] = 0 THEN [locks EXCEPT ![key[c]] = None] ELSE locks
      /\ mu' = c
      /\ pc' = [pc EXCEPT ![c] = "release"]
      /\ UNCHANGED <<ch, waiters, key, ctxDone>>
  BY Zenon, <1>1 DEF Unlock, TypeOK
<1>3. \A l : WaitersOf(l)' = WaitersOf(l)
  BY Zenon, <1>1, <1>2 DEF WaitersOf, Counted, TypeOK
<1>4. \A d \in Callers : Inside(d)' <=> Inside(d)
  BY Zenon, <1>1, <1>2 DEF Inside, TypeOK
<1>5. waiters[lwc[c]] = 0 <=> WaitersOf(lwc[c]) = {}
  BY Zenon, <1>1, WaitersEmpty DEF CounterInv
<1>6. TypeOK'
  BY Zenon, <1>1, <1>2 DEF TypeOK, PCs
<1>7. MutexInv'
  BY Zenon, <1>1, <1>2, LockerAssumption DEF MutexInv, TypeOK
<1>8. EntryInv'
  <2>1. \A d \in Callers : pc[d] \notin {"drop", "release"}
    BY Zenon, <1>1, LockerAssumption DEF MutexInv
  <2>2. ASSUME NEW d \in Callers \ {c}, pc[d] \in {"select", "acquired", "held"}
        PROVE  locks'[key[d]] = lwc[d]
    <3>1. locks[key[d]] = lwc[d]
      BY Zenon, <2>2 DEF EntryInv
    <3>2. lwc[d] = lwc[c] => WaitersOf(lwc[c]) # {}
      BY Zenon, <1>1, <2>2 DEF ChannelInv, Inside, WaitersOf, Counted
    <3> QED
      BY Zenon, <1>1, <1>2, <1>5, <3>1, <3>2 DEF TypeOK
  <2>3. \A k \in Keys \ {key[c]} : locks'[k] # lwc[c]
    BY Zenon, <1>1, <1>2 DEF DistinctEntries, TypeOK
  <2>4. IF WaitersOf(lwc[c]) = {} THEN locks'[key[c]] = None ELSE locks'[key[c]] = lwc[c]
    BY Zenon, <1>1, <1>2, <1>5 DEF TypeOK
  <2> QED
    BY <1>1, <1>2, <1>3, <2>1, <2>2, <2>3, <2>4 DEF EntryInv, TypeOK
<1>9. DistinctEntries' /\ ChannelInv'
  BY Zenon, <1>1, <1>2, <1>4 DEF DistinctEntries, ChannelInv, TypeOK
<1>10. CounterInv' /\ NoStaleEntry'
  BY Zenon, <1>1, <1>2, <1>3 DEF CounterInv, NoStaleEntry, TypeOK
<1>11. \A d \in Callers : pc'[d] # "panicked"
  BY Zenon, <1>2 DEF TypeOK
<1> QED
  BY Zenon, <1>6, <1>7, <1>8, <1>9, <1>10, <1>11

\* Receiving from the channel in Unlock preserves LockerInv.
LEMMA UnlockReleaseInv ==
  ASSUME LockerInv, NEW c \in Callers, UnlockRelease(c)
  PROVE  LockerInv'
<1> USE DEF LockerInv
<1>1. /\ pc[c] = "release" /\ mu = c
      /\ ch' = [ch EXCEPT ![lwc[c]] = 0]
      /\ mu' = None
      /\ pc' = [pc EXCEPT ![c] = "idle"]
      /\ lwc' = [lwc EXCEPT ![c] = None]
      /\ UNCHANGED <<locks, waiters, key, ctxDone>>
      /\ lwc[c] \in Locks
  BY Zenon DEF UnlockRelease, EntryInv, MutexInv
<1>2. \A l \in Locks : WaitersOf(l)' = WaitersOf(l)
  BY Zenon, <1>1, LockerAssumption DEF WaitersOf, Counted, TypeOK
<1>3. \A d \in Callers : /\ Inside(d)' <=> Inside(d) /\ d # c
                         /\ d # c => lwc'[d] = lwc[d]
  BY Zenon, <1>1 DEF Inside, TypeOK
<1>4. TypeOK'
  BY Zenon, <1>1 DEF TypeOK, PCs
<1>5. MutexInv'
  BY Zenon, <1>1, LockerAssumption DEF MutexInv, TypeOK
<1>6. EntryInv'
  <2>1. \A d \in Callers \ {c} : pc[d] \notin {"drop", "release"}
    BY Zenon, <1>1 DEF MutexInv
  <2> QED
    BY Zenon, <1>1, <1>2, <2>1 DEF EntryInv, TypeOK
<1>7. DistinctEntries'
  BY Zenon, <1>1 DEF DistinctEntries
<1>8. ChannelInv'
  <2>1. \A d \in Callers \ {c} : Inside(d) => lwc[d] # lwc[c] /\ lwc[d] \in Locks
    BY Zenon, <1>1 DEF ChannelInv, Inside, EntryInv
  <2>2. \A k \in Keys : locks[k] # None /\ ch'[locks[k]] = 1 => locks[k] # lwc[c] /\ ch[locks[k]] = 1
    BY <1>1 DEF TypeOK
  <2> QED
    BY <1>1, <1>3, <2>1, <2>2 DEF ChannelInv, TypeOK
<1>9. CounterInv'
  BY Zenon, <1>1, <1>2 DEF CounterInv
<1>10. NoStaleEntry'
  <2>1. CASE locks[key[c]] = lwc[c]
    <3>1. PICK d \in Callers : Counted(d) /\ lwc[d] = lwc[c]
      BY Zenon, <1>1, <2>1, LockerAssumption DEF EntryInv, WaitersOf
    <3>2. d # c /\ key[d] = key[c]
      BY Zenon, <1>1, <2>1, <3>1, LockerAssumption DEF EntryInv, Counted, DistinctEntries, TypeOK
    <3> QED
      BY <1>1, <1>3, <2>1, <3>1, <3>2 DEF NoStaleEntry, EntryInv
  <2>2. CASE locks[key[c]] # lwc[c]
    BY <1>1, <1>3, <2>2 DEF NoStaleEntry, EntryInv
  <2> QED
    BY Zenon, <2>1, <2>2
<1>11. \A d \in Callers : pc'[d] # "panicked"
  BY Zenon, <1>1 DEF TypeOK
<1> QED
  BY Zenon, <1>4, <1>5, <1>6, <1>7, <1>8, <1>9, <1>10, <1>11

\* Every step of Lock and Unlock preserves LockerInv.
LEMMA LockerStep == LockerInv /\ [Next]_vars => LockerInv'
<1> SUFFICES ASSUME LockerInv, [Next]_vars PROVE LockerInv'
  OBVIOUS
<1>1. CASE UNCHANGED vars
  BY SMTT(30), <1>1 DEF vars, LockerInv, TypeOK, MutexInv, EntryInv, DistinctEntries, ChannelInv,
              CounterInv, NoStaleEntry, WaitersOf, Counted, Inside
<1>2. ASSUME NEW c \in Callers, NEW k \in Keys, Call(c, k) PROVE LockerInv'
  BY Zenon, <1>2, QuietStep DEF Call, LockerInv, TypeOK
<1>3. ASSUME NEW c \in Callers, Cancel(c) PROVE LockerInv'
  BY Zenon, <1>3, QuietStep DEF Cancel, LockerInv, TypeOK
<1>4. ASSUME NEW c \in Callers, LockRefused(c) PROVE LockerInv'
  BY Zenon, <1>4, QuietStep DEF LockRefused, LockerInv, TypeOK
<1>5. ASSUME NEW c \in Callers, Step(c) PROVE LockerInv'
  BY Zenon, <1>4, <1>5, LockRegisterInv, LockAcquireInv, LockReturnInv, LockAbortInv, LockDropInv,
     UnlockInv, UnlockReleaseInv DEF Step
<1> QED
  BY Zenon, <1>1, <1>2, <1>3, <1>5 DEF Next

\* The inductive invariant holds in every reachable state of the locker.
THEOREM LockerInvariant == Spec => []LockerInv
BY LockerInit, LockerStep, PTL DEF Spec

\* Type correctness of the locker's map, channels and counters.
THEOREM LockerTypeOK == Spec => []TypeOK
<1>1. LockerInv => TypeOK
  BY Zenon DEF LockerInv
<1> QED
  BY <1>1, LockerInvariant, PTL

\* Lock gives a key to at most one caller at a time, for any number of callers,
\* keys and cancellations.
THEOREM LockerMutualExclusion == Spec => []MutualExclusion
<1>1. LockerInv => MutualExclusion
  <2> SUFFICES ASSUME LockerInv, NEW c \in Callers, NEW d \in Callers,
                      Inside(c), Inside(d), key[c] = key[d]
               PROVE  c = d
    BY Zenon DEF MutualExclusion
  <2> USE DEF LockerInv
  <2>1. CASE pc[c] = "release" /\ pc[d] = "release"
    BY Zenon, <2>1 DEF MutexInv
  <2>2. CASE pc[c] # "release" \/ pc[d] # "release"
    BY <2>2, LockerAssumption DEF Inside, EntryInv, ChannelInv, TypeOK
  <2> QED
    BY Zenon, <2>1, <2>2
<1> QED
  BY <1>1, LockerInvariant, PTL

\* Unlock after a successful Lock neither panics nor blocks inside l.mu.
THEOREM LockerUnlockSucceeds == Spec => []UnlockSucceeds
<1>1. LockerInv => UnlockSucceeds
  BY Zenon DEF LockerInv, UnlockSucceeds, ChannelInv, Inside
<1> QED
  BY <1>1, LockerInvariant, PTL

\* The map holds no entry that no caller needs.
THEOREM LockerNoStaleEntry == Spec => []NoStaleEntry
<1>1. LockerInv => NoStaleEntry
  BY Zenon DEF LockerInv
<1> QED
  BY <1>1, LockerInvariant, PTL

-----------------------------------------------------------------------------
(***************************************************************************)
(* Locker implements KeyedMutex: with LockerInv every step of the locker is *)
(* a step of KeyedMutex or leaves its variables alone.                     *)
(***************************************************************************)
\* How the refinement mapping moves when caller c alone moves: its membership in
\* want and owner follows its program counter, and nobody else's changes.
LEMMA MappingMoves ==
  ASSUME TypeOK, NEW c \in Callers, NEW p \in PCs,
         pc' = [pc EXCEPT ![c] = p], key' = key
  PROVE  /\ p \notin {"enter", "select", "drop"} =>
              wantBar' = [wantBar EXCEPT ![key[c]] = wantBar[key[c]] \ {c}]
         /\ p \notin {"enter", "select", "drop"} /\ c \notin wantBar[key[c]] =>
              wantBar' = wantBar
         /\ p \notin {"acquired", "held", "release"} =>
              ownerBar' = [ownerBar EXCEPT ![key[c]] = ownerBar[key[c]] \ {c}]
         /\ p \notin {"acquired", "held", "release"} /\ c \notin ownerBar[key[c]] =>
              ownerBar' = ownerBar
         /\ p \in {"acquired", "held", "release"} /\ ownerBar[key[c]] = {} =>
              ownerBar' = [ownerBar EXCEPT ![key[c]] = {c}]
<1>0. /\ key[c] \in Keys
      /\ \A d \in Callers : pc'[d] = IF d = c THEN p ELSE pc[d]
  BY Zenon DEF TypeOK
<1>1. \A k \in Keys : wantBar'[k] =
        IF k = key[c] THEN IF p \in {"enter", "select", "drop"}
                           THEN wantBar[k] \cup {c} ELSE wantBar[k] \ {c}
        ELSE wantBar[k]
  BY <1>0 DEF wantBar
<1>2. \A k \in Keys : ownerBar'[k] =
        IF k = key[c] THEN IF p \in {"acquired", "held", "release"}
                           THEN ownerBar[k] \cup {c} ELSE ownerBar[k] \ {c}
        ELSE ownerBar[k]
  BY <1>0 DEF ownerBar, Inside
<1>3. /\ wantBar = [k \in Keys |-> wantBar[k]] /\ wantBar' = [k \in Keys |-> wantBar'[k]]
      /\ ownerBar = [k \in Keys |-> ownerBar[k]] /\ ownerBar' = [k \in Keys |-> ownerBar'[k]]
  BY Zenon DEF wantBar, ownerBar
<1>4. ASSUME p \notin {"enter", "select", "drop"}
      PROVE  /\ wantBar' = [wantBar EXCEPT ![key[c]] = wantBar[key[c]] \ {c}]
             /\ c \notin wantBar[key[c]] => wantBar' = wantBar
  <2>1. c \notin wantBar[key[c]] => wantBar[key[c]] \ {c} = wantBar[key[c]]
    OBVIOUS
  <2>2. \A k \in Keys : wantBar'[k] = IF k = key[c] THEN wantBar[k] \ {c} ELSE wantBar[k]
    BY Zenon, <1>1, <1>4
  <2>3. wantBar' = [wantBar EXCEPT ![key[c]] = wantBar[key[c]] \ {c}]
    BY Zenon, <1>3, <2>2
  <2> QED
    BY <1>0, <1>3, <2>1, <2>2, <2>3
<1>5. ASSUME p \notin {"acquired", "held", "release"}
      PROVE  /\ ownerBar' = [ownerBar EXCEPT ![key[c]] = ownerBar[key[c]] \ {c}]
             /\ c \notin ownerBar[key[c]] => ownerBar' = ownerBar
  <2>1. c \notin ownerBar[key[c]] => ownerBar[key[c]] \ {c} = ownerBar[key[c]]
    OBVIOUS
  <2>2. \A k \in Keys : ownerBar'[k] = IF k = key[c] THEN ownerBar[k] \ {c} ELSE ownerBar[k]
    BY Zenon, <1>2, <1>5
  <2>3. ownerBar' = [ownerBar EXCEPT ![key[c]] = ownerBar[key[c]] \ {c}]
    BY Zenon, <1>3, <2>2
  <2> QED
    BY ZenonT(60), <1>0, <1>3, <2>1, <2>2, <2>3
<1>6. ASSUME p \in {"acquired", "held", "release"}, ownerBar[key[c]] = {}
      PROVE  ownerBar' = [ownerBar EXCEPT ![key[c]] = {c}]
  <2>1. \A k \in Keys : ownerBar'[k] = IF k = key[c] THEN {c} ELSE ownerBar[k]
    BY Zenon, <1>2, <1>6
  <2> QED
    BY Zenon, <1>3, <2>1
<1> QED
  BY Zenon, <1>4, <1>5, <1>6

\* With the invariant, every step of the locker is an abstract step or a stutter.
LEMMA RefinementStep ==
  ASSUME LockerInv, LockerInv', [Next]_vars
  PROVE  [KM!KMNext]_(KM!kmVars)
<1> USE DEF LockerInv
<1>t. /\ wantBar = [k \in Keys |-> wantBar[k]] /\ ownerBar = [k \in Keys |-> ownerBar[k]]
      /\ \A c \in Callers, k \in Keys :
           /\ c \in wantBar[k] <=> pc[c] \in {"enter", "select", "drop"} /\ key[c] = k
           /\ c \in ownerBar[k] <=> Inside(c) /\ key[c] = k
  BY Zenon DEF wantBar, ownerBar
<1>s. ASSUME wantBar' = wantBar, ownerBar' = ownerBar PROVE [KM!KMNext]_(KM!kmVars)
  BY Zenon, <1>s DEF KM!kmVars
<1>0. CASE UNCHANGED vars
  BY Zenon, <1>0, <1>s DEF vars, wantBar, ownerBar, Inside
<1>1. ASSUME NEW c \in Callers, NEW k \in Keys, Call(c, k) PROVE KM!Request(c, k)
  <2>1. \A j \in Keys : c \notin wantBar[j] \cup ownerBar[j]
    BY Zenon, <1>1, <1>t DEF Call, Inside
  <2>2. \A j \in Keys : /\ wantBar'[j] = IF j = k THEN wantBar[k] \cup {c} ELSE wantBar[j]
                        /\ ownerBar'[j] = ownerBar[j]
    BY SMTT(30), <1>1 DEF Call, wantBar, ownerBar, Inside, TypeOK
  <2>3. /\ wantBar' = [j \in Keys |-> wantBar'[j]]
        /\ ownerBar' = [j \in Keys |-> ownerBar'[j]]
    BY Zenon DEF wantBar, ownerBar
  <2> QED
    BY <1>t, <2>1, <2>2, <2>3 DEF KM!Request
<1>2. ASSUME NEW c \in Callers, Cancel(c) PROVE [KM!KMNext]_(KM!kmVars)
  BY Zenon, <1>2, <1>s DEF Cancel, wantBar, ownerBar, Inside
<1>3. ASSUME NEW c \in Callers, LockRefused(c) PROVE KM!GiveUp(c, key[c])
  <2>1. c \in wantBar[key[c]] /\ c \notin ownerBar[key[c]]
    BY <1>3, <1>t DEF LockRefused, Inside, TypeOK
  <2> QED
    BY Zenon, <1>3, <1>t, <2>1, MappingMoves DEF LockRefused, KM!GiveUp, PCs, TypeOK
<1>4. ASSUME NEW c \in Callers, LockRegister(c) PROVE [KM!KMNext]_(KM!kmVars)
  BY SMTT(30), <1>4, <1>s DEF LockRegister, wantBar, ownerBar, Inside, TypeOK
\* The entry's channel is empty, so nobody is inside the key.
<1>5. ASSUME NEW c \in Callers, LockAcquire(c) PROVE KM!Grant(c, key[c])
  <2>1. c \in wantBar[key[c]]
    BY <1>5, <1>t DEF LockAcquire, TypeOK
  <2>2. ownerBar[key[c]] = {}
    <3> SUFFICES ASSUME NEW d \in Callers, Inside(d), key[d] = key[c] PROVE FALSE
      BY Zenon DEF ownerBar, TypeOK
    <3>1. pc[c] = "select" /\ locks[key[c]] = lwc[c] /\ lwc[c] \in Locks /\ ch[lwc[c]] = 0
      BY Zenon, <1>5 DEF LockAcquire, EntryInv
    <3>2. ch[lwc[d]] = 1
      BY Zenon DEF ChannelInv
    <3>3. CASE pc[d] \in {"acquired", "held"}
      BY SMTT(30), <3>1, <3>2, <3>3 DEF EntryInv
    <3>4. CASE pc[d] = "release"
      BY SMTT(30), <3>1, <3>2, <3>4, LockerAssumption DEF EntryInv
    <3> QED
      BY Zenon, <3>3, <3>4 DEF Inside
  <2> QED
    BY Zenon, <1>5, <1>t, <2>1, <2>2, MappingMoves DEF LockAcquire, KM!Grant, PCs, TypeOK
<1>6. ASSUME NEW c \in Callers, LockReturn(c) PROVE [KM!KMNext]_(KM!kmVars)
  BY SMTT(30), <1>6, <1>s DEF LockReturn, wantBar, ownerBar, Inside, TypeOK
<1>7. ASSUME NEW c \in Callers, LockAbort(c) PROVE [KM!KMNext]_(KM!kmVars)
  <2>1. CASE pc' = [pc EXCEPT ![c] = "drop"]
    BY SMTT(30), <1>7, <1>s, <2>1 DEF LockAbort, wantBar, ownerBar, Inside, TypeOK
  <2>2. CASE pc' = [pc EXCEPT ![c] = "idle"]
    <3>1. c \in wantBar[key[c]] /\ c \notin ownerBar[key[c]]
      BY Zenon, <1>7, <1>t DEF LockAbort, Inside, TypeOK
    <3>2. KM!GiveUp(c, key[c])
      BY Zenon, <1>7, <1>t, <2>2, <3>1, MappingMoves DEF LockAbort, KM!GiveUp, PCs, TypeOK
    <3> QED
      BY Zenon, <3>2 DEF KM!KMNext, TypeOK
  <2> QED
    BY Zenon, <1>7, <2>1, <2>2 DEF LockAbort
<1>8. ASSUME NEW c \in Callers, LockDrop(c) PROVE KM!GiveUp(c, key[c])
  <2>1. c \in wantBar[key[c]] /\ c \notin ownerBar[key[c]]
    BY <1>8, <1>t DEF LockDrop, Inside, TypeOK
  <2> QED
    BY Zenon, <1>8, <1>t, <2>1, MappingMoves DEF LockDrop, KM!GiveUp, PCs, TypeOK
<1>9. ASSUME NEW c \in Callers, Unlock(c) PROVE [KM!KMNext]_(KM!kmVars)
  <2>1. pc[c] = "held" /\ pc' = [pc EXCEPT ![c] = "release"] /\ key' = key
    BY Zenon, <1>9, LockerAssumption DEF Unlock, EntryInv
  <2> QED
    BY <1>s, <2>1 DEF wantBar, ownerBar, Inside, TypeOK
<1>10. ASSUME NEW c \in Callers, UnlockRelease(c) PROVE KM!Release(c, key[c])
  <2>1. c \notin wantBar[key[c]] /\ c \in ownerBar[key[c]]
    BY <1>10, <1>t DEF UnlockRelease, Inside, TypeOK
  <2> QED
    BY Zenon, <1>10, <1>t, <2>1, MappingMoves DEF UnlockRelease, KM!Release, PCs, TypeOK
<1> QED
  <2>1. \A c \in Callers : key[c] \in Keys
    BY Zenon DEF TypeOK
  <2> QED
    BY Zenon, <1>0, <1>1, <1>2, <1>3, <1>4, <1>5, <1>6, <1>7, <1>8, <1>9, <1>10, <2>1
       DEF Next, Step, KM!KMNext

\* The locker implements the abstract keyed mutex.
THEOREM LockerImplementsKeyedMutex == Spec => ImplementsKeyedMutex
<1>1. Init => KM!KMInit
  BY Zenon DEF Init, KM!KMInit, wantBar, ownerBar, Inside
<1> QED
  BY <1>1, LockerInvariant, RefinementStep, PTL DEF Spec, ImplementsKeyedMutex, KM!KMSpec
=============================================================================
