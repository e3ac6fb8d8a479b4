-------------------------- MODULE IPFailoverProofs --------------------------
(***************************************************************************)
(* The safety of the failover group for any number of machines, workers    *)
(* and faults.  A PATCH replaces the whole list of entries, so what is     *)
(* proved of the group is proved of every list that is on its way to it:   *)
(* the list a reconcile read and the list of a pending PATCH.              *)
(***************************************************************************)
EXTENDS IPFailover, FiniteSetTheorems, SequenceTheorems, TLAPS

-----------------------------------------------------------------------------
(***************************************************************************)
(* The inductive invariant.                                                *)
(***************************************************************************)
\* x is an IP that retrieveFailoverIPForMachine returned to m at some time.
RightIP(m, x) == IF m \in workers THEN x = WorkerIP ELSE x \in EndpointIPs /\ (moved \/ x = host)

SameRole(m, n) == m \in workers <=> n \in workers

\* A list has one entry at most for the workers, and one for the control plane unless its
\* machines have had different IPs; every entry has an IP of its machine.
GoodList(s) == /\ s \in Seq(Entries)
               /\ \A i, j \in DOMAIN s : /\ SameRole(s[i].nic, s[j].nic)
                                         /\ s[i].nic \in workers \/ OneIPForAll
                                         => i = j
               /\ \A i \in DOMAIN s : RightIP(s[i].nic, s[i].ip)

ListsInv == /\ GoodList(group)
            /\ \A m \in Machines : GoodList(config[m])
            /\ \A i \in DOMAIN patches : GoodList(patches[i].entries)
            /\ PatchesSerialised

Settled(m) == m \in workers \/ ~moved

NICSteps == {"nic", "nicPatch", "nicWait", "nicPending", "lock", "decide"}

\* A machine has its failover IP on the NIC before it looks at the group.
MachineInv(m) == /\ pc[m] \in NICSteps => RightIP(m, ip[m])
                 /\ pc[m] \in {"nicWait", "nicPending"} => nicReq[m].status # "none"
                 /\ nicReq[m].status # "none" /\ Settled(m) => failoverIP(m) \in nicReq[m].ips
                 /\ nicReq[m].status = "done" /\ Settled(m) => failoverIP(m) \in nicIPs[m]
                 /\ pc[m] \in {"lock", "decide"} /\ Settled(m) => failoverIP(m) \in nicIPs[m]
                 /\ m \in ready /\ Settled(m) => failoverIP(m) \in nicIPs[m]

FailoverInv == TypeOK /\ ListsInv /\ \A m \in Machines : MachineInv(m)

-----------------------------------------------------------------------------
(***************************************************************************)
(* Lists of entries.                                                       *)
(***************************************************************************)
LEMMA EmptyGood == GoodList(<<>>)
BY DEF GoodList

\* An entry of the machine's role has its NIC or its IP: reconcileIPFailoverGroup does
\* not overlook it.
LEMMA PeerRelevant ==
  ASSUME TypeOK, NEW s, GoodList(s), NEW m \in Machines, NEW x, RightIP(m, x),
         NEW i \in DOMAIN s, SameRole(s[i].nic, m), m \in workers \/ OneIPForAll
  PROVE  s[i].nic = m \/ s[i].ip = x
<1>1. s[i].nic \in Machines /\ RightIP(s[i].nic, s[i].ip)
  <2>1. s[i] \in Entries
    BY DEF GoodList
  <2> QED BY Zenon, <2>1 DEF GoodList, Entries
<1>2. CASE m \in workers \/ ~moved
  BY Zenon, <1>1, <1>2 DEF RightIP, SameRole
<1>3. CASE m \notin workers /\ Cardinality(Machines \ workers) = 1
  <2>1. IsFiniteSet(Machines \ workers)
    BY FailoverAssumption, FS_Difference, ZenonT(30)
  <2>2. PICK c : Machines \ workers = {c}
    BY <1>3, <2>1, FS_Singleton, ZenonT(30)
  <2>3. m \in {c} /\ s[i].nic \in {c}
    BY Zenon, <1>1, <1>3, <2>2 DEF SameRole
  <2> QED BY Zenon, <2>3
<1> QED BY Zenon, <1>2, <1>3 DEF OneIPForAll

LEMMA AppendGood ==
  ASSUME TypeOK, NEW s, GoodList(s), NEW m \in Machines, NEW x \in IPs, RightIP(m, x),
         \A i \in DOMAIN s : s[i].nic # m /\ s[i].ip # x
  PROVE  GoodList(Append(s, [ip |-> x, nic |-> m]))
<1> DEFINE e == [ip |-> x, nic |-> m]
           t == Append(s, e)
<1>1. e \in Entries /\ e.ip = x /\ e.nic = m
  BY Zenon DEF Entries
<1> HIDE DEF e
<1>2. s \in Seq(Entries) /\ t \in Seq(Entries) /\ DOMAIN t = 1..(Len(s) + 1) /\ DOMAIN s = 1..Len(s) /\ Len(s) \in Nat
  BY <1>1 DEF GoodList
<1>3. \A i \in DOMAIN t : t[i] = IF i = Len(s) + 1 THEN e ELSE s[i]
  BY <1>1, <1>2
<1>4. \A i \in DOMAIN t : i = Len(s) + 1 \/ i \in DOMAIN s
  BY <1>2
<1> HIDE DEF t
<1>5. ASSUME NEW i \in DOMAIN s, SameRole(s[i].nic, m), m \in workers \/ OneIPForAll
      PROVE  FALSE
  BY <1>5, PeerRelevant
<1>6. ASSUME NEW i \in DOMAIN t, NEW j \in DOMAIN t, SameRole(t[i].nic, t[j].nic),
             t[i].nic \in workers \/ OneIPForAll
      PROVE  i = j
  <2>1. CASE i = Len(s) + 1 /\ j # Len(s) + 1
    BY Zenon, <1>1, <1>3, <1>4, <1>5, <1>6, <2>1 DEF SameRole
  <2>2. CASE i # Len(s) + 1 /\ j = Len(s) + 1
    BY Zenon, <1>1, <1>3, <1>4, <1>5, <1>6, <2>2 DEF SameRole
  <2>3. CASE i # Len(s) + 1 /\ j # Len(s) + 1
    BY Zenon, <1>3, <1>4, <1>6, <2>3 DEF GoodList
  <2> QED BY <2>1, <2>2, <2>3
<1>7. \A i \in DOMAIN t : RightIP(t[i].nic, t[i].ip)
  BY Zenon, <1>1, <1>3, <1>4 DEF GoodList
<1>8. GoodList(t)
  BY Zenon, <1>2, <1>6, <1>7 DEF GoodList
<1> QED BY <1>8 DEF t, e

LEMMA ReplaceGood ==
  ASSUME NEW s, GoodList(s), NEW k \in DOMAIN s, NEW e \in Entries, RightIP(e.nic, e.ip),
         SameRole(e.nic, s[k].nic)
  PROVE  GoodList([s EXCEPT ![k] = e])
<1> DEFINE t == [s EXCEPT ![k] = e]
<1>2. s \in Seq(Entries) /\ t \in Seq(Entries) /\ DOMAIN t = DOMAIN s
  BY DEF GoodList
<1>3. \A i \in DOMAIN t : t[i] = IF i = k THEN e ELSE s[i]
  BY Zenon, <1>2
<1> HIDE DEF t
<1>4. \A i \in DOMAIN t : i \in DOMAIN s /\ (t[i].nic \in workers <=> s[i].nic \in workers)
  BY Zenon, <1>2, <1>3 DEF SameRole
<1>5. \A i, j \in DOMAIN t : SameRole(t[i].nic, t[j].nic) /\ (t[i].nic \in workers \/ OneIPForAll) => i = j
  BY Zenon, <1>4 DEF GoodList, SameRole
<1>6. \A i \in DOMAIN t : RightIP(t[i].nic, t[i].ip)
  BY Zenon, <1>2, <1>3 DEF GoodList
<1>7. GoodList(t)
  BY Zenon, <1>2, <1>5, <1>6 DEF GoodList
<1> QED BY <1>7 DEF t

LEMMA RemoveGood ==
  ASSUME NEW s, GoodList(s), NEW k \in DOMAIN s
  PROVE  GoodList(RemoveAt(s, k))
<1> DEFINE t == RemoveAt(s, k)
<1>1. s \in Seq(Entries) /\ Len(s) \in Nat /\ DOMAIN s = 1..Len(s) /\ k \in 1..Len(s)
  BY DEF GoodList
<1> DEFINE a == SubSeq(s, 1, k - 1)
           b == SubSeq(s, k + 1, Len(s))
<1>2. a \in Seq(Entries) /\ Len(a) = k - 1 /\ \A i \in 1..(k - 1) : a[i] = s[i]
  BY <1>1
<1>3. b \in Seq(Entries) /\ Len(b) = Len(s) - k /\ \A i \in 1..(Len(s) - k) : b[i] = s[i + k]
  BY <1>1
<1>4. t = a \o b
  BY Zenon DEF RemoveAt
<1> HIDE DEF a, b, t
<1>5. t \in Seq(Entries) /\ Len(t) = Len(s) - 1 /\ DOMAIN t = 1..(Len(s) - 1)
  <2>1. t \in Seq(Entries) /\ Len(t) = Len(a) + Len(b)
    BY <1>2, <1>3, <1>4, ConcatProperties, ZenonT(30)
  <2>2. Len(t) = Len(s) - 1
    BY <1>1, <1>2, <1>3, <2>1
  <2> QED BY <2>1, <2>2
<1>6. \A i \in DOMAIN t : t[i] = s[IF i < k THEN i ELSE i + 1]
  <2>1. \A i \in 1..(Len(a) + Len(b)) : t[i] = IF i <= Len(a) THEN a[i] ELSE b[i - Len(a)]
    BY <1>2, <1>3, <1>4, ConcatProperties, ZenonT(30)
  <2> SUFFICES ASSUME NEW i \in DOMAIN t
               PROVE  t[i] = s[IF i < k THEN i ELSE i + 1]
    OBVIOUS
  <2>2. i \in 1..(Len(a) + Len(b)) /\ i \in Nat
    BY <1>1, <1>2, <1>3, <1>5, SMTT(30)
  <2>3. CASE i < k
    BY SMTT(30), <1>1, <1>2, <2>1, <2>2, <2>3
  <2>4. CASE ~(i < k)
    <3>1. i - (k - 1) \in 1..(Len(s) - k) /\ i - (k - 1) + k = i + 1
      BY <1>1, <1>5, <2>2, <2>4, SMTT(30)
    <3>2. t[i] = b[i - (k - 1)]
      BY <1>1, <1>2, <2>1, <2>2, <2>4, SMTT(30)
    <3> QED BY SMTT(30), <1>3, <2>4, <3>1, <3>2
  <2> QED BY <2>3, <2>4
<1>7. \A i \in DOMAIN t : (IF i < k THEN i ELSE i + 1) \in DOMAIN s
  BY <1>1, <1>5
<1>8. \A i, j \in DOMAIN t : SameRole(t[i].nic, t[j].nic) /\ (t[i].nic \in workers \/ OneIPForAll) => i = j
  <2> SUFFICES ASSUME NEW i \in DOMAIN t, NEW j \in DOMAIN t, SameRole(t[i].nic, t[j].nic),
                      t[i].nic \in workers \/ OneIPForAll
               PROVE  i = j
    BY Zenon
  <2>1. (IF i < k THEN i ELSE i + 1) = (IF j < k THEN j ELSE j + 1)
    BY Zenon, <1>6, <1>7 DEF GoodList
  <2> QED BY SMTT(30), <1>1, <1>5, <2>1
<1>9. \A i \in DOMAIN t : RightIP(t[i].nic, t[i].ip)
  BY Zenon, <1>6, <1>7 DEF GoodList
<1>10. GoodList(t)
  BY Zenon, <1>5, <1>8, <1>9 DEF GoodList
<1> QED BY <1>10 DEF t

-----------------------------------------------------------------------------
(***************************************************************************)
(* What most steps have in common.                                         *)
(***************************************************************************)
Steps == {"idle"} \cup NormalSteps \cup DeleteSteps

LEMMA GoodListSame ==
  ASSUME UNCHANGED <<host, moved, workers>>, NEW s, GoodList(s)
  PROVE  GoodList(s)'
BY Zenon DEF GoodList, RightIP, SameRole, OneIPForAll

LEMMA ListsKept ==
  ASSUME ListsInv, UNCHANGED <<host, moved, workers, group, patches>>,
         \A n \in Machines : config'[n] \in {config[n], group, <<>>}
  PROVE  ListsInv'
<1>1. ASSUME NEW s, GoodList(s)
      PROVE  GoodList(s)'
  BY Zenon, <1>1, GoodListSame
<1>2. GoodList(group)' /\ PatchesSerialised'
  BY Zenon, <1>1 DEF ListsInv, PatchesSerialised
<1>3. \A i \in DOMAIN patches' : GoodList(patches[i].entries)'
  BY Zenon, <1>1 DEF ListsInv
<1>4. ASSUME NEW n \in Machines
      PROVE  GoodList(config[n])'
  <2>1. GoodList(config[n]) /\ GoodList(group) /\ GoodList(<<>>) /\ config'[n] \in {config[n], group, <<>>}
    BY Zenon, EmptyGood DEF ListsInv
  <2> QED BY <1>1, <2>1
<1> QED BY <1>2, <1>3, <1>4 DEF ListsInv

\* The steps that do not lead to the NIC or the group, and those of other machines.
LEMMA MachineKept ==
  ASSUME NEW n \in Machines, MachineInv(n), UNCHANGED <<host, moved, workers>>,
         nicReq'[n] = nicReq[n], nicIPs'[n] = nicIPs[n],
         n \in ready' => n \in ready,
         pc'[n] \notin NICSteps \/ (pc'[n] = pc[n] /\ ip'[n] = ip[n])
  PROVE  MachineInv(n)'
BY Zenon DEF MachineInv, RightIP, Settled, failoverIP, NICSteps

LEMMA MachinesKept ==
  ASSUME \A m \in Machines : MachineInv(m), UNCHANGED <<host, moved, workers, ready>>,
         \A n \in Machines : nicReq'[n] = nicReq[n] /\ nicIPs'[n] = nicIPs[n],
         \A n \in Machines : pc'[n] \notin NICSteps \/ (pc'[n] = pc[n] /\ ip'[n] = ip[n])
  PROVE  \A n \in Machines : MachineInv(n)'
BY Zenon, MachineKept

LEMMA LeaveType ==
  ASSUME TypeOK, NEW m \in Machines, NEW step \in Steps, Leave(m, step)
  PROVE  /\ pc' \in [Machines -> Steps] /\ lock' \in Machines \cup {None}
         /\ ip' \in [Machines -> IPs \cup {None}] /\ nicRead' \in [Machines -> SUBSET IPs]
         /\ config' \in [Machines -> Seq(Entries)]
         /\ mode' \in [Machines -> {"none", "remove", "swap"}]
         /\ waiting' \in [Machines -> {"none", "pending", "done", "failed"}]
         /\ pc'[m] = step /\ \A n \in Machines \ {m} : pc'[n] = pc[n] /\ ip'[n] = ip[n]
         /\ \A n \in Machines : config'[n] \in {config[n], <<>>}
<1>1. /\ pc' \in [Machines -> Steps] /\ lock' \in Machines \cup {None}
      /\ pc'[m] = step /\ \A n \in Machines \ {m} : pc'[n] = pc[n]
  BY Zenon DEF TypeOK, Leave, Goto, Steps
<1>2. /\ ip' \in [Machines -> IPs \cup {None}] /\ nicRead' \in [Machines -> SUBSET IPs]
      /\ \A n \in Machines \ {m} : ip'[n] = ip[n]
  BY Zenon DEF TypeOK, Leave
<1>3. config' \in [Machines -> Seq(Entries)] /\ \A n \in Machines : config'[n] \in {config[n], <<>>}
  <2>1. <<>> \in Seq(Entries)
    OBVIOUS
  <2> QED BY <2>1 DEF TypeOK, Leave
<1>4. /\ mode' \in [Machines -> {"none", "remove", "swap"}]
      /\ waiting' \in [Machines -> {"none", "pending", "done", "failed"}]
  BY Zenon DEF TypeOK, Leave
<1> QED BY <1>1, <1>2, <1>3, <1>4, SMTT(30)

NICPatches == [status : {"none", "pending", "done", "failed"}, ips : SUBSET IPs]

LEMMA FailoverIPRight ==
  ASSUME TypeOK, NEW m \in Machines
  PROVE  /\ RightIP(m, failoverIP(m)) /\ failoverIP(m) \in IPs
         /\ \A x : RightIP(m, x) => x \in IPs /\ (Settled(m) => x = failoverIP(m))
BY Zenon DEF TypeOK, RightIP, Settled, failoverIP, IPs

\* A step that ends with Leave and does not touch the group.
LEMMA LeaveKeeps ==
  ASSUME FailoverInv, NEW m \in Machines, NEW step \in Steps \ NICSteps,
         Leave(m, step), UNCHANGED <<cached, ready, nicIPs, nicReq, group, patches, hostVars>>,
         obj' \in [Machines -> ObjectStates], faults' \in Nat,
         curReq' \in [Machines -> {"none", "nic", "lan"}],
         srv' \in [Machines -> {"none", "up", "deleting", "gone"}]
  PROVE  FailoverInv'
<1> USE DEF FailoverInv
<1>1. TypeOK'
  BY Zenon, LeaveType DEF TypeOK, Steps, hostVars
<1>3. ListsInv'
  BY LeaveType, ListsKept, SMTT(30) DEF hostVars
<1>4. \A n \in Machines : MachineInv(n)'
  <2>1. \A n \in Machines : pc'[n] \notin NICSteps \/ (pc'[n] = pc[n] /\ ip'[n] = ip[n])
    <3>1. pc'[m] = step /\ \A n \in Machines \ {m} : pc'[n] = pc[n] /\ ip'[n] = ip[n]
      BY LeaveType, ZenonT(30)
    <3> QED BY Zenon, <3>1
  <2> QED BY Zenon, <2>1, MachinesKept DEF hostVars
<1> QED BY <1>1, <1>3, <1>4, SMTT(30)

\* A step that leaves the lists, the NICs and the machines' marks alone.
LEMMA QuietKeeps ==
  ASSUME FailoverInv, TypeOK', UNCHANGED <<ready, nicIPs, nicReq, group, patches, hostVars>>,
         \A n \in Machines : config'[n] \in {config[n], group, <<>>},
         \A n \in Machines : pc'[n] \notin NICSteps \/ (pc'[n] = pc[n] /\ ip'[n] = ip[n])
  PROVE  FailoverInv'
<1> USE DEF FailoverInv
<1>3. ListsInv'
  BY Zenon, ListsKept DEF hostVars
<1>4. \A n \in Machines : MachineInv(n)'
  BY Zenon, MachinesKept DEF hostVars
<1> QED BY <1>3, <1>4

-----------------------------------------------------------------------------
(***************************************************************************)
(* One lemma per action.                                                   *)
(***************************************************************************)
LEMMA StartReconcileKeeps ==
  ASSUME FailoverInv, NEW m \in Machines, StartReconcile(m)
  PROVE  FailoverInv'
<1> USE DEF FailoverInv
<1>1. UNCHANGED <<obj, cached, ready, nicRead, config, mode, waiting, lock, srv, nicIPs, nicReq, group, patches, host, moved, workers, faults>>
  BY Zenon DEF StartReconcile, objVars, cloudVars, hostVars
<1>2. /\ pc' \in [Machines -> Steps] /\ pc'[m] \in {"idle", "nic", "countD"}
      /\ \A n \in Machines \ {m} : pc'[n] = pc[n]
  <2>1. PICK step \in {"idle", "nic", "countD"} : Goto(m, step)
    BY Zenon DEF StartReconcile, checkRequestStates
  <2>2. step \in Steps
    BY Zenon DEF Steps, NormalSteps, DeleteSteps
  <2> QED BY Zenon, <2>1, <2>2 DEF Goto, TypeOK, Steps
<1>3. curReq' \in [Machines -> {"none", "nic", "lan"}]
  BY Zenon DEF StartReconcile, checkRequestStates, TypeOK
<1>4. RightIP(m, failoverIP(m)) /\ failoverIP(m) \in IPs
  BY Zenon, FailoverIPRight
<1>5. /\ ip' \in [Machines -> IPs \cup {None}] /\ \A n \in Machines \ {m} : ip'[n] = ip[n]
      /\ pc'[m] = "nic" => ip'[m] = failoverIP(m)
  BY Zenon, <1>4 DEF StartReconcile, TypeOK
<1>6. TypeOK'
  BY Zenon, <1>1, <1>2, <1>3, <1>5 DEF TypeOK, Steps
<1>7. ListsInv'
  BY Zenon, <1>1, ListsKept
<1>8. ASSUME NEW n \in Machines
      PROVE  MachineInv(n)'
  <2>1. MachineInv(n)
    OBVIOUS
  <2>2. CASE n = m
    <3>1. RightIP(m, failoverIP(m))'
      BY Zenon, <1>1, <1>4 DEF RightIP, failoverIP
    <3> QED BY ZenonT(30), <1>1, <1>2, <1>5, <2>1, <2>2, <3>1 DEF MachineInv, Settled, failoverIP, NICSteps
  <2>3. CASE n # m
    BY ZenonT(30), <1>1, <1>2, <1>5, <2>1, <2>3, MachineKept
  <2> QED BY <2>2, <2>3
<1> QED BY Zenon, <1>6, <1>7, <1>8

LEMMA ReadNICKeeps ==
  ASSUME FailoverInv, NEW m \in Machines, ReadNIC(m)
  PROVE  FailoverInv'
<1> USE DEF FailoverInv
<1>1. UNCHANGED <<obj, cached, ready, curReq, ip, config, mode, waiting, lock, srv, nicIPs, nicReq, group, patches, host, moved, workers, faults>>
  BY Zenon DEF ReadNIC, objVars, cloudVars, hostVars
<1>2. /\ pc' \in [Machines -> Steps] /\ \A n \in Machines \ {m} : pc'[n] = pc[n]
      /\ pc'[m] = IF ip[m] \in nicIPs[m] THEN "lock" ELSE "nicPatch"
  BY ZenonT(30) DEF ReadNIC, Goto, TypeOK, Steps, NormalSteps
<1>3. pc[m] = "nic" /\ MachineInv(m) /\ RightIP(m, ip[m])
  BY Zenon DEF ReadNIC, MachineInv, NICSteps
<1>4. Settled(m) => ip[m] = failoverIP(m)
  BY Zenon, <1>3, FailoverIPRight
<1>5. nicRead' \in [Machines -> SUBSET IPs]
  <2>1. nicIPs[m] \in SUBSET IPs
    BY Zenon DEF TypeOK
  <2> QED BY Zenon, <2>1 DEF ReadNIC, TypeOK
<1>6. TypeOK'
  BY Zenon, <1>1, <1>2, <1>5 DEF TypeOK, Steps
<1>7. ListsInv'
  BY Zenon, <1>1, ListsKept
<1>8. ASSUME NEW n \in Machines
      PROVE  MachineInv(n)'
  <2>1. MachineInv(n)
    OBVIOUS
  <2>2. CASE n = m
    BY Zenon, <1>1, <1>2, <1>3, <1>4, <2>1, <2>2 DEF MachineInv, RightIP, Settled, failoverIP, NICSteps
  <2>3. CASE n # m
    BY Zenon, <1>1, <1>2, <2>1, <2>3, MachineKept
  <2> QED BY <2>2, <2>3
<1> QED BY Zenon, <1>6, <1>7, <1>8

LEMMA PatchNICKeeps ==
  ASSUME FailoverInv, NEW m \in Machines, PatchNIC(m)
  PROVE  FailoverInv'
<1> USE DEF FailoverInv
<1>1. UNCHANGED <<obj, cached, ready, curReq, ip, config, mode, waiting, lock, srv, nicIPs, group, patches, host, moved, workers, faults>>
  BY Zenon DEF PatchNIC, objVars, hostVars
<1>2. /\ pc' \in [Machines -> Steps] /\ \A n \in Machines \ {m} : pc'[n] = pc[n]
      /\ pc'[m] = IF nicReq[m].status = "pending" THEN "nicPending" ELSE "nicWait"
  BY ZenonT(30) DEF PatchNIC, Goto, TypeOK, Steps, NormalSteps
<1>3. pc[m] = "nicPatch" /\ MachineInv(m) /\ RightIP(m, ip[m])
  BY Zenon DEF PatchNIC, MachineInv, NICSteps
<1>4. ip[m] \in IPs /\ (Settled(m) => ip[m] = failoverIP(m))
  BY Zenon, <1>3, FailoverIPRight
<1>5. nicRead' \in [Machines -> SUBSET IPs]
  BY Zenon DEF PatchNIC, TypeOK
<1>6. /\ nicReq' \in [Machines -> NICPatches]
      /\ \A n \in Machines \ {m} : nicReq'[n] = nicReq[n]
      /\ \/ nicReq'[m] = nicReq[m] /\ nicReq[m].status = "pending"
         \/ nicReq'[m].status = "pending" /\ ip[m] \in nicReq'[m].ips
  <2>1. [status |-> "pending", ips |-> nicRead[m] \cup {ip[m]}] \in NICPatches
    BY Zenon, <1>4 DEF NICPatches, TypeOK
  <2>2. nicReq \in [Machines -> NICPatches]
    BY Zenon DEF TypeOK, NICPatches
  <2>3. CASE nicReq[m].status = "pending"
    BY Zenon, <2>2, <2>3 DEF PatchNIC
  <2>4. CASE nicReq[m].status # "pending"
    <3>1. nicReq' = [nicReq EXCEPT ![m] = [status |-> "pending", ips |-> nicRead[m] \cup {ip[m]}]]
      BY Zenon, <2>4 DEF PatchNIC
    <3>2. nicReq'[m] = [status |-> "pending", ips |-> nicRead[m] \cup {ip[m]}]
      BY Zenon, <2>2, <3>1
    <3>3. nicReq'[m].status = "pending" /\ ip[m] \in nicReq'[m].ips
      <4> HIDE DEF FailoverInv
      <4> QED BY <3>2
    <3>4. nicReq' \in [Machines -> NICPatches] /\ \A n \in Machines \ {m} : nicReq'[n] = nicReq[n]
      BY Zenon, <2>1, <2>2, <3>1
    <3> QED BY Zenon, <3>3, <3>4
  <2> QED BY <2>3, <2>4
<1>7. TypeOK'
  BY Zenon, <1>1, <1>2, <1>5, <1>6 DEF TypeOK, Steps, NICPatches
<1>8. ListsInv'
  BY ZenonT(30), <1>1, ListsKept
<1>9. ASSUME NEW n \in Machines
      PROVE  MachineInv(n)'
  <2>1. MachineInv(n)
    OBVIOUS
  <2>2. CASE n = m
    BY ZenonT(30), <1>1, <1>2, <1>3, <1>4, <1>6, <2>1, <2>2 DEF MachineInv, RightIP, Settled, failoverIP, NICSteps
  <2>3. CASE n # m
    BY ZenonT(30), <1>1, <1>2, <1>6, <2>1, <2>3, MachineKept
  <2> QED BY <2>2, <2>3
<1> QED BY Zenon, <1>7, <1>8, <1>9

\* The PATCH that is done added the IP of the reconcile, unless the endpoint has moved.
LEMMA AwaitNICKeeps ==
  ASSUME FailoverInv, NEW m \in Machines, AwaitNIC(m)
  PROVE  FailoverInv'
<1> USE DEF FailoverInv
<1>1. UNCHANGED <<obj, cached, ready, srv, nicIPs, nicReq, group, patches, hostVars, faults>>
  BY Zenon DEF AwaitNIC, objVars, cloudVars
<1>2. curReq' \in [Machines -> {"none", "nic", "lan"}]
  BY ZenonT(30) DEF AwaitNIC, TypeOK
<1>3. pc[m] \in {"nicWait", "nicPending"} /\ MachineInv(m) /\ RightIP(m, ip[m])
  BY Zenon DEF AwaitNIC, MachineInv, NICSteps
<1>4. CASE nicReq[m].status = "done" /\ Goto(m, "lock") /\ UNCHANGED <<localVars, lock>>
  <2>1. UNCHANGED <<ip, nicRead, config, mode, waiting, lock, host, moved, workers>>
    BY Zenon, <1>1, <1>4 DEF localVars, hostVars
  <2>2. /\ pc' \in [Machines -> Steps] /\ \A n \in Machines \ {m} : pc'[n] = pc[n]
        /\ pc'[m] = "lock"
    BY Zenon, <1>4 DEF Goto, TypeOK, Steps, NormalSteps
  <2>3. TypeOK'
    BY Zenon, <1>1, <1>2, <2>1, <2>2 DEF TypeOK, Steps
  <2>4. ListsInv'
    BY ZenonT(30), <1>1, <2>1, ListsKept
  <2>5. ASSUME NEW n \in Machines
        PROVE  MachineInv(n)'
    <3>1. MachineInv(n)
      OBVIOUS
    <3>2. CASE n = m
      BY ZenonT(30), <1>1, <1>3, <1>4, <2>1, <2>2, <3>1, <3>2 DEF MachineInv, RightIP, Settled, failoverIP, NICSteps
    <3>3. CASE n # m
      BY ZenonT(30), <1>1, <2>1, <2>2, <3>1, <3>3, MachineKept
    <3> QED BY <3>2, <3>3
  <2> QED BY Zenon, <2>3, <2>4, <2>5
<1>5. CASE Leave(m, "idle")
  <2>1. "idle" \in Steps \ NICSteps
    BY Zenon DEF Steps, NICSteps
  <2> QED BY <1>1, <1>2, <1>5, <2>1, LeaveKeeps, ZenonT(30) DEF TypeOK
<1> QED BY Zenon, <1>4, <1>5 DEF AwaitNIC, Return

LEMMA LockLANKeeps ==
  ASSUME FailoverInv, NEW m \in Machines, LockLAN(m)
  PROVE  FailoverInv'
<1> USE DEF FailoverInv
<1>1. UNCHANGED <<obj, cached, ready, curReq, ip, nicRead, mode, waiting, srv, nicIPs, nicReq, group, patches, host, moved, workers, faults>>
  BY Zenon DEF LockLAN, objVars, cloudVars, hostVars
<1>2. /\ pc' \in [Machines -> Steps] /\ \A n \in Machines \ {m} : pc'[n] = pc[n]
      /\ pc[m] = "lock" \/ pc'[m] = "decideD"
      /\ pc'[m] \in {"decide", "decideD"}
  BY Zenon DEF LockLAN, Goto, TypeOK, Steps, NormalSteps, DeleteSteps
<1>3. /\ config' \in [Machines -> Seq(Entries)]
      /\ \A n \in Machines : config'[n] \in {config[n], group, <<>>}
  BY Zenon DEF LockLAN, TypeOK
<1>4. TypeOK'
  BY Zenon, <1>1, <1>2, <1>3 DEF TypeOK, Steps, LockLAN
<1>5. ListsInv'
  BY Zenon, <1>1, <1>3, ListsKept
<1>6. ASSUME NEW n \in Machines
      PROVE  MachineInv(n)'
  <2>1. MachineInv(n)
    OBVIOUS
  <2>2. CASE n = m
    BY Zenon, <1>1, <1>2, <2>1, <2>2 DEF MachineInv, RightIP, Settled, failoverIP, NICSteps
  <2>3. CASE n # m
    BY Zenon, <1>1, <1>2, <2>1, <2>3, MachineKept
  <2> QED BY <2>2, <2>3
<1> QED BY Zenon, <1>4, <1>5, <1>6

\* The LAN is patched with a good list when no other PATCH is pending.
LEMMA PatchLANKeeps ==
  ASSUME FailoverInv, NEW m \in Machines, NEW step \in {"wait", "waitD"}, patches = <<>>,
         NEW entries, GoodList(entries), PatchLAN(m, entries, step),
         UNCHANGED <<obj, cached, ready, curReq, srv, nicIPs, nicReq, group, hostVars, faults>>
  PROVE  FailoverInv'
<1> USE DEF FailoverInv
<1> DEFINE patch == [entries |-> entries, by |-> m]
<1>1. UNCHANGED <<ip, nicRead, config, mode, lock, host, moved, workers>>
  BY Zenon DEF PatchLAN, hostVars
<1>2. /\ pc' \in [Machines -> Steps] /\ \A n \in Machines \ {m} : pc'[n] = pc[n]
      /\ pc'[m] = step
  BY Zenon DEF PatchLAN, Goto, TypeOK, Steps, NormalSteps, DeleteSteps
<1>3. waiting' \in [Machines -> {"none", "pending", "done", "failed"}]
  BY Zenon DEF PatchLAN, TypeOK
<1>4. patch \in [entries : Seq(Entries), by : Machines] /\ patch.entries = entries
  BY Zenon DEF GoodList
<1>5. /\ patches' \in Seq([entries : Seq(Entries), by : Machines])
      /\ DOMAIN patches' = {1} /\ Len(patches') = 1 /\ patches'[1] = patch
  <2>1. patches' = <<patch>>
    BY SMTT(30) DEF PatchLAN
  <2> HIDE DEF patch
  <2> QED BY <1>4, <2>1
<1>6. TypeOK'
  BY <1>1, <1>2, <1>3, <1>5, SMTT(30) DEF TypeOK, Steps
<1>8. ListsInv'
  <2>1. ASSUME NEW s, GoodList(s)
        PROVE  GoodList(s)'
    BY Zenon, <1>1, <2>1, GoodListSame
  <2>2. GoodList(group)' /\ (\A n \in Machines : GoodList(config[n])')
    BY <1>1, <2>1, SMTT(30) DEF ListsInv
  <2>3. \A i \in DOMAIN patches' : GoodList(patches[i].entries)'
    BY <1>4, <1>5, <2>1, SMTT(30)
  <2>4. PatchesSerialised'
    BY <1>5, SMTT(30) DEF PatchesSerialised
  <2> QED BY <2>2, <2>3, <2>4, SMTT(30) DEF ListsInv
<1>9. \A n \in Machines : MachineInv(n)'
  <2>1. \A n \in Machines : pc'[n] \notin NICSteps \/ (pc'[n] = pc[n] /\ ip'[n] = ip[n])
    BY Zenon, <1>1, <1>2 DEF NICSteps
  <2> QED BY Zenon, <1>1, <2>1, MachinesKept
<1> QED BY <1>6, <1>8, <1>9, SMTT(30)

LEMMA FaultType ==
  ASSUME TypeOK, Fault
  PROVE  faults' \in Nat
BY DEF TypeOK, Fault

\* A set of positions that is not empty has a first one.
LEMMA LeastNatural ==
  ASSUME NEW S \in SUBSET Nat, S # {}
  PROVE  \E i \in S : \A j \in S : i <= j
<1> DEFINE R == OpToRel(<, Nat)
<1>1. IsWellFoundedOn(R, Nat)
  BY NatLessThanWellFounded, ZenonT(30)
<1>2. \A i, j \in Nat : <<j, i>> \notin R => i <= j
  BY DEF OpToRel
<1> HIDE DEF R
<1>3. PICK i \in S : \A j \in S : <<j, i>> \notin R
  BY <1>1, WFMin, ZenonT(30)
<1> QED BY <1>2, <1>3, ZenonT(30)

LEMMA FirstIn ==
  ASSUME NEW S \in SUBSET Nat, S # {}
  PROVE  First(S) \in S
<1>1. PICK i \in S : \A j \in S : i <= j
  BY LeastNatural, ZenonT(30)
<1> QED BY Zenon, <1>1 DEF First

LEMMA ReconcileIPFailoverGroupKeeps ==
  ASSUME FailoverInv, NEW m \in Machines, ReconcileIPFailoverGroup(m)
  PROVE  FailoverInv'
<1> USE DEF FailoverInv
<1> DEFINE own == [ip |-> ip[m], nic |-> m]
           first == First(Relevant(m))
<1>1. UNCHANGED <<obj, cached, curReq, srv, nicIPs, nicReq, group, host, moved, workers, faults>> /\ pc[m] = "decide"
  BY SMTT(30) DEF ReconcileIPFailoverGroup, hostVars
<1>2. MachineInv(m) /\ RightIP(m, ip[m]) /\ GoodList(config[m])
  BY Zenon, <1>1 DEF MachineInv, ListsInv, NICSteps
<1>3. own \in Entries /\ own.ip = ip[m] /\ own.nic = m /\ ip[m] \in IPs
  BY Zenon, <1>2, FailoverIPRight DEF Entries
<1>4. CASE Return(m) /\ UNCHANGED <<ready, patches>>
  <2>1. "idle" \in Steps \ NICSteps
    BY Zenon DEF Steps, NICSteps
  <2> QED BY <1>1, <1>4, <2>1, LeaveKeeps, ZenonT(30) DEF Return, TypeOK, hostVars
<1>5. CASE patches = <<>> /\ Relevant(m) = {} /\ PatchLAN(m, Append(config[m], own), "wait") /\ UNCHANGED ready
  <2>1. \A i \in DOMAIN config[m] : config[m][i].nic # m /\ config[m][i].ip # ip[m]
    BY <1>5, SMTT(30) DEF Relevant
  <2>2. GoodList(Append(config[m], own))
    BY <1>2, <1>3, <2>1, AppendGood, SMTT(30)
  <2> QED BY <1>1, <1>5, <2>2, PatchLANKeeps, SMTT(30) DEF hostVars
\* FinalizeMachineProvisioning: the NIC has the IP, see MachineInv.
<1>6. CASE Return(m) /\ ready' = ready \cup {m} /\ UNCHANGED patches
  <2>1. "idle" \in Steps
    BY Zenon DEF Steps
  <2>2. TypeOK'
    BY <1>1, <1>6, <2>1, LeaveType, SMTT(30) DEF TypeOK, Return, Steps
  <2>4. ListsInv'
    BY <1>1, <1>6, <2>1, LeaveType, ListsKept, SMTT(30) DEF Return
  <2>5. Settled(m) => failoverIP(m) \in nicIPs[m]
    BY Zenon, <1>1, <1>2 DEF MachineInv
  <2>6. /\ pc'[m] = "idle" /\ \A n \in Machines \ {m} : pc'[n] = pc[n] /\ ip'[n] = ip[n]
    BY <1>6, <2>1, LeaveType, SMTT(30) DEF Return
  <2>7. ASSUME NEW n \in Machines
        PROVE  MachineInv(n)'
    <3>1. MachineInv(n)
      OBVIOUS
    <3>2. CASE n = m
      BY ZenonT(30), <1>1, <1>6, <2>5, <2>6, <3>1, <3>2 DEF MachineInv, Settled, failoverIP, NICSteps
    <3>3. CASE n # m
      BY Zenon, <1>1, <1>6, <2>6, <3>1, <3>3, MachineKept
    <3> QED BY <3>2, <3>3
  <2> QED BY Zenon, <2>2, <2>4, <2>7
<1>7. CASE /\ patches = <<>> /\ Relevant(m) # {} /\ config[m][first].ip # ip[m]
           /\ PatchLAN(m, [config[m] EXCEPT ![first] = own], "wait") /\ UNCHANGED ready
  <2>1. first \in Relevant(m)
    <3>1. Relevant(m) \subseteq Nat
      BY <1>2 DEF Relevant, GoodList
    <3> QED BY ZenonT(30), <1>7, <3>1, FirstIn
  <2> HIDE DEF first
  <2>2. first \in DOMAIN config[m] /\ config[m][first].nic = m
    BY <1>7, <2>1, SMTT(30) DEF Relevant
  <2>3. GoodList([config[m] EXCEPT ![first] = own])
    <3>1. SameRole(own.nic, config[m][first].nic) /\ RightIP(own.nic, own.ip)
      BY Zenon, <1>2, <1>3, <2>2 DEF SameRole
    <3> QED BY ZenonT(30), <1>2, <1>3, <2>2, <3>1, ReplaceGood
  <2> QED BY <1>1, <1>7, <2>3, PatchLANKeeps, SMTT(30) DEF hostVars
<1> QED BY <1>4, <1>5, <1>6, <1>7, SMTT(30) DEF ReconcileIPFailoverGroup, isLANPatchPending

LEMMA AwaitLANKeeps ==
  ASSUME FailoverInv, NEW m \in Machines, AwaitLAN(m)
  PROVE  FailoverInv'
<1>1. "idle" \in Steps \ NICSteps
  BY Zenon DEF Steps, NICSteps
<1>2. curReq' \in [Machines -> {"none", "nic", "lan"}]
  BY Zenon DEF AwaitLAN, FailoverInv, TypeOK
<1>3. /\ UNCHANGED <<obj, cached, ready, srv, nicIPs, nicReq, group, patches, hostVars, faults>>
      /\ Leave(m, "idle")
  BY Zenon DEF AwaitLAN, Return, objVars, cloudVars
<1> QED BY <1>1, <1>2, <1>3, LeaveKeeps, ZenonT(30) DEF FailoverInv, TypeOK

LEMMA CountMachinesKeeps ==
  ASSUME FailoverInv, NEW m \in Machines, CountMachines(m)
  PROVE  FailoverInv'
<1>1. UNCHANGED <<obj, cached, ready, curReq, ip, nicRead, config, waiting, lock, srv, nicIPs, nicReq, group, patches, hostVars, faults>>
  BY ZenonT(30) DEF CountMachines, objVars, cloudVars
<1>2. /\ pc' \in [Machines -> Steps] /\ pc'[m] \in {"serverD", "lockD"}
      /\ \A n \in Machines \ {m} : pc'[n] = pc[n]
  BY Zenon DEF CountMachines, Goto, FailoverInv, TypeOK, Steps, DeleteSteps
<1>3. mode' \in [Machines -> {"none", "remove", "swap"}]
  BY Zenon DEF CountMachines, FailoverInv, TypeOK
<1>4. TypeOK'
  BY <1>1, <1>2, <1>3, SMTT(30) DEF FailoverInv, TypeOK, Steps, hostVars
<1>5. \A n \in Machines : pc'[n] \notin NICSteps \/ (pc'[n] = pc[n] /\ ip'[n] = ip[n])
  BY Zenon, <1>1, <1>2 DEF NICSteps
<1> QED BY <1>1, <1>4, <1>5, QuietKeeps, ZenonT(30)

\* The entry of a machine that goes is handed to a machine with the same failover IP.
LEMMA HandOverGood ==
  ASSUME FailoverInv, NEW m \in Machines, NEW s, GoodList(s), NEW k \in DOMAIN s, s[k].nic = m,
         NEW target \in Peers(m)
  PROVE  GoodList([s EXCEPT ![k].nic = target])
<1> USE DEF FailoverInv
<1> DEFINE e == [s[k] EXCEPT !.nic = target]
<1>1. workers \subseteq Machines
  BY Zenon, FailoverAssumption DEF TypeOK
<1>2. target \in Machines /\ SameRole(target, m)
  BY Zenon, <1>1 DEF Peers, SameRole
<1>3. s[k] \in Entries /\ RightIP(m, s[k].ip) /\ s \in Seq(Entries)
  BY DEF GoodList
<1>4. e \in Entries /\ e.nic = target /\ e.ip = s[k].ip
  BY Zenon, <1>2, <1>3 DEF Entries
<1>5. RightIP(e.nic, e.ip) /\ SameRole(e.nic, s[k].nic)
  BY Zenon, <1>2, <1>3, <1>4 DEF RightIP, SameRole
<1>6. GoodList([s EXCEPT ![k] = e])
  <2> HIDE DEF e
  <2> QED BY Zenon, <1>4, <1>5, ReplaceGood
<1>7. [s EXCEPT ![k].nic = target] = [s EXCEPT ![k] = e]
  OBVIOUS
<1> QED BY <1>6, <1>7

LEMMA ReleaseFailoverGroupKeeps ==
  ASSUME FailoverInv, NEW m \in Machines, ReleaseFailoverGroup(m)
  PROVE  FailoverInv'
<1> USE DEF FailoverInv
<1> DEFINE mine == First(Own(m))
<1>1. UNCHANGED <<obj, cached, ready, curReq, srv, nicIPs, nicReq, group, hostVars, faults>>
  BY Zenon DEF ReleaseFailoverGroup, objVars
<1>2. GoodList(config[m])
  BY Zenon DEF ListsInv
<1>3. Own(m) # {} => mine \in DOMAIN config[m] /\ config[m][mine].nic = m
  <2>1. Own(m) \in SUBSET Nat
    BY <1>2 DEF Own, GoodList
  <2>2. Own(m) # {} => mine \in Own(m)
    BY Zenon, <2>1, FirstIn
  <2> QED BY Zenon, <2>2 DEF Own
<1>4. CASE UNCHANGED patches /\ \E step \in {"idle", "serverD"} : Leave(m, step)
  <2>1. {"idle", "serverD"} \subseteq Steps \ NICSteps
    BY Zenon DEF Steps, DeleteSteps, NICSteps
  <2> QED BY <1>1, <1>4, <2>1, LeaveKeeps, ZenonT(30) DEF TypeOK
<1>5. CASE patches = <<>> /\ Own(m) # {} /\ PatchLAN(m, RemoveAt(config[m], mine), "waitD")
  BY <1>1, <1>2, <1>3, <1>5, RemoveGood, PatchLANKeeps, ZenonT(30)
<1>6. CASE patches = <<>> /\ Own(m) # {}
           /\ \E target \in Listed(m) : PatchLAN(m, [config[m] EXCEPT ![mine].nic = target], "waitD")
  <2>1. PICK target \in Listed(m) : PatchLAN(m, [config[m] EXCEPT ![mine].nic = target], "waitD")
    BY <1>6, ZenonT(30)
  <2> HIDE DEF mine
  <2>2. GoodList([config[m] EXCEPT ![mine].nic = target])
    BY <1>2, <1>3, <1>6, HandOverGood, SMTT(30) DEF Listed
  <2> QED BY <1>1, <1>6, <2>1, <2>2, PatchLANKeeps, SMTT(30)
<1>7. CASE isLANPatchPending
  BY <1>4, <1>7, SMTT(30) DEF ReleaseFailoverGroup, Return
<1>8. CASE patches = <<>> /\ RemoveNIC(m)
  BY <1>4, <1>5, <1>8, SMTT(30) DEF RemoveNIC, Skip
<1>9. CASE patches = <<>> /\ \E target : SwapNIC(m, target)
  BY <1>4, <1>6, <1>9, ZenonT(30) DEF SwapNIC, Skip, Return
<1> QED BY <1>7, <1>8, <1>9, SMTT(30) DEF ReleaseFailoverGroup, isLANPatchPending

LEMMA DeleteServerKeeps ==
  ASSUME FailoverInv, NEW m \in Machines, DeleteServer(m)
  PROVE  FailoverInv'
<1>1. "idle" \in Steps \ NICSteps
  BY Zenon DEF Steps, NICSteps
<1>2. srv' \in [Machines -> {"none", "up", "deleting", "gone"}] /\ obj' \in [Machines -> ObjectStates]
  BY Zenon DEF DeleteServer, FailoverInv, TypeOK, ObjectStates
<1>3. /\ UNCHANGED <<cached, ready, curReq, nicIPs, nicReq, group, patches, hostVars, faults>>
      /\ Leave(m, "idle")
  BY Zenon DEF DeleteServer, Return
<1> QED BY <1>1, <1>2, <1>3, LeaveKeeps, ZenonT(30) DEF FailoverInv, TypeOK

LEMMA ErrorsKeep ==
  ASSUME FailoverInv, NEW m \in Machines, StepError(m) \/ WaitError(m)
  PROVE  FailoverInv'
<1>1. "idle" \in Steps \ NICSteps
  BY Zenon DEF Steps, NICSteps
<1>2. curReq' \in [Machines -> {"none", "nic", "lan"}]
  BY ZenonT(30) DEF StepError, WaitError, FailoverInv, TypeOK
<1>3. /\ UNCHANGED <<obj, cached, ready, srv, nicIPs, nicReq, group, patches, hostVars>>
      /\ Leave(m, "idle") /\ Fault
  BY Zenon DEF StepError, WaitError, Return, objVars, cloudVars
<1>4. faults' \in Nat
  BY Zenon, <1>3, FaultType DEF FailoverInv
<1> QED BY <1>1, <1>2, <1>3, <1>4, LeaveKeeps, ZenonT(30) DEF FailoverInv, TypeOK

LEMMA CrashKeeps ==
  ASSUME FailoverInv, Crash
  PROVE  FailoverInv'
<1>1. UNCHANGED <<obj, ready, curReq, srv, nicIPs, nicReq, group, patches, hostVars>>
  BY Zenon DEF Crash, cloudVars
<1>2. \A n \in Machines : pc'[n] = "idle" /\ pc'[n] \notin NICSteps /\ config'[n] = <<>>
  BY Zenon DEF Crash, NICSteps
<1>3. faults' \in Nat
  BY Zenon, FaultType DEF FailoverInv, Crash
<1>4. pc' \in [Machines -> Steps] /\ config' \in [Machines -> Seq(Entries)]
  <2>1. <<>> \in Seq(Entries) /\ "idle" \in Steps
    BY SMTT(30) DEF Steps
  <2> QED BY <2>1 DEF Crash
<1>5. /\ ip' \in [Machines -> IPs \cup {None}] /\ nicRead' \in [Machines -> SUBSET IPs] /\ lock' \in Machines \cup {None}
      /\ mode' \in [Machines -> {"none", "remove", "swap"}]
      /\ waiting' \in [Machines -> {"none", "pending", "done", "failed"}]
      /\ cached' \in [Machines -> ObjectStates]
  BY Zenon DEF Crash, FailoverInv, TypeOK
<1>6. TypeOK'
  BY <1>1, <1>3, <1>4, <1>5, SMTT(30) DEF FailoverInv, TypeOK, Steps, hostVars
<1> QED BY <1>1, <1>2, <1>6, QuietKeeps, ZenonT(30)

LEMMA EventsKeep ==
  ASSUME FailoverInv, NEW m \in Machines,
         CacheSync(m) \/ CreateMachine(m) \/ DeleteMachine(m) \/ ServerRequest(m)
  PROVE  FailoverInv'
<1>1. UNCHANGED <<ready, curReq, pc, ip, nicRead, config, mode, waiting, lock, nicIPs, nicReq, group, patches, hostVars>>
  BY Zenon DEF CacheSync, CreateMachine, DeleteMachine, ServerRequest, objVars, cloudVars, localVars
<1>2. obj' \in [Machines -> ObjectStates] /\ cached' \in [Machines -> ObjectStates]
  BY ZenonT(30) DEF CacheSync, CreateMachine, DeleteMachine, ServerRequest, objVars, FailoverInv, TypeOK, ObjectStates
<1>3. srv' \in [Machines -> {"none", "up", "deleting", "gone"}]
  <2>1. CASE ServerRequest(m)
    <3>1. PICK state \in {"up", "gone"} : srv' = [srv EXCEPT ![m] = state]
      BY <2>1, Zenon DEF ServerRequest
    <3> QED BY <3>1 DEF FailoverInv, TypeOK
  <2>2. CASE UNCHANGED srv
    BY <2>2, SMTT(30) DEF FailoverInv, TypeOK
  <2> QED BY <2>1, <2>2 DEF CacheSync, CreateMachine, DeleteMachine, cloudVars
<1>4. faults' \in Nat
  BY FaultType, SMTT(30) DEF CacheSync, CreateMachine, DeleteMachine, ServerRequest, FailoverInv, TypeOK
<1>5. TypeOK'
  BY <1>1, <1>2, <1>3, <1>4, SMTT(30) DEF FailoverInv, TypeOK, hostVars
<1> QED BY <1>1, <1>5, QuietKeeps, ZenonT(30)

LEMMA NICRequestKeeps ==
  ASSUME FailoverInv, NEW m \in Machines, NICRequest(m)
  PROVE  FailoverInv'
<1> USE DEF FailoverInv
<1>1. UNCHANGED <<obj, cached, ready, curReq, pc, ip, nicRead, config, mode, waiting, lock, srv, group, patches, host, moved, workers>>
  BY Zenon DEF NICRequest, objVars, localVars, hostVars
<1>2. nicReq[m].status = "pending" /\ nicReq[m] \in NICPatches
  BY Zenon DEF NICRequest, TypeOK, NICPatches
<1>3. nicReq[m].ips \in SUBSET IPs
  BY Zenon, <1>2 DEF NICPatches
<1>4. PICK status \in {"done", "failed"} :
        /\ nicReq' = [nicReq EXCEPT ![m].status = status]
        /\ nicIPs' = [nicIPs EXCEPT ![m] = IF status = "done" THEN nicReq[m].ips ELSE @]
  <2>1. UNCHANGED nicIPs => nicIPs' = [nicIPs EXCEPT ![m] = @]
    BY Zenon DEF TypeOK
  <2> QED BY Zenon, <2>1 DEF NICRequest
<1>5. /\ nicIPs' \in [Machines -> SUBSET IPs]
      /\ nicIPs'[m] = IF status = "done" THEN nicReq[m].ips ELSE nicIPs[m]
      /\ \A n \in Machines \ {m} : nicIPs'[n] = nicIPs[n]
  BY Zenon, <1>3, <1>4 DEF TypeOK
<1>6. /\ nicReq' \in [Machines -> NICPatches]
      /\ nicReq'[m].status = status /\ nicReq'[m].ips = nicReq[m].ips
      /\ \A n \in Machines \ {m} : nicReq'[n] = nicReq[n]
  <2>1. nicReq \in [Machines -> NICPatches]
    BY Zenon DEF TypeOK, NICPatches
  <2>2. /\ [nicReq[m] EXCEPT !.status = status] \in NICPatches
        /\ [nicReq[m] EXCEPT !.status = status].status = status
        /\ [nicReq[m] EXCEPT !.status = status].ips = nicReq[m].ips
    BY Zenon, <1>2 DEF NICPatches
  <2> QED BY Zenon, <1>4, <2>1, <2>2
<1>7. faults' \in Nat
  BY Zenon, FaultType DEF NICRequest, TypeOK
<1>8. TypeOK'
  BY Zenon, <1>1, <1>5, <1>6, <1>7 DEF TypeOK, NICPatches
<1>9. ListsInv'
  BY Zenon, <1>1, ListsKept
<1>10. ASSUME NEW n \in Machines
       PROVE  MachineInv(n)'
  <2>1. MachineInv(n)
    OBVIOUS
  <2>2. CASE n = m
    BY ZenonT(30), <1>1, <1>2, <1>5, <1>6, <2>1, <2>2 DEF MachineInv, RightIP, Settled, failoverIP, NICSteps
  <2>3. CASE n # m
    BY ZenonT(30), <1>1, <1>5, <1>6, <2>1, <2>3, MachineKept
  <2> QED BY SMTT(30), <2>2, <2>3
<1> QED BY Zenon, <1>8, <1>9, <1>10

LEMMA MoveEndpointKeeps ==
  ASSUME FailoverInv, MoveEndpoint
  PROVE  FailoverInv'
<1> USE DEF FailoverInv
<1>1. UNCHANGED <<obj, cached, ready, curReq, pc, ip, nicRead, config, mode, waiting, lock, srv, nicIPs, nicReq, group, patches, workers>>
  BY Zenon DEF MoveEndpoint, objVars, localVars
<1>2. host' \in EndpointIPs /\ moved' = TRUE /\ faults' \in Nat
  BY Zenon, FaultType DEF MoveEndpoint
<1>3. TypeOK'
  BY Zenon, <1>1, <1>2 DEF TypeOK
<1>4. ASSUME NEW m, NEW x, RightIP(m, x)
      PROVE  RightIP(m, x)'
  BY Zenon, <1>1, <1>2, <1>4 DEF RightIP
<1>5. OneIPForAll' => OneIPForAll
  BY Zenon, <1>1, <1>2 DEF OneIPForAll
<1>6. ASSUME NEW s, GoodList(s)
      PROVE  GoodList(s)'
  BY ZenonT(30), <1>1, <1>4, <1>5, <1>6 DEF GoodList, SameRole
<1>7. ListsInv'
  BY Zenon, <1>1, <1>6 DEF ListsInv, PatchesSerialised
<1>8. ASSUME NEW n \in Machines
      PROVE  MachineInv(n)'
  <2>1. MachineInv(n) /\ (Settled(n)' => Settled(n) /\ failoverIP(n)' = failoverIP(n))
    BY Zenon, <1>1, <1>2 DEF Settled, failoverIP
  <2> QED BY Zenon, <1>1, <1>4, <2>1 DEF MachineInv
<1> QED BY Zenon, <1>3, <1>7, <1>8

LEMMA LANRequestKeeps ==
  ASSUME FailoverInv, LANRequest
  PROVE  FailoverInv'
<1> USE DEF FailoverInv
<1> DEFINE patch == Head(patches)
           T == [entries : Seq(Entries), by : Machines]
<1>1. UNCHANGED <<obj, cached, ready, curReq, pc, ip, nicRead, config, mode, lock, srv, nicIPs, nicReq, host, moved, workers>>
  BY ZenonT(30) DEF LANRequest, objVars, hostVars
<1>2. /\ patches # <<>> /\ patches \in Seq(T) /\ patches' = Tail(patches) /\ Len(patches) <= 1
  BY Zenon DEF LANRequest, TypeOK, ListsInv, PatchesSerialised
<1>3. patch.by \in Machines /\ GoodList(patch.entries)
  <2>1. patch = patches[1] /\ 1 \in DOMAIN patches /\ patch \in T
    <3> HIDE DEF T
    <3> QED BY <1>2
  <2>2. GoodList(patches[1].entries)
    BY Zenon, <2>1 DEF ListsInv
  <2> HIDE DEF patch
  <2> QED BY <2>1, <2>2
<1>4. Len(patches) = 1 /\ patches' = <<>>
  <2> HIDE DEF T
  <2>1. Len(patches) \in Nat /\ Len(patches) # 0
    BY Zenon, <1>2, EmptySeq
  <2>2. Len(patches) = 1
    <3> DEFINE n == Len(patches)
    <3>1. n \in Nat /\ n # 0 /\ n <= 1
      BY Zenon, <2>1 DEF ListsInv, PatchesSerialised
    <3> HIDE DEF n
    <3>2. n = 1
      BY <3>1
    <3> QED BY <3>2 DEF n
  <2>3. Tail(patches) \in Seq(T) /\ Len(Tail(patches)) = 0
    BY SMTT(30), <1>2, <2>2, HeadTailProperties
  <2> QED BY SMTT(30), <1>2, <2>2, <2>3, EmptySeq
<1>5. group' \in {group, patch.entries}
  BY ZenonT(30) DEF LANRequest
<1>6. waiting' \in [Machines -> {"none", "pending", "done", "failed"}]
  <2>1. PICK outcome \in {"done", "failed"} :
          waiting' = [waiting EXCEPT ![patch.by] = IF @ = "pending" THEN outcome ELSE @]
    BY Zenon DEF LANRequest
  <2> HIDE DEF patch
  <2> QED BY <1>3, <2>1 DEF TypeOK
<1>7. faults' \in Nat
  BY FaultType, ZenonT(30) DEF LANRequest, TypeOK
<1>8. ASSUME NEW s, GoodList(s)
      PROVE  GoodList(s)'
  BY Zenon, <1>1, <1>8, GoodListSame
<1> HIDE DEF patch
<1>9. TypeOK'
  <2>1. group' \in Seq(Entries)
    BY Zenon, <1>3, <1>5 DEF TypeOK, GoodList
  <2>2. patches' \in Seq([entries : Seq(Entries), by : Machines])
    BY <1>4
  <2> QED BY <1>1, <1>6, <1>7, <2>1, <2>2, SMTT(30) DEF TypeOK
<1>11. ListsInv'
  <2>1. GoodList(group)'
    <3>1. GoodList(group) /\ GoodList(patch.entries)
      BY Zenon, <1>3 DEF ListsInv
    <3> QED BY SMTT(30), <1>5, <1>8, <3>1
  <2>2. \A n \in Machines : GoodList(config[n])'
    BY Zenon, <1>1, <1>8 DEF ListsInv
  <2>3. (\A i \in DOMAIN patches' : GoodList(patches[i].entries)') /\ PatchesSerialised'
    BY <1>4 DEF PatchesSerialised
  <2> QED BY SMTT(30), <2>1, <2>2, <2>3 DEF ListsInv
<1>12. \A n \in Machines : MachineInv(n)'
  BY Zenon, <1>1, MachinesKept
<1> QED BY <1>9, <1>11, <1>12, SMTT(30)

-----------------------------------------------------------------------------
(***************************************************************************)
(* The theorems.                                                           *)
(***************************************************************************)
LEMMA InitHolds == Init => FailoverInv
<1> SUFFICES ASSUME Init
             PROVE  FailoverInv
  OBVIOUS
<1>1. TypeOK
  <2>1. <<>> \in Seq(Entries) /\ <<>> \in Seq([entries : Seq(Entries), by : Machines])
    OBVIOUS
  <2>2. obj \in [Machines -> ObjectStates] /\ cached \in [Machines -> ObjectStates]
    BY Zenon DEF Init, ObjectStates
  <2>3. /\ mode \in [Machines -> {"none", "remove", "swap"}]
        /\ waiting \in [Machines -> {"none", "pending", "done", "failed"}]
        /\ srv \in [Machines -> {"none", "up", "deleting", "gone"}]
    BY Zenon DEF Init
  <2>4. /\ nicReq \in [Machines -> NICPatches]
        /\ nicRead \in [Machines -> SUBSET IPs] /\ nicIPs \in [Machines -> SUBSET IPs]
    BY Zenon DEF Init, NICPatches
  <2>5. host \in EndpointIPs
    BY Zenon, FailoverAssumption DEF Init, EndpointIP
  <2>6. /\ config \in [Machines -> Seq(Entries)] /\ group \in Seq(Entries)
        /\ patches \in Seq([entries : Seq(Entries), by : Machines])
    BY Zenon, <2>1 DEF Init
  <2>7. faults \in Nat
    BY DEF Init
  <2>8. pc \in [Machines -> Steps] /\ ip \in [Machines -> IPs \cup {None}] /\ lock \in Machines \cup {None}
    BY Zenon DEF Init, Steps
  <2> QED BY Zenon, <2>2, <2>3, <2>4, <2>5, <2>6, <2>7, <2>8 DEF Init, TypeOK, NICPatches, Steps
<1>3. ListsInv
  BY EmptyGood, SMTT(30) DEF Init, ListsInv, PatchesSerialised
<1>4. \A m \in Machines : MachineInv(m)
  BY Zenon DEF Init, MachineInv, NICSteps
<1> QED BY SMTT(30), <1>1, <1>3, <1>4 DEF FailoverInv

\* Every list of entries, in the LAN, on its way to it or in a reconcile's hands, is good,
\* and a machine looks at the group only with the failover IP on its NIC.
THEOREM FailoverInvariant == Spec => []FailoverInv
<1>1. ASSUME FailoverInv, [Next]_vars
      PROVE  FailoverInv'
  <2>1. CASE UNCHANGED vars
    <3>1. /\ UNCHANGED <<obj, cached, ready, curReq, pc, ip, nicRead, config, mode, waiting, lock, srv, nicIPs, nicReq,
                         group, patches, hostVars, faults>>
      BY <2>1, SMTT(30) DEF vars, objVars, localVars, cloudVars
    <3>2. TypeOK'
      BY <1>1, <3>1, SMTT(30) DEF FailoverInv, TypeOK, hostVars
    <3> QED BY <1>1, <3>1, <3>2, QuietKeeps, SMTT(30)
  <2>2. ASSUME NEW m \in Machines, Reconcile(m)
        PROVE  FailoverInv'
    BY <1>1, <2>2, StartReconcileKeeps, ReadNICKeeps, PatchNICKeeps, AwaitNICKeeps, LockLANKeeps, ReconcileIPFailoverGroupKeeps,
       AwaitLANKeeps, CountMachinesKeeps, ReleaseFailoverGroupKeeps, DeleteServerKeeps, SMTT(30) DEF Reconcile
  <2>3. ASSUME NEW m \in Machines,
               \/ StepError(m) \/ WaitError(m) \/ CacheSync(m) \/ CreateMachine(m) \/ DeleteMachine(m)
               \/ ServerRequest(m) \/ NICRequest(m)
        PROVE  FailoverInv'
    BY <1>1, <2>3, ErrorsKeep, EventsKeep, NICRequestKeeps, SMTT(30)
  <2>4. CASE Crash \/ MoveEndpoint \/ LANRequest
    BY <1>1, <2>4, CrashKeeps, MoveEndpointKeeps, LANRequestKeeps, SMTT(30)
  <2> QED BY <1>1, <2>1, <2>2, <2>3, <2>4, SMTT(30) DEF Next
<1> QED BY <1>1, InitHolds, PTL DEF Spec

\* Every variable keeps its type.
THEOREM FailoverTypeOK == Spec => []TypeOK
<1>1. FailoverInv => TypeOK
  BY Zenon DEF FailoverInv
<1> QED BY <1>1, FailoverInvariant, PTL

\* The failover group never has two entries with one IP, however many machines of a role
\* find none at the same time, and whoever takes an entry over; for the control plane as
\* long as its endpoint has not moved, or with one machine wherever it moves.
THEOREM FailoverOneEntryPerIP == Spec => []OneEntryPerIP
<1>1. ASSUME FailoverInv
      PROVE  OneEntryPerIP
  <2>1. GoodList(group)
    BY Zenon, <1>1 DEF FailoverInv, ListsInv
  <2>2. \A i \in DOMAIN group : group[i].nic \in workers <=> group[i].ip = WorkerIP
    BY Zenon, <2>1, FailoverAssumption DEF GoodList, RightIP
  <2> QED BY Zenon, <2>1, <2>2 DEF GoodList, SameRole, OneEntryPerIP
<1> QED BY <1>1, FailoverInvariant, PTL

\* The LAN is never patched while a PATCH of it is pending.
THEOREM FailoverPatchesSerialised == Spec => []PatchesSerialised
<1>1. FailoverInv => PatchesSerialised
  BY SMTT(30) DEF FailoverInv, ListsInv
<1> QED BY <1>1, FailoverInvariant, PTL

\* A machine that is marked as provisioned has its failover IP on the NIC.
THEOREM FailoverReadyNICHasIP == Spec => []ReadyNICHasIP
<1>1. FailoverInv => ReadyNICHasIP
  BY Zenon DEF FailoverInv, TypeOK, MachineInv, Settled, ReadyNICHasIP
<1> QED BY <1>1, FailoverInvariant, PTL
=============================================================================
