-------------------------- MODULE EarlyBoot_proofs ---------------------------
(***************************************************************************)
(* The write guard of the config partition, and, for every device, table   *)
(* and driver and any number of power failures: a wipe is never forgotten  *)
(* and never half done when the system comes up; backups and state go only *)
(* when that was asked for; the table keeps what the image had, without    *)
(* overlaps; a bootstrapped system has its data partition; and the guards  *)
(* of the running system find the config partition as they left it.        *)
(***************************************************************************)
EXTENDS EarlyBoot, FiniteSetTheorems, WellFoundedInduction, TLAPS

-----------------------------------------------------------------------------
(* The write guards, for any number of them on any threads of any number   *)
(* of processes: the partition is read-only when none is held, and         *)
(* writable while one is as long as one process uses it at a time.         *)

\* The guards that the writer count of process p stands for.
Counted(p) == {g \in Guards : Owner[g] = p /\ pc[g] \in {"held", "unmount", "uncount"}}

InCode == {"mount", "count", "unmount", "uncount"}

TypeInv ==
    /\ writable \in BOOLEAN /\ left \in BOOLEAN /\ shared \in BOOLEAN
    /\ writer_count \in [Procs -> Int]
    /\ mutex \in [Procs -> Guards \cup {Nobody}]
    /\ pc \in [Guards -> PCs]

\* The mutex is held by the guard whose code runs, and by no other.
MutexInv == \A g \in Guards : pc[g] \in InCode <=> mutex[Owner[g]] = g

CountInv == \A p \in Procs : writer_count[p] = Cardinality(Counted(p))

MountInv == \A g \in Guards :
    /\ pc[g] = "mount" => writer_count[Owner[g]] = 0
    /\ pc[g] = "count" => writable
    /\ pc[g] = "unmount" => writer_count[Owner[g]] = 1
    /\ pc[g] = "held" => writable

\* A partition that is writable is in use, about to be remounted, or left over.
IdleInv == writable => left \/ \E g \in Guards :
    pc[g] \in {"count", "held", "unmount"}

\* What holds whatever the guards of other processes do to the mount.
CoreInv == TypeInv /\ MutexInv /\ CountInv /\ IdleInv

\* The mount is the work of one process.
AloneInv == MountInv /\ ~Together

IInv == CoreInv /\ (shared \/ AloneInv)

-----------------------------------------------------------------------------

\* The guards counted for a process are finitely many.
LEMMA CountedFinite ==
    ASSUME NEW p
    PROVE  /\ IsFiniteSet(Counted(p))
           /\ Cardinality(Counted(p)) \in 0 .. Cardinality(Guards)
<1>1. Counted(p) \in SUBSET Guards
  BY DEF Counted
<1>2. IsFiniteSet(Guards)
  BY GuardsAssumption DEF GuardsAssumption
<1>3. IsFiniteSet(Counted(p)) /\ Cardinality(Counted(p)) <= Cardinality(Guards)
  BY <1>1, <1>2, FS_Subset
<1>4. Cardinality(Counted(p)) \in Nat /\ Cardinality(Guards) \in Nat
  BY <1>2, <1>3, FS_CardinalityType
<1>. QED
  BY <1>3, <1>4

LEMMA InitInv == Init => IInv
<1>. SUFFICES ASSUME Init PROVE IInv
  OBVIOUS
<1>1. TypeInv
  <2>1. writable \in BOOLEAN /\ left \in BOOLEAN /\ shared \in BOOLEAN
    BY Zenon DEF Init
  <2>2. writer_count \in [Procs -> Int] /\ mutex \in [Procs -> Guards \cup {Nobody}]
    BY DEF Init
  <2>3. pc \in [Guards -> PCs]
    BY DEF Init, PCs
  <2>. QED
    BY <2>1, <2>2, <2>3 DEF TypeInv
<1>2. MutexInv
  BY GuardsAssumption DEF GuardsAssumption, Init, MutexInv, InCode
<1>3. AloneInv /\ IdleInv
  BY DEF Init, AloneInv, MountInv, Together, InUse, IdleInv
<1>4. CountInv
  <2>1. \A p \in Procs : Counted(p) = {}
    BY DEF Init, Counted
  <2>. QED
    BY <2>1, FS_EmptySet DEF Init, CountInv
<1>. QED
  BY <1>1, <1>2, <1>3, <1>4 DEF IInv, CoreInv

\* The invariant implies the bound on the count that TypeOK states.
LEMMA TypeFromInv == CoreInv => TypeOK
<1>. SUFFICES ASSUME CoreInv PROVE TypeOK
  OBVIOUS
<1>1. \A p \in Procs : writer_count[p] \in 0 .. Cardinality(Guards)
  BY CountedFinite DEF CoreInv, CountInv
<1>. QED
  BY <1>1 DEF CoreInv, TypeInv, TypeOK

\* A step that does not change which guards are counted keeps CountInv.
LEMMA CountKept ==
    ASSUME CountInv, writer_count' = writer_count,
           \A g \in Guards : pc'[g] \in {"held", "unmount", "uncount"}
                                <=> pc[g] \in {"held", "unmount", "uncount"}
    PROVE  CountInv'
<1>1. \A p \in Procs : Counted(p)' = Counted(p)
  BY DEF Counted
<1>. QED
  BY <1>1 DEF CountInv

-----------------------------------------------------------------------------
(* Every step of a guard, and the death of the process, keep IInv.         *)

\* What a step of guard g may do to the types and the mutex.
LEMMA TypeStep ==
    ASSUME CoreInv, [Next]_vars
    PROVE  TypeInv'
<1>0. shared' \in BOOLEAN
  BY Zenon DEF Next, Share, vars, CoreInv, TypeInv
<1>. USE GuardsAssumption DEF GuardsAssumption, CoreInv, TypeInv
<1>1. ASSUME NEW g \in Guards, GuardStep(g)
      PROVE  TypeInv'
  <2>0. Owner[g] \in Procs
    OBVIOUS
  <2>1. writable' \in BOOLEAN /\ left' \in BOOLEAN
    BY <1>1, Zenon DEF GuardStep, Acquire, Mount, MountFails, Count, Drop, Unmount,
       UnmountFails, Uncount
  <2>2. writer_count' \in [Procs -> Int]
    BY <1>1, <2>0 DEF GuardStep, Acquire, Mount, MountFails, Count, Drop, Unmount,
       UnmountFails, Uncount
  <2>3. mutex' \in [Procs -> Guards \cup {Nobody}]
    BY <1>1, <2>0 DEF GuardStep, Acquire, Mount, MountFails, Count, Drop, Unmount,
       UnmountFails, Uncount, Lock, Unlock
  <2>4. pc' \in [Guards -> PCs]
    BY <1>1 DEF GuardStep, Acquire, Mount, MountFails, Count, Drop, Unmount,
       UnmountFails, Uncount, Goto, PCs
  <2>. QED
    BY <1>0, <2>1, <2>2, <2>3, <2>4
<1>2. ASSUME NEW p \in Procs, Kill(p)
      PROVE  TypeInv'
  <2>1. writable' \in BOOLEAN /\ left' \in BOOLEAN
    BY <1>2, Zenon DEF Kill
  <2>2. writer_count' \in [Procs -> Int] /\ mutex' \in [Procs -> Guards \cup {Nobody}]
    BY <1>2 DEF Kill
  <2>3. pc' \in [Guards -> PCs]
    BY <1>2 DEF Kill, PCs
  <2>. QED
    BY <1>0, <2>1, <2>2, <2>3
<1>3. CASE UNCHANGED vars
  BY <1>3 DEF vars
<1>. QED
  BY <1>1, <1>2, <1>3 DEF Next

\* Only the guard that runs holds the mutex; it takes it when it is free.
LEMMA MutexStep ==
    ASSUME CoreInv, [Next]_vars
    PROVE  MutexInv'
<1>. USE GuardsAssumption DEF GuardsAssumption, CoreInv, TypeInv, MutexInv, InCode, PCs
<1>1. ASSUME NEW g \in Guards, GuardStep(g), NEW h \in Guards
      PROVE  pc'[h] \in InCode <=> mutex'[Owner[h]] = h
  <2>0. Owner[g] \in Procs /\ Owner[h] \in Procs
    OBVIOUS
  <2>1. CASE Acquire(g) \/ Drop(g)
    BY <2>0, <2>1 DEF Acquire, Drop, Lock, Goto
  <2>2. CASE Mount(g) \/ Unmount(g) \/ UnmountFails(g)
    BY <2>0, <2>2 DEF Mount, Unmount, UnmountFails, Goto
  <2>3. CASE MountFails(g) \/ Count(g) \/ Uncount(g)
    BY <2>0, <2>3 DEF MountFails, Count, Uncount, Unlock, Goto
  <2>. QED
    BY <1>1, <2>1, <2>2, <2>3 DEF GuardStep
<1>2. ASSUME NEW p \in Procs, Kill(p), NEW h \in Guards
      PROVE  pc'[h] \in InCode <=> mutex'[Owner[h]] = h
  BY <1>2 DEF Kill
<1>3. CASE UNCHANGED vars
  BY <1>3 DEF vars
<1>. QED
  BY <1>1, <1>2, <1>3 DEF Next

\* The count follows the guards it stands for.
LEMMA CountStep ==
    ASSUME CoreInv, [Next]_vars
    PROVE  CountInv'
<1>. USE GuardsAssumption DEF GuardsAssumption, CoreInv, TypeInv
<1>1. ASSUME NEW g \in Guards, Acquire(g) \/ Mount(g) \/ MountFails(g) \/ Drop(g)
                                 \/ Unmount(g) \/ UnmountFails(g)
      PROVE  CountInv'
  <2>1. writer_count' = writer_count
    BY <1>1 DEF Acquire, Mount, MountFails, Drop, Unmount, UnmountFails
  <2>2. \A h \in Guards : pc'[h] \in {"held", "unmount", "uncount"}
                             <=> pc[h] \in {"held", "unmount", "uncount"}
    BY <1>1 DEF Acquire, Mount, MountFails, Drop, Unmount, UnmountFails, Goto
  <2>. QED
    BY <2>1, <2>2, CountKept
<1>2. ASSUME NEW g \in Guards, Count(g), NEW p \in Procs
      PROVE  writer_count'[p] = Cardinality(Counted(p))'
  <2>1. CASE p = Owner[g]
    <3>1. Counted(p)' = Counted(p) \cup {g} /\ g \notin Counted(p)
      BY <1>2, <2>1 DEF Counted, Count, Goto
    <3>2. Cardinality(Counted(p) \cup {g}) = Cardinality(Counted(p)) + 1
      BY <3>1, CountedFinite, FS_AddElement
    <3>. QED
      BY <1>2, <2>1, <3>1, <3>2 DEF Count, CountInv
  <2>2. CASE p # Owner[g]
    <3>1. Counted(p)' = Counted(p)
      BY <1>2, <2>2 DEF Counted, Count, Goto
    <3>. QED
      BY <1>2, <2>2, <3>1 DEF Count, CountInv
  <2>. QED
    BY <2>1, <2>2
<1>3. ASSUME NEW g \in Guards, Uncount(g), NEW p \in Procs
      PROVE  writer_count'[p] = Cardinality(Counted(p))'
  <2>1. CASE p = Owner[g]
    <3>1. Counted(p)' = Counted(p) \ {g} /\ g \in Counted(p)
      BY <1>3, <2>1 DEF Counted, Uncount, Goto
    <3>2. Cardinality(Counted(p) \ {g}) = Cardinality(Counted(p)) - 1
      BY <3>1, CountedFinite, FS_RemoveElement
    <3>. QED
      BY <1>3, <2>1, <3>1, <3>2 DEF Uncount, CountInv
  <2>2. CASE p # Owner[g]
    <3>1. Counted(p)' = Counted(p)
      BY <1>3, <2>2 DEF Counted, Uncount, Goto
    <3>. QED
      BY <1>3, <2>2, <3>1 DEF Uncount, CountInv
  <2>. QED
    BY <2>1, <2>2
<1>4. ASSUME NEW q \in Procs, Kill(q), NEW p \in Procs
      PROVE  writer_count'[p] = Cardinality(Counted(p))'
  <2>1. CASE p = q
    <3>1. Counted(p)' = {}
      BY <1>4, <2>1 DEF Counted, Kill
    <3>. QED
      BY <1>4, <2>1, <3>1, FS_EmptySet DEF Kill
  <2>2. CASE p # q
    <3>1. Counted(p)' = Counted(p)
      BY <1>4, <2>2 DEF Counted, Kill
    <3>. QED
      BY <1>4, <2>2, <3>1 DEF Kill, CountInv
  <2>. QED
    BY <2>1, <2>2
<1>5. CASE UNCHANGED vars
  BY <1>5, CountKept DEF vars
<1>. QED
  BY <1>1, <1>2, <1>3, <1>4, <1>5 DEF Next, GuardStep, CountInv

\* A guard that is counted alone is the only one.
LEMMA OnlyOne ==
    ASSUME CoreInv, NEW g \in Guards, NEW h \in Guards, Owner[g] = Owner[h],
           pc[g] \in {"held", "unmount", "uncount"}, pc[h] \in {"held", "unmount", "uncount"},
           writer_count[Owner[g]] = 1
    PROVE  g = h
<1>1. Owner[g] \in Procs
  BY GuardsAssumption DEF GuardsAssumption
<1>2. Cardinality(Counted(Owner[g])) = 1
  BY <1>1 DEF CoreInv, CountInv
<1>3. PICK x : Counted(Owner[g]) = {x}
  BY <1>2, CountedFinite, FS_Singleton
<1>4. g \in Counted(Owner[g]) /\ h \in Counted(Owner[g])
  BY DEF Counted
<1>. QED
  BY <1>3, <1>4

\* A guard that is counted while the count is not one is not alone.
LEMMA AnotherOne ==
    ASSUME CoreInv, NEW g \in Guards, pc[g] = "held", writer_count[Owner[g]] # 1,
           mutex[Owner[g]] = Nobody
    PROVE  \E h \in Guards \ {g} : pc[h] = "held"
<1>. USE GuardsAssumption DEF GuardsAssumption
<1>1. Owner[g] \in Procs
  OBVIOUS
<1>2. Counted(Owner[g]) # {g}
  BY <1>1, FS_Singleton DEF CoreInv, CountInv
<1>3. g \in Counted(Owner[g])
  BY DEF Counted
<1>4. PICK h \in Counted(Owner[g]) : h # g
  BY <1>2, <1>3
<1>5. h \in Guards /\ Owner[h] = Owner[g] /\ pc[h] \in {"held", "unmount", "uncount"}
  BY <1>4 DEF Counted
<1>6. pc[h] \notin InCode
  BY <1>5 DEF CoreInv, MutexInv
<1>. QED
  BY <1>4, <1>5, <1>6 DEF InCode

\* While one process uses the partition, no guard is held when another remounts it
\* read-only, and none is mounted for nothing.
LEMMA MountStep ==
    ASSUME CoreInv, AloneInv, ~Together', [Next]_vars
    PROVE  MountInv'
<1>. USE GuardsAssumption DEF GuardsAssumption, CoreInv, TypeInv, AloneInv
<1>. DEFINE Mounted(h) ==
         /\ pc[h] = "mount" => writer_count[Owner[h]] = 0
         /\ pc[h] = "count" => writable
         /\ pc[h] = "unmount" => writer_count[Owner[h]] = 1
         /\ pc[h] = "held" => writable
<1>0. ASSUME NEW g \in Guards, GuardStep(g), NEW h \in Guards, pc'[h] # "none"
      PROVE  Owner[g] = Owner[h]
  <2>1. (pc[g] # "none" /\ pc[h] # "none") \/ (pc'[g] # "none" /\ pc'[h] # "none")
    BY <1>0 DEF GuardStep, Acquire, Mount, MountFails, Count, Drop, Unmount, UnmountFails,
       Uncount, Goto
  <2>. QED
    BY <2>1 DEF Together, InUse
<1>1. ASSUME NEW g \in Guards, GuardStep(g), NEW h \in Guards, pc'[h] # "none"
      PROVE  Mounted(h)'
  <2>0. Owner[g] = Owner[h] /\ Owner[g] \in Procs /\ Mounted(h) /\ Mounted(g)
    BY <1>0, <1>1 DEF MountInv
  <2>1. CASE Acquire(g)
    <3>1. writer_count[Owner[g]] # 0 => writable
      <4>. SUFFICES ASSUME writer_count[Owner[g]] # 0 PROVE writable
        OBVIOUS
      <4>1. Counted(Owner[g]) # {}
        BY <2>0, FS_EmptySet DEF CountInv
      <4>2. PICK x \in Guards : Owner[x] = Owner[g] /\ pc[x] \in {"held", "unmount", "uncount"}
        BY <4>1 DEF Counted
      <4>3. pc[x] \notin InCode
        BY <2>1, <4>2 DEF MutexInv, Acquire, Lock
      <4>. QED
        BY <4>2, <4>3 DEF MountInv, InCode
    <3>. QED
      BY <2>0, <2>1, <3>1 DEF Acquire, Goto
  <2>2. CASE Mount(g)
    BY <2>0, <2>2 DEF Mount, Goto
  <2>3. CASE MountFails(g)
    BY <2>0, <2>3 DEF MountFails, Goto
  <2>4. CASE Count(g)
    BY <2>0, <2>4 DEF Count, Goto, MutexInv, InCode
  <2>5. CASE Drop(g)
    BY <2>0, <2>5 DEF Drop, Goto
  <2>6. CASE Unmount(g)
    <3>1. pc[h] = "held" => FALSE
      BY <2>0, <2>6, OnlyOne DEF Unmount
    <3>2. pc[h] = "count" => FALSE
      BY <2>0, <2>6 DEF Unmount, MutexInv, InCode
    <3>. QED
      BY <2>0, <2>6, <3>1, <3>2 DEF Unmount, Goto
  <2>7. CASE UnmountFails(g)
    BY <2>0, <2>7 DEF UnmountFails, Goto
  <2>8. CASE Uncount(g)
    BY <2>0, <2>8 DEF Uncount, Goto, MutexInv, InCode
  <2>. QED
    BY <1>1, <2>1, <2>2, <2>3, <2>4, <2>5, <2>6, <2>7, <2>8 DEF GuardStep
<1>2. ASSUME NEW p \in Procs, Kill(p), NEW h \in Guards
      PROVE  Mounted(h)'
  BY <1>2 DEF Kill, MountInv
<1>3. CASE UNCHANGED vars
  BY <1>3 DEF vars, MountInv
<1>. QED
  BY <1>1, <1>2, <1>3 DEF Next, MountInv

\* A partition that stays writable is in use or left over.
LEMMA IdleStep ==
    ASSUME CoreInv, [Next]_vars
    PROVE  IdleInv'
<1>. USE GuardsAssumption DEF GuardsAssumption, CoreInv, TypeInv
<1>. DEFINE Uses(h) == pc[h] \in {"count", "held", "unmount"}
<1>1. ASSUME NEW g \in Guards, GuardStep(g), writable', ~left'
      PROVE  \E h \in Guards : Uses(h)'
  <2>1. CASE Acquire(g) \/ MountFails(g) \/ Uncount(g)
    <3>1. writable /\ ~left
      BY <1>1, <2>1 DEF Acquire, MountFails, Uncount
    <3>2. PICK h \in Guards : Uses(h)
      BY <3>1 DEF IdleInv
    <3>. QED
      BY <2>1, <3>2 DEF Acquire, MountFails, Uncount, Goto
  <2>2. CASE Mount(g) \/ Count(g)
    BY <2>2 DEF Mount, Count, Goto
  <2>3. CASE Drop(g)
    <3>1. CASE writer_count[Owner[g]] = 1
      BY <2>3, <3>1 DEF Drop, Goto
    <3>2. CASE writer_count[Owner[g]] # 1
      BY <2>3, <3>2, AnotherOne DEF Drop, Goto, Lock
    <3>. QED
      BY <3>1, <3>2
  <2>4. CASE Unmount(g) \/ UnmountFails(g)
    BY <1>1, <2>4, Zenon DEF Unmount, UnmountFails
  <2>. QED
    BY <1>1, <2>1, <2>2, <2>3, <2>4 DEF GuardStep
<1>2. ASSUME NEW p \in Procs, Kill(p), writable', ~left'
      PROVE  FALSE
  BY <1>2, Zenon DEF Kill
<1>3. CASE UNCHANGED vars
  BY <1>3 DEF vars, IdleInv
<1>. QED
  BY <1>1, <1>2, <1>3 DEF Next, IdleInv

LEMMA CoreKept ==
    ASSUME CoreInv, [Next]_vars
    PROVE  CoreInv'
BY TypeStep, MutexStep, CountStep, IdleStep DEF CoreInv

\* The partition is shared until no process uses it any more.
LEMMA GuardsKept ==
    ASSUME IInv, [Next]_vars
    PROVE  IInv'
<1>1. CoreInv'
  BY CoreKept DEF IInv
<1>2. CASE Share
  <2>. SUFFICES ASSUME ~shared' PROVE AloneInv'
    BY <1>1 DEF IInv
  <2>1. ~Together' /\ (~shared \/ InUse' = {})
    BY <1>2, Zenon DEF Share
  <2>2. CASE ~shared
    BY <2>1, <2>2, MountStep DEF IInv, AloneInv
  <2>3. CASE InUse' = {}
    BY <2>1, <2>3 DEF AloneInv, MountInv, InUse
  <2>. QED
    BY <2>1, <2>2, <2>3
<1>3. CASE UNCHANGED vars
  BY <1>1, <1>3 DEF vars, IInv, AloneInv, MountInv, Together, InUse
<1>. QED
  BY <1>2, <1>3 DEF Next

\* What the properties of the guards follow from.
LEMMA GuardsKeep == IInv => WritableWhileHeld /\ ReadOnlyWhenIdle
BY DEF IInv, CoreInv, AloneInv, MountInv, IdleInv, InUse, WritableWhileHeld, ReadOnlyWhenIdle

LEMMA Invariance == Spec => []IInv
BY InitInv, GuardsKept, PTL DEF Spec

\* For any number of processes the writer count, an unsigned number in the code,
\* never goes below zero in drop.
THEOREM CountNeverWraps == Spec => []TypeOK
BY Invariance, TypeFromInv, PTL DEF IInv

\* No drop remounts the partition read-only under a guard, as long as the guards that are
\* there belong to one process.
THEOREM WritableForHolders == Spec => []WritableWhileHeld
BY Invariance, GuardsKeep, PTL

\* The last drop remounts the partition read-only, however the drops of any number of
\* processes interleave, unless the remount fails or a process has died.
THEOREM ReadOnlyInTheEnd == Spec => []ReadOnlyWhenIdle
BY Invariance, GuardsKeep, PTL

-----------------------------------------------------------------------------
(* The tables that repartitioning computes.                                 *)

\* Induction over the natural numbers, for a set: the library states it for an operator.
LEMMA SetInduction ==
    ASSUME NEW S, 0 \in S, \A n \in Nat : n \in S => n + 1 \in S
    PROVE  Nat \subseteq S
<1>. DEFINE T == Nat \ S
            R == OpToRel(<, Nat)
<1>. SUFFICES ASSUME T # {} PROVE FALSE
  OBVIOUS
<1>1. PICK x \in T : \A y \in T : ~(<<y, x>> \in R)
  <2>. HIDE DEF R, T
  <2>1. IsWellFoundedOn(R, Nat)
    BY NatLessThanWellFounded DEF R
  <2>2. T \subseteq Nat
    BY DEF T
  <2>. QED
    BY <2>1, <2>2, WFMin
<1>2. x - 1 \in Nat /\ x - 1 < x
  OBVIOUS
<1>3. x - 1 \in S
  BY <1>1, <1>2 DEF OpToRel
<1>. QED
  BY <1>2, <1>3

\* The last multiple of the alignment before a number, and the first after it.
LEMMA Multiples ==
    ASSUME NEW n \in Int
    PROVE  /\ \E k \in Int : FloorAlign(n) = k * Align /\ k * Align <= n /\ n < k * Align + Align
           /\ \E k \in Int : CeilAlign(n) = k * Align /\ k * Align >= n /\ k * Align < n + Align
<1>1. Align \in Nat /\ Align > 0
  BY RepartAssumption DEF RepartAssumption
<1>2. ASSUME NEW m \in Int
      PROVE  /\ m \div Align \in Int
             /\ (m \div Align) * Align <= m /\ m < (m \div Align) * Align + Align
  BY <1>1, <1>2
<1>3. n + Align - 1 \in Int
  BY <1>1
<1>4. /\ (n + Align - 1) \div Align \in Int
      /\ ((n + Align - 1) \div Align) * Align <= n + Align - 1
      /\ n + Align - 1 < ((n + Align - 1) \div Align) * Align + Align
  BY <1>2, <1>3
<1>5. ASSUME NEW k \in Int PROVE k * Align \in Int
  BY <1>1
<1>6. PICK k \in Int : k = (n + Align - 1) \div Align
  BY <1>4
<1>7. k * Align >= n /\ k * Align < n + Align
  <2>1. k * Align <= n + Align - 1 /\ n + Align - 1 < k * Align + Align
    BY <1>4, <1>6
  <2>. DEFINE m == k * Align
  <2>2. m \in Int
    BY <1>5
  <2>3. m <= n + Align - 1 /\ n + Align - 1 < m + Align
    BY <2>1
  <2>. HIDE DEF m
  <2>4. m >= n /\ m < n + Align
    BY <1>1, <2>2, <2>3
  <2>. QED
    BY <2>4 DEF m
<1>. QED
  BY <1>2, <1>6, <1>7 DEF FloorAlign, CeilAlign

\* Two multiples of the alignment are that far apart.
LEMMA FarApart ==
    ASSUME NEW k \in Int, NEW m \in Int, k * Align < m * Align
    PROVE  k * Align + Align <= m * Align
<1>1. Align \in Nat /\ Align > 0
  BY RepartAssumption DEF RepartAssumption
<1>2. k < m
  <2>. SUFFICES ASSUME m <= k PROVE FALSE
    OBVIOUS
  <2>1. k - m \in Nat
    OBVIOUS
  <2>2. (k - m) * Align \in Nat
    BY <1>1, <2>1
  <2>3. (k - m) * Align = k * Align - m * Align
    BY <1>1
  <2>. QED
    BY <1>1, <2>2, <2>3
<1>3. m - k - 1 \in Nat
  BY <1>2
<1>4. (m - k - 1) * Align \in Nat
  BY <1>1, <1>3
<1>5. (m - k - 1) * Align = m * Align - k * Align - Align
  BY <1>1
<1>. QED
  BY <1>1, <1>4, <1>5

LEMMA Aligned ==
    /\ \A n \in Nat : CeilAlign(n) \in Nat /\ CeilAlign(n) >= n /\ CeilAlign(CeilAlign(n)) = CeilAlign(n)
    /\ \A n \in Int : FloorAlign(n) \in Int /\ FloorAlign(n) <= n /\ (n >= 0 => FloorAlign(n) >= 0)
    /\ \A n \in Nat : CeilAlign(n) = n => CeilAlign(n + Ebr) > n + Ebr
<1>1. Align \in Nat /\ Align > 0 /\ Ebr \in Nat /\ 0 < Ebr /\ Ebr < Align /\ 0 * Align = 0
  BY RepartAssumption DEF RepartAssumption
<1>2. ASSUME NEW k \in Int PROVE k * Align \in Int
  BY <1>1
<1>3. ASSUME NEW k \in Int PROVE CeilAlign(k * Align) = k * Align
  <2>1. k * Align \in Int
    BY <1>2
  <2>2. PICK m \in Int : CeilAlign(k * Align) = m * Align /\ m * Align >= k * Align
                         /\ m * Align < k * Align + Align
    BY <2>1, Multiples
  <2>3. ~(k * Align < m * Align)
    BY <1>1, <1>2, <2>2, FarApart
  <2>. QED
    BY <1>2, <2>2, <2>3
<1>4. ASSUME NEW n \in Nat
      PROVE  CeilAlign(n) \in Nat /\ CeilAlign(n) >= n /\ CeilAlign(CeilAlign(n)) = CeilAlign(n)
  <2>1. PICK k \in Int : CeilAlign(n) = k * Align /\ k * Align >= n
    BY Multiples
  <2>. QED
    BY <1>2, <1>3, <2>1
<1>5. ASSUME NEW n \in Int
      PROVE  FloorAlign(n) \in Int /\ FloorAlign(n) <= n /\ (n >= 0 => FloorAlign(n) >= 0)
  <2>1. PICK k \in Int : FloorAlign(n) = k * Align /\ k * Align <= n /\ n < k * Align + Align
    BY Multiples
  <2>2. k * Align \in Int
    BY <1>2
  <2>3. ASSUME n >= 0, k * Align < 0 PROVE FALSE
    <3>1. k * Align + Align <= 0 * Align
      <4>1. 0 \in Int /\ k * Align < 0 * Align
        BY <1>1, <2>3
      <4>. QED
        BY <4>1, FarApart
    <3>. QED
      BY <1>1, <2>1, <2>2, <2>3, <3>1
  <2>. QED
    BY <2>1, <2>2, <2>3
<1>6. ASSUME NEW n \in Nat, CeilAlign(n) = n
      PROVE  CeilAlign(n + Ebr) > n + Ebr
  <2>1. PICK k \in Int : n = k * Align
    <3>1. n \in Int
      OBVIOUS
    <3>. QED
      BY <1>6, <3>1, Multiples
  <2>2. n + Ebr \in Int
    BY <1>1
  <2>3. PICK m \in Int : CeilAlign(n + Ebr) = m * Align /\ m * Align >= n + Ebr
    BY <2>2, Multiples
  <2>4. k * Align \in Int /\ m * Align \in Int
    BY <1>2
  <2>5. k * Align < m * Align
    BY <1>1, <1>6, <2>1, <2>3, <2>4
  <2>6. k * Align + Align <= m * Align
    BY <2>5, FarApart
  <2>. QED
    BY <1>1, <1>6, <2>1, <2>3, <2>4, <2>6
<1>. QED
  BY <1>4, <1>5, <1>6

\* What the algorithm keeps between two partitions.
Progress == [extended : BOOLEAN, last : Int, next : Nat, parts : Seq(Partitions)]

LEMMA RepartStepTyped ==
    ASSUME NEW old, NEW schema, Typed(old, schema), NEW i \in 1 .. Len(schema),
           NEW a \in Progress, Fits(old, schema, a, i)
    PROVE  RepartStep(old, schema, a, i) \in Progress
<1>. DEFINE start == Start(old, a, i)
            ty == schema[i].ty
            available == Available(old, a, i, start, ty)
            want == IF schema[i].size = AllSpace THEN available
                    ELSE Least(schema[i].size, available)
            size == IF i <= Len(old.parts) THEN Greatest(want, old.parts[i].size) ELSE want
<1>1. ty \in STRING /\ schema[i].size \in Nat
  <2>1. schema[i] \in Entries
    BY DEF Typed
  <2>. QED
    BY <2>1 DEF Entries
<1>2. \A j \in 1 .. Len(old.parts) : old.parts[j] \in Partitions
  BY DEF Typed
<1>3. start \in Nat
  <2>1. CASE i <= Len(old.parts)
    BY <1>2, <2>1 DEF Start, Typed, Partitions
  <2>2. CASE ~(i <= Len(old.parts))
    <3>1. Ebr \in Nat
      BY RepartAssumption DEF RepartAssumption
    <3>2. (IF a.extended THEN a.next + Ebr ELSE a.next) \in Nat
      BY <3>1 DEF Progress
    <3>. QED
      BY <2>2, <3>2, Aligned DEF Start
  <2>. QED
    BY <2>1, <2>2
<1>4. available >= 0
  BY DEF Fits
<1>5. available \in Int
  <2>1. CASE ty # "extended" /\ i < Len(old.parts)
    <3>. DEFINE gap == old.parts[i + 1].start - start
    <3>1. i + 1 \in 1 .. Len(old.parts)
      BY <2>1 DEF Typed
    <3>2. old.parts[i + 1] \in Partitions
      BY <1>2, <3>1
    <3>3. gap \in Int
      BY <1>3, <3>2 DEF Partitions
    <3>4. gap - Ebr \in Int
      BY <3>3, RepartAssumption DEF RepartAssumption
    <3>. HIDE DEF gap
    <3>5. FloorAlign(gap - Ebr) \in Int
      BY <3>4, Aligned
    <3>6. available = IF a.extended THEN FloorAlign(gap - Ebr) ELSE gap
      BY <2>1 DEF Available, gap
    <3>. QED
      BY <3>3, <3>5, <3>6
  <2>2. CASE ~(ty # "extended" /\ i < Len(old.parts))
    BY <1>3, <2>2 DEF Available, Progress
  <2>. QED
    BY <2>1, <2>2
<1>6. size \in Nat
  <2>. HIDE DEF available
  <2>1. want \in Nat
    BY <1>1, <1>4, <1>5 DEF Least
  <2>. HIDE DEF want
  <2>. QED
    BY <1>2, <2>1 DEF Greatest, Partitions
<1>. HIDE DEF size, available, start, ty
<1>7. RepartStep(old, schema, a, i) =
        [extended |-> a.extended \/ ty = "extended",
         last |-> IF ty = "extended" THEN start + size - 1 ELSE a.last,
         next |-> IF ty = "extended" THEN start ELSE start + size,
         parts |-> IF i <= Len(old.parts) THEN [a.parts EXCEPT ![i].size = size]
                   ELSE Append(a.parts, [number |-> i, start |-> start, size |-> size,
                                         ty |-> ty])]
  BY DEF RepartStep, size, available, start, ty
<1>8. [a.parts EXCEPT ![i].size = size] \in Seq(Partitions)
  <2>. DEFINE new == [a.parts EXCEPT ![i].size = size]
  <2>1. a.parts \in Seq(Partitions)
    BY DEF Progress
  <2>2. ASSUME NEW j \in 1 .. Len(a.parts)
        PROVE  new[j] \in Partitions
    <3>1. a.parts[j] \in Partitions
      BY <2>1
    <3>2. new[j] = IF j = i THEN [a.parts[j] EXCEPT !.size = size] ELSE a.parts[j]
      BY <2>1
    <3>3. [a.parts[j] EXCEPT !.size = size] \in Partitions
      BY <1>6, <3>1 DEF Partitions
    <3>. QED
      BY <3>1, <3>2, <3>3
  <2>3. new = [j \in 1 .. Len(a.parts) |-> new[j]] /\ Len(a.parts) \in Nat
    BY <2>1
  <2>. HIDE DEF new
  <2>4. [j \in 1 .. Len(a.parts) |-> new[j]] \in Seq(Partitions)
    BY <2>2, <2>3, SMTT(30)
  <2>. QED
    BY <2>3, <2>4 DEF new
<1>9. Append(a.parts, [number |-> i, start |-> start, size |-> size, ty |-> ty])
        \in Seq(Partitions)
  BY <1>1, <1>3, <1>6 DEF Progress, Partitions, ty
<1>10. (a.extended \/ ty = "extended") \in BOOLEAN
  OBVIOUS
<1>11. /\ (IF ty = "extended" THEN start + size - 1 ELSE a.last) \in Int
       /\ (IF ty = "extended" THEN start ELSE start + size) \in Nat
  BY <1>3, <1>6 DEF Progress
<1>. QED
  BY <1>7, <1>8, <1>9, <1>10, <1>11 DEF Progress

\* The states that the algorithm may have after each entry of the schema.
FirstState(t) == [extended |-> FALSE, last |-> LastUsable(t), next |-> CeilAlign(FirstUsable),
                  parts |-> t.parts]
More(t, schema, as, i) == {RepartStep(t, schema, a, i) : a \in {b \in as : Fits(t, schema, b, i)}}
IsRun(t, schema, f) ==
    /\ f[0] = {FirstState(t)}
    /\ \A i \in 1 .. Len(schema) : f[i] = More(t, schema, f[i - 1], i)

LEMMA ComputedRun ==
    ASSUME NEW t, NEW schema, Len(schema) \in Nat
    PROVE  \E f : IsRun(t, schema, f) /\ Computed(t, schema) = {a.parts : a \in f[Len(schema)]}
<1>. DEFINE first == FirstState(t)
            Next1(as, i) == More(t, schema, as, i)
            Run(f, n) == f = [i \in 0 .. n |-> IF i = 0 THEN {first} ELSE Next1(f[i - 1], i)]
<1>. HIDE DEF first, Next1
<1>0. ASSUME NEW f, NEW n, Run(f, n), NEW i \in 0 .. n
      PROVE  f[i] = IF i = 0 THEN {first} ELSE Next1(f[i - 1], i)
  BY <1>0, Zenon
<1>. HIDE DEF Run
<1>2. \A n \in Nat : \E f : Run(f, n)
  <2>. DEFINE S == {n \in Nat : \E f : Run(f, n)}
  <2>1. 0 \in S
    <3>1. Run([i \in 0 .. 0 |-> {first}], 0)
      BY DEF Run
    <3>. QED
      BY <3>1
  <2>2. ASSUME NEW n \in Nat, n \in S
        PROVE  n + 1 \in S
    <3>1. PICK f : Run(f, n)
      BY <2>2
    <3>. DEFINE g == [i \in 0 .. n + 1 |-> IF i <= n THEN f[i] ELSE Next1(f[n], n + 1)]
    <3>2. ASSUME NEW i \in 0 .. n + 1
          PROVE  g[i] = IF i = 0 THEN {first} ELSE Next1(g[i - 1], i)
      <4>1. CASE i <= n
        <5>1. g[i] = f[i] /\ (i # 0 => g[i - 1] = f[i - 1])
          BY <4>1
        <5>2. f[i] = IF i = 0 THEN {first} ELSE Next1(f[i - 1], i)
          <6>1. i \in 0 .. n
            BY <4>1
          <6>. QED
            BY <1>0, <3>1, <6>1, Zenon
        <5>. QED
          BY <5>1, <5>2
      <4>2. CASE i = n + 1
        <5>1. g[n] = f[n] /\ g[n + 1] = Next1(f[n], n + 1)
          OBVIOUS
        <5>. QED
          BY <4>2, <5>1
      <4>. QED
        BY <4>1, <4>2
    <3>3. Run(g, n + 1)
      <4>1. g = [i \in 0 .. n + 1 |-> g[i]]
        OBVIOUS
      <4>. HIDE DEF g
      <4>. QED
        BY <3>2, <4>1 DEF Run
    <3>4. \E h : Run(h, n + 1)
      BY <3>3
    <3>. QED
      BY <3>4
  <2>. HIDE DEF S
  <2>3. Nat \subseteq S
    BY <2>1, <2>2, SetInduction
  <2>. QED
    BY <2>3 DEF S
<1>. DEFINE Reached == CHOOSE f : Run(f, Len(schema))
<1>3. Run(Reached, Len(schema))
  BY <1>2
<1>4. Computed(t, schema) = {a.parts : a \in Reached[Len(schema)]}
  BY DEF Computed, More, Next1, first, FirstState, Run
<1>. HIDE DEF Reached
<1>5. Reached[0] = {FirstState(t)}
  <2>1. 0 \in 0 .. Len(schema)
    OBVIOUS
  <2>2. Reached[0] = {first}
    BY <1>0, <1>3, <2>1, Zenon
  <2>. QED
    BY <2>2 DEF first
<1>6. ASSUME NEW i \in 1 .. Len(schema)
      PROVE  Reached[i] = More(t, schema, Reached[i - 1], i)
  <2>1. i \in 0 .. Len(schema) /\ i # 0
    OBVIOUS
  <2>2. Reached[i] = Next1(Reached[i - 1], i)
    BY <1>0, <1>3, <2>1
  <2>. QED
    BY <2>2 DEF Next1
<1>7. IsRun(t, schema, Reached)
  BY <1>5, <1>6 DEF IsRun
<1>. QED
  BY <1>4, <1>7

\* What every step keeps, the partitions that come out have.
LEMMA RunKeeps ==
    ASSUME NEW t, NEW schema, Len(schema) \in Nat, NEW f, IsRun(t, schema, f), NEW Q,
           FirstState(t) \in Q[0],
           \A i \in 1 .. Len(schema) : \A a \in Q[i - 1] :
               Fits(t, schema, a, i) => RepartStep(t, schema, a, i) \in Q[i]
    PROVE  f[Len(schema)] \subseteq Q[Len(schema)]
<1>. DEFINE S == {i \in Nat : i <= Len(schema) => f[i] \subseteq Q[i]}
<1>1. 0 \in S
  BY DEF IsRun
<1>2. ASSUME NEW i \in Nat, i \in S
      PROVE  i + 1 \in S
  <2>. SUFFICES ASSUME i + 1 <= Len(schema) PROVE f[i + 1] \subseteq Q[i + 1]
    OBVIOUS
  <2>1. i + 1 \in 1 .. Len(schema) /\ (i + 1) - 1 = i /\ f[i] \subseteq Q[i]
    BY <1>2
  <2>2. f[i + 1] = More(t, schema, f[i], i + 1)
    BY <2>1 DEF IsRun
  <2>3. ASSUME NEW a \in f[i], Fits(t, schema, a, i + 1)
        PROVE  RepartStep(t, schema, a, i + 1) \in Q[i + 1]
    BY <2>1, <2>3
  <2>. QED
    BY <2>2, <2>3 DEF More
<1>. HIDE DEF S
<1>3. Nat \subseteq S
  BY <1>1, <1>2, SetInduction
<1>. QED
  BY <1>3 DEF S

\* Whatever the algorithm computes is a table.
LEMMA FirstTyped ==
    ASSUME NEW t, NEW schema, Typed(t, schema)
    PROVE  FirstState(t) \in Progress
<1>1. GptBlocks \in Nat
  BY RepartAssumption DEF RepartAssumption
<1>2. CeilAlign(FirstUsable) \in Nat
  BY <1>1, Aligned DEF FirstUsable
<1>3. LastUsable(t) \in Int
  BY <1>1, RepartAssumption DEF RepartAssumption, LastUsable, Least, Typed
<1>. QED
  BY <1>2, <1>3 DEF Progress, FirstState, Typed

LEMMA ComputedTyped ==
    ASSUME NEW old, NEW schema, Typed(old, schema)
    PROVE  Computed(old, schema) \subseteq Seq(Partitions)
<1>0. Len(schema) \in Nat
  BY DEF Typed
<1>1. PICK f : IsRun(old, schema, f) /\ Computed(old, schema) = {a.parts : a \in f[Len(schema)]}
  BY <1>0, ComputedRun
<1>. DEFINE Q == [i \in 0 .. Len(schema) |-> Progress]
<1>2. FirstState(old) \in Q[0] /\ Q[Len(schema)] = Progress
  BY <1>0, FirstTyped
<1>3. ASSUME NEW i \in 1 .. Len(schema), NEW a \in Q[i - 1], Fits(old, schema, a, i)
      PROVE  RepartStep(old, schema, a, i) \in Q[i]
  <2>1. Q[i - 1] = Progress /\ Q[i] = Progress
    BY <1>0
  <2>. QED
    BY <1>3, <2>1, RepartStepTyped
<1>. HIDE DEF Q
<1>4. f[Len(schema)] \subseteq Progress
  BY <1>0, <1>1, <1>2, <1>3, RunKeeps
<1>. QED
  BY <1>1, <1>4 DEF Progress

\* No two partitions share a block, except that the extended one holds those after it;
\* without an extended one all of them lie between the tables the disk keeps.
Apart(t) ==
    /\ \A i \in DOMAIN t.parts : t.parts[i].start >= FirstUsable
    /\ \A i, j \in DOMAIN t.parts : i < j =>
           \/ Blocks(t.parts[i]) \cap Blocks(t.parts[j]) = {}
           \/ IsExtended(t.parts[i]) /\ t.parts[i].start < t.parts[j].start
    /\ (\A i \in DOMAIN t.parts : ~IsExtended(t.parts[i])) => DiskIsSound(t)

\* The same, by the kind of the partition that comes first.
InOrder(t) ==
    /\ \A i \in 1 .. Len(t.parts) : t.parts[i].start >= FirstUsable
    /\ \A i, j \in 1 .. Len(t.parts) : i < j =>
           IF IsExtended(t.parts[i]) THEN t.parts[i].start < t.parts[j].start
           ELSE Blocks(t.parts[i]) \cap Blocks(t.parts[j]) = {}

\* The check compares each partition with the one before it; that is enough.
LEMMA CheckedApart ==
    ASSUME NEW t, t.parts \in Seq(Partitions), t.disk \in Nat, Validate(t)
    PROVE  Apart(t) /\ InOrder(t)
<1>. DEFINE N == Len(t.parts)
            Free(i) == FreeAfter(t, i)
<1>1. N \in Nat /\ DOMAIN t.parts = 1 .. N
  OBVIOUS
<1>2. GptBlocks \in Nat /\ Ebr \in Nat
  BY RepartAssumption DEF RepartAssumption
<1>3. ASSUME NEW i \in 1 .. N
      PROVE  /\ t.parts[i] \in Partitions
             /\ t.parts[i].start \in Nat /\ t.parts[i].size \in Nat
             /\ EndOf(t.parts[i]) \in Nat
             /\ EndOf(t.parts[i]) = t.parts[i].start + t.parts[i].size
  <2>1. t.parts[i] \in Partitions
    OBVIOUS
  <2>2. t.parts[i].start \in Nat /\ t.parts[i].size \in Nat
    BY <2>1 DEF Partitions
  <2>. QED
    BY <2>1, <2>2 DEF EndOf
<1>4. ASSUME NEW i \in 0 .. N
      PROVE  Free(i) \in Nat
  <2>1. CASE i = 0
    BY <1>2, <2>1 DEF FreeAfter, FirstUsable
  <2>2. CASE i # 0
    <3>1. i \in 1 .. N
      BY <1>1, <2>2
    <3>. HIDE DEF N
    <3>. QED
      BY <1>2, <1>3, <2>2, <3>1 DEF FreeAfter
  <2>. QED
    BY <2>1, <2>2
<1>5. ASSUME NEW i \in 1 .. N
      PROVE  /\ t.parts[i].start >= Free(i - 1) /\ Free(i) >= t.parts[i].start
             /\ ~IsExtended(t.parts[i]) => Free(i) = EndOf(t.parts[i])
             /\ IsLogical(t, i) => t.parts[i].start > Free(i - 1)
  <2>1. i - 1 \in 0 .. N /\ i # 0
    OBVIOUS
  <2>2. Free(i - 1) \in Nat
    BY <1>4, <2>1
  <2>3. IF IsLogical(t, i) THEN t.parts[i].start >= Free(i - 1) + 1
                           ELSE t.parts[i].start >= Free(i - 1)
    BY <1>1 DEF Validate
  <2>4. Free(i) = IF IsExtended(t.parts[i]) THEN t.parts[i].start + Ebr ELSE EndOf(t.parts[i])
    BY <2>1 DEF FreeAfter
  <2>. HIDE DEF Free
  <2>. QED
    BY <1>2, <1>3, <2>2, <2>3, <2>4 DEF EndOf
<1>. HIDE DEF N, Free
<1>6. ASSUME NEW i \in 0 .. N
      PROVE  \A j \in i .. N : Free(i) <= Free(j)
  <2>. DEFINE S == {k \in Nat : i + k <= N => Free(i) <= Free(i + k)}
  <2>1. 0 \in S
    BY <1>1, <1>4
  <2>2. ASSUME NEW k \in Nat, k \in S
        PROVE  k + 1 \in S
    <3>. SUFFICES ASSUME i + (k + 1) <= N PROVE Free(i) <= Free(i + (k + 1))
      OBVIOUS
    <3>1. i + (k + 1) \in 1 .. N /\ i + k \in 0 .. N /\ (i + (k + 1)) - 1 = i + k
      BY <1>1
    <3>2. Free(i) <= Free(i + k)
      BY <1>1, <2>2, <3>1
    <3>3. t.parts[i + (k + 1)].start \in Nat
      BY <1>3, <3>1
    <3>4. /\ t.parts[i + (k + 1)].start >= Free(i + k)
          /\ Free(i + (k + 1)) >= t.parts[i + (k + 1)].start
      BY <1>5, <3>1
    <3>. QED
      BY <1>1, <1>4, <3>1, <3>2, <3>3, <3>4
  <2>. HIDE DEF S
  <2>3. Nat \subseteq S
    BY <2>1, <2>2, SetInduction
  <2>. SUFFICES ASSUME NEW j \in i .. N PROVE Free(i) <= Free(j)
    OBVIOUS
  <2>4. j - i \in Nat /\ i + (j - i) = j /\ j <= N
    BY <1>1
  <2>5. j - i \in S
    BY <2>3, <2>4
  <2>. QED
    BY <2>4, <2>5 DEF S
<1>7. \A i \in 1 .. N : t.parts[i].start >= FirstUsable
  <2>. SUFFICES ASSUME NEW i \in 1 .. N PROVE t.parts[i].start >= FirstUsable
    OBVIOUS
  <2>1. Free(0) = FirstUsable
    BY DEF Free, FreeAfter
  <2>2. 0 \in 0 .. N /\ i - 1 \in 0 .. N
    BY <1>1
  <2>3. Free(0) <= Free(i - 1)
    BY <1>6, <2>2
  <2>4. Free(0) \in Nat /\ Free(i - 1) \in Nat
    BY <1>4, <2>2
  <2>. QED
    BY <1>3, <1>5, <2>1, <2>3, <2>4
<1>8. ASSUME NEW i \in 1 .. N, NEW j \in 1 .. N, i < j
      PROVE  Free(i) <= t.parts[j].start
  <2>1. i \in 0 .. N /\ j - 1 \in i .. N /\ j - 1 \in 0 .. N
    BY <1>1, <1>8
  <2>2. Free(i) <= Free(j - 1)
    BY <1>6, <2>1
  <2>3. Free(i) \in Nat /\ Free(j - 1) \in Nat
    BY <1>4, <2>1
  <2>. QED
    BY <1>3, <1>5, <2>2, <2>3
<1>9. ASSUME NEW i \in 1 .. N, NEW j \in 1 .. N, i < j, ~IsExtended(t.parts[i])
      PROVE  Blocks(t.parts[i]) \cap Blocks(t.parts[j]) = {}
  <2>1. EndOf(t.parts[i]) <= t.parts[j].start
    BY <1>5, <1>8, <1>9
  <2>2. EndOf(t.parts[i]) \in Nat /\ EndOf(t.parts[j]) \in Nat
    BY <1>3
  <2>. QED
    BY <1>3, <2>1, <2>2 DEF Blocks
<1>10. ASSUME NEW i \in 1 .. N, NEW j \in 1 .. N, i < j, IsExtended(t.parts[i])
       PROVE  t.parts[i].start < t.parts[j].start
  <2>1. IsLogical(t, j)
    BY <1>1, <1>10 DEF IsLogical
  <2>2. i \in 0 .. N /\ j - 1 \in i .. N /\ j - 1 \in 0 .. N
    BY <1>1, <1>10
  <2>3. Free(i) <= Free(j - 1) /\ Free(i) \in Nat /\ Free(j - 1) \in Nat
    BY <1>4, <1>6, <2>2
  <2>4. t.parts[j].start > Free(j - 1) /\ Free(i) >= t.parts[i].start
    BY <1>5, <2>1
  <2>. QED
    BY <1>3, <2>3, <2>4, SMTT(30)
<1>11. ASSUME \A i \in 1 .. N : ~IsExtended(t.parts[i])
       PROVE  DiskIsSound(t)
  <2>1. LastBlock(t) = LastUsable(t)
    <3>1. {i \in 1 .. Len(t.parts) : IsExtended(t.parts[i])} = {}
      BY <1>11 DEF N
    <3>2. SelectLastInSeq(t.parts, IsExtended) = 0
      BY <3>1 DEF SelectLastInSeq
    <3>. QED
      BY <3>2 DEF LastBlock
  <2>2. Free(N) - 1 <= LastUsable(t)
    BY <2>1 DEF Validate, Free, N
  <2>3. LastUsable(t) \in Int
    BY <1>2, RepartAssumption DEF RepartAssumption, LastUsable, Least
  <2>4. ASSUME NEW i \in 1 .. N
        PROVE  Blocks(t.parts[i]) \subseteq FirstUsable .. LastUsable(t)
    <3>1. i \in 0 .. N /\ N \in i .. N /\ N \in 0 .. N
      BY <1>1
    <3>2. Free(i) <= Free(N) /\ Free(i) \in Nat /\ Free(N) \in Nat
      BY <1>4, <1>6, <3>1
    <3>3. EndOf(t.parts[i]) = Free(i) /\ t.parts[i].start >= FirstUsable
      BY <1>5, <1>7, <1>11
    <3>. QED
      BY <1>2, <1>3, <2>2, <2>3, <3>2, <3>3, SMTT(30) DEF Blocks, EndOf, FirstUsable
  <2>. QED
    BY <1>1, <1>9, <1>11, <2>4 DEF DiskIsSound
<1>. QED
  BY <1>1, <1>7, <1>9, <1>10, <1>11 DEF Apart, InOrder, N

-----------------------------------------------------------------------------
(* What the repartitioning computes, partition by partition.                *)

\* What the algorithm knows before an entry can be read off the partitions p.
Inside(p, i) == i > 4 /\ IsExtended(p[4])
LastFor(t, p, i) == IF Inside(p, i) THEN EndOf(p[4]) - 1 ELSE LastUsable(t)
NextAfter(p, i) ==
    IF i = 1 THEN CeilAlign(FirstUsable)
    ELSE IF IsExtended(p[i - 1]) THEN p[i - 1].start ELSE EndOf(p[i - 1])
Before(t, p, i) ==
    [extended |-> Inside(p, i), last |-> LastFor(t, p, i), next |-> NextAfter(p, i), parts |-> p]

Room(t, schema, p, i) == Available(t, Before(t, p, i), i, Start(t, Before(t, p, i), i), schema[i].ty)
Want(schema, i, room) == IF schema[i].size = AllSpace THEN room ELSE Least(schema[i].size, room)
SizeFor(t, schema, p, i) ==
    LET want == Want(schema, i, Room(t, schema, p, i))
    IN  IF i <= Len(t.parts) THEN Greatest(want, t.parts[i].size) ELSE want

\* Partition i of p is what the algorithm makes of entry i of the schema.
LaidOut(t, schema, p, i) ==
    /\ Fits(t, schema, Before(t, p, i), i)
    /\ p[i] = [number |-> IF i <= Len(t.parts) THEN t.parts[i].number ELSE i,
               start |-> Start(t, Before(t, p, i), i),
               size |-> SizeFor(t, schema, p, i),
               ty |-> schema[i].ty]

\* It depends on the partition before it, and on the extended one.
LEMMA SameEntry ==
    ASSUME NEW t, NEW schema, NEW p, NEW q, NEW i \in Nat \ {0}, LaidOut(t, schema, p, i),
           q[i] = p[i], i > 1 => q[i - 1] = p[i - 1], i > 4 => q[4] = p[4]
    PROVE  LaidOut(t, schema, q, i)
<1>1. Inside(q, i) = Inside(p, i) /\ NextAfter(q, i) = NextAfter(p, i)
  BY DEF Inside, NextAfter
<1>2. LastFor(t, q, i) = LastFor(t, p, i)
  BY <1>1 DEF LastFor, Inside
<1>3. LET a == Before(t, p, i)
          b == Before(t, q, i)
      IN  a.extended = b.extended /\ a.last = b.last /\ a.next = b.next
  BY <1>1, <1>2 DEF Before
<1>4. Start(t, Before(t, p, i), i) = Start(t, Before(t, q, i), i)
  BY <1>3 DEF Start
<1>5. \A start, ty : Available(t, Before(t, p, i), i, start, ty) = Available(t, Before(t, q, i), i, start, ty)
  BY <1>3 DEF Available
<1>6. Fits(t, schema, Before(t, q, i), i)
  BY <1>3, <1>4, <1>5 DEF LaidOut, Fits
<1>7. SizeFor(t, schema, p, i) = SizeFor(t, schema, q, i)
  BY <1>4, <1>5 DEF SizeFor, Room
<1>. QED
  BY <1>4, <1>6, <1>7 DEF LaidOut

\* What is true after entry i.
After(t, schema, i, a) ==
    /\ Len(a.parts) = Greatest(Len(t.parts), i)
    /\ \A j \in 1 .. i : LaidOut(t, schema, a.parts, j)
    /\ \A j \in i + 1 .. Len(t.parts) : a.parts[j] = t.parts[j]
    /\ a.extended = Inside(a.parts, i + 1)
    /\ a.last = LastFor(t, a.parts, i + 1) /\ a.next = NextAfter(a.parts, i + 1)

LEMMA StepUnrolled ==
    ASSUME NEW t, NEW schema, Typed(t, schema), SchemaOK(schema), NEW i \in 1 .. Len(schema),
           NEW a \in Progress, After(t, schema, i - 1, a), Fits(t, schema, a, i)
    PROVE  After(t, schema, i, RepartStep(t, schema, a, i))
<1>. DEFINE b == RepartStep(t, schema, a, i)
            L == Len(t.parts)
            start == Start(t, a, i)
            ty == schema[i].ty
            available == Available(t, a, i, start, ty)
            want == Want(schema, i, available)
            size == IF i <= Len(t.parts) THEN Greatest(want, t.parts[i].size) ELSE want
<1>0. i \in Nat \ {0} /\ (i - 1) + 1 = i /\ L \in Nat /\ Len(schema) \in Nat
  BY DEF Typed
<1>1. b \in Progress
  BY RepartStepTyped
<1>2. b = [extended |-> a.extended \/ ty = "extended",
           last |-> IF ty = "extended" THEN start + size - 1 ELSE a.last,
           next |-> IF ty = "extended" THEN start ELSE start + size,
           parts |-> IF i <= Len(t.parts) THEN [a.parts EXCEPT ![i].size = size]
                     ELSE Append(a.parts, [number |-> i, start |-> start, size |-> size, ty |-> ty])]
  BY DEF RepartStep, Want
<1>3. /\ a.extended = Inside(a.parts, i) /\ a.last = LastFor(t, a.parts, i)
      /\ a.next = NextAfter(a.parts, i)
      /\ Len(a.parts) = Greatest(L, i - 1)
      /\ \A j \in i .. L : a.parts[j] = t.parts[j]
      /\ \A j \in 1 .. i - 1 : LaidOut(t, schema, a.parts, j)
  BY <1>0 DEF After
<1>4. a.parts \in Seq(Partitions) /\ b.parts \in Seq(Partitions)
  BY <1>1 DEF Progress
<1>5. \A j \in 1 .. L : t.parts[j] \in Partitions
  BY DEF Typed
<1>6. i <= L => t.parts[i].ty = ty
  BY DEF Fits
<1>. HIDE DEF b, start, ty, available, want, size
<1>7. /\ Len(b.parts) = Greatest(L, i)
      /\ \A j \in 1 .. Len(b.parts) : j # i => b.parts[j] = a.parts[j]
      /\ b.parts[i] = [number |-> IF i <= L THEN t.parts[i].number ELSE i,
                       start |-> start, size |-> size, ty |-> ty]
  <2>1. CASE i <= L
    <3>1. b.parts = [a.parts EXCEPT ![i].size = size] /\ Len(a.parts) = L
      BY <1>0, <1>2, <1>3, <2>1 DEF Greatest
    <3>2. i \in 1 .. L /\ a.parts[i] = t.parts[i] /\ t.parts[i] \in Partitions
      BY <1>0, <1>3, <1>5, <2>1
    <3>3. start = t.parts[i].start
      BY <2>1 DEF start, Start
    <3>4. b.parts[i] = [t.parts[i] EXCEPT !.size = size]
      BY <1>4, <3>1, <3>2
    <3>5. b.parts[i] = [number |-> t.parts[i].number, start |-> start, size |-> size, ty |-> ty]
      BY <1>6, <2>1, <3>2, <3>3, <3>4 DEF Partitions
    <3>6. Len(b.parts) = L /\ \A j \in 1 .. L : j # i => b.parts[j] = a.parts[j]
      BY <1>4, <3>1
    <3>7. Greatest(L, i) = L
      BY <1>0, <2>1 DEF Greatest
    <3>. QED
      BY <2>1, <3>5, <3>6, <3>7
  <2>2. CASE ~(i <= L)
    <3>1. /\ b.parts = Append(a.parts, [number |-> i, start |-> start, size |-> size, ty |-> ty])
          /\ Len(a.parts) = i - 1
      BY <1>0, <1>2, <1>3, <2>2 DEF Greatest
    <3>2. Len(b.parts) = i /\ b.parts[i] = [number |-> i, start |-> start, size |-> size, ty |-> ty]
      BY <1>0, <1>4, <3>1
    <3>3. \A j \in 1 .. i - 1 : b.parts[j] = a.parts[j]
      BY <1>0, <1>4, <3>1
    <3>4. Greatest(L, i) = i
      BY <1>0, <2>2 DEF Greatest
    <3>. QED
      BY <1>0, <2>2, <3>2, <3>3, <3>4
  <2>. QED
    BY <2>1, <2>2
<1>8. i <= Len(b.parts) /\ Len(b.parts) \in Nat
  BY <1>0, <1>7 DEF Greatest
<1>9. /\ Inside(b.parts, i) = Inside(a.parts, i) /\ LastFor(t, b.parts, i) = LastFor(t, a.parts, i)
      /\ NextAfter(b.parts, i) = NextAfter(a.parts, i)
  <2>1. i > 4 => b.parts[4] = a.parts[4]
    BY <1>0, <1>7, <1>8
  <2>2. i > 1 => b.parts[i - 1] = a.parts[i - 1]
    BY <1>0, <1>7, <1>8
  <2>. QED
    BY <1>0, <2>1, <2>2 DEF Inside, LastFor, NextAfter
<1>10. LaidOut(t, schema, b.parts, i)
  <2>1. LET c == Before(t, b.parts, i)
        IN  c.extended = a.extended /\ c.last = a.last /\ c.next = a.next
    BY <1>3, <1>9 DEF Before
  <2>2. Start(t, Before(t, b.parts, i), i) = start
    BY <2>1 DEF Start, start
  <2>3. \A s, y : Available(t, Before(t, b.parts, i), i, s, y) = Available(t, a, i, s, y)
    BY <2>1 DEF Available
  <2>4. SizeFor(t, schema, b.parts, i) = size
    BY <2>2, <2>3 DEF SizeFor, Room, size, want, available, ty
  <2>5. Fits(t, schema, Before(t, b.parts, i), i)
    BY <2>1, <2>2, <2>3 DEF Fits, start
  <2>. QED
    BY <1>7, <2>2, <2>4, <2>5 DEF LaidOut, ty
<1>11. ASSUME NEW j \in 1 .. i PROVE LaidOut(t, schema, b.parts, j)
  <2>1. CASE j = i
    BY <1>10, <2>1
  <2>2. CASE j # i
    <3>1. j \in 1 .. i - 1 /\ j \in Nat \ {0}
      BY <1>0, <2>2
    <3>2. b.parts[j] = a.parts[j]
      BY <1>0, <1>7, <1>8, <3>1
    <3>3. j > 1 => b.parts[j - 1] = a.parts[j - 1]
      BY <1>0, <1>7, <1>8, <3>1
    <3>4. j > 4 => b.parts[4] = a.parts[4]
      BY <1>0, <1>7, <1>8, <3>1
    <3>. QED
      BY <1>3, <3>1, <3>2, <3>3, <3>4, SameEntry
  <2>. QED
    BY <2>1, <2>2
<1>12. \A j \in i + 1 .. L : b.parts[j] = t.parts[j]
  <2>. SUFFICES ASSUME NEW j \in i + 1 .. L PROVE b.parts[j] = t.parts[j]
    OBVIOUS
  <2>1. j \in i .. L /\ j # i /\ j \in 1 .. Len(b.parts)
    BY <1>0, <1>7 DEF Greatest
  <2>. QED
    BY <1>3, <1>7, <2>1
<1>13. IsExtended(b.parts[i]) <=> ty = "extended"
  BY <1>7 DEF IsExtended
<1>14. b.extended = Inside(b.parts, i + 1)
  <2>1. b.extended = (a.extended \/ ty = "extended")
    BY <1>2
  <2>2. ty = "extended" => i = 4
    BY DEF SchemaOK, ty
  <2>3. Inside(b.parts, i + 1) <=> Inside(b.parts, i) \/ ty = "extended"
    <3>1. i + 1 > 4 <=> i > 4 \/ i = 4
      BY <1>0
    <3>2. i = 4 => (IsExtended(b.parts[4]) <=> ty = "extended")
      BY <1>13
    <3>3. i = 4 => ~(i > 4)
      OBVIOUS
    <3>. QED
      BY <2>2, <3>1, <3>2, <3>3, Zenon DEF Inside
  <2>4. a.extended <=> Inside(b.parts, i)
    BY <1>3, <1>9, Zenon
  <2>5. b.extended \in BOOLEAN /\ Inside(b.parts, i + 1) \in BOOLEAN
    BY <1>1, Zenon DEF Progress, Inside
  <2>. QED
    BY <2>1, <2>3, <2>4, <2>5
<1>15. b.last = LastFor(t, b.parts, i + 1)
  <2>1. b.last = IF ty = "extended" THEN start + size - 1 ELSE a.last
    BY <1>2
  <2>2. CASE ty = "extended"
    <3>1. i = 4
      BY <2>2 DEF SchemaOK, ty
    <3>2. Inside(b.parts, i + 1)
      BY <1>13, <2>2, <3>1 DEF Inside
    <3>3. EndOf(b.parts[4]) = start + size
      BY <1>7, <3>1 DEF EndOf
    <3>4. LastFor(t, b.parts, i + 1) = EndOf(b.parts[4]) - 1
      BY <3>2, Zenon DEF LastFor
    <3>5. b.last = (start + size) - 1
      <4>1. b.parts[i] \in Partitions
        BY <1>4, <1>8
      <4>2. start \in Nat /\ size \in Nat
        BY <1>7, <4>1 DEF Partitions
      <4>. QED
        BY <2>1, <2>2, <4>2
    <3>6. LastFor(t, b.parts, i + 1) = (start + size) - 1
      BY <3>3, <3>4, Zenon
    <3>. QED
      BY <3>5, <3>6, Zenon
  <2>3. CASE ty # "extended"
    <3>1. Inside(b.parts, i + 1) <=> Inside(b.parts, i)
      BY <1>0, <1>13, <2>3 DEF Inside
    <3>. QED
      BY <1>3, <1>9, <2>1, <2>3, <3>1 DEF LastFor
  <2>. QED
    BY <2>2, <2>3
<1>16. b.next = NextAfter(b.parts, i + 1)
  <2>1. b.next = IF ty = "extended" THEN start ELSE start + size
    BY <1>2
  <2>2. (i + 1) - 1 = i /\ i + 1 # 1
    BY <1>0
  <2>. QED
    BY <1>7, <1>13, <2>1, <2>2 DEF NextAfter, EndOf
<1>. QED
  BY <1>7, <1>11, <1>12, <1>14, <1>15, <1>16 DEF After, b

LEMMA Unrolled ==
    ASSUME NEW t, NEW schema, Typed(t, schema), SchemaOK(schema), NEW new \in Computed(t, schema)
    PROVE  /\ new \in Seq(Partitions) /\ Len(new) = Greatest(Len(t.parts), Len(schema))
           /\ \A i \in 1 .. Len(schema) : LaidOut(t, schema, new, i)
           /\ \A i \in Len(schema) + 1 .. Len(t.parts) : new[i] = t.parts[i]
<1>0. Len(schema) \in Nat /\ Len(t.parts) \in Nat
  BY DEF Typed
<1>1. PICK f : IsRun(t, schema, f) /\ Computed(t, schema) = {a.parts : a \in f[Len(schema)]}
  BY <1>0, ComputedRun
<1>. DEFINE Q == [i \in 0 .. Len(schema) |-> {a \in Progress : After(t, schema, i, a)}]
<1>2. FirstState(t) \in Q[0]
  <2>1. FirstState(t) \in Progress
    BY FirstTyped
  <2>2. After(t, schema, 0, FirstState(t))
    <3>1. Len(FirstState(t).parts) = Greatest(Len(t.parts), 0)
      BY <1>0 DEF FirstState, Greatest
    <3>2. \A p : ~Inside(p, 0 + 1)
      BY DEF Inside
    <3>3. FirstState(t).last = LastFor(t, FirstState(t).parts, 0 + 1)
      BY <3>2 DEF FirstState, LastFor
    <3>4. FirstState(t).next = NextAfter(FirstState(t).parts, 0 + 1)
      BY DEF FirstState, NextAfter
    <3>5. FirstState(t).extended = Inside(FirstState(t).parts, 0 + 1)
      <4>1. FirstState(t).extended = FALSE
        BY DEF FirstState
      <4>2. Inside(FirstState(t).parts, 0 + 1) \in BOOLEAN
        BY Zenon DEF Inside
      <4>. QED
        BY <3>2, <4>1, <4>2
    <3>6. \A j \in 0 + 1 .. Len(t.parts) : FirstState(t).parts[j] = t.parts[j]
      BY DEF FirstState
    <3>7. \A j \in 1 .. 0 : LaidOut(t, schema, FirstState(t).parts, j)
      OBVIOUS
    <3>. QED
      BY <3>1, <3>3, <3>4, <3>5, <3>6, <3>7 DEF After
  <2>. QED
    BY <1>0, <2>1, <2>2
<1>3. ASSUME NEW i \in 1 .. Len(schema), NEW a \in Q[i - 1], Fits(t, schema, a, i)
      PROVE  RepartStep(t, schema, a, i) \in Q[i]
  <2>1. i - 1 \in 0 .. Len(schema) /\ i \in 0 .. Len(schema)
    BY <1>0
  <2>2. a \in Progress /\ After(t, schema, i - 1, a)
    BY <2>1
  <2>. QED
    BY <1>3, <2>1, <2>2, RepartStepTyped, StepUnrolled
<1>4. Q[Len(schema)] = {a \in Progress : After(t, schema, Len(schema), a)}
  BY <1>0
<1>. HIDE DEF Q
<1>5. f[Len(schema)] \subseteq Q[Len(schema)]
  BY <1>0, <1>1, <1>2, <1>3, RunKeeps
<1>. QED
  BY <1>1, <1>4, <1>5 DEF After, Progress

\* The first block that partition i of p may have.
FreeBefore(p, i) ==
    IF i = 1 THEN FirstUsable
    ELSE IF IsExtended(p[i - 1]) THEN p[i - 1].start + Ebr ELSE EndOf(p[i - 1])

\* Partition i of p lies between those before it and the last block that is left.
Placed(t, p, i) ==
    /\ p[i].number = i
    /\ IsExtended(p[i]) => i = 4
    /\ p[i].start >= FreeBefore(p, i) /\ (Inside(p, i) => p[i].start > FreeBefore(p, i))
    /\ EndOf(p[i]) - 1 <= LastFor(t, p, i)

LEMMA Sizes ==
    ASSUME NEW p \in Seq(Partitions), NEW i \in 1 .. Len(p)
    PROVE  /\ p[i] \in Partitions
           /\ p[i].number \in Nat /\ p[i].start \in Nat /\ p[i].size \in Nat
           /\ EndOf(p[i]) \in Nat /\ EndOf(p[i]) = p[i].start + p[i].size
<1>1. p[i] \in Partitions
  OBVIOUS
<1>2. p[i].number \in Nat /\ p[i].start \in Nat /\ p[i].size \in Nat
  BY <1>1 DEF Partitions
<1>. QED
  BY <1>1, <1>2 DEF EndOf

\* With the extended partition in the fourth place, the logical ones are those after it.
LEMMA LogicalInside ==
    ASSUME NEW t, t.parts \in Seq(Partitions),
           \A i \in 1 .. Len(t.parts) : IsExtended(t.parts[i]) => i = 4
    PROVE  /\ \A i \in 1 .. Len(t.parts) : IsLogical(t, i) <=> Inside(t.parts, i)
           /\ LastBlock(t) = IF Len(t.parts) >= 4 /\ IsExtended(t.parts[4]) THEN EndOf(t.parts[4])
                             ELSE LastUsable(t)
<1>. DEFINE N == Len(t.parts)
<1>1. N \in Nat
  OBVIOUS
<1>2. ASSUME NEW i \in 1 .. N
      PROVE  IsLogical(t, i) <=> Inside(t.parts, i)
  <2>1. ASSUME IsLogical(t, i) PROVE Inside(t.parts, i)
    <3>1. PICK j \in 1 .. (i - 1) : IsExtended(t.parts[j])
      BY <2>1 DEF IsLogical
    <3>2. j = 4
      BY <1>1, <3>1
    <3>. QED
      BY <1>1, <3>1, <3>2 DEF Inside
  <2>2. ASSUME Inside(t.parts, i) PROVE IsLogical(t, i)
    <3>1. 4 \in 1 .. (i - 1) /\ IsExtended(t.parts[4])
      BY <1>1, <2>2 DEF Inside
    <3>. QED
      BY <3>1 DEF IsLogical
  <2>. QED
    BY <2>1, <2>2
<1>. DEFINE I == {i \in 1 .. N : IsExtended(t.parts[i])}
            last == IF I # {} THEN CHOOSE x \in I : \A y \in I : x >= y ELSE 0
<1>3. SelectLastInSeq(t.parts, IsExtended) = last
  BY DEF SelectLastInSeq, Max
<1>4. CASE N >= 4 /\ IsExtended(t.parts[4])
  <2>1. I = {4}
    BY <1>1, <1>4
  <2>2. last = 4
    BY <2>1
  <2>3. SelectLastInSeq(t.parts, IsExtended) = 4
    BY <1>3, <2>2
  <2>4. LastBlock(t) = EndOf(t.parts[4])
    BY <2>3 DEF LastBlock
  <2>. QED
    BY <1>2, <1>4, <2>4
<1>5. CASE ~(N >= 4 /\ IsExtended(t.parts[4]))
  <2>1. I = {}
    BY <1>1, <1>5
  <2>2. last = 0
    BY <2>1
  <2>. QED
    BY <1>2, <1>3, <1>5, <2>2 DEF LastBlock
<1>. QED
  BY <1>4, <1>5

\* Where everything is placed well, the check succeeds and the disk is sound.
LEMMA PlacedIsSound ==
    ASSUME NEW t, t.parts \in Seq(Partitions), t.disk \in Nat,
           \A i \in 1 .. Len(t.parts) : Placed(t, t.parts, i),
           Len(t.parts) = 0 \/ IsExtended(t.parts[Len(t.parts)]) =>
               FreeAfter(t, Len(t.parts)) - 1 <= LastBlock(t)
    PROVE  Validate(t) /\ DiskIsSound(t)
<1>. DEFINE N == Len(t.parts)
            p == t.parts
<1>1. N \in Nat /\ DOMAIN t.parts = 1 .. N /\ GptBlocks \in Nat /\ Ebr \in Nat
  BY RepartAssumption DEF RepartAssumption
<1>2. \A i \in 1 .. N : IsExtended(p[i]) => i = 4
  BY DEF Placed
<1>3. /\ \A i \in 1 .. N : IsLogical(t, i) <=> Inside(p, i)
      /\ LastBlock(t) = IF N >= 4 /\ IsExtended(p[4]) THEN EndOf(p[4]) ELSE LastUsable(t)
  BY <1>2, LogicalInside
<1>4. LastUsable(t) \in Int
  BY <1>1, RepartAssumption DEF RepartAssumption, LastUsable, Least
<1>5. ASSUME NEW i \in 1 .. N
      PROVE  /\ p[i].number = i /\ (IsExtended(p[i]) => i = 4)
             /\ p[i].start >= FreeBefore(p, i) /\ (Inside(p, i) => p[i].start > FreeBefore(p, i))
             /\ EndOf(p[i]) - 1 <= LastFor(t, p, i)
  BY DEF Placed
<1>6. ASSUME NEW i \in 1 .. N
      PROVE  FreeAfter(t, i - 1) = FreeBefore(p, i) /\ FreeBefore(p, i) \in Nat
  <2>1. CASE i = 1
    BY <1>1, <2>1 DEF FreeAfter, FreeBefore, FirstUsable
  <2>2. CASE i # 1
    <3>1. i - 1 \in 1 .. N /\ i - 1 # 0
      BY <1>1, <2>2
    <3>2. p[i - 1].start \in Nat /\ EndOf(p[i - 1]) \in Nat
      BY <3>1, Sizes
    <3>. QED
      BY <1>1, <2>2, <3>1, <3>2 DEF FreeAfter, FreeBefore
  <2>. QED
    BY <2>1, <2>2
<1>7. Validate(t)
  <2>1. ASSUME NEW i \in 1 .. N
        PROVE  /\ IF IsLogical(t, i)
                  THEN p[i].start >= FreeAfter(t, i - 1) + 1 /\ p[i].number = NumberAfter(t, i - 1)
                  ELSE p[i].start >= FreeAfter(t, i - 1) /\ p[i].number >= NumberAfter(t, i - 1)
               /\ IsExtended(p[i]) => p[i].number <= 4
    <3>1. p[i].start \in Nat /\ p[i].number = i
      BY <1>5, Sizes
    <3>2. NumberAfter(t, i - 1) = i
      <4>1. CASE i = 1
        BY <4>1 DEF NumberAfter
      <4>2. CASE i # 1
        <5>1. i - 1 \in 1 .. N /\ i - 1 # 0
          BY <1>1, <4>2
        <5>2. p[i - 1].number = i - 1 /\ (IsExtended(p[i - 1]) => i - 1 = 4)
          BY <1>5, <5>1
        <5>. QED
          BY <5>1, <5>2 DEF NumberAfter
      <4>. QED
        BY <4>1, <4>2
    <3>3. IF IsLogical(t, i) THEN p[i].start >= FreeAfter(t, i - 1) + 1
                             ELSE p[i].start >= FreeAfter(t, i - 1)
      BY <1>3, <1>5, <1>6, <3>1
    <3>. QED
      BY <1>5, <3>1, <3>2, <3>3
  <2>2. FreeAfter(t, N) - 1 <= LastBlock(t)
    <3>. SUFFICES ASSUME N # 0, ~IsExtended(p[N]) PROVE FreeAfter(t, N) - 1 <= LastBlock(t)
      OBVIOUS
    <3>1. N \in 1 .. N
      BY <1>1
    <3>2. FreeAfter(t, N) = EndOf(p[N]) /\ EndOf(p[N]) \in Nat
      BY <3>1, Sizes DEF FreeAfter
    <3>3. EndOf(p[N]) - 1 <= LastFor(t, p, N)
      BY <1>5, <3>1
    <3>4. CASE Inside(p, N)
      <4>1. 4 \in 1 .. N /\ N >= 4 /\ IsExtended(p[4])
        BY <1>1, <3>4 DEF Inside
      <4>2. LastBlock(t) = EndOf(p[4]) /\ LastFor(t, p, N) = EndOf(p[4]) - 1
        BY <1>3, <3>4, <4>1 DEF LastFor
      <4>3. EndOf(p[4]) \in Nat
        BY <4>1, Sizes
      <4>. QED
        BY <3>2, <3>3, <4>2, <4>3
    <3>5. CASE ~Inside(p, N)
      <4>1. ~(N >= 4 /\ IsExtended(p[4]))
        BY <1>1, <3>5 DEF Inside
      <4>2. LastBlock(t) = LastUsable(t) /\ LastFor(t, p, N) = LastUsable(t)
        BY <1>3, <3>5, <4>1 DEF LastFor
      <4>. QED
        BY <3>2, <3>3, <4>2
    <3>. QED
      BY <3>4, <3>5
  <2>. HIDE DEF N, p
  <2>. QED
    BY <1>1, <2>1, <2>2 DEF Validate, N, p
<1>8. /\ \A i \in 1 .. N : p[i].start >= FirstUsable
      /\ \A i, j \in 1 .. N : i < j =>
             IF IsExtended(p[i]) THEN p[i].start < p[j].start
             ELSE Blocks(p[i]) \cap Blocks(p[j]) = {}
  BY <1>7, CheckedApart DEF InOrder
<1>9. FirstUsable \in Nat
  BY <1>1 DEF FirstUsable
<1>10. ASSUME NEW i \in 1 .. N
       PROVE  EndOf(p[i]) \in Nat /\ p[i].start \in Nat /\ EndOf(p[i]) - 1 <= LastUsable(t)
  <2>1. EndOf(p[i]) \in Nat /\ p[i].start \in Nat
    BY Sizes
  <2>2. CASE ~Inside(p, i)
    BY <1>5, <2>1, <2>2 DEF LastFor
  <2>3. CASE Inside(p, i)
    <3>1. 4 \in 1 .. N /\ ~Inside(p, 4)
      BY <1>1, <2>3 DEF Inside
    <3>2. EndOf(p[4]) \in Nat /\ EndOf(p[4]) - 1 <= LastUsable(t)
      BY <1>5, <3>1, Sizes DEF LastFor
    <3>3. EndOf(p[i]) - 1 <= EndOf(p[4]) - 1
      BY <1>5, <2>3 DEF LastFor
    <3>. QED
      BY <1>4, <2>1, <3>2, <3>3
  <2>. QED
    BY <2>2, <2>3
<1>11. ASSUME NEW i \in 1 .. N
       PROVE  Blocks(p[i]) \subseteq FirstUsable .. LastUsable(t)
  <2>1. p[i].start >= FirstUsable
    BY <1>8
  <2>. QED
    BY <1>4, <1>9, <1>10, <2>1 DEF Blocks
<1>12. ASSUME NEW i \in 1 .. N, NEW j \in 1 .. N, i < j
       PROVE  IF IsExtended(p[i]) THEN Blocks(p[j]) \subseteq Blocks(p[i])
              ELSE Blocks(p[i]) \cap Blocks(p[j]) = {}
  <2>1. CASE IsExtended(p[i])
    <3>1. i = 4 /\ Inside(p, j)
      BY <1>1, <1>5, <1>12, <2>1 DEF Inside
    <3>2. EndOf(p[j]) - 1 <= EndOf(p[i]) - 1
      BY <1>5, <3>1 DEF LastFor
    <3>3. p[i].start < p[j].start
      BY <1>8, <1>12, <2>1
    <3>. QED
      BY <1>10, <2>1, <3>2, <3>3, SMTT(30) DEF Blocks
  <2>2. CASE ~IsExtended(p[i])
    BY <1>8, <1>12, <2>2
  <2>. QED
    BY <2>1, <2>2
<1>. QED
  BY <1>1, <1>7, <1>11, <1>12 DEF DiskIsSound

LEMMA ImagePlaced ==
    ASSUME NEW t, NEW schema, ImageOK(t, schema), NEW i \in 1 .. Len(t.parts)
    PROVE  Placed(t, t.parts, i)
<1>. DEFINE N == Len(t.parts)
            p == t.parts
<1>1. p \in Seq(Partitions) /\ t.disk \in Nat /\ N \in Nat /\ DOMAIN p = 1 .. N
  BY DEF ImageOK, Typed
<1>2. GptBlocks \in Nat /\ Ebr \in Nat
  BY RepartAssumption DEF RepartAssumption
<1>3. \A j \in 1 .. N : p[j].number = j /\ p[j].size > 0 /\ (IsExtended(p[j]) => j = 4)
  BY DEF ImageOK
<1>4. IsLogical(t, i) <=> Inside(p, i)
  BY <1>1, <1>3, LogicalInside
<1>5. IF IsLogical(t, i) THEN p[i].start >= FreeAfter(t, i - 1) + 1
                         ELSE p[i].start >= FreeAfter(t, i - 1)
  BY <1>1 DEF ImageOK, Validate
<1>6. FreeAfter(t, i - 1) = FreeBefore(p, i) /\ FreeBefore(p, i) \in Nat
  <2>1. CASE i = 1
    BY <1>2, <2>1 DEF FreeAfter, FreeBefore, FirstUsable
  <2>2. CASE i # 1
    <3>1. i - 1 \in 1 .. N /\ i - 1 # 0
      BY <1>1, <2>2
    <3>2. p[i - 1].start \in Nat /\ EndOf(p[i - 1]) \in Nat
      BY <1>1, <3>1, Sizes
    <3>. QED
      BY <1>2, <2>2, <3>1, <3>2 DEF FreeAfter, FreeBefore
  <2>. QED
    BY <2>1, <2>2
<1>7. p[i].start \in Nat /\ p[i].size \in Nat /\ EndOf(p[i]) = p[i].start + p[i].size
  BY <1>1, Sizes
<1>8. EndOf(p[i]) - 1 \in Blocks(p[i])
  BY <1>3, <1>7 DEF Blocks
<1>9. EndOf(p[i]) - 1 <= LastFor(t, p, i)
  <2>1. CASE Inside(p, i)
    <3>1. 4 \in 1 .. N /\ 4 < i /\ IsExtended(p[4])
      BY <1>1, <2>1 DEF Inside
    <3>2. Blocks(p[i]) \subseteq Blocks(p[4])
      BY <1>1, <3>1 DEF ImageOK, DiskIsSound
    <3>. QED
      BY <1>8, <2>1, <3>2 DEF Blocks, LastFor
  <2>2. CASE ~Inside(p, i)
    <3>1. Blocks(p[i]) \subseteq FirstUsable .. LastUsable(t)
      BY <1>1 DEF ImageOK, DiskIsSound
    <3>. QED
      BY <1>8, <2>2, <3>1 DEF LastFor
  <2>. QED
    BY <2>1, <2>2
<1>. QED
  BY <1>3, <1>4, <1>5, <1>6, <1>7, <1>9 DEF Placed

\* A partition of the image keeps its place and does not shrink, the others are aligned.
LEMMA NewPartitions ==
    ASSUME NEW t, NEW schema, ImageOK(t, schema), NEW new \in Computed(t, schema)
    PROVE  /\ \A i \in 1 .. Len(t.parts) :
                /\ new[i].number = i /\ new[i].ty = t.parts[i].ty
                /\ new[i].start = t.parts[i].start /\ new[i].size >= t.parts[i].size
                /\ Inside(new, i) = Inside(t.parts, i)
           /\ \A i \in Len(t.parts) + 1 .. Len(new) :
                /\ i \in 1 .. Len(schema) /\ new[i].number = i
                /\ new[i].start = CeilAlign(IF Inside(new, i) THEN NextAfter(new, i) + Ebr
                                            ELSE NextAfter(new, i))
           /\ \A i \in 1 .. Len(new) : IsExtended(new[i]) => i = 4
<1>. DEFINE L == Len(t.parts)
            M == Len(schema)
            N == Len(new)
<1>0. Typed(t, schema) /\ SchemaOK(schema)
  BY DEF ImageOK
<1>1. /\ new \in Seq(Partitions) /\ N = Greatest(L, M)
      /\ \A i \in 1 .. M : LaidOut(t, schema, new, i)
      /\ \A i \in M + 1 .. L : new[i] = t.parts[i]
  BY <1>0, Unrolled
<1>2. L \in Nat /\ M \in Nat /\ N \in Nat /\ N >= L /\ N >= M /\ t.parts \in Seq(Partitions)
      /\ (L < N => N = M)
  BY <1>0, <1>1 DEF Typed, Greatest
<1>3. \A i \in 1 .. L : t.parts[i].number = i /\ (IsExtended(t.parts[i]) => i = 4)
  BY DEF ImageOK
<1>4. ASSUME NEW i \in 1 .. L
      PROVE  /\ new[i].number = i /\ new[i].ty = t.parts[i].ty
             /\ new[i].start = t.parts[i].start /\ new[i].size >= t.parts[i].size
  <2>1. t.parts[i].size \in Nat /\ i \in 1 .. N
    BY <1>2, Sizes
  <2>2. CASE i \in 1 .. M
    <3>1. LaidOut(t, schema, new, i)
      BY <1>1, <2>2
    <3>2. t.parts[i].ty = schema[i].ty
      BY <3>1 DEF LaidOut, Fits
    <3>3. Start(t, Before(t, new, i), i) = t.parts[i].start
      BY DEF Start
    <3>4. SizeFor(t, schema, new, i) = Greatest(Want(schema, i, Room(t, schema, new, i)), t.parts[i].size)
      BY DEF SizeFor
    <3>5. new[i].size = Greatest(Want(schema, i, Room(t, schema, new, i)), t.parts[i].size)
      BY <3>1, <3>4 DEF LaidOut
    <3>6. new[i].size \in Nat
      BY <1>1, <2>1, Sizes
    <3>7. new[i].size >= t.parts[i].size
      BY <2>1, <3>5, <3>6 DEF Greatest
    <3>. QED
      BY <1>3, <3>1, <3>2, <3>3, <3>7 DEF LaidOut
  <2>3. CASE i \notin 1 .. M
    <3>1. i \in M + 1 .. L
      BY <1>2, <2>3
    <3>. QED
      BY <1>1, <1>3, <2>1, <3>1
  <2>. QED
    BY <2>2, <2>3
<1>5. ASSUME NEW i \in 1 .. L
      PROVE  Inside(new, i) = Inside(t.parts, i)
  <2>1. i > 4 => 4 \in 1 .. L
    BY <1>2
  <2>. QED
    BY <1>4, <2>1 DEF Inside, IsExtended
<1>6. ASSUME NEW i \in L + 1 .. N
      PROVE  /\ i \in 1 .. M /\ new[i].number = i /\ new[i].ty = schema[i].ty
             /\ new[i].start = CeilAlign(IF Inside(new, i) THEN NextAfter(new, i) + Ebr
                                         ELSE NextAfter(new, i))
  <2>1. i \in 1 .. M /\ ~(i <= L)
    BY <1>2
  <2>2. LaidOut(t, schema, new, i)
    BY <1>1, <2>1
  <2>3. Start(t, Before(t, new, i), i)
          = CeilAlign(IF Inside(new, i) THEN NextAfter(new, i) + Ebr ELSE NextAfter(new, i))
    BY <2>1 DEF Start, Before
  <2>. QED
    BY <2>1, <2>2, <2>3 DEF LaidOut
<1>7. ASSUME NEW i \in 1 .. N, IsExtended(new[i])
      PROVE  i = 4
  <2>1. CASE i \in 1 .. L
    BY <1>3, <1>4, <1>7, <2>1 DEF IsExtended
  <2>2. CASE i \notin 1 .. L
    <3>1. i \in L + 1 .. N
      BY <1>2, <2>2
    <3>2. i \in 1 .. M /\ schema[i].ty = "extended"
      BY <1>6, <1>7, <3>1 DEF IsExtended
    <3>. QED
      BY <1>0, <3>2 DEF SchemaOK
  <2>. QED
    BY <2>1, <2>2
<1>. QED
  BY <1>4, <1>5, <1>6, <1>7

\* What the algorithm takes into account for a partition are numbers.
LEMMA Numbers ==
    ASSUME NEW t, NEW schema, Typed(t, schema), NEW p \in Seq(Partitions),
           NEW i \in 1 .. Len(p), i \in 1 .. Len(schema)
    PROVE  /\ LastFor(t, p, i) \in Int /\ NextAfter(p, i) \in Nat
           /\ schema[i].size \in Nat
           /\ LET start == Start(t, Before(t, p, i), i)
              IN  /\ start \in Nat
                  /\ Available(t, Before(t, p, i), i, start, schema[i].ty) \in Int
<1>1. GptBlocks \in Nat /\ Ebr \in Nat
  BY RepartAssumption DEF RepartAssumption
<1>2. Len(p) \in Nat /\ Len(t.parts) \in Nat /\ t.parts \in Seq(Partitions) /\ t.disk \in Nat
  BY DEF Typed
<1>3. LastFor(t, p, i) \in Int
  <2>1. CASE Inside(p, i)
    <3>1. 4 \in 1 .. Len(p)
      BY <1>2, <2>1 DEF Inside
    <3>2. EndOf(p[4]) \in Nat
      BY <3>1, Sizes
    <3>. QED
      BY <2>1, <3>2 DEF LastFor
  <2>2. CASE ~Inside(p, i)
    BY <1>1, <1>2, <2>2, RepartAssumption DEF RepartAssumption, LastFor, LastUsable, Least
  <2>. QED
    BY <2>1, <2>2
<1>4. NextAfter(p, i) \in Nat
  <2>1. CASE i = 1
    <3>1. FirstUsable \in Nat
      BY <1>1 DEF FirstUsable
    <3>. QED
      BY <2>1, <3>1, Aligned DEF NextAfter
  <2>2. CASE i # 1
    <3>1. i - 1 \in 1 .. Len(p)
      BY <1>2, <2>2
    <3>2. p[i - 1].start \in Nat /\ EndOf(p[i - 1]) \in Nat
      BY <3>1, Sizes
    <3>. QED
      BY <2>2, <3>2 DEF NextAfter
  <2>. QED
    BY <2>1, <2>2
<1>5. schema[i].size \in Nat
  <2>1. schema[i] \in Entries
    BY DEF Typed
  <2>. QED
    BY <2>1 DEF Entries
<1>. DEFINE start == Start(t, Before(t, p, i), i)
<1>6. start \in Nat
  <2>1. CASE i <= Len(t.parts)
    <3>1. t.parts[i].start \in Nat
      BY <1>2, <2>1, Sizes
    <3>. QED
      BY <2>1, <3>1 DEF Start
  <2>2. CASE ~(i <= Len(t.parts))
    <3>1. (IF Inside(p, i) THEN NextAfter(p, i) + Ebr ELSE NextAfter(p, i)) \in Nat
      BY <1>1, <1>4
    <3>2. CeilAlign(IF Inside(p, i) THEN NextAfter(p, i) + Ebr ELSE NextAfter(p, i)) \in Nat
      BY <3>1, Aligned
    <3>. QED
      BY <2>2, <3>2 DEF Start, Before
  <2>. QED
    BY <2>1, <2>2
<1>. HIDE DEF start
<1>7. Available(t, Before(t, p, i), i, start, schema[i].ty) \in Int
  <2>1. CASE schema[i].ty # "extended" /\ i < Len(t.parts)
    <3>. DEFINE gap == t.parts[i + 1].start - start
    <3>1. i + 1 \in 1 .. Len(t.parts)
      BY <1>2, <2>1
    <3>2. gap \in Int /\ gap - Ebr \in Int
      BY <1>1, <1>2, <1>6, <3>1, Sizes, SMTT(30)
    <3>. HIDE DEF gap
    <3>3. FloorAlign(gap - Ebr) \in Int
      BY <3>2, Aligned
    <3>4. Available(t, Before(t, p, i), i, start, schema[i].ty)
            = IF Inside(p, i) THEN FloorAlign(gap - Ebr) ELSE gap
      BY <2>1 DEF Available, Before, gap
    <3>. QED
      BY <3>2, <3>3, <3>4
  <2>2. CASE ~(schema[i].ty # "extended" /\ i < Len(t.parts))
    <3>1. Available(t, Before(t, p, i), i, start, schema[i].ty) = LastFor(t, p, i) - start + 1
      BY <2>2 DEF Available, Before
    <3>. QED
      BY <1>3, <1>6, <3>1
  <2>. QED
    BY <2>1, <2>2
<1>. QED
  BY <1>3, <1>4, <1>5, <1>6, <1>7 DEF start

\* The size of a partition is what is asked for, but at most the room there is, and at
\* least what it was.
LEMMA NewSize ==
    ASSUME NEW t, NEW schema, ImageOK(t, schema), NEW new \in Computed(t, schema),
           NEW i \in 1 .. Len(schema)
    PROVE  LET room == Room(t, schema, new, i)
               want == Want(schema, i, room)
           IN  /\ room \in Nat /\ want \in Nat /\ want <= room /\ schema[i].size \in Nat
               /\ schema[i].size # AllSpace => want <= schema[i].size
               /\ want = room \/ (schema[i].size # AllSpace /\ want = schema[i].size)
               /\ new[i].size = IF i <= Len(t.parts) THEN Greatest(want, t.parts[i].size) ELSE want
               /\ room = IF ~IsExtended(new[i]) /\ i < Len(t.parts)
                         THEN IF Inside(new, i) THEN FloorAlign((t.parts[i + 1].start - new[i].start) - Ebr)
                              ELSE t.parts[i + 1].start - new[i].start
                         ELSE (LastFor(t, new, i) - new[i].start) + 1
               /\ LastFor(t, new, i) \in Int
               /\ new[i].ty = schema[i].ty
               /\ ~IsExtended(new[i]) /\ i >= Len(t.parts) => new[i].start < LastFor(t, new, i)
<1>. DEFINE room == Room(t, schema, new, i)
            want == Want(schema, i, room)
            start == Start(t, Before(t, new, i), i)
<1>1. /\ Typed(t, schema) /\ new \in Seq(Partitions) /\ LaidOut(t, schema, new, i)
      /\ Len(new) = Greatest(Len(t.parts), Len(schema))
  BY Unrolled DEF ImageOK
<1>2. i \in 1 .. Len(new)
  BY <1>1 DEF Greatest, Typed
<1>3. /\ LastFor(t, new, i) \in Int /\ schema[i].size \in Nat /\ start \in Nat /\ room \in Int
  BY <1>1, <1>2, Numbers DEF Room
<1>4. new[i].start = start /\ new[i].ty = schema[i].ty /\ new[i].size = SizeFor(t, schema, new, i)
  BY <1>1 DEF LaidOut
<1>5. new[i].size = IF i <= Len(t.parts) THEN Greatest(want, t.parts[i].size) ELSE want
  BY <1>4 DEF SizeFor
<1>6. Fits(t, schema, Before(t, new, i), i)
  BY <1>1 DEF LaidOut
<1>7. room >= 0
  BY <1>6 DEF Fits, Room
<1>8. ~IsExtended(new[i]) /\ i >= Len(t.parts) => new[i].start < LastFor(t, new, i)
  BY <1>4, <1>6 DEF Fits, IsExtended, Before
<1>. HIDE DEF start
<1>9. room = Available(t, Before(t, new, i), i, new[i].start, schema[i].ty)
  BY <1>4 DEF Room, start
<1>10. room = IF ~IsExtended(new[i]) /\ i < Len(t.parts)
              THEN IF Inside(new, i) THEN FloorAlign((t.parts[i + 1].start - new[i].start) - Ebr)
                   ELSE t.parts[i + 1].start - new[i].start
              ELSE (LastFor(t, new, i) - new[i].start) + 1
  BY <1>4, <1>9 DEF Available, Before, IsExtended
<1>. HIDE DEF room
<1>11. /\ want \in Nat /\ want <= room
       /\ schema[i].size # AllSpace => want <= schema[i].size
       /\ want = room \/ (schema[i].size # AllSpace /\ want = schema[i].size)
  BY <1>3, <1>7 DEF Want, Least, AllSpace
<1>. HIDE DEF want
<1>. QED
  BY <1>3, <1>4, <1>5, <1>7, <1>8, <1>10, <1>11 DEF room, want

\* The new partitions are placed well.
LEMMA NewPlaced ==
    ASSUME NEW t, NEW schema, ImageOK(t, schema), NEW new \in Computed(t, schema),
           NEW i \in 1 .. Len(new)
    PROVE  Placed(t, new, i)
<1>. DEFINE L == Len(t.parts)
            M == Len(schema)
            N == Len(new)
            p == t.parts
<1>1. /\ Typed(t, schema) /\ new \in Seq(Partitions) /\ N = Greatest(L, M)
      /\ \A j \in M + 1 .. L : new[j] = p[j]
  BY Unrolled DEF ImageOK
<1>2. L \in Nat /\ M \in Nat /\ N \in Nat /\ N >= L /\ N >= M /\ p \in Seq(Partitions)
  BY <1>1 DEF Typed, Greatest
<1>3. Align \in Nat /\ Ebr \in Nat /\ Ebr > 0 /\ Ebr < Align /\ FirstUsable \in Nat
  BY RepartAssumption DEF RepartAssumption, FirstUsable
<1>4. /\ \A j \in 1 .. L :
            /\ new[j].number = j /\ new[j].ty = p[j].ty
            /\ new[j].start = p[j].start /\ new[j].size >= p[j].size
            /\ Inside(new, j) = Inside(p, j)
      /\ \A j \in L + 1 .. N :
            /\ j \in 1 .. M /\ new[j].number = j
            /\ new[j].start = CeilAlign(IF Inside(new, j) THEN NextAfter(new, j) + Ebr
                                        ELSE NextAfter(new, j))
      /\ \A j \in 1 .. N : IsExtended(new[j]) => j = 4
  BY NewPartitions
<1>5. \A j \in 1 .. L : IsExtended(new[j]) <=> IsExtended(p[j])
  BY <1>4 DEF IsExtended
<1>6. ASSUME NEW j \in 1 .. L
      PROVE  Placed(t, p, j) /\ p[j].size > 0
  BY ImagePlaced DEF ImageOK
<1>7. ASSUME NEW j \in 1 .. N
      PROVE  /\ new[j].start \in Nat /\ new[j].size \in Nat
             /\ EndOf(new[j]) \in Nat /\ EndOf(new[j]) = new[j].start + new[j].size
  BY <1>1, Sizes
<1>8. ASSUME NEW j \in 1 .. L
      PROVE  /\ p[j].start \in Nat /\ p[j].size \in Nat
             /\ EndOf(p[j]) \in Nat /\ EndOf(p[j]) = p[j].start + p[j].size
  BY <1>2, Sizes
<1>9. LastUsable(t) \in Int
  BY <1>1, RepartAssumption DEF RepartAssumption, LastUsable, Least, Typed
<1>10. ASSUME NEW j \in 1 .. L
       PROVE  /\ LastFor(t, p, j) \in Int /\ LastFor(t, new, j) \in Int
              /\ LastFor(t, p, j) <= LastFor(t, new, j)
  <2>1. CASE Inside(p, j)
    <3>1. 4 \in 1 .. L /\ 4 \in 1 .. N
      BY <1>2, <2>1 DEF Inside
    <3>2. EndOf(p[4]) \in Nat /\ EndOf(new[4]) \in Nat /\ EndOf(p[4]) <= EndOf(new[4])
      <4>1. new[4].start = p[4].start /\ new[4].size >= p[4].size
        BY <1>4, <3>1
      <4>2. /\ new[4].size \in Nat /\ EndOf(new[4]) = new[4].start + new[4].size
            /\ EndOf(new[4]) \in Nat
        BY <1>7, <3>1
      <4>3. /\ p[4].start \in Nat /\ p[4].size \in Nat /\ EndOf(p[4]) = p[4].start + p[4].size
            /\ EndOf(p[4]) \in Nat
        BY <1>8, <3>1
      <4>. QED
        BY <4>1, <4>2, <4>3, SMTT(30)
    <3>3. LastFor(t, p, j) = EndOf(p[4]) - 1 /\ LastFor(t, new, j) = EndOf(new[4]) - 1
      BY <1>4, <2>1 DEF LastFor
    <3>. QED
      BY <3>2, <3>3
  <2>2. CASE ~Inside(p, j)
    BY <1>4, <1>9, <2>2 DEF LastFor
  <2>. QED
    BY <2>1, <2>2
\* Within the image a partition grows up to the next one at most.
<1>11. ASSUME NEW j \in 1 .. L - 1, ~IsExtended(new[j])
       PROVE  /\ EndOf(new[j]) <= p[j + 1].start
              /\ Inside(new, j) => EndOf(new[j]) < p[j + 1].start
  <2>1. j \in 1 .. L /\ j + 1 \in 1 .. L /\ j \in 1 .. N /\ j < L /\ (j + 1) - 1 = j /\ j + 1 # 1
    BY <1>2
  <2>2. Placed(t, p, j + 1) /\ ~IsExtended(p[j])
    BY <1>5, <1>6, <1>11, <2>1
  <2>3. FreeBefore(p, j + 1) = EndOf(p[j])
    BY <2>1, <2>2 DEF FreeBefore
  <2>4. Inside(new, j) => Inside(p, j + 1)
    BY <1>4, <2>1 DEF Inside
  <2>5. /\ EndOf(p[j]) <= p[j + 1].start
        /\ Inside(new, j) => EndOf(p[j]) < p[j + 1].start
    BY <1>8, <2>1, <2>2, <2>3, <2>4 DEF Placed
  <2>6. CASE j \in 1 .. M
    <3>. DEFINE room == Room(t, schema, new, j)
                want == Want(schema, j, room)
                gap == p[j + 1].start - new[j].start
    <3>1. /\ room \in Nat /\ want \in Nat /\ want <= room
          /\ new[j].size = Greatest(want, p[j].size)
          /\ room = IF Inside(new, j) THEN FloorAlign(gap - Ebr) ELSE gap
      BY <1>11, <2>1, <2>6, NewSize
    <3>2. gap \in Int /\ gap - Ebr \in Int
      <4>1. p[j + 1].start \in Nat
        BY <1>8, <2>1
      <4>2. new[j].start \in Nat
        BY <1>7, <2>1
      <4>. QED
        BY <1>3, <4>1, <4>2, SMTT(30)
    <3>3. FloorAlign(gap - Ebr) <= gap - Ebr /\ FloorAlign(gap - Ebr) \in Int
      BY <3>2, Aligned
    <3>. HIDE DEF room, want
    <3>4. want <= gap /\ (Inside(new, j) => want < gap)
      BY <1>3, <3>1, <3>2, <3>3
    <3>5. new[j].size = want \/ new[j].size = p[j].size
      BY <3>1 DEF Greatest
    <3>6. /\ EndOf(new[j]) = new[j].start + new[j].size /\ new[j].start \in Nat
          /\ new[j].start = p[j].start /\ EndOf(p[j]) = p[j].start + p[j].size
          /\ p[j + 1].start \in Nat /\ p[j].size \in Nat
      BY <1>4, <1>7, <1>8, <2>1
    <3>. QED
      BY <2>5, <3>1, <3>4, <3>5, <3>6, SMTT(30)
  <2>7. CASE j \notin 1 .. M
    <3>1. j \in M + 1 .. L
      BY <1>2, <2>1, <2>7
    <3>2. new[j] = p[j]
      BY <1>1, <3>1
    <3>. QED
      BY <2>5, <3>2
  <2>. QED
    BY <2>6, <2>7
<1>12. EndOf(new[i]) - 1 <= LastFor(t, new, i)
  <2>1. CASE i \in 1 .. L - 1 /\ ~IsExtended(new[i])
    <3>1. i \in 1 .. L /\ i + 1 \in 1 .. L
      BY <1>2, <2>1
    <3>2. EndOf(new[i]) <= p[i + 1].start
      BY <1>11, <2>1
    <3>3. p[i + 1].start <= EndOf(p[i + 1]) - 1
      BY <1>6, <1>8, <3>1, SMTT(30)
    <3>4. EndOf(p[i + 1]) - 1 <= LastFor(t, p, i + 1)
      BY <1>6, <3>1 DEF Placed
    <3>5. LastFor(t, p, i + 1) = LastFor(t, p, i)
      <4>1. ~IsExtended(p[i])
        BY <1>5, <2>1, <3>1
      <4>2. Inside(p, i + 1) <=> Inside(p, i)
        <5>1. i + 1 > 4 <=> i > 4 \/ i = 4
          BY <1>2, <3>1
        <5>. QED
          BY <4>1, <5>1 DEF Inside
      <4>. QED
        BY <4>2 DEF LastFor
    <3>6. LastFor(t, p, i) <= LastFor(t, new, i)
      BY <1>10, <3>1
    <3>. QED
      BY <1>7, <1>8, <1>10, <3>1, <3>2, <3>3, <3>4, <3>5, <3>6, SMTT(30)
  <2>2. CASE i \in 1 .. L /\ i \notin 1 .. M
    <3>1. i \in M + 1 .. L
      BY <1>2, <2>2
    <3>2. new[i] = p[i]
      BY <1>1, <3>1
    <3>. QED
      BY <1>6, <1>7, <1>10, <2>2, <3>2 DEF Placed
  <2>3. CASE i \in 1 .. M /\ ~(i \in 1 .. L - 1 /\ ~IsExtended(new[i]))
    <3>. DEFINE room == Room(t, schema, new, i)
                want == Want(schema, i, room)
    <3>0. ~(~IsExtended(new[i]) /\ i < L)
      BY <1>2, <2>3
    <3>1. /\ room \in Nat /\ want \in Nat /\ want <= room
          /\ new[i].size = IF i <= L THEN Greatest(want, p[i].size) ELSE want
          /\ room = (LastFor(t, new, i) - new[i].start) + 1
          /\ LastFor(t, new, i) \in Int
      BY <2>3, <3>0, NewSize
    <3>. HIDE DEF room, want
    <3>2. new[i].start \in Nat /\ EndOf(new[i]) = new[i].start + new[i].size
      BY <1>7
    <3>3. CASE new[i].size = want
      BY <3>1, <3>2, <3>3
    <3>4. CASE new[i].size # want
      <4>1. i \in 1 .. L /\ new[i].size = p[i].size
        BY <1>2, <3>1, <3>4 DEF Greatest
      <4>2. EndOf(new[i]) = EndOf(p[i])
        BY <1>4, <3>2, <4>1 DEF EndOf
      <4>3. EndOf(p[i]) - 1 <= LastFor(t, p, i)
        BY <1>6, <4>1 DEF Placed
      <4>. QED
        BY <1>8, <1>10, <4>1, <4>2, <4>3
    <3>. QED
      BY <3>3, <3>4
  <2>4. i \in 1 .. L \/ i \in 1 .. M
    BY <1>1, <1>2 DEF Greatest
  <2>. QED
    BY <2>1, <2>2, <2>3, <2>4
<1>13. new[i].start >= FreeBefore(new, i) /\ (Inside(new, i) => new[i].start > FreeBefore(new, i))
  <2>1. CASE i \in 1 .. L
    <3>1. /\ p[i].start >= FreeBefore(p, i) /\ (Inside(p, i) => p[i].start > FreeBefore(p, i))
          /\ new[i].start = p[i].start /\ Inside(new, i) = Inside(p, i)
      BY <1>4, <1>6, <2>1 DEF Placed
    <3>2. CASE i = 1
      BY <3>1, <3>2 DEF FreeBefore
    <3>3. CASE i # 1
      <4>1. i - 1 \in 1 .. L /\ i - 1 \in 1 .. L - 1 /\ (i - 1) + 1 = i
        BY <1>2, <2>1, <3>3
      <4>2. CASE IsExtended(new[i - 1])
        <5>1. IsExtended(p[i - 1]) /\ new[i - 1].start = p[i - 1].start
          BY <1>4, <1>5, <4>1, <4>2
        <5>2. FreeBefore(new, i) = FreeBefore(p, i)
          BY <3>3, <4>2, <5>1 DEF FreeBefore
        <5>. QED
          BY <3>1, <5>2
      <4>3. CASE ~IsExtended(new[i - 1])
        <5>1. FreeBefore(new, i) = EndOf(new[i - 1])
          BY <3>3, <4>3 DEF FreeBefore
        <5>2. /\ EndOf(new[i - 1]) <= p[i].start
              /\ Inside(new, i - 1) => EndOf(new[i - 1]) < p[i].start
          BY <1>11, <4>1, <4>3
        <5>3. Inside(new, i) => Inside(new, i - 1)
          <6>1. i > 4 => i - 1 > 4 \/ i - 1 = 4
            BY <2>1
          <6>. QED
            BY <4>3, <6>1 DEF Inside
        <5>. QED
          BY <1>7, <1>8, <2>1, <3>1, <4>1, <5>1, <5>2, <5>3
      <4>. QED
        BY <4>2, <4>3
    <3>. QED
      BY <3>2, <3>3
  <2>2. CASE i \notin 1 .. L
    <3>. DEFINE from == IF Inside(new, i) THEN NextAfter(new, i) + Ebr ELSE NextAfter(new, i)
    <3>1. i \in L + 1 .. N
      BY <1>2, <2>2
    <3>2. i \in 1 .. M /\ new[i].start = CeilAlign(from)
      BY <1>4, <3>1
    <3>3. NextAfter(new, i) \in Nat
      BY <1>1, <3>2, Numbers
    <3>4. from \in Nat
      BY <1>3, <3>3
    <3>5. CeilAlign(from) \in Nat /\ CeilAlign(from) >= from
      BY <3>4, Aligned
    <3>6. CASE i = 1
      <4>1. ~Inside(new, i) /\ NextAfter(new, i) = CeilAlign(FirstUsable) /\ FreeBefore(new, i) = FirstUsable
        BY <3>6 DEF Inside, NextAfter, FreeBefore
      <4>2. CeilAlign(FirstUsable) >= FirstUsable /\ CeilAlign(FirstUsable) \in Nat
        BY <1>3, Aligned
      <4>. QED
        BY <1>3, <3>2, <3>3, <3>5, <4>1, <4>2
    <3>7. CASE i # 1 /\ IsExtended(new[i - 1])
      <4>1. i - 1 \in 1 .. N
        BY <1>2, <3>7
      <4>2. i - 1 = 4
        BY <1>4, <3>7, <4>1
      <4>3. i = 5 /\ 4 \in 1 .. N /\ IsExtended(new[4]) /\ Inside(new, i)
        BY <3>7, <4>1, <4>2 DEF Inside
      <4>4. from = new[4].start + Ebr /\ FreeBefore(new, i) = new[4].start + Ebr
        BY <4>3 DEF NextAfter, FreeBefore
      <4>5. CeilAlign(new[4].start) = new[4].start
        <5>1. CASE 4 \in 1 .. L
          BY <1>4, <1>5, <4>3, <5>1 DEF ImageOK
        <5>2. CASE 4 \notin 1 .. L
          <6>. DEFINE before == IF Inside(new, 4) THEN NextAfter(new, 4) + Ebr ELSE NextAfter(new, 4)
          <6>1. 4 \in L + 1 .. N
            BY <1>2, <4>3, <5>2
          <6>2. 4 \in 1 .. M /\ new[4].start = CeilAlign(before)
            BY <1>4, <6>1
          <6>3. NextAfter(new, 4) \in Nat
            BY <1>1, <4>3, <6>2, Numbers
          <6>4. before \in Nat
            BY <1>3, <6>3
          <6>. HIDE DEF before
          <6>. QED
            BY <6>2, <6>4, Aligned
        <5>. QED
          BY <5>1, <5>2
      <4>6. new[4].start \in Nat
        BY <1>7, <4>3
      <4>7. CeilAlign(new[4].start + Ebr) > new[4].start + Ebr
        BY <1>3, <4>5, <4>6, Aligned
      <4>. QED
        BY <3>2, <3>5, <4>4, <4>7
    <3>8. CASE i # 1 /\ ~IsExtended(new[i - 1])
      <4>1. FreeBefore(new, i) = EndOf(new[i - 1]) /\ NextAfter(new, i) = EndOf(new[i - 1])
        BY <3>8 DEF FreeBefore, NextAfter
      <4>. QED
        BY <1>3, <3>2, <3>3, <3>5, <4>1
    <3>. QED
      BY <3>6, <3>7, <3>8
  <2>. QED
    BY <2>1, <2>2
<1>14. new[i].number = i /\ (IsExtended(new[i]) => i = 4)
  <2>1. i \in 1 .. L \/ i \in L + 1 .. N
    BY <1>2
  <2>. QED
    BY <1>4, <2>1
<1>. QED
  BY <1>12, <1>13, <1>14 DEF Placed

IsTable(t) == t = [ty |-> t.ty, disk |-> t.disk, parts |-> t.parts]

\* The table that the algorithm arrives at passes the check, and the disk is sound.
THEOREM RepartIsSound ==
    ASSUME NEW t, IsTable(t), NEW schema, ImageOK(t, schema)
    PROVE  RepartSound(t, schema)
<1>1. ASSUME NEW new \in Computed(t, schema)
      PROVE  CheckNewTable(t, new) /\ DiskIsSound([t EXCEPT !.parts = new])
  <2>. DEFINE u == [t EXCEPT !.parts = new]
              L == Len(t.parts)
              M == Len(schema)
              N == Len(new)
  <2>1. /\ Typed(t, schema) /\ SchemaOK(schema) /\ new \in Seq(Partitions) /\ N = Greatest(L, M)
        /\ \A j \in M + 1 .. L : new[j] = t.parts[j]
    BY Unrolled DEF ImageOK
  <2>2. L \in Nat /\ M \in Nat /\ N \in Nat /\ N >= L /\ N >= M /\ t.parts \in Seq(Partitions)
    BY <2>1 DEF Typed, Greatest
  <2>3. u.parts = new /\ u.disk = t.disk /\ u.ty = t.ty
    <3>. DEFINE ty == t.ty
                disk == t.disk
                parts_ == t.parts
    <3>1. t = [ty |-> ty, disk |-> disk, parts |-> parts_]
      BY DEF IsTable
    <3>. HIDE DEF ty, disk, parts_
    <3>2. u = [ty |-> ty, disk |-> disk, parts |-> new]
      BY <3>1
    <3>. HIDE DEF u
    <3>. QED
      BY <3>2 DEF ty, disk
  <2>. HIDE DEF u
  <2>4. LastUsable(u) = LastUsable(t)
    BY <2>3 DEF LastUsable, Least
  <2>5. \A i \in 1 .. N : Placed(u, new, i)
    BY <2>4, NewPlaced DEF Placed, LastFor
  <2>6. /\ \A i \in 1 .. L :
              /\ new[i].ty = t.parts[i].ty /\ new[i].start = t.parts[i].start
              /\ new[i].size >= t.parts[i].size
        /\ \A i \in 1 .. N : IsExtended(new[i]) => i = 4
        /\ \A i \in L + 1 .. N : i \in 1 .. M
    BY NewPartitions
  <2>7. ASSUME N = 0 \/ IsExtended(new[N])
        PROVE  FreeAfter(u, N) - 1 <= LastBlock(u)
    <3>1. FreeAfter(t, L) - 1 <= LastBlock(t)
      BY DEF ImageOK, Validate
    <3>2. /\ LastBlock(u) = IF N >= 4 /\ IsExtended(new[4]) THEN EndOf(new[4]) ELSE LastUsable(u)
          /\ LastBlock(t) = IF L >= 4 /\ IsExtended(t.parts[4]) THEN EndOf(t.parts[4]) ELSE LastUsable(t)
      <4>1. \A i \in 1 .. L : IsExtended(t.parts[i]) => i = 4
        BY DEF ImageOK
      <4>. QED
        BY <2>1, <2>2, <2>3, <2>6, <4>1, LogicalInside
    <3>3. CASE N = 0
      <4>1. L = 0
        BY <2>2, <3>3
      <4>. QED
        BY <2>4, <3>1, <3>2, <3>3, <4>1 DEF FreeAfter
    <3>4. CASE N # 0
      <4>1. N \in 1 .. N /\ IsExtended(new[N])
        BY <2>2, <2>7, <3>4
      <4>2. N = 4
        BY <2>6, <4>1
      <4>3. M < 4
        <5>. SUFFICES ASSUME 4 \in 1 .. M PROVE FALSE
          BY <2>2, <4>2
        <5>1. new[4].ty = schema[4].ty
          BY NewSize
        <5>2. schema[4].ty = "extended"
          BY <4>1, <4>2, <5>1 DEF IsExtended
        <5>. QED
          BY <2>1, <2>2, <4>2, <5>2 DEF SchemaOK
      <4>4. L = 4 /\ 4 \in M + 1 .. L
        <5>1. N = IF L > M THEN L ELSE M
          BY <2>1 DEF Greatest
        <5>. HIDE DEF L, M, N
        <5>. QED
          BY <2>2, <4>2, <4>3, <5>1
      <4>5. new[4] = t.parts[4]
        BY <2>1, <4>4
      <4>6. FreeAfter(u, N) = FreeAfter(t, L)
        BY <2>3, <4>2, <4>4, <4>5 DEF FreeAfter
      <4>. QED
        BY <3>1, <3>2, <4>1, <4>2, <4>4, <4>5, <4>6
    <3>. QED
      BY <3>3, <3>4
  <2>8. u.parts \in Seq(Partitions) /\ u.disk \in Nat
    BY <2>1, <2>3 DEF Typed
  <2>9. Validate(u) /\ DiskIsSound(u)
    BY <2>3, <2>5, <2>7, <2>8, PlacedIsSound
  <2>10. Keeps(t.parts, new)
    <3>1. DOMAIN t.parts = 1 .. L /\ DOMAIN new = 1 .. N
      BY <2>1, <2>2
    <3>. QED
      BY <2>2, <2>6, <3>1 DEF Keeps
  <2>. QED
    BY <2>9, <2>10 DEF CheckNewTable, u
<1>. QED
  BY <1>1 DEF RepartSound, ImageOK

-----------------------------------------------------------------------------
\* A partition that is laid out as the schema wants it stays as it is.
LEMMA Stays ==
    ASSUME NEW t, NEW schema, Typed(t, schema), SchemaOK(schema),
           NEW i \in 1 .. Len(schema), i <= Len(t.parts), LaidOut(t, schema, t.parts, i)
    PROVE  /\ Fits(t, schema, Before(t, t.parts, i), i)
           /\ RepartStep(t, schema, Before(t, t.parts, i), i) = Before(t, t.parts, i + 1)
<1>. DEFINE p == t.parts
            a == Before(t, p, i)
            start == Start(t, a, i)
            ty == schema[i].ty
            available == Available(t, a, i, start, ty)
            want == Want(schema, i, available)
            size == Greatest(want, p[i].size)
<1>1. p \in Seq(Partitions) /\ i \in 1 .. Len(p) /\ Len(p) \in Nat /\ i \in Nat
  BY DEF Typed
<1>2. Fits(t, schema, a, i)
  BY DEF LaidOut
<1>3. RepartStep(t, schema, a, i) =
        [extended |-> a.extended \/ ty = "extended",
         last |-> IF ty = "extended" THEN start + size - 1 ELSE a.last,
         next |-> IF ty = "extended" THEN start ELSE start + size,
         parts |-> [a.parts EXCEPT ![i].size = size]]
  BY DEF RepartStep, Want
<1>4. p[i].start = start /\ p[i].ty = ty /\ p[i].size = size
  BY DEF LaidOut, SizeFor, Room
<1>5. start \in Nat /\ size \in Nat /\ EndOf(p[i]) = start + size
  BY <1>1, <1>4, Sizes
<1>6. a.extended = Inside(p, i) /\ a.last = LastFor(t, p, i) /\ a.parts = p
  BY DEF Before
<1>. HIDE DEF start, available, want, size
<1>7. [a.parts EXCEPT ![i].size = size] = p
  <2>1. p[i] \in Partitions /\ p = [j \in 1 .. Len(p) |-> p[j]]
    BY <1>1
  <2>2. [p[i] EXCEPT !.size = size] = p[i]
    BY <1>4, <2>1 DEF Partitions
  <2>3. [p EXCEPT ![i].size = size] = [p EXCEPT ![i] = p[i]]
    BY <2>2
  <2>4. [p EXCEPT ![i] = p[i]] = p
    BY <1>1
  <2>. QED
    BY <1>6, <2>3, <2>4
<1>8. IsExtended(p[i]) <=> ty = "extended"
  BY <1>4 DEF IsExtended
<1>9. ty = "extended" => i = 4
  BY DEF SchemaOK
<1>10. Inside(p, i + 1) <=> Inside(p, i) \/ ty = "extended"
  <2>1. i + 1 > 4 <=> i > 4 \/ i = 4
    BY <1>1
  <2>2. i = 4 => ~(i > 4)
    OBVIOUS
  <2>. QED
    BY <1>8, <1>9, <2>1, <2>2, Zenon DEF Inside
<1>11. (a.extended \/ ty = "extended") = Inside(p, i + 1)
  <2>1. Inside(p, i) \in BOOLEAN /\ Inside(p, i + 1) \in BOOLEAN
    BY Zenon DEF Inside
  <2>. QED
    BY <1>6, <1>10, <2>1
<1>12. (IF ty = "extended" THEN start + size - 1 ELSE a.last) = LastFor(t, p, i + 1)
  <2>1. CASE ty = "extended"
    <3>1. Inside(p, i + 1) /\ EndOf(p[4]) = start + size
      BY <1>5, <1>9, <1>10, <2>1
    <3>. QED
      BY <1>5, <2>1, <3>1 DEF LastFor
  <2>2. CASE ty # "extended"
    BY <1>6, <1>10, <2>2 DEF LastFor
  <2>. QED
    BY <2>1, <2>2
<1>13. (IF ty = "extended" THEN start ELSE start + size) = NextAfter(p, i + 1)
  <2>1. (i + 1) - 1 = i /\ i + 1 # 1
    BY <1>1
  <2>. QED
    BY <1>4, <1>5, <1>8, <2>1 DEF NextAfter
<1>. QED
  BY <1>2, <1>3, <1>7, <1>11, <1>12, <1>13 DEF Before

\* A table that is laid out as the schema wants it is what the algorithm computes.
LEMMA Settled ==
    ASSUME NEW t, NEW schema, Typed(t, schema), SchemaOK(schema), Len(schema) <= Len(t.parts),
           \A i \in 1 .. Len(schema) : LaidOut(t, schema, t.parts, i)
    PROVE  Computed(t, schema) = {t.parts}
<1>0. Len(schema) \in Nat
  BY DEF Typed
<1>1. PICK f : IsRun(t, schema, f) /\ Computed(t, schema) = {a.parts : a \in f[Len(schema)]}
  BY <1>0, ComputedRun
<1>. DEFINE S == {i \in Nat : i <= Len(schema) => f[i] = {Before(t, t.parts, i + 1)}}
<1>2. 0 \in S
  <2>1. FirstState(t) = Before(t, t.parts, 1)
    <3>1. Inside(t.parts, 1) = FALSE
      BY DEF Inside
    <3>. QED
      BY <3>1 DEF FirstState, Before, LastFor, NextAfter
  <2>. QED
    BY <1>1, <2>1 DEF IsRun
<1>3. ASSUME NEW i \in Nat, i \in S
      PROVE  i + 1 \in S
  <2>. SUFFICES ASSUME i + 1 <= Len(schema) PROVE f[i + 1] = {Before(t, t.parts, (i + 1) + 1)}
    OBVIOUS
  <2>. DEFINE a == Before(t, t.parts, i + 1)
  <2>1. i + 1 \in 1 .. Len(schema) /\ (i + 1) - 1 = i /\ f[i] = {a}
    BY <1>0, <1>3
  <2>2. f[i + 1] = More(t, schema, {a}, i + 1)
    BY <1>1, <2>1 DEF IsRun
  <2>3. Fits(t, schema, a, i + 1) /\ RepartStep(t, schema, a, i + 1) = Before(t, t.parts, (i + 1) + 1)
    <3>1. i + 1 <= Len(t.parts) /\ LaidOut(t, schema, t.parts, i + 1)
      <4>1. Len(t.parts) \in Nat
        BY DEF Typed
      <4>. QED
        BY <1>0, <2>1, <4>1
    <3>. QED
      BY <2>1, <3>1, Stays
  <2>. HIDE DEF a
  <2>. QED
    BY <2>2, <2>3 DEF More
<1>. HIDE DEF S
<1>4. Nat \subseteq S
  BY <1>2, <1>3, SetInduction
<1>5. f[Len(schema)] = {Before(t, t.parts, Len(schema) + 1)}
  BY <1>0, <1>4 DEF S
<1>. QED
  BY <1>1, <1>5 DEF Before

\* A partition that another one follows was not given all of the room.
LEMMA NotAllRoom ==
    ASSUME NEW t, NEW schema, ImageOK(t, schema), NEW new \in Computed(t, schema),
           NEW i \in 1 .. Len(schema), i >= Len(t.parts), i < Len(new), ~IsExtended(new[i])
    PROVE  EndOf(new[i]) <= LastFor(t, new, i)
<1>. DEFINE L == Len(t.parts)
            M == Len(schema)
            N == Len(new)
            last == LastFor(t, new, i)
<1>1. Typed(t, schema) /\ SchemaOK(schema) /\ new \in Seq(Partitions) /\ N = Greatest(L, M)
  BY Unrolled DEF ImageOK
<1>2. /\ L \in Nat /\ M \in Nat /\ N \in Nat /\ i \in Nat
      /\ i \in 1 .. N /\ i + 1 \in 1 .. N /\ i + 1 \in 1 .. M /\ i + 1 > L /\ (i + 1) - 1 = i /\ i + 1 # 1
  <2>1. L \in Nat /\ M \in Nat
    BY <1>1 DEF Typed
  <2>2. N = IF L > M THEN L ELSE M
    BY <1>1 DEF Greatest
  <2>. HIDE DEF L, M, N
  <2>. QED
    BY <2>1, <2>2 DEF L, M, N
<1>3. Ebr \in Nat
  BY RepartAssumption DEF RepartAssumption
<1>4. last \in Int
  BY NewSize
<1>5. /\ EndOf(new[i]) \in Nat /\ new[i + 1].start \in Nat /\ EndOf(new[i + 1]) \in Nat
  BY <1>1, <1>2, Sizes
<1>6. new[i + 1].start >= EndOf(new[i])
  <2>1. Placed(t, new, i + 1)
    BY <1>2, NewPlaced
  <2>2. FreeBefore(new, i + 1) = EndOf(new[i])
    BY <1>2 DEF FreeBefore
  <2>. QED
    BY <2>1, <2>2 DEF Placed
<1>7. LastFor(t, new, i + 1) = last
  <2>1. Inside(new, i + 1) <=> Inside(new, i)
    <3>1. i + 1 > 4 <=> i > 4 \/ i = 4
      BY <1>2
    <3>. QED
      BY <3>1 DEF Inside
  <2>. QED
    BY <2>1 DEF LastFor
<1>8. CASE ~IsExtended(new[i + 1])
  <2>1. new[i + 1].start < LastFor(t, new, i + 1)
    BY <1>2, <1>8, NewSize
  <2>. QED
    BY <1>4, <1>5, <1>6, <1>7, <2>1
<1>9. CASE IsExtended(new[i + 1])
  <2>1. i + 1 = 4
    BY <1>2, <1>9, NewPartitions
  <2>2. schema[4].ty = "extended"
    <3>1. new[i + 1].ty = schema[i + 1].ty
      BY <1>2, NewSize
    <3>. QED
      BY <1>9, <2>1, <3>1 DEF IsExtended
  <2>3. M > 4
    BY <1>1, <1>2, <2>1, <2>2 DEF SchemaOK
  <2>4. 5 \in 1 .. M /\ 5 \in 1 .. N /\ 5 >= L
    <3>1. N = IF L > M THEN L ELSE M
      BY <1>1 DEF Greatest
    <3>. HIDE DEF L, M, N
    <3>. QED
      BY <1>2, <2>1, <2>3, <3>1
  <2>5. ~IsExtended(new[5])
    BY <2>4, NewPartitions
  <2>6. new[5].start < LastFor(t, new, 5)
    BY <2>4, <2>5, NewSize
  <2>7. IsExtended(new[4])
    BY <1>9, <2>1
  <2>8. LastFor(t, new, 5) = EndOf(new[4]) - 1
    BY <2>7 DEF LastFor, Inside
  <2>9. EndOf(new[4]) - 1 <= last
    <3>1. EndOf(new[i + 1]) - 1 <= LastFor(t, new, i + 1)
      BY <1>2, NewPlaced DEF Placed
    <3>. QED
      BY <1>7, <2>1, <3>1
  <2>10. new[5].start >= new[4].start + Ebr
    <3>1. Placed(t, new, 5)
      BY <2>4, NewPlaced
    <3>2. FreeBefore(new, 5) = new[4].start + Ebr
      BY <2>7 DEF FreeBefore
    <3>. QED
      BY <3>1, <3>2 DEF Placed
  <2>11. new[5].start \in Nat
    BY <1>1, <2>4, Sizes
  <2>12. /\ EndOf(new[4]) \in Nat /\ new[4].start \in Nat /\ new[4].start >= EndOf(new[i])
    BY <1>5, <1>6, <2>1
  <2>13. new[5].start < EndOf(new[4]) - 1
    BY <2>6, <2>8
  <2>14. \A x, y, z, e \in Nat : \A l \in Int :
            x < y /\ y <= l /\ x >= z + e => z <= l
    OBVIOUS
  <2>15. EndOf(new[4]) - 1 >= 0 /\ EndOf(new[4]) - 1 \in Nat
    BY <2>11, <2>12, <2>13
  <2>16. new[4].start <= last
    BY <1>3, <1>4, <2>9, <2>10, <2>11, <2>12, <2>13, <2>14, <2>15, SMTT(30)
  <2>. QED
    BY <1>4, <1>5, <2>12, <2>16
<1>. QED
  BY <1>8, <1>9

\* What the algorithm has made of a disk is laid out as the schema wants it.
LEMMA LaidOutAgain ==
    ASSUME NEW t, IsTable(t), NEW schema, ImageOK(t, schema),
           NEW new \in Computed(t, schema), NEW i \in 1 .. Len(schema)
    PROVE  LaidOut([t EXCEPT !.parts = new], schema, new, i)
<1>. DEFINE u == [t EXCEPT !.parts = new]
            L == Len(t.parts)
            M == Len(schema)
            N == Len(new)
            a == Before(u, new, i)
            start == new[i].start
            ty == schema[i].ty
            s == schema[i].size
            room == Room(t, schema, new, i)
            again == Available(u, a, i, start, ty)
<1>1. Typed(t, schema) /\ SchemaOK(schema) /\ new \in Seq(Partitions) /\ N = Greatest(L, M)
  BY Unrolled DEF ImageOK
<1>2. L \in Nat /\ M \in Nat /\ N \in Nat /\ N >= L /\ N >= M /\ i \in 1 .. N /\ i \in Nat
  <2>1. L \in Nat /\ M \in Nat
    BY <1>1 DEF Typed
  <2>2. N = IF L > M THEN L ELSE M
    BY <1>1 DEF Greatest
  <2>. HIDE DEF L, M, N
  <2>. QED
    BY <2>1, <2>2 DEF L, M, N
<1>3. u.parts = new /\ u.disk = t.disk /\ u.ty = t.ty
  <2>. DEFINE ty_ == t.ty
              disk == t.disk
              parts_ == t.parts
  <2>1. t = [ty |-> ty_, disk |-> disk, parts |-> parts_]
    BY DEF IsTable
  <2>. HIDE DEF ty_, disk, parts_
  <2>2. u = [ty |-> ty_, disk |-> disk, parts |-> new]
    BY <2>1
  <2>. HIDE DEF u
  <2>. QED
    BY <2>2 DEF ty_, disk
<1>. HIDE DEF u
<1>4. a.extended = Inside(new, i) /\ a.last = LastFor(t, new, i)
  BY <1>3 DEF Before, LastFor, LastUsable, Least
<1>5. Start(u, a, i) = start
  BY <1>2, <1>3 DEF Start
<1>6. /\ room \in Nat /\ Want(schema, i, room) \in Nat /\ s \in Nat
      /\ Want(schema, i, room) = room \/ (s # AllSpace /\ Want(schema, i, room) = s)
      /\ new[i].size = IF i <= L THEN Greatest(Want(schema, i, room), t.parts[i].size)
                       ELSE Want(schema, i, room)
      /\ room = IF ~IsExtended(new[i]) /\ i < L
                THEN IF Inside(new, i) THEN FloorAlign((t.parts[i + 1].start - start) - Ebr)
                     ELSE t.parts[i + 1].start - start
                ELSE (LastFor(t, new, i) - start) + 1
      /\ LastFor(t, new, i) \in Int
      /\ new[i].ty = ty
      /\ ~IsExtended(new[i]) /\ i >= L => start < LastFor(t, new, i)
  BY NewSize
<1>7. /\ start \in Nat /\ new[i].size \in Nat /\ EndOf(new[i]) = start + new[i].size
  BY <1>1, <1>2, Sizes
<1>8. new[i].size >= Want(schema, i, room)
  <2>. DEFINE want == Want(schema, i, room)
  <2>1. want \in Nat /\ new[i].size = IF i <= L THEN Greatest(want, t.parts[i].size) ELSE want
    BY <1>6
  <2>2. i <= L => t.parts[i].size \in Nat
    <3>1. i <= L => i \in 1 .. Len(t.parts)
      BY <1>2
    <3>. QED
      BY <1>1, <3>1, Sizes DEF Typed
  <2>. HIDE DEF want
  <2>3. new[i].size >= want
    BY <2>1, <2>2 DEF Greatest
  <2>. QED
    BY <2>3 DEF want
<1>9. ty = "extended" <=> IsExtended(new[i])
  BY <1>6 DEF IsExtended
<1>10. again = IF ~IsExtended(new[i]) /\ i < N
               THEN IF Inside(new, i) THEN FloorAlign((new[i + 1].start - start) - Ebr)
                    ELSE new[i + 1].start - start
               ELSE (LastFor(t, new, i) - start) + 1
  BY <1>3, <1>4, <1>9 DEF Available
<1>. HIDE DEF a, again, room
<1>11. again >= 0 /\ Want(schema, i, again) <= new[i].size /\ Want(schema, i, again) \in Int
  <2>1. CASE IsExtended(new[i]) \/ i < L \/ i = N
    <3>1. again = room
      <4>1. CASE IsExtended(new[i])
        BY <1>6, <1>10, <4>1
      <4>2. CASE ~IsExtended(new[i]) /\ i < L
        <5>1. i + 1 \in 1 .. Len(t.parts) /\ i < N
          BY <1>2, <4>2
        <5>2. new[i + 1].start = t.parts[i + 1].start
          BY <5>1, NewPartitions
        <5>. QED
          BY <1>6, <1>10, <4>2, <5>1, <5>2
      <4>3. CASE ~IsExtended(new[i]) /\ i = N
        <5>1. ~(i < L) /\ ~(i < N)
          BY <1>2, <4>3
        <5>. QED
          BY <1>6, <1>10, <5>1
      <4>. QED
        BY <2>1, <4>1, <4>2, <4>3
    <3>. QED
      BY <1>6, <1>8, <3>1
  <2>2. CASE ~IsExtended(new[i]) /\ i >= L /\ i < N
    <3>. DEFINE gap == new[i + 1].start - start
    <3>1. /\ i + 1 \in 1 .. N /\ i + 1 \in L + 1 .. N /\ (i + 1) - 1 = i /\ i + 1 # 1
      BY <1>2, <2>2
    <3>2. /\ i + 1 \in 1 .. M
          /\ new[i + 1].start = CeilAlign(IF Inside(new, i + 1) THEN NextAfter(new, i + 1) + Ebr
                                          ELSE NextAfter(new, i + 1))
      BY <3>1, NewPartitions
    <3>3. NextAfter(new, i + 1) = start + new[i].size
      BY <1>7, <2>2, <3>1 DEF NextAfter
    <3>4. Inside(new, i) => Inside(new, i + 1)
      BY <1>2 DEF Inside
    <3>5. Ebr \in Nat
      BY RepartAssumption DEF RepartAssumption
    <3>6. /\ new[i + 1].start \in Nat
          /\ new[i + 1].start >= IF Inside(new, i + 1) THEN (start + new[i].size) + Ebr
                                 ELSE start + new[i].size
      <4>. DEFINE from == IF Inside(new, i + 1) THEN NextAfter(new, i + 1) + Ebr
                          ELSE NextAfter(new, i + 1)
      <4>1. from \in Nat
        BY <1>7, <3>3, <3>5
      <4>2. CeilAlign(from) \in Nat /\ CeilAlign(from) >= from
        BY <4>1, Aligned
      <4>. QED
        BY <3>2, <3>3, <4>2
    <3>7. gap \in Int /\ gap >= 0 /\ (Inside(new, i) => gap - Ebr >= 0) /\ gap - Ebr \in Int
      <4>1. new[i + 1].start \in Nat /\ start \in Nat /\ new[i].size \in Nat /\ Ebr \in Nat
        BY <1>7, <3>5, <3>6
      <4>2. new[i + 1].start >= start + new[i].size
        BY <3>6, <4>1, SMTT(30)
      <4>3. Inside(new, i) => new[i + 1].start >= (start + new[i].size) + Ebr
        BY <3>4, <3>6
      <4>4. \A x, y, z, e \in Nat : x >= y + z =>
                /\ x - y \in Int /\ x - y >= 0 /\ (x - y) - e \in Int
                /\ x >= (y + z) + e => (x - y) - e >= 0
        OBVIOUS
      <4>. QED
        BY <4>1, <4>2, <4>3, <4>4
    <3>8. again = IF Inside(new, i) THEN FloorAlign(gap - Ebr) ELSE gap
      BY <1>10, <2>2
    <3>. HIDE DEF gap
    <3>9. again \in Int /\ again >= 0
      BY <3>7, <3>8, Aligned
    <3>10. EndOf(new[i]) <= LastFor(t, new, i)
      BY <2>2, NotAllRoom
    <3>11. room = (LastFor(t, new, i) - start) + 1
      BY <1>2, <1>6, <2>2
    <3>12. Want(schema, i, room) # room
      BY <1>6, <1>7, <1>8, <3>10, <3>11, SMTT(30)
    <3>13. s # AllSpace /\ s <= new[i].size
      BY <1>6, <1>8, <3>12
    <3>14. Want(schema, i, again) = IF s < again THEN s ELSE again
      BY <3>13 DEF Want, Least
    <3>. QED
      BY <1>6, <1>7, <3>9, <3>13, <3>14
  <2>. QED
    BY <1>2, <2>1, <2>2
<1>12. SizeFor(u, schema, new, i) = new[i].size
  <2>1. SizeFor(u, schema, new, i) = Greatest(Want(schema, i, again), new[i].size)
    BY <1>2, <1>3, <1>5 DEF SizeFor, Room, again, a
  <2>. QED
    BY <1>7, <1>11, <2>1 DEF Greatest
<1>13. Fits(u, schema, a, i)
  <2>1. i >= N => i >= L
    BY <1>2
  <2>. QED
    BY <1>3, <1>4, <1>5, <1>6, <1>9, <1>11, <2>1 DEF Fits, again
<1>14. new[i] = [number |-> new[i].number, start |-> start, size |-> new[i].size, ty |-> ty]
  <2>1. new[i] \in Partitions
    BY <1>1, <1>2, Sizes
  <2>. QED
    BY <1>6, <2>1 DEF Partitions
<1>. QED
  BY <1>2, <1>3, <1>5, <1>12, <1>13, <1>14 DEF LaidOut, a, u

\* Repartitioning the disk once more changes nothing.
THEOREM RepartIsStable ==
    ASSUME NEW t, IsTable(t), NEW schema, ImageOK(t, schema),
           NEW new \in Computed(t, schema)
    PROVE  Computed([t EXCEPT !.parts = new], schema) = {new}
<1>. DEFINE u == [t EXCEPT !.parts = new]
<1>1. /\ Typed(t, schema) /\ SchemaOK(schema) /\ new \in Seq(Partitions)
      /\ Len(new) = Greatest(Len(t.parts), Len(schema))
  BY Unrolled DEF ImageOK
<1>2. u.parts = new /\ u.disk = t.disk
  <2>. DEFINE ty_ == t.ty
              disk == t.disk
              parts_ == t.parts
  <2>1. t = [ty |-> ty_, disk |-> disk, parts |-> parts_]
    BY DEF IsTable
  <2>. HIDE DEF ty_, disk, parts_
  <2>2. u = [ty |-> ty_, disk |-> disk, parts |-> new]
    BY <2>1
  <2>. HIDE DEF u
  <2>. QED
    BY <2>2 DEF disk
<1>3. \A i \in 1 .. Len(schema) : LaidOut(u, schema, new, i)
  BY LaidOutAgain
<1>. HIDE DEF u
<1>4. Typed(u, schema)
  BY <1>1, <1>2 DEF Typed
<1>5. Len(schema) <= Len(new)
  <2>1. Len(schema) \in Nat /\ Len(t.parts) \in Nat
    BY <1>1 DEF Typed
  <2>. QED
    BY <1>1, <2>1 DEF Greatest
<1>6. Computed(u, schema) = {u.parts}
  BY <1>1, <1>2, <1>3, <1>4, <1>5, Settled
<1>. QED
  BY <1>2, <1>6 DEF u

-----------------------------------------------------------------------------
(* The markers, the data partition and the table.                           *)

\* What the first process is doing tells which markers are there.  Until the partition
\* is read-only again the removal of a marker may be undone by a power failure.
PlaceInv ==
    /\ phase \in Phases /\ job \in Markers
    /\ markers \subseteq Markers /\ durable \subseteq Markers
    /\ phase \in {"off", "markers"} => durable = markers
    /\ phase = "bootstrap" => "bootstrap" \in markers
    /\ phase = "wipe" => markers = {"wipe"}
    /\ phase \in {"format", "make", "unmark"} =>
           job \in markers /\ (job = "wipe" => markers = {"wipe"})
    /\ phase \in {"remount", "mount", "reset", "delete"} => markers = {}
    /\ phase \in {"mount", "reset", "delete"} => durable = {}
    /\ phase = "up" => markers \cup durable \subseteq {"wipe"}
    /\ phase # "up" => markers \subseteq durable

\* The wipe is done before its marker may go.
WipeInv ==
    /\ WipeIsComplete
    /\ phase = "make" => ~doomed
    /\ phase = "unmark" /\ job = "wipe" => ~doomed

\* While a marker may make the next boot clear the partition there is nothing on it
\* that is not to be lost, except on a partition that came with the image.
StateInv ==
    /\ data = [live |-> data.live, flag |-> data.flag, backups |-> data.backups]
    /\ "bootstrap" \in markers \cup durable =>
           /\ DOMAIN data.backups = {}
           /\ data.live = "whole" => device.data \in DOMAIN device.parts
    /\ "wipe" \in markers \cup durable =>
           doomed \/ (DOMAIN data.backups = {} /\ data.live # "whole" /\ phase # "up")

\* The table keeps the partitions of the image, so what an explicit layout formats is new.
TableInv ==
    /\ DOMAIN device.parts \subseteq DOMAIN parts
    /\ phase = "format" /\ job = "bootstrap" =>
           device.layout = "default" \/ device.data \notin DOMAIN device.parts

\* The reset marker says what was asked for, unless a power failure has emptied it.
FlagInv ==
    /\ flag \in {NoFlag, data.flag}
    /\ phase # "up" => flag = data.flag
    /\ phase # "delete" => data.flag = asked \/ (data.flag = Delete /\ "backup" \in spoiled)
    /\ phase = "delete" => data.live # "whole"

MarkersInv == PlaceInv /\ WipeInv /\ StateInv /\ TableInv /\ FlagInv

\* The guards belong to the running system.
DownInv == phase # "up" =>
    /\ pc = [g \in Guards |-> "none"]
    /\ mutex = [p \in Procs |-> Nobody]
    /\ writer_count = [p \in Procs |-> 0]

-----------------------------------------------------------------------------
(* The markers and the data partition.                                     *)

\* Nothing is on a fresh partition.
LEMMA FreshIsEmpty ==
    /\ Fresh = [live |-> "fresh", flag |-> NoFlag, backups |-> Fresh.backups]
    /\ DOMAIN Fresh.backups = {}
BY DEF Fresh

LEMMA MarkersInit == BootInit => MarkersInv
<1>. SUFFICES ASSUME BootInit PROVE MarkersInv
  OBVIOUS
<1>. USE DEF BootInit
<1>1. PlaceInv /\ WipeInv
  BY DEF PlaceInv, WipeInv, WipeIsComplete, Phases, Markers
<1>2. StateInv
  BY FreshIsEmpty DEF StateInv
<1>3. TableInv
  BY DEF TableInv
<1>4. FlagInv
  BY FreshIsEmpty DEF FlagInv
<1>. QED
  BY <1>1, <1>2, <1>3, <1>4 DEF MarkersInv

\* A step that leaves the markers, the data partition and the history alone keeps the
\* invariant if the place it goes to allows it.
LEMMA Unchanged ==
    ASSUME MarkersInv, UNCHANGED <<device, parts, bootVars, dataVars, doomed, asked, spoiled>>
    PROVE  MarkersInv'
BY DEF MarkersInv, PlaceInv, WipeInv, WipeIsComplete, StateInv, TableInv, FlagInv,
       bootVars, dataVars

LEMMA PlaceStep == MarkersInv /\ [BootNext]_allVars => PlaceInv'
<1>. SUFFICES ASSUME MarkersInv, BootNext PROVE PlaceInv'
  BY Unchanged DEF allVars, bootVars, dataVars, historyVars, MarkersInv
<1>. USE DEF MarkersInv, PlaceInv, Phases, Markers, Step, bootVars
<1>1. CASE Boot \/ ReadMarkers
  BY <1>1 DEF Boot, ReadMarkers
<1>2. CASE Bootstrap
  BY <1>2 DEF Bootstrap
<1>3. CASE Wipe \/ Overwrite \/ Make
  BY <1>3 DEF Wipe, Overwrite, Make
<1>4. CASE Unmark \/ RemountReadOnly
  BY <1>4 DEF Unmark, RemountReadOnly
<1>5. CASE MountData \/ NoReset \/ ResetDelete \/ DeleteRest \/ ResetBackup
  BY <1>5 DEF MountData, NoReset, ResetDelete, DeleteRest, ResetBackup
<1>6. CASE UseState \/ RequestReset \/ Writeback
  BY <1>6 DEF UseState, RequestReset, Writeback
<1>7. CASE UseGuards
  BY <1>7 DEF UseGuards
<1>8. ASSUME NEW g \in Guards, RequestWipe(g)
      PROVE  PlaceInv'
  BY <1>8 DEF RequestWipe
<1>9. CASE Reboot
  BY <1>9 DEF Reboot, Stop
<1>10. CASE PowerCut \/ Halt
  BY <1>10 DEF PowerCut, Halt, Stop, LoseUnsynced
<1>. QED
  BY <1>1, <1>2, <1>3, <1>4, <1>5, <1>6, <1>7, <1>8, <1>9, <1>10 DEF BootNext, InitStep

LEMMA WipeStep == MarkersInv /\ [BootNext]_allVars => WipeInv'
<1>. SUFFICES ASSUME MarkersInv, BootNext PROVE WipeInv'
  BY Unchanged DEF allVars, bootVars, dataVars, historyVars, MarkersInv
<1>. USE DEF MarkersInv, PlaceInv, WipeInv, WipeIsComplete, Phases, Markers, Step,
            bootVars, historyVars
<1>1. CASE Boot \/ ReadMarkers
  BY <1>1 DEF Boot, ReadMarkers
<1>2. CASE Bootstrap
  BY <1>2 DEF Bootstrap
<1>3. CASE Wipe \/ Overwrite \/ Make
  BY <1>3 DEF Wipe, Overwrite, Make, Clear
<1>4. CASE Unmark \/ RemountReadOnly
  BY <1>4 DEF Unmark, RemountReadOnly
<1>5. CASE MountData \/ NoReset \/ ResetDelete \/ DeleteRest \/ ResetBackup
  BY <1>5 DEF MountData, NoReset, ResetDelete, DeleteRest, ResetBackup
<1>6. CASE UseState \/ RequestReset \/ Writeback
  BY <1>6 DEF UseState, RequestReset, Writeback
<1>7. CASE UseGuards
  BY <1>7 DEF UseGuards
<1>8. ASSUME NEW g \in Guards, RequestWipe(g)
      PROVE  WipeInv'
  BY <1>8 DEF RequestWipe
<1>9. CASE Reboot
  BY <1>9 DEF Reboot, Stop
<1>10. CASE PowerCut \/ Halt
  BY <1>10 DEF PowerCut, Halt, Stop, LoseUnsynced
<1>. QED
  BY <1>1, <1>2, <1>3, <1>4, <1>5, <1>6, <1>7, <1>8, <1>9, <1>10 DEF BootNext, InitStep

LEMMA StateStep == MarkersInv /\ [BootNext]_allVars => StateInv'
<1>. SUFFICES ASSUME MarkersInv, BootNext PROVE StateInv'
  BY Unchanged DEF allVars, bootVars, dataVars, historyVars, MarkersInv
<1>. USE DEF MarkersInv, PlaceInv, WipeInv, WipeIsComplete, StateInv, Phases, Markers, Step,
            bootVars, dataVars, historyVars
<1>1. CASE Boot \/ ReadMarkers
  BY <1>1 DEF Boot, ReadMarkers
<1>2. CASE Bootstrap
  BY <1>2 DEF Bootstrap
<1>3. CASE Wipe \/ Overwrite \/ Make
  BY <1>3, FreshIsEmpty DEF Wipe, Overwrite, Make, Clear
<1>4. CASE Unmark \/ RemountReadOnly
  BY <1>4 DEF Unmark, RemountReadOnly
<1>5. CASE MountData \/ NoReset \/ ResetDelete \/ DeleteRest
  BY <1>5 DEF MountData, NoReset, ResetDelete, DeleteRest
<1>6. CASE ResetBackup
  BY <1>6 DEF ResetBackup, BackedUp
<1>7. CASE UseState \/ RequestReset \/ Writeback
  BY <1>7 DEF UseState, RequestReset, Writeback
<1>8. CASE UseGuards
  BY <1>8 DEF UseGuards
<1>9. ASSUME NEW g \in Guards, RequestWipe(g)
      PROVE  StateInv'
  BY <1>9 DEF RequestWipe
<1>10. CASE Reboot
  BY <1>10 DEF Reboot, Stop
<1>11. CASE PowerCut \/ Halt
  BY <1>11 DEF PowerCut, Halt, Stop, LoseUnsynced
<1>. QED
  BY <1>1, <1>2, <1>3, <1>4, <1>5, <1>6, <1>7, <1>8, <1>9, <1>10, <1>11
     DEF BootNext, InitStep

LEMMA TableStep == MarkersInv /\ [BootNext]_allVars => TableInv'
<1>. SUFFICES ASSUME MarkersInv, BootNext PROVE TableInv'
  BY Unchanged DEF allVars, bootVars, dataVars, historyVars, MarkersInv
<1>. USE DEF MarkersInv, PlaceInv, TableInv, Markers, Step, bootVars
<1>1. CASE Bootstrap
  <2>1. CASE device.layout = "none"
    BY <1>1, <2>1 DEF Bootstrap
  <2>2. ASSUME device.layout # "none"
        PROVE  TableInv'
    <3>1. PICK new \in Repartitioned(Table, device.schema) :
              /\ parts' = new
              /\ phase' = IF new # parts /\ Formats(parts, new) THEN "format" ELSE "unmark"
      BY <1>1, <2>2 DEF Bootstrap
    <3>2. DOMAIN parts \subseteq DOMAIN new
      BY DEF Repartitioned, Table, CheckNewTable, Keeps
    <3>3. Formats(parts, new) => device.layout = "default" \/ device.data \notin DOMAIN device.parts
      BY DEF Formats
    <3>. QED
      BY <1>1, <3>1, <3>2, <3>3 DEF Bootstrap
  <2>. QED
    BY <2>1, <2>2
<1>2. CASE Boot \/ ReadMarkers \/ Wipe \/ Overwrite \/ Make \/ Unmark \/ RemountReadOnly
  BY <1>2 DEF Boot, ReadMarkers, Wipe, Overwrite, Make, Unmark, RemountReadOnly
<1>3. CASE MountData \/ NoReset \/ ResetDelete \/ DeleteRest \/ ResetBackup
  BY <1>3 DEF MountData, NoReset, ResetDelete, DeleteRest, ResetBackup
<1>4. CASE UseState \/ RequestReset \/ Writeback \/ UseGuards
  BY <1>4 DEF UseState, RequestReset, Writeback, UseGuards
<1>5. ASSUME NEW g \in Guards, RequestWipe(g)
      PROVE  TableInv'
  BY <1>5 DEF RequestWipe
<1>6. CASE Reboot \/ PowerCut \/ Halt
  BY <1>6 DEF Reboot, PowerCut, Halt, Stop
<1>. QED
  BY <1>1, <1>2, <1>3, <1>4, <1>5, <1>6 DEF BootNext, InitStep

LEMMA FlagStep == MarkersInv /\ [BootNext]_allVars => FlagInv'
<1>. SUFFICES ASSUME MarkersInv, BootNext PROVE FlagInv'
  BY Unchanged DEF allVars, bootVars, dataVars, historyVars, MarkersInv
<1>. USE FlagsAssumption
     DEF MarkersInv, StateInv, FlagInv, Step, bootVars, dataVars, historyVars, Flags
<1>1. CASE Boot \/ ReadMarkers \/ Bootstrap
  BY <1>1 DEF Boot, ReadMarkers, Bootstrap
<1>2. CASE Wipe \/ Overwrite \/ Make
  BY <1>2, FreshIsEmpty DEF Wipe, Overwrite, Make, Clear
<1>3. CASE Unmark \/ RemountReadOnly \/ MountData \/ NoReset
  BY <1>3 DEF Unmark, RemountReadOnly, MountData, NoReset
<1>4. CASE ResetDelete
  BY <1>4 DEF ResetDelete
<1>5. CASE DeleteRest
  BY <1>5 DEF DeleteRest
<1>6. CASE ResetBackup
  BY <1>6 DEF ResetBackup, BackedUp
<1>7. CASE UseState \/ RequestReset \/ Writeback \/ UseGuards
  BY <1>7 DEF UseState, RequestReset, Writeback, UseGuards
<1>8. ASSUME NEW g \in Guards, RequestWipe(g)
      PROVE  FlagInv'
  BY <1>8 DEF RequestWipe
<1>9. CASE Reboot
  BY <1>9 DEF Reboot, Stop
<1>10. ASSUME LoseUnsynced, phase' = "off"
       PROVE  /\ flag' = data'.flag
              /\ flag' # Delete => asked' = flag'
              /\ flag' = Delete => asked' = asked
  BY <1>10 DEF LoseUnsynced
<1>11. CASE PowerCut
  <2>1. spoiled \subseteq spoiled' /\ (flag' = Delete /\ asked # Delete => "backup" \in spoiled')
    BY <1>11 DEF PowerCut
  <2>. QED
    BY <1>10, <1>11, <2>1 DEF PowerCut, Stop
<1>12. CASE Halt
  <2>1. phase \in {"bootstrap", "wipe", "format", "mount"}
    BY <1>12 DEF Halt
  <2>2. flag' = data.flag
    BY <1>12, <2>1 DEF Halt, LoseUnsynced
  <2>. QED
    BY <1>10, <1>12, <2>1, <2>2 DEF Halt, Stop
<1>. QED
  BY <1>1, <1>2, <1>3, <1>4, <1>5, <1>6, <1>7, <1>8, <1>9, <1>11, <1>12 DEF BootNext, InitStep

\* The markers, the data partition and the table fit together in every reachable state.
LEMMA MarkersInvariance == BootSpec => []MarkersInv
<1>1. MarkersInv /\ [BootNext]_allVars => MarkersInv'
  BY PlaceStep, WipeStep, StateStep, TableStep, FlagStep DEF MarkersInv
<1>. QED
  BY <1>1, MarkersInit, PTL DEF BootSpec

-----------------------------------------------------------------------------
(* The theorems.                                                           *)

\* The system never comes up with what was there when a wipe was asked for, and the
\* marker outlives it, for every driver and any number of power failures.
THEOREM WipeAlwaysComplete == BootSpec => []WipeIsComplete
<1>1. MarkersInv => WipeIsComplete
  BY DEF MarkersInv, WipeInv
<1>. QED
  BY <1>1, MarkersInvariance, PTL

\* A step that clears the data partition does so for a wipe, or for bootstrapping.
LEMMA ClearedFor ==
    ASSUME MarkersInv, Wipe \/ Overwrite
    PROVE  /\ doomed \/ DOMAIN data.backups = {}
           /\ data.live = "whole" => doomed \/ (Regrown /\ device.layout = "default")
BY DEF MarkersInv, PlaceInv, StateInv, TableInv, Markers, Wipe, Overwrite, Step, Regrown

\* Backups stay as they are until a wipe is asked for.
THEOREM BackupsAlwaysKept == BootSpec => BackupsKept
<1>1. ASSUME MarkersInv, BootNext, ~doomed, NEW n \in DOMAIN data.backups
      PROVE  n \in DOMAIN data'.backups /\ data'.backups[n] = data.backups[n]
  <2>. USE DEF MarkersInv, StateInv, bootVars, dataVars
  <2>1. CASE Wipe \/ Overwrite
    BY <1>1, <2>1, ClearedFor
  <2>2. CASE ResetBackup
    BY <1>1, <2>2 DEF ResetBackup, BackedUp
  <2>3. CASE Reboot \/ PowerCut \/ Halt
    BY <1>1, <2>3 DEF Reboot, PowerCut, Halt, LoseUnsynced
  <2>4. CASE ResetDelete \/ DeleteRest \/ UseState \/ RequestReset
    BY <1>1, <2>4 DEF ResetDelete, DeleteRest, UseState, RequestReset
  <2>5. CASE data' = data
    BY <1>1, <2>5
  <2>. QED
    BY <1>1, <2>1, <2>2, <2>3, <2>4, <2>5 DEF BootNext, InitStep, Boot, ReadMarkers, Bootstrap,
       Make, Unmark, RemountReadOnly, MountData, NoReset, Writeback, UseGuards, RequestWipe
<1>2. MarkersInv /\ [BootNext]_allVars =>
        [\A n \in DOMAIN data.backups :
            \/ n \in DOMAIN data'.backups /\ data'.backups[n] = data.backups[n]
            \/ doomed]_allVars
  BY <1>1
<1>. QED
  BY <1>2, MarkersInvariance, PTL DEF BootSpec, BackupsKept

\* State goes only with a wipe or a reset that was asked for, and a reset with a backup
\* has made it before; the exceptions are those the property names.
THEOREM StateAlwaysAskedFor == BootSpec => StateLostOnlyIfAsked
<1>. DEFINE Justified ==
        \/ doomed \/ asked = Delete
        \/ asked \in DOMAIN data'.backups /\ data'.backups[asked] = "whole"
        \/ "backup" \in spoiled \/ (Regrown /\ device.layout = "default")
<1>1. ASSUME MarkersInv, BootNext, data.live = "whole", data'.live # "whole"
      PROVE  Justified
  <2>. USE DEF MarkersInv, StateInv, bootVars, dataVars
  <2>1. CASE Wipe \/ Overwrite
    BY <1>1, <2>1, ClearedFor
  <2>2. CASE ResetBackup
    <3>1. data.flag = asked
      BY <1>1, <2>2, FlagsAssumption DEF ResetBackup, FlagInv, Step
    <3>2. data' = BackedUp
      BY <1>1, <2>2 DEF ResetBackup
    <3>. QED
      BY <1>1, <3>1, <3>2 DEF BackedUp
  <2>3. CASE ResetDelete \/ DeleteRest
    BY <1>1, <2>3 DEF ResetDelete, DeleteRest, FlagInv, Step
  <2>4. CASE Reboot \/ PowerCut \/ Halt
    BY <1>1, <2>4 DEF Reboot, PowerCut, Halt, LoseUnsynced
  <2>5. CASE UseState \/ RequestReset
    BY <1>1, <2>5 DEF UseState, RequestReset
  <2>6. CASE data' = data
    BY <1>1, <2>6
  <2>. QED
    BY <1>1, <2>1, <2>2, <2>3, <2>4, <2>5, <2>6 DEF BootNext, InitStep, Boot, ReadMarkers,
       Bootstrap, Make, Unmark, RemountReadOnly, MountData, NoReset, Writeback, UseGuards,
       RequestWipe
<1>2. MarkersInv /\ [BootNext]_allVars =>
        [data.live = "whole" /\ data'.live # "whole" => Justified]_allVars
  BY <1>1
<1>. QED
  BY <1>2, MarkersInvariance, PTL DEF BootSpec, StateLostOnlyIfAsked
-----------------------------------------------------------------------------
(* The partition table.                                                     *)

\* What the disk may hold: a table that passed the check, with the image's partitions.
TablesInv ==
    /\ device \in Devices
    /\ parts \in Seq(Partitions)
    /\ Validate(Table) /\ Keeps(device.parts, parts)

\* A new table is one that passed the check.
LEMMA NewTable ==
    ASSUME TablesInv, NEW new \in Repartitioned(Table, device.schema)
    PROVE  /\ new \in Seq(Partitions)
           /\ Validate([Table EXCEPT !.parts = new])
           /\ Keeps(device.parts, new) /\ Keeps(parts, new)
<1>1. DeviceOK(device)
  BY DevicesAssumption DEF DevicesAssumption, TablesInv
<1>2. new \in Seq(Partitions)
  <2>1. Typed(Table, device.schema)
    BY <1>1 DEF TablesInv, Typed, Table, DeviceOK
  <2>. QED
    BY <2>1, ComputedTyped DEF Repartitioned
<1>3. CASE new = parts
  <2>1. [Table EXCEPT !.parts = new] = Table
    BY <1>3 DEF Table
  <2>2. Keeps(parts, parts)
    <3>1. \A i \in DOMAIN parts : parts[i] \in Partitions
      BY DEF TablesInv
    <3>. QED
      BY <3>1 DEF Keeps, Partitions
  <2>. QED
    BY <1>2, <1>3, <2>1, <2>2 DEF TablesInv
<1>4. CASE new # parts
  <2>1. CheckNewTable(Table, new)
    BY <1>4 DEF Repartitioned, Table
  <2>2. Keeps(parts, new)
    BY <2>1 DEF CheckNewTable, Table
  <2>3. Keeps(device.parts, new)
    <3>1. /\ DOMAIN device.parts \subseteq DOMAIN parts
          /\ DOMAIN parts \subseteq DOMAIN new
      BY <2>2 DEF TablesInv, Keeps
    <3>2. ASSUME NEW i \in DOMAIN device.parts
          PROVE  /\ new[i].ty = device.parts[i].ty /\ new[i].start = device.parts[i].start
                 /\ new[i].size >= device.parts[i].size
      <4>1. i \in DOMAIN parts /\ i \in DOMAIN new
        BY <3>1
      <4>2. /\ device.parts[i] \in Partitions /\ parts[i] \in Partitions
            /\ new[i] \in Partitions
        BY <1>1, <1>2, <4>1 DEF DeviceOK, TablesInv
      <4>3. new[i].ty = parts[i].ty /\ new[i].start = parts[i].start /\ new[i].size >= parts[i].size
        BY <2>2, <4>1 DEF Keeps
      <4>4. /\ parts[i].ty = device.parts[i].ty /\ parts[i].start = device.parts[i].start
            /\ parts[i].size >= device.parts[i].size
        BY DEF TablesInv, Keeps
      <4>. QED
        BY <4>2, <4>3, <4>4 DEF Partitions
    <3>. QED
      BY <3>1, <3>2 DEF Keeps
  <2>. QED
    BY <1>2, <2>1, <2>2, <2>3 DEF CheckNewTable
<1>. QED
  BY <1>3, <1>4

LEMMA TablesInit == BootInit => TablesInv
<1>. SUFFICES ASSUME BootInit PROVE TablesInv
  OBVIOUS
<1>1. DeviceOK(device) /\ device \in Devices /\ parts = device.parts
  BY DevicesAssumption DEF DevicesAssumption, BootInit
<1>2. \A i \in DOMAIN parts : parts[i] \in Partitions
  BY <1>1 DEF DeviceOK
<1>. QED
  BY <1>1, <1>2 DEF DeviceOK, TablesInv, Table, Keeps, Partitions

\* Only bootstrapping writes a table.
LEMMA TablesStep == TablesInv /\ [BootNext]_allVars => TablesInv'
<1>. SUFFICES ASSUME TablesInv, [BootNext]_allVars PROVE TablesInv'
  OBVIOUS
<1>1. CASE UNCHANGED <<device, parts>>
  BY <1>1 DEF TablesInv, Table
<1>2. CASE Bootstrap /\ device.layout # "none"
  <2>1. device' = device /\ parts' \in Repartitioned(Table, device.schema)
    BY <1>2 DEF Bootstrap
  <2>2. Table' = [Table EXCEPT !.parts = parts']
    BY <2>1 DEF Table
  <2>. QED
    BY <2>1, <2>2, NewTable DEF TablesInv
<1>. QED
  BY <1>1, <1>2 DEF BootNext, InitStep, Boot, ReadMarkers, Bootstrap, Wipe, Overwrite, Make,
     Unmark, RemountReadOnly, MountData, NoReset, ResetDelete, DeleteRest, ResetBackup, Halt,
     UseState, RequestReset, Writeback, UseGuards, Reboot, PowerCut, RequestWipe, Stop, allVars

LEMMA TablesInvariance == BootSpec => []TablesInv
BY TablesInit, TablesStep, PTL DEF BootSpec

\* However often and wherever power fails, the table on the disk keeps every partition
\* that the image had, where it was and no smaller, and no two of them overlap.
THEOREM TableAlwaysKept == BootSpec => [](Keeps(device.parts, parts) /\ Apart(Table))
<1>1. ASSUME TablesInv
      PROVE  Keeps(device.parts, parts) /\ Apart(Table)
  <2>1. Table.parts = parts /\ Table.disk = device.disk
    BY DEF Table
  <2>2. device.disk \in Nat
    BY <1>1, DevicesAssumption DEF DevicesAssumption, TablesInv, DeviceOK
  <2>. QED
    BY <1>1, <2>1, <2>2, CheckedApart DEF TablesInv
<1>. QED
  BY <1>1, TablesInvariance, PTL

\* The first bootstrapping computes the table, every other one leaves it alone.
BootedInv ==
    /\ device \in Devices
    /\ parts = device.parts \/ parts \in Computed(TableOf(device), device.schema)

LEMMA ImageFacts ==
    ASSUME NEW d \in Devices
    PROVE  /\ IsTable(TableOf(d)) /\ ImageOK(TableOf(d), d.schema)
           /\ RepartSound(TableOf(d), d.schema)
           /\ \A new \in Computed(TableOf(d), d.schema) :
                Computed([TableOf(d) EXCEPT !.parts = new], d.schema) = {new}
<1>1. IsTable(TableOf(d))
  BY DEF IsTable, TableOf
<1>2. ImageOK(TableOf(d), d.schema)
  BY ImagesAssumption DEF ImagesAssumption
<1>. QED
  BY <1>1, <1>2, RepartIsSound, RepartIsStable

LEMMA TableIs ==
    /\ parts = device.parts => Table = TableOf(device)
    /\ Table = [TableOf(device) EXCEPT !.parts = parts]
BY DEF Table, TableOf

LEMMA BootedStep == BootedInv /\ [BootNext]_allVars => BootedInv'
<1>. SUFFICES ASSUME BootedInv, [BootNext]_allVars PROVE BootedInv'
  OBVIOUS
<1>1. CASE UNCHANGED <<device, parts>>
  BY <1>1 DEF BootedInv
<1>2. CASE Bootstrap /\ device.layout # "none"
  <2>1. device' = device /\ parts' \in Repartitioned(Table, device.schema)
    BY <1>2 DEF Bootstrap
  <2>2. parts' \in Computed(Table, device.schema) /\ device \in Devices
    BY <2>1 DEF Repartitioned, BootedInv
  <2>3. CASE parts = device.parts
    BY <2>1, <2>2, <2>3, TableIs DEF BootedInv
  <2>4. CASE parts # device.parts
    <3>1. parts \in Computed(TableOf(device), device.schema)
      BY <2>4 DEF BootedInv
    <3>2. Computed(Table, device.schema) = {parts}
      BY <2>2, <3>1, ImageFacts, TableIs
    <3>. QED
      BY <2>1, <2>2, <3>1, <3>2 DEF BootedInv
  <2>. QED
    BY <2>3, <2>4
<1>. QED
  BY <1>1, <1>2 DEF BootNext, InitStep, Boot, ReadMarkers, Bootstrap, Wipe, Overwrite, Make,
     Unmark, RemountReadOnly, MountData, NoReset, ResetDelete, DeleteRest, ResetBackup, Halt,
     UseState, RequestReset, Writeback, UseGuards, Reboot, PowerCut, RequestWipe, Stop, allVars

\* However often the disk is repartitioned and wherever power fails, the table is sound,
\* it keeps what the image had, and repartitioning succeeds and passes its own check
\* ("the conditions checked here should always be ensured by the repartitioning
\* algorithm"); once there is a new table it stays as it is.
THEOREM TableAlwaysSound == BootSpec => []TableSound
<1>1. BootInit => BootedInv
  BY DEF BootInit, BootedInv
<1>2. ASSUME TablesInv, BootedInv
      PROVE  TableSound
  <2>1. /\ device \in Devices /\ parts \in Seq(Partitions)
        /\ Validate(Table) /\ Keeps(device.parts, parts)
    BY <1>2 DEF TablesInv
  <2>2. CASE parts = device.parts
    BY <2>1, <2>2, ImageFacts, TableIs DEF TableSound
  <2>3. CASE parts # device.parts
    <3>1. parts \in Computed(TableOf(device), device.schema)
      BY <1>2, <2>3 DEF BootedInv
    <3>2. Computed(Table, device.schema) = {parts}
      BY <2>1, <3>1, ImageFacts, TableIs
    <3>3. DiskIsSound(Table)
      BY <2>1, <3>1, ImageFacts, TableIs DEF RepartSound
    <3>4. Table.parts = parts /\ [Table EXCEPT !.parts = parts] = Table
      BY DEF Table
    <3>5. Keeps(parts, parts)
      <4>1. \A i \in DOMAIN parts : parts[i].size \in Nat
        BY <2>1, Sizes
      <4>. QED
        BY <4>1 DEF Keeps
    <3>6. CheckNewTable(Table, parts)
      BY <2>1, <3>4, <3>5 DEF CheckNewTable
    <3>7. RepartSound(Table, device.schema)
      BY <3>2, <3>3, <3>4, <3>6 DEF RepartSound
    <3>8. Repartitioned(Table, device.schema) = {parts}
      BY <3>2, <3>4 DEF Repartitioned
    <3>. QED
      BY <2>1, <3>7, <3>8 DEF TableSound
  <2>. QED
    BY <2>2, <2>3
<1>. QED
  BY <1>1, <1>2, BootedStep, TablesInvariance, PTL DEF BootSpec

-----------------------------------------------------------------------------
(* The data partition after bootstrapping.                                  *)

\* What the property claims something for.
Prepared == device.layout \in {"default", "explicit"} /\ "bootstrap" \notin spoiled

\* The next step of a wipe, on this boot or the next one, or of bootstrapping makes the
\* filesystem.
ToBeWiped == "wipe" \in markers /\ ~(phase = "unmark" /\ job = "wipe") /\ phase # "up"
BeingMade == job = "bootstrap" /\ phase \in {"format", "make"}

FsInv ==
    /\ fs \in Contents
    /\ fs = "none" <=> device.data \notin DOMAIN parts
    /\ Prepared =>
        /\ fs \notin {"none", "fs"} => ToBeWiped \/ BeingMade
        /\ phase \in {"reset", "delete", "up"} => mounted

\* A format that is finished has left a filesystem.
LEMMA Formatted ==
    ASSUME Make, TablesInv
    PROVE  /\ fs \in Contents \ {"none", "fs"} /\ fs' \in Contents \ {"none"}
           /\ phase' = IF fs' = "fs" THEN "unmark" ELSE "make"
<1>1. PICK i \in 2 .. Len(FormatSteps) : fs = FormatSteps[i - 1] /\ fs' = FormatSteps[i]
  BY DEF Make
<1>2. device.driver \in {"plain", "luks", "tpm"}
  BY DevicesAssumption DEF DevicesAssumption, TablesInv, DeviceOK
<1>3. \/ FormatSteps = <<"blank", "fs">> \/ FormatSteps = <<"blank", "keys", "fs">>
      \/ FormatSteps = <<"blank", "keys", "sealed", "fs">>
  BY <1>2 DEF FormatSteps
<1>. QED
  BY <1>1, <1>3 DEF Make, Contents

LEMMA FsInit == BootInit => FsInv
<1>. SUFFICES ASSUME BootInit PROVE FsInv
  OBVIOUS
<1>. QED
  BY DEF BootInit, FsInv, Contents

LEMMA FsStep ==
    ASSUME PlaceInv, TablesInv, FsInv, [BootNext]_allVars
    PROVE  FsInv'
<1>. USE DEF PlaceInv, FsInv, Prepared, ToBeWiped, BeingMade, Phases, Markers, Contents, Step,
            bootVars, dataVars, historyVars
<1>1. CASE Bootstrap
  <2>1. CASE device.layout = "none"
    BY <1>1, <2>1 DEF Bootstrap
  <2>2. CASE device.layout # "none"
    <3>1. PICK new \in Repartitioned(Table, device.schema) :
              /\ parts' = new
              /\ fs' = IF fs = "none" /\ device.data \in DOMAIN new THEN "blank" ELSE fs
              /\ phase' = IF new # parts /\ Formats(parts, new) THEN "format" ELSE "unmark"
      BY <1>1, <2>2 DEF Bootstrap
    <3>2. DOMAIN parts \subseteq DOMAIN new
      BY NewTable DEF Keeps
    <3>3. ASSUME fs = "none", device.data \in DOMAIN new,
                 device.layout \in {"default", "explicit"}
          PROVE  new # parts /\ Formats(parts, new)
      <4>1. device.data \notin DOMAIN parts
        BY <3>3
      <4>2. device.data \in Nat \ {0} /\ DOMAIN parts = 1 .. Len(parts) /\ Len(parts) \in Nat
        <5>1. device.data \in Nat \ {0}
          BY DevicesAssumption DEF DevicesAssumption, TablesInv, DeviceOK
        <5>. QED
          BY <5>1 DEF TablesInv
      <4>. QED
        BY <3>3, <4>1, <4>2 DEF Formats
    <3>. QED
      BY <1>1, <3>1, <3>2, <3>3 DEF Bootstrap
  <2>. QED
    BY <2>1, <2>2
<1>2. CASE Wipe \/ Overwrite
  BY <1>2 DEF Wipe, Overwrite, Clear
<1>3. CASE Make
  <2>1. UNCHANGED <<device, parts, job, markers, mounted, spoiled>> /\ phase = "make"
    BY <1>3 DEF Make
  <2>. QED
    BY <1>3, <2>1, Formatted
<1>4. CASE Boot \/ ReadMarkers \/ Unmark \/ RemountReadOnly
  BY <1>4 DEF Boot, ReadMarkers, Unmark, RemountReadOnly
<1>5. CASE MountData \/ NoReset \/ ResetDelete \/ DeleteRest \/ ResetBackup
  BY <1>5 DEF MountData, NoReset, ResetDelete, DeleteRest, ResetBackup
<1>6. CASE UseState \/ RequestReset \/ Writeback \/ UseGuards
  BY <1>6 DEF UseState, RequestReset, Writeback, UseGuards
<1>7. ASSUME NEW g \in Guards, RequestWipe(g)
      PROVE  FsInv'
  BY <1>7 DEF RequestWipe
<1>8. CASE Reboot
  BY <1>8 DEF Reboot, Stop
<1>9. CASE PowerCut \/ Halt
  BY <1>9 DEF PowerCut, Halt, Stop, LoseUnsynced
<1>10. CASE UNCHANGED allVars
  BY <1>10 DEF allVars
<1>. QED
  BY <1>1, <1>2, <1>3, <1>4, <1>5, <1>6, <1>7, <1>8, <1>9, <1>10 DEF BootNext, InitStep

LEMMA FsInvariance == BootSpec => []FsInv
<1>1. MarkersInv => PlaceInv
  BY DEF MarkersInv
<1>. QED
  BY <1>1, FsInit, FsStep, MarkersInvariance, TablesInvariance, PTL DEF BootSpec

\* A system that has been laid out by its schema comes up with its data partition mounted,
\* whatever interrupted its boots, unless power failed while bootstrapping was making it.
THEOREM BootstrapAlwaysPrepares == BootSpec => []BootstrapPrepares
<1>1. FsInv => BootstrapPrepares
  BY DEF FsInv, Prepared, BootstrapPrepares
<1>. QED
  BY <1>1, FsInvariance, PTL

-----------------------------------------------------------------------------
(* The guards.                                                             *)

\* While no guard is there, the first process may remount the partition.
LEMMA Remounted ==
    ASSUME IInv, DownInv, phase # "up", UNCHANGED <<writer_count, mutex, pc, shared>>,
           writable' \in BOOLEAN, left' = writable'
    PROVE  IInv'
<1>1. CountInv'
  BY CountKept DEF IInv, CoreInv
<1>2. TypeInv' /\ MutexInv'
  BY DEF IInv, CoreInv, TypeInv, MutexInv
<1>3. AloneInv' /\ IdleInv'
  BY DEF DownInv, AloneInv, Together, InUse, MountInv, IdleInv
<1>. QED
  BY <1>1, <1>2, <1>3 DEF IInv, CoreInv

\* A device that stops leaves no guard, and mounts the partition read-only.
LEMMA Stopped == Stop => IInv' /\ DownInv'
<1>1. (Init => IInv)'
  BY InitInv, PTL
<1>2. Stop => Init'
  BY DEF Stop, Init
<1>. QED
  BY <1>1, <1>2 DEF Stop, DownInv

\* On a device that boots, bootstraps, wipes and loses power, with any number of processes
\* that use guards, the partition is read-only when no guard is held, unless a remount
\* failed or a process died, and writable while one is, unless another process has used
\* it at the same time.
THEOREM GuardsOnDevice == BootSpec => [](WritableWhileHeld /\ ReadOnlyWhenIdle)
<1>1. BootInit => IInv /\ DownInv
  BY InitInv DEF BootInit, DownInv, Init
<1>2. ASSUME IInv, DownInv, [BootNext]_allVars
      PROVE  IInv' /\ DownInv'
  <2>1. CASE UNCHANGED guardVars /\ (phase' = "up" \/ phase # "up")
    <3>1. IInv'
      BY <1>2, <2>1, GuardsKept DEF guardVars, vars
    <3>. QED
      BY <1>2, <2>1, <3>1 DEF guardVars, DownInv
  <2>2. CASE ReadMarkers
    <3>1. phase = "markers" /\ writable' \in BOOLEAN /\ left' = writable'
      BY <2>2 DEF ReadMarkers
    <3>. QED
      BY <1>2, <2>2, <3>1, Remounted DEF ReadMarkers, DownInv
  <2>3. CASE RemountReadOnly
    <3>1. phase = "remount" /\ writable' \in BOOLEAN /\ left' = writable'
      BY <2>3 DEF RemountReadOnly, Step
    <3>. QED
      BY <1>2, <2>3, <3>1, Remounted DEF RemountReadOnly, DownInv
  <2>4. CASE UseGuards
    BY <1>2, <2>4, GuardsKept DEF UseGuards, DownInv
  <2>5. CASE Reboot \/ PowerCut \/ Halt
    BY <2>5, Stopped DEF Reboot, PowerCut, Halt
  <2>. QED
    BY <1>2, <2>1, <2>2, <2>3, <2>4, <2>5 DEF BootNext, InitStep, Boot, Bootstrap, Wipe,
       Overwrite, Make, Unmark, MountData, NoReset, ResetDelete, DeleteRest, ResetBackup,
       UseState, RequestReset, Writeback, RequestWipe, Step, allVars, bootVars
<1>. QED
  BY <1>1, <1>2, GuardsKeep, PTL DEF BootSpec

-----------------------------------------------------------------------------
(* Types.                                                                  *)

\* The types and counts of the guards hold whether the partition is shared or not.
LEMMA CoreStep ==
    ASSUME CoreInv, DownInv, [BootNext]_allVars
    PROVE  CoreInv' /\ DownInv'
<1>1. CASE [Next]_vars /\ (phase' = "up" \/ (phase # "up" /\ UNCHANGED <<writer_count, mutex, pc, shared>>))
  BY <1>1, CoreKept DEF DownInv
<1>2. CASE ReadMarkers \/ RemountReadOnly
  <2>1. UNCHANGED <<writer_count, mutex, pc, shared>> /\ phase # "up"
    BY <1>2 DEF ReadMarkers, RemountReadOnly, Step
  <2>2. writable' \in BOOLEAN /\ left' = writable'
    BY <1>2 DEF ReadMarkers, RemountReadOnly
  <2>3. CountInv'
    BY <2>1, CountKept DEF CoreInv
  <2>. QED
    BY <2>1, <2>2, <2>3 DEF CoreInv, TypeInv, MutexInv, IdleInv, DownInv
<1>3. CASE Reboot \/ PowerCut \/ Halt
  BY <1>3, Stopped DEF Reboot, PowerCut, Halt, IInv
<1>. QED
  BY <1>1, <1>2, <1>3 DEF BootNext, InitStep, Boot, Bootstrap, Wipe, Overwrite, Make, Unmark,
     MountData, NoReset, ResetDelete, DeleteRest, ResetBackup, UseState, RequestReset,
     Writeback, UseGuards, RequestWipe, Step, guardVars, vars, allVars, bootVars

\* The files on the data partition, and the history.
FilesInv ==
    /\ mounted \in BOOLEAN /\ doomed \in BOOLEAN
    /\ data.live \in Profiles /\ data.flag \in Flags
    /\ DOMAIN data.backups \subseteq Names
    /\ \A n \in DOMAIN data.backups : data.backups[n] \in Profiles
    /\ flag \in Flags /\ asked \in Flags
    /\ cuts \in 0 .. MaxCuts
    /\ spoiled \subseteq {"bootstrap", "backup"}

LEMMA FilesInit == BootInit => FilesInv
<1>. SUFFICES ASSUME BootInit PROVE FilesInv
  OBVIOUS
<1>1. 0 \in 0 .. MaxCuts
  BY DevicesAssumption DEF DevicesAssumption
<1>2. /\ data.live \in Profiles /\ data.flag = NoFlag
      /\ DOMAIN data.backups = {}
  BY FreshIsEmpty DEF BootInit, Profiles
<1>. QED
  BY <1>1, <1>2 DEF BootInit, FilesInv, Flags

LEMMA FilesStep ==
    ASSUME MarkersInv, FilesInv, [BootNext]_allVars
    PROVE  FilesInv'
<1>. USE DEF FilesInv, StateInv, MarkersInv, Profiles, Flags, dataVars, historyVars
<1>1. CASE UNCHANGED <<data, flag, asked, historyVars>> /\ mounted' \in BOOLEAN
  BY <1>1
<1>2. CASE Wipe \/ Overwrite
  <2>1. mounted' = mounted /\ cuts' = cuts /\ spoiled' = spoiled
    BY <1>2 DEF Wipe, Overwrite
  <2>2. \/ UNCHANGED <<dataVars, doomed, asked>>
        \/ data' = Fresh /\ flag' = NoFlag /\ doomed' = FALSE /\ asked' = NoFlag
    BY <1>2 DEF Wipe, Overwrite, Clear
  <2>3. Fresh.live = "fresh" /\ Fresh.flag = NoFlag /\ DOMAIN Fresh.backups = {}
    BY FreshIsEmpty
  <2>. QED
    BY <2>1, <2>2, <2>3
<1>3. CASE ResetDelete \/ DeleteRest
  BY <1>3 DEF ResetDelete, DeleteRest
<1>4. CASE ResetBackup
  BY <1>4 DEF ResetBackup, BackedUp
<1>5. CASE UseState \/ RequestReset \/ Writeback
  BY <1>5 DEF UseState, RequestReset, Writeback
<1>6. ASSUME NEW g \in Guards, RequestWipe(g)
      PROVE  FilesInv'
  BY <1>6 DEF RequestWipe
<1>7. CASE Reboot
  BY <1>7 DEF Reboot, Stop
<1>8. CASE PowerCut \/ Halt
  <2>1. LoseUnsynced /\ mounted' = FALSE
    BY <1>8 DEF PowerCut, Halt, Stop
  <2>2. flag' \in Flags /\ data'.flag = flag' /\ asked' \in Flags /\ doomed' \in BOOLEAN
        /\ data'.live = data.live /\ data'.backups = data.backups
    BY <2>1 DEF LoseUnsynced
  <2>3. cuts' \in 0 .. MaxCuts /\ spoiled' \subseteq {"bootstrap", "backup"}
    BY <1>8, DevicesAssumption DEF PowerCut, Halt, DevicesAssumption
  <2>. QED
    BY <2>1, <2>2, <2>3
<1>. QED
  BY <1>1, <1>2, <1>3, <1>4, <1>5, <1>6, <1>7, <1>8 DEF BootNext, InitStep, Boot, ReadMarkers,
     Bootstrap, Make, Unmark, RemountReadOnly, MountData, NoReset, UseGuards, allVars

\* Every variable keeps its type; the writer count stays between zero and the number of
\* guards on a device that is rebooted, wiped and cut off at any step.
THEOREM BootTypes == BootSpec => []BootTypeOK
<1>1. BootInit => CoreInv /\ DownInv
  BY InitInv DEF BootInit, DownInv, Init, IInv
<1>2. MarkersInv /\ FsInv /\ FilesInv /\ CoreInv => BootTypeOK
  BY TypeFromInv DEF MarkersInv, PlaceInv, FsInv, FilesInv, BootTypeOK, Range
<1>. QED
  BY <1>1, <1>2, CoreStep, FilesInit, FilesStep, MarkersInvariance, FsInvariance, PTL
     DEF BootSpec
=============================================================================
