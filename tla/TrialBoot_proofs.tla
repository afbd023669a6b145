--------------------------- MODULE TrialBoot_proofs ---------------------------
(***************************************************************************)
(* For every number of groups: with the RAUC-compatible U-Boot flow every  *)
(* boot of a group other than the one last committed, or marked good while *)
(* it ran, is an attempt that was asked for, and with none pending that    *)
(* group is the default.                                                   *)
(***************************************************************************)
EXTENDS TrialBoot, RaucFlows, WellFoundedInduction, TLAPS

\* The boot flow that the device is configured with.
UsesRaucUboot ==
    /\ InitEnv = RaucInit([i \in 1 .. NumGroups |-> i - 1])
    /\ \A e, g, d : SetTryNext(e, g, d) = RaucSetTryNext(e, g, d)
    /\ \A e, g :
        /\ CommitTo(e, g) = RaucCommitTo(e, g)
        /\ MarkGood(e, g) = RaucMarkGood(e, g) /\ MarkBad(e, g) = RaucMarkBad(e, g)
    /\ \A e : Defaults(e) = RaucDefaults(e) /\ Attempts(e) = RaucAttempts(e)
    /\ GoodAttempts = 3

-----------------------------------------------------------------------------
(* The inductive invariant.                                                *)

Types ==
    /\ env \in [order : Seq(Groups), left : [Groups -> 0 .. 3]]
    /\ running \in Groups \cup {NoGroup} /\ settled \in BOOLEAN
    /\ fallback \in Groups /\ armed \in [Groups -> NotAsked .. 3]
    /\ earlyCuts \in 0 .. MaxEarlyCuts

\* Every group is in the order once.
Once(order) ==
    /\ \A g \in Groups : \E i \in 1 .. Len(order) : order[i] = g
    /\ \A i, j \in 1 .. Len(order) : order[i] = order[j] => i = j

\* Whatever is tried before the group c has been asked for, as often as it has attempts.
AskedBefore(c) ==
    \A i, j \in 1 .. Len(env.order) :
        env.order[i] = c /\ j < i => env.left[env.order[j]] <= armed[env.order[j]]

\* The running group may be marked good, and be the fallback from then on.
TrialsFirst == \A c \in Groups : c = fallback \/ c = running => AskedBefore(c)

\* The fallback has an attempt left, except while it has just used that up.
Unsettled == running = fallback /\ ~settled
AttemptsLeft ==
    IF armed[fallback] # NotAsked THEN Unsettled \/ env.left[fallback] >= 1
    ELSE env.left[fallback] >= 3 - earlyCuts - (IF Unsettled THEN 1 ELSE 0)

IInv ==
    /\ Types /\ Once(env.order)
    /\ settled => running = fallback
    /\ TrialsFirst /\ AttemptsLeft
-----------------------------------------------------------------------------
(* Places in the order.                                                    *)

LEMMA LeastPlace ==
    ASSUME NEW I \in SUBSET Nat, I # {}
    PROVE  Min(I) \in I /\ \A i \in I : Min(I) <= i
<1>. DEFINE R == OpToRel(<, Nat)
<1>1. PICK m \in I : \A i \in I : ~(<<i, m>> \in R)
  <2>1. IsWellFoundedOn(R, Nat)
    BY NatLessThanWellFounded
  <2>. HIDE DEF R
  <2>. QED
    BY <2>1, WFMin
<1>2. ASSUME NEW i \in I PROVE m <= i
  <2>1. ~(i < m)
    BY <1>1 DEF OpToRel
  <2>2. i \in Nat /\ m \in Nat
    OBVIOUS
  <2>. HIDE DEF R
  <2>. QED
    BY <2>1, <2>2
<1>3. \E k \in I : \A i \in I : k <= i
  BY <1>2
<1>. QED
  BY <1>3 DEF Min

\* What moving a group to the front does to the places of the others.
LEMMA MovedToFront ==
    ASSUME NEW order \in Seq(Groups), Once(order), NEW g \in Groups
    PROVE  LET new == ToFront(order, g)
           IN  /\ new \in Seq(Groups) /\ Once(new) /\ Len(new) \in Nat
               /\ \A i \in 1 .. Len(new) : new[i] = g => i = 1
               /\ \A i, j \in 1 .. Len(new) : j < i /\ new[j] # g =>
                    \E k, l \in 1 .. Len(order) :
                        order[k] = new[i] /\ order[l] = new[j] /\ l < k
<1>. DEFINE I == {i \in 1 .. Len(order) : order[i] = g}
            at == SelectInSeq(order, LAMBDA h : h = g)
            rest == RemoveFirst(order, g)
            new == ToFront(order, g)
<1>1. Len(order) \in Nat /\ I \in SUBSET Nat /\ I # {}
  BY DEF Once
<1>2. at \in 1 .. Len(order) /\ order[at] = g
  <2>1. at = IF I # {} THEN Min(I) ELSE 0
    BY DEF SelectInSeq
  <2>. HIDE DEF at, I
  <2>2. Min(I) \in I
    BY <1>1, LeastPlace
  <2>. QED
    BY <1>1, <2>1, <2>2 DEF I
<1>3. rest = SubSeq(order, 1, at - 1) \o SubSeq(order, at + 1, Len(order))
  <2>1. \E i \in 1 .. Len(order) : order[i] = g
    BY <1>2
  <2>. QED
    BY <2>1 DEF RemoveFirst, RemoveAt
<1>. HIDE DEF at, I, rest
<1>4. /\ rest \in Seq(Groups) /\ Len(rest) = Len(order) - 1
      /\ \A i \in 1 .. Len(rest) : rest[i] = IF i < at THEN order[i] ELSE order[i + 1]
  <2>. DEFINE a == SubSeq(order, 1, at - 1)
              b == SubSeq(order, at + 1, Len(order))
  <2>1. a \in Seq(Groups) /\ Len(a) = at - 1 /\ \A i \in 1 .. at - 1 : a[i] = order[i]
    BY <1>1, <1>2
  <2>2. b \in Seq(Groups) /\ Len(b) = Len(order) - at
        /\ \A i \in 1 .. Len(order) - at : b[i] = order[at + i]
    BY <1>1, <1>2
  <2>3. rest = a \o b
    BY <1>3
  <2>. HIDE DEF a, b
  <2>4. rest \in Seq(Groups) /\ Len(rest) = Len(order) - 1
    <3>1. a \o b \in Seq(Groups) /\ Len(a \o b) = Len(a) + Len(b)
      BY <2>1, <2>2
    <3>2. (at - 1) + (Len(order) - at) = Len(order) - 1
      BY <1>1, <1>2
    <3>. QED
      BY <2>1, <2>2, <2>3, <3>1, <3>2
  <2>5. ASSUME NEW i \in 1 .. Len(rest)
        PROVE  rest[i] = IF i < at THEN order[i] ELSE order[i + 1]
    <3>1. CASE i < at
      BY <1>1, <1>2, <2>1, <2>2, <2>3, <2>4, <3>1
    <3>2. CASE i >= at
      <4>1. rest[i] = b[i - (at - 1)] /\ i - (at - 1) \in 1 .. Len(order) - at
        BY <1>1, <1>2, <2>1, <2>2, <2>3, <2>4, <3>2
      <4>2. at + (i - (at - 1)) = i + 1
        BY <1>2
      <4>. QED
        BY <1>2, <2>2, <3>2, <4>1, <4>2
    <3>. QED
      BY <1>2, <3>1, <3>2
  <2>. QED
    BY <2>4, <2>5
\* Where what is in the new order comes from.
<1>. DEFINE from(i) == IF i = 1 THEN at ELSE IF i <= at THEN i - 1 ELSE i
<1>5. /\ new \in Seq(Groups) /\ Len(new) = Len(order) /\ new[1] = g
      /\ \A i \in 2 .. Len(new) : new[i] = rest[i - 1]
  BY <1>1, <1>2, <1>4 DEF ToFront, rest
<1>. HIDE DEF new
<1>6. \A i \in 1 .. Len(new) : from(i) \in 1 .. Len(order) /\ new[i] = order[from(i)]
  <2>. SUFFICES ASSUME NEW i \in 1 .. Len(new)
                PROVE  from(i) \in 1 .. Len(order) /\ new[i] = order[from(i)]
    OBVIOUS
  <2>1. CASE i = 1
    BY <1>2, <1>5, <2>1
  <2>2. CASE i # 1
    <3>1. i \in 2 .. Len(new) /\ i - 1 \in 1 .. Len(rest) /\ (i - 1) + 1 = i
      BY <1>1, <1>4, <1>5, <2>2
    <3>2. new[i] = (IF i - 1 < at THEN order[i - 1] ELSE order[i])
      BY <1>4, <1>5, <3>1
    <3>. QED
      BY <1>1, <1>2, <1>5, <2>2, <3>1, <3>2
  <2>. QED
    BY <2>1, <2>2
<1>7. \A i, j \in 1 .. Len(new) : from(i) = from(j) => i = j
  BY <1>1, <1>2, <1>5
<1>8. \A k \in 1 .. Len(order) : \E i \in 1 .. Len(new) : from(i) = k
  <2>. SUFFICES ASSUME NEW k \in 1 .. Len(order)
                PROVE  \E i \in 1 .. Len(new) : from(i) = k
    OBVIOUS
  <2>1. CASE k = at
    <3>1. 1 \in 1 .. Len(new) /\ from(1) = k
      BY <1>1, <1>2, <1>5, <2>1
    <3>. QED
      BY <3>1
  <2>2. CASE k < at
    <3>1. k + 1 \in 1 .. Len(new) /\ from(k + 1) = k
      BY <1>1, <1>2, <1>5, <2>2
    <3>. QED
      BY <3>1
  <2>3. CASE k > at
    <3>1. k \in 1 .. Len(new) /\ from(k) = k
      BY <1>1, <1>2, <1>5, <2>3
    <3>. QED
      BY <3>1
  <2>. QED
    BY <1>2, <2>1, <2>2, <2>3
<1>9. \A i, j \in 1 .. Len(new) : j < i /\ j # 1 => from(j) < from(i)
  BY <1>1, <1>2, <1>5
<1>. HIDE DEF from
<1>10. Once(new)
  <2>1. ASSUME NEW h \in Groups PROVE \E i \in 1 .. Len(new) : new[i] = h
    <3>1. PICK k \in 1 .. Len(order) : order[k] = h
      BY DEF Once
    <3>. QED
      BY <1>6, <1>8, <3>1
  <2>2. ASSUME NEW i \in 1 .. Len(new), NEW j \in 1 .. Len(new), new[i] = new[j] PROVE i = j
    <3>1. from(i) \in 1 .. Len(order) /\ from(j) \in 1 .. Len(order)
          /\ order[from(i)] = order[from(j)]
      BY <1>6, <2>2
    <3>2. from(i) = from(j)
      BY <3>1 DEF Once
    <3>. QED
      BY <1>7, <3>2
  <2>. QED
    BY <2>1, <2>2 DEF Once
<1>11. ASSUME NEW i \in 1 .. Len(new), new[i] = g PROVE i = 1
  <2>1. 1 \in 1 .. Len(new) /\ new[1] = new[i]
    BY <1>1, <1>2, <1>5, <1>11
  <2>. QED
    BY <1>10, <2>1 DEF Once
<1>12. \A i, j \in 1 .. Len(new) : j < i /\ new[j] # g =>
          \E k, l \in 1 .. Len(order) : order[k] = new[i] /\ order[l] = new[j] /\ l < k
  BY <1>5, <1>6, <1>9
<1>. QED
  BY <1>1, <1>5, <1>10, <1>11, <1>12 DEF new

\* The group that comes first among those that have an attempt left.
LEMMA FirstLeft ==
    ASSUME NEW e \in [order : Seq(Groups), left : [Groups -> 0 .. 3]]
    PROVE  /\ \A g \in RaucFirst(e) : \E i \in 1 .. Len(e.order) :
                /\ e.order[i] = g /\ g \in Groups /\ e.left[g] > 0
                /\ \A j \in 1 .. i - 1 : e.left[e.order[j]] = 0
           /\ (\E g \in Groups : e.left[g] > 0 /\ \E i \in 1 .. Len(e.order) : e.order[i] = g)
                => RaucFirst(e) # {}
           /\ \A g, h \in RaucFirst(e) : g = h
<1>. DEFINE I == {i \in 1 .. Len(e.order) : e.left[e.order[i]] > 0}
            at == SelectInSeq(e.order, LAMBDA g : e.left[g] > 0)
<1>1. Len(e.order) \in Nat /\ I \in SUBSET Nat
      /\ \A i \in 1 .. Len(e.order) : e.order[i] \in Groups /\ e.left[e.order[i]] \in 0 .. 3
  OBVIOUS
<1>2. at = (IF I # {} THEN Min(I) ELSE 0) /\ RaucFirst(e) = IF at = 0 THEN {} ELSE {e.order[at]}
  BY DEF SelectInSeq, RaucFirst
<1>3. I # {} => Min(I) \in I /\ \A i \in I : Min(I) <= i
  BY <1>1, LeastPlace
<1>. HIDE DEF at
<1>4. CASE I = {}
  BY <1>1, <1>2, <1>4
<1>5. CASE I # {}
  <2>1. at \in 1 .. Len(e.order) /\ e.left[e.order[at]] > 0 /\ \A i \in I : at <= i
    BY <1>2, <1>3, <1>5
  <2>2. RaucFirst(e) = {e.order[at]}
    <3>1. at # 0
      BY <1>1, <2>1
    <3>. QED
      BY <1>2, <3>1
  <2>3. \A j \in 1 .. at - 1 : e.left[e.order[j]] = 0
    BY <1>1, <2>1
  <2>. QED
    BY <1>1, <2>1, <2>2, <2>3
<1>. QED
  BY <1>4, <1>5
-----------------------------------------------------------------------------
(* Every step keeps the invariant.                                         *)

LEMMA InitInv ==
    ASSUME UsesRaucUboot, Init
    PROVE  IInv
<1>. DEFINE order == [i \in 1 .. NumGroups |-> i - 1]
<1>1. NumGroups \in Nat /\ NumGroups >= 2 /\ MaxEarlyCuts \in Nat
  BY Constants
<1>2. order \in Seq(Groups) /\ Len(order) = NumGroups /\ \A i \in 1 .. NumGroups : order[i] = i - 1
  BY <1>1 DEF Groups
<1>. HIDE DEF order
<1>3. Once(order)
  <2>1. ASSUME NEW g \in Groups PROVE \E i \in 1 .. Len(order) : order[i] = g
    <3>1. g + 1 \in 1 .. Len(order) /\ order[g + 1] = g
      BY <1>1, <1>2 DEF Groups
    <3>. QED
      BY <3>1
  <2>2. \A i, j \in 1 .. Len(order) : order[i] = order[j] => i = j
    BY <1>1, <1>2
  <2>. QED
    BY <2>1, <2>2 DEF Once
<1>4. ToSet(order) = Groups
  <2>1. ToSet(order) \subseteq Groups
    BY <1>1, <1>2 DEF ToSet
  <2>2. DOMAIN order = 1 .. Len(order)
    BY <1>2
  <2>3. Groups \subseteq ToSet(order)
    BY <1>3, <2>2 DEF Once, ToSet
  <2>. QED
    BY <2>1, <2>3
<1>5. env = [order |-> order, left |-> [g \in Groups |-> 3]]
  BY <1>4 DEF Init, UsesRaucUboot, RaucInit, order
<1>6. 0 \in Groups /\ 1 \in 1 .. Len(order) /\ order[1] = 0
  BY <1>1, <1>2 DEF Groups
<1>7. Types
  <2>1. [g \in Groups |-> 3] \in [Groups -> 0 .. 3]
    OBVIOUS
  <2>2. env \in [order : Seq(Groups), left : [Groups -> 0 .. 3]]
    BY <1>2, <1>5, <2>1
  <2>3. 0 \in 0 .. MaxEarlyCuts
    BY <1>1
  <2>4. armed \in [Groups -> NotAsked .. 3]
    BY DEF Init, NotAsked
  <2>. QED
    BY <1>6, <2>2, <2>3, <2>4 DEF Init, Types
<1>8. TrialsFirst
  <2>1. fallback = 0 /\ env.order = order /\ running \notin Groups
    BY <1>1, <1>5 DEF Init, NoGroup, Groups
  <2>2. \A i, j \in 1 .. Len(order) : order[i] = 0 /\ j < i => FALSE
    BY <1>1, <1>2
  <2>. QED
    BY <2>1, <2>2 DEF TrialsFirst, AskedBefore
<1>9. AttemptsLeft
  BY <1>5, <1>6 DEF Init, AttemptsLeft, Unsettled, NoGroup, NotAsked
<1>. QED
  BY <1>3, <1>5, <1>7, <1>8, <1>9 DEF Init, IInv

\* Most steps change the attempts of one group.
LEMMA LeftStep ==
    ASSUME IInv, NEW g \in Groups, NEW n \in 0 .. 3, env' = [env EXCEPT !.left[g] = n]
    PROVE  /\ env' \in [order : Seq(Groups), left : [Groups -> 0 .. 3]]
           /\ env'.order = env.order /\ Once(env'.order)
           /\ env'.left[g] = n /\ \A h \in Groups : h # g => env'.left[h] = env.left[h]
           /\ \A i \in 1 .. Len(env.order) : env.order[i] \in Groups
<1>1. /\ env \in [order : Seq(Groups), left : [Groups -> 0 .. 3]] /\ Once(env.order)
  BY DEF IInv, Types
<1>2. env'.order = env.order
  BY <1>1
<1>. QED
  BY <1>1, <1>2

\* Nothing but the attempts of one group changes, and nobody overtakes the group c.
LEMMA SameOrder ==
    ASSUME IInv, NEW c \in Groups, AskedBefore(c), env'.order = env.order, NEW g \in Groups,
           \A h \in Groups : h # g => env'.left[h] = env.left[h] /\ armed'[h] = armed[h],
           g = c \/ armed[g] = NotAsked \/ env'.left[g] <= armed'[g]
    PROVE  AskedBefore(c)'
<1>1. /\ env.order \in Seq(Groups) /\ env.left \in [Groups -> 0 .. 3] /\ Once(env.order)
      /\ armed \in [Groups -> NotAsked .. 3]
  BY DEF IInv, Types
<1>. SUFFICES ASSUME NEW i \in 1 .. Len(env.order), NEW j \in 1 .. Len(env.order),
                     env.order[i] = c, j < i
              PROVE  env'.left[env.order[j]] <= armed'[env.order[j]]
  BY DEF AskedBefore
<1>. DEFINE h == env.order[j]
<1>2. h \in Groups /\ h # c /\ env.left[h] <= armed[h]
  <2>1. h # c
    <3>1. env.order[j] = env.order[i] => j = i
      BY <1>1 DEF Once
    <3>. QED
      BY <3>1
  <2>. QED
    BY <1>1, <2>1 DEF AskedBefore
<1>3. env.left[h] \in 0 .. 3 /\ armed[h] # NotAsked
  <2>1. env.left[h] \in 0 .. 3 /\ armed[h] \in NotAsked .. 3
    BY <1>1, <1>2
  <2>. HIDE DEF h
  <2>. QED
    BY <1>2, <2>1 DEF NotAsked
<1>. HIDE DEF h
<1>4. env'.left[h] <= armed'[h]
  BY <1>2, <1>3
<1>. QED
  BY <1>4 DEF h

\* A group is moved to the front of the order, with n attempts.
LEMMA FrontStep ==
    ASSUME IInv, NEW g \in Groups, NEW n \in 0 .. 3,
           env' = [order |-> ToFront(env.order, g), left |-> [env.left EXCEPT ![g] = n]]
    PROVE  /\ env' \in [order : Seq(Groups), left : [Groups -> 0 .. 3]] /\ Once(env'.order)
           /\ env'.left[g] = n /\ \A h \in Groups : h # g => env'.left[h] = env.left[h]
           /\ AskedBefore(g)'
           /\ n <= armed'[g] /\ (\A h \in Groups : h # g => armed'[h] = armed[h]) =>
                \A c \in Groups : AskedBefore(c) => AskedBefore(c)'
<1>1. env.order \in Seq(Groups) /\ env.left \in [Groups -> 0 .. 3] /\ Once(env.order)
  BY DEF IInv, Types
<1>. DEFINE new == ToFront(env.order, g)
<1>2. /\ new \in Seq(Groups) /\ Once(new) /\ Len(new) \in Nat
      /\ \A i \in 1 .. Len(new) : new[i] = g => i = 1
      /\ \A i, j \in 1 .. Len(new) : j < i /\ new[j] # g =>
           \E k, l \in 1 .. Len(env.order) :
               env.order[k] = new[i] /\ env.order[l] = new[j] /\ l < k
  BY <1>1, MovedToFront
<1>. HIDE DEF new
<1>3. /\ env'.order = new /\ env'.left = [env.left EXCEPT ![g] = n]
  BY DEF new
<1>4. /\ env'.left \in [Groups -> 0 .. 3] /\ env'.left[g] = n
      /\ \A h \in Groups : h # g => env'.left[h] = env.left[h]
  BY <1>1, <1>3
<1>5. env' \in [order : Seq(Groups), left : [Groups -> 0 .. 3]]
  BY <1>2, <1>3, <1>4 DEF new
<1>6. AskedBefore(g)'
  <2>. SUFFICES ASSUME NEW i \in 1 .. Len(new), NEW j \in 1 .. Len(new), new[i] = g, j < i
                PROVE  FALSE
    BY <1>3 DEF AskedBefore
  <2>1. i = 1
    BY <1>2
  <2>. QED
    BY <1>2, <2>1
<1>7. ASSUME n <= armed'[g], \A h \in Groups : h # g => armed'[h] = armed[h],
             NEW c \in Groups, AskedBefore(c),
             NEW i \in 1 .. Len(new), NEW j \in 1 .. Len(new), new[i] = c, j < i
      PROVE  env'.left[new[j]] <= armed'[new[j]]
  <2>1. CASE new[j] = g
    BY <1>4, <1>7, <2>1
  <2>2. CASE new[j] # g
    <3>1. PICK k, l \in 1 .. Len(env.order) :
             env.order[k] = new[i] /\ env.order[l] = new[j] /\ l < k
      BY <1>2, <1>7, <2>2
    <3>2. env.left[new[j]] <= armed[new[j]] /\ new[j] \in Groups
      BY <1>2, <1>7, <3>1 DEF AskedBefore
    <3>. QED
      BY <1>4, <1>7, <2>2, <3>2
  <2>. QED
    BY <2>1, <2>2
<1>8. n <= armed'[g] /\ (\A h \in Groups : h # g => armed'[h] = armed[h]) =>
        \A c \in Groups : AskedBefore(c) => AskedBefore(c)'
  BY <1>3, <1>7 DEF AskedBefore
<1>. QED
  BY <1>2, <1>3, <1>4, <1>5, <1>6, <1>8

\* A group is marked good: the running one becomes the fallback.
LEMMA MarkGoodStep ==
    ASSUME UsesRaucUboot, IInv, MarkGroupGood
    PROVE  IInv'
<1>1. PICK g \in Groups :
        /\ env' = [env EXCEPT !.left[g] = 3]
        /\ settled' = (settled \/ g = running)
        /\ fallback' = IF g = running THEN g ELSE fallback
        /\ armed' = [armed EXCEPT ![g] = IF g = running \/ armed[g] = NotAsked THEN NotAsked ELSE 3]
  BY DEF MarkGroupGood, UsesRaucUboot, RaucMarkGood
<1>2. /\ UNCHANGED <<running, earlyCuts>> /\ running # NoGroup /\ Types /\ fallback \in Groups
      /\ earlyCuts \in Nat /\ running \in Groups
  BY Constants DEF MarkGroupGood, IInv, Types
<1>3. /\ env' \in [order : Seq(Groups), left : [Groups -> 0 .. 3]]
      /\ env'.order = env.order /\ Once(env'.order)
      /\ env'.left[g] = 3 /\ \A h \in Groups : h # g => env'.left[h] = env.left[h]
  <2>1. 3 \in 0 .. 3
    OBVIOUS
  <2>. QED
    BY <1>1, <2>1, LeftStep
<1>4. /\ armed' \in [Groups -> NotAsked .. 3]
      /\ armed'[g] = IF g = running \/ armed[g] = NotAsked THEN NotAsked ELSE 3
      /\ \A h \in Groups : h # g => armed'[h] = armed[h]
  BY <1>1, <1>2 DEF Types, NotAsked
<1>5. Types'
  <2>1. settled' \in BOOLEAN
    BY <1>1, Zenon
  <2>2. fallback' \in Groups
    BY <1>1, <1>2
  <2>. QED
    BY <1>2, <1>3, <1>4, <2>1, <2>2 DEF Types
<1>6. TrialsFirst'
  <2>. SUFFICES ASSUME NEW c \in Groups, c = fallback' \/ c = running PROVE AskedBefore(c)'
    BY <1>2 DEF TrialsFirst
  <2>1. AskedBefore(c)
    BY <1>1 DEF IInv, TrialsFirst
  <2>2. g = c \/ armed[g] = NotAsked \/ env'.left[g] <= armed'[g]
    <3>1. g = running => c = g
      BY <1>1
    <3>. QED
      BY <1>3, <1>4, <3>1
  <2>. QED
    BY <1>3, <1>4, <2>1, <2>2, SameOrder
<1>7. AttemptsLeft'
  <2>1. CASE g = running
    BY <1>1, <1>2, <1>3, <1>4, <2>1 DEF AttemptsLeft, Unsettled
  <2>2. CASE g # running /\ g = fallback
    BY <1>1, <1>2, <1>3, <1>4, <2>2 DEF AttemptsLeft, Unsettled
  <2>3. CASE g # running /\ g # fallback
    <3>1. (Unsettled' <=> Unsettled) /\ fallback' = fallback /\ armed'[fallback] = armed[fallback]
          /\ env'.left[fallback] = env.left[fallback]
      BY <1>1, <1>2, <1>3, <1>4, <2>3 DEF Unsettled
    <3>. QED
      BY <1>2, <3>1 DEF IInv, AttemptsLeft
  <2>. QED
    BY <2>1, <2>2, <2>3
<1>8. settled' => running' = fallback'
  BY <1>1, <1>2 DEF IInv
<1>. QED
  BY <1>3, <1>5, <1>6, <1>7, <1>8 DEF IInv

LEMMA TryNextStep ==
    ASSUME UsesRaucUboot, IInv, TryNext
    PROVE  IInv'
<1>1. PICK d \in Defaults(env), g \in Groups : g # d /\ env' = SetTryNext(env, g, d)
                                               /\ armed' = [armed EXCEPT ![g] = 1]
  BY DEF TryNext
<1>2. UNCHANGED <<running, settled, fallback, earlyCuts>> /\ Busy
  BY DEF TryNext
<1>3. env' = [order |-> ToFront(env.order, g), left |-> [env.left EXCEPT ![g] = 1]]
  BY <1>1 DEF UsesRaucUboot, RaucSetTryNext
<1>4. /\ Types /\ fallback \in Groups /\ armed' \in [Groups -> NotAsked .. 3]
      /\ armed'[g] = 1 /\ \A h \in Groups : h # g => armed'[h] = armed[h]
  BY <1>1 DEF IInv, Types, NotAsked
<1>5. /\ env' \in [order : Seq(Groups), left : [Groups -> 0 .. 3]] /\ Once(env'.order)
      /\ env'.left[g] = 1 /\ \A h \in Groups : h # g => env'.left[h] = env.left[h]
      /\ 1 <= armed'[g] /\ (\A h \in Groups : h # g => armed'[h] = armed[h]) =>
           \A c \in Groups : AskedBefore(c) => AskedBefore(c)'
  <2>1. 1 \in 0 .. 3
    OBVIOUS
  <2>. QED
    BY <1>3, <2>1, FrontStep
<1>6. Types'
  BY <1>2, <1>4, <1>5 DEF Types
<1>7. TrialsFirst'
  <2>1. 1 <= armed'[g]
    BY <1>4
  <2>2. \A c \in Groups : AskedBefore(c) => AskedBefore(c)'
    BY <1>4, <1>5, <2>1
  <2>. QED
    BY <1>2, <2>2 DEF IInv, TrialsFirst
<1>8. AttemptsLeft'
  <2>1. ~Unsettled /\ ~Unsettled'
    BY <1>2 DEF Unsettled, Busy
  <2>2. CASE fallback = g
    BY <1>2, <1>4, <1>5, <2>1, <2>2 DEF AttemptsLeft, NotAsked
  <2>3. CASE fallback # g
    BY <1>2, <1>4, <1>5, <2>1, <2>3 DEF IInv, AttemptsLeft
  <2>. QED
    BY <2>2, <2>3
<1>. QED
  BY <1>2, <1>5, <1>6, <1>7, <1>8 DEF IInv

LEMMA CommitStep ==
    ASSUME UsesRaucUboot, IInv, Commit
    PROVE  IInv'
<1>1. /\ running # NoGroup /\ fallback' = running /\ settled' = TRUE
      /\ armed' = [g \in Groups |-> NotAsked]
      /\ UNCHANGED <<running, earlyCuts>>
      /\ env' = [order |-> ToFront(env.order, running), left |-> [env.left EXCEPT ![running] = 3]]
  BY DEF Commit, Busy, UsesRaucUboot, RaucCommitTo
<1>2. Types /\ running \in Groups /\ 3 \in 0 .. 3 /\ earlyCuts \in Nat
  BY <1>1, Constants DEF IInv, Types
<1>3. /\ env' \in [order : Seq(Groups), left : [Groups -> 0 .. 3]] /\ Once(env'.order)
      /\ env'.left[running] = 3 /\ AskedBefore(running)'
  BY <1>1, <1>2, FrontStep
<1>4. armed' \in [Groups -> NotAsked .. 3]
  BY <1>1 DEF NotAsked
<1>5. Types'
  BY <1>1, <1>2, <1>3, <1>4 DEF Types
<1>6. TrialsFirst'
  BY <1>1, <1>3 DEF TrialsFirst
<1>7. AttemptsLeft'
  BY <1>1, <1>2, <1>3 DEF AttemptsLeft, Unsettled
<1>. QED
  BY <1>1, <1>3, <1>5, <1>6, <1>7 DEF IInv

LEMMA MarkBadStep ==
    ASSUME UsesRaucUboot, IInv, MarkGroupBad
    PROVE  IInv'
<1>1. PICK g \in Groups \ {running, fallback} :
         /\ env' = [env EXCEPT !.left[g] = 0]
         /\ armed' = [armed EXCEPT ![g] = IF armed[g] = NotAsked THEN NotAsked ELSE 0]
  BY DEF MarkGroupBad, UsesRaucUboot, RaucMarkBad
<1>2. UNCHANGED <<running, settled, fallback, earlyCuts>> /\ Types /\ fallback \in Groups
      /\ 0 \in 0 .. 3
  BY DEF MarkGroupBad, IInv, Types
<1>3. /\ env' \in [order : Seq(Groups), left : [Groups -> 0 .. 3]]
      /\ env'.order = env.order /\ Once(env'.order)
      /\ env'.left[g] = 0 /\ \A h \in Groups : h # g => env'.left[h] = env.left[h]
  BY <1>1, <1>2, LeftStep
<1>4. /\ armed' \in [Groups -> NotAsked .. 3]
      /\ armed'[g] = IF armed[g] = NotAsked THEN NotAsked ELSE 0
      /\ \A h \in Groups : h # g => armed'[h] = armed[h]
  BY <1>1, <1>2 DEF Types, NotAsked
<1>5. Types'
  BY <1>2, <1>3, <1>4 DEF Types
<1>6. TrialsFirst'
  <2>. SUFFICES ASSUME NEW c \in Groups, AskedBefore(c) PROVE AskedBefore(c)'
    BY <1>2 DEF IInv, TrialsFirst
  <2>1. armed[g] = NotAsked \/ env'.left[g] <= armed'[g]
    BY <1>3, <1>4
  <2>. QED
    BY <1>3, <1>4, <2>1, SameOrder
<1>7. AttemptsLeft'
  BY <1>1, <1>2, <1>3, <1>4 DEF IInv, AttemptsLeft, Unsettled
<1>. QED
  BY <1>2, <1>3, <1>5, <1>6, <1>7 DEF IInv

LEMMA DownStep ==
    ASSUME MaxEarlyCuts <= 2, IInv, Down \/ EarlyPowerCut
    PROVE  IInv'
<1>1. /\ running' = NoGroup /\ settled' = FALSE /\ UNCHANGED <<env, fallback, armed>>
      /\ \/ Busy /\ earlyCuts' = earlyCuts
         \/ Unsettled /\ armed[fallback] = NotAsked /\ earlyCuts' = earlyCuts + 1
            /\ earlyCuts < MaxEarlyCuts
  BY DEF Down, EarlyPowerCut, GoDown, Unsettled
<1>2. /\ Types /\ fallback \in Groups /\ env.left[fallback] \in 0 .. 3 /\ earlyCuts \in Nat
      /\ MaxEarlyCuts \in Nat
  BY Constants DEF IInv, Types
<1>3. NoGroup \notin Groups
  BY Constants DEF NoGroup, Groups
<1>4. Types'
  <2>1. Types /\ earlyCuts \in 0 .. MaxEarlyCuts
    BY <1>2 DEF Types
  <2>2. earlyCuts' \in 0 .. MaxEarlyCuts
    <3>1. CASE earlyCuts' = earlyCuts
      BY <2>1, <3>1
    <3>2. CASE earlyCuts' = earlyCuts + 1 /\ earlyCuts < MaxEarlyCuts
      BY <1>2, <3>2
    <3>. QED
      BY <1>1, <3>1, <3>2
  <2>. QED
    BY <1>1, <2>1, <2>2 DEF Types
<1>5. TrialsFirst'
  BY <1>1, <1>2, <1>3 DEF IInv, TrialsFirst, AskedBefore
<1>6. ~Unsettled'
  BY <1>1, <1>2, <1>3 DEF Unsettled
<1>7. AttemptsLeft'
  <2>1. CASE Busy /\ earlyCuts' = earlyCuts
    BY <1>1, <1>2, <1>6, <2>1 DEF IInv, AttemptsLeft, Busy, Unsettled
  <2>2. CASE Unsettled /\ armed[fallback] = NotAsked /\ earlyCuts' = earlyCuts + 1
    BY <1>1, <1>2, <1>6, <2>2 DEF IInv, AttemptsLeft
  <2>. QED
    BY <1>1, <2>1, <2>2
<1>. QED
  BY <1>1, <1>4, <1>5, <1>7 DEF IInv

\* The group that the bootloader boots, and those that it passes over.
LEMMA AttemptIs ==
    ASSUME UsesRaucUboot, MaxEarlyCuts <= 2, IInv, ~Unsettled, NEW a \in Attempts(env)
    PROVE  /\ a.group \in Groups /\ a.group \in RaucFirst(env)
           /\ a.group = fallback \/ env.left[a.group] <= armed[a.group]
           /\ env.left[a.group] \in 1 .. 3
           /\ a.env = [env EXCEPT !.left[a.group] = env.left[a.group] - 1]
           /\ AskedBefore(a.group)
<1>1. PICK g \in RaucFirst(env) :
         a = [group |-> g, env |-> [env EXCEPT !.left[g] = @ - 1]]
  BY DEF UsesRaucUboot, RaucAttempts
<1>2. /\ env \in [order : Seq(Groups), left : [Groups -> 0 .. 3]] /\ fallback \in Groups
      /\ armed \in [Groups -> NotAsked .. 3] /\ earlyCuts \in Nat /\ earlyCuts <= 2
      /\ AskedBefore(fallback)
  BY Constants DEF IInv, Types, TrialsFirst
<1>3. PICK i \in 1 .. Len(env.order) :
         /\ env.order[i] = g /\ g \in Groups /\ env.left[g] > 0
         /\ \A j \in 1 .. i - 1 : env.left[env.order[j]] = 0
  BY <1>2, FirstLeft
<1>4. PICK k \in 1 .. Len(env.order) : env.order[k] = fallback
  BY <1>2 DEF IInv, Once
<1>5. env.left[fallback] \in 0 .. 3 /\ env.left[fallback] >= 1
  BY <1>2 DEF IInv, AttemptsLeft
<1>6. i <= k
  BY <1>2, <1>3, <1>4, <1>5
<1>7. g = fallback \/ env.left[g] <= armed[g]
  BY <1>2, <1>3, <1>4, <1>6 DEF AskedBefore
<1>8. env.left[g] \in 1 .. 3
  BY <1>2, <1>3
<1>9. AskedBefore(g)
  <2>. SUFFICES ASSUME NEW m \in 1 .. Len(env.order), NEW j \in 1 .. Len(env.order),
                       env.order[m] = g, j < m
                PROVE  env.left[env.order[j]] <= armed[env.order[j]]
    BY DEF AskedBefore
  <2>1. m = i
    BY <1>3 DEF IInv, Once
  <2>2. j < k
    BY <1>2, <1>6, <2>1
  <2>. QED
    BY <1>2, <1>4, <2>2 DEF AskedBefore
<1>10. a.group = g /\ a.env = [env EXCEPT !.left[g] = env.left[g] - 1]
  BY <1>1, <1>2
<1>. QED
  BY <1>3, <1>7, <1>8, <1>9, <1>10

LEMMA BootStep ==
    ASSUME UsesRaucUboot, MaxEarlyCuts <= 2, IInv, Boot
    PROVE  IInv'
<1>1. PICK a \in Attempts(env) :
         /\ env' = a.env
         /\ armed' = IF a.group = fallback THEN armed ELSE [armed EXCEPT ![a.group] = @ - 1]
         /\ running' \in IF a.group = fallback THEN {fallback} ELSE {a.group, NoGroup}
  BY DEF Boot
<1>2. running = NoGroup /\ UNCHANGED <<settled, fallback, earlyCuts>>
  BY DEF Boot
<1>3. NoGroup \notin Groups
  BY Constants DEF NoGroup, Groups
<1>4. /\ Types /\ fallback \in Groups /\ earlyCuts \in Nat
  BY Constants DEF IInv, Types
<1>5. ~Unsettled /\ ~settled
  BY <1>2, <1>3, <1>4 DEF Unsettled, IInv
<1>. DEFINE g == a.group
            n == env.left[g] - 1
<1>6. /\ g \in Groups /\ (g = fallback \/ env.left[g] <= armed[g]) /\ env.left[g] \in 1 .. 3
      /\ env' = [env EXCEPT !.left[g] = n] /\ n \in 0 .. 3 /\ AskedBefore(g)
  <2>1. /\ g \in Groups /\ (g = fallback \/ env.left[g] <= armed[g]) /\ env.left[g] \in 1 .. 3
        /\ env' = [env EXCEPT !.left[g] = n] /\ AskedBefore(g)
    BY <1>1, <1>5, AttemptIs
  <2>. QED
    BY <2>1
<1>7. /\ running' \in (IF g = fallback THEN {fallback} ELSE {g, NoGroup})
      /\ armed' = IF g = fallback THEN armed ELSE [armed EXCEPT ![g] = armed[g] - 1]
  BY <1>1
<1>. HIDE DEF g
<1>8. /\ env' \in [order : Seq(Groups), left : [Groups -> 0 .. 3]]
      /\ env'.order = env.order /\ Once(env'.order)
      /\ env'.left[g] = n /\ \A h \in Groups : h # g => env'.left[h] = env.left[h]
  <2>. HIDE DEF n
  <2>. QED
    BY <1>6, LeftStep
<1>9. /\ armed' \in [Groups -> NotAsked .. 3]
      /\ g # fallback => armed'[g] = armed[g] - 1
      /\ \A h \in Groups : h # g => armed'[h] = armed[h]
  <2>1. armed \in [Groups -> NotAsked .. 3]
    BY <1>4 DEF Types
  <2>2. CASE g = fallback
    BY <1>7, <2>1, <2>2
  <2>3. CASE g # fallback
    BY <1>6, <1>7, <2>1, <2>3 DEF NotAsked
  <2>. QED
    BY <2>2, <2>3
<1>10. Types'
  BY <1>2, <1>4, <1>6, <1>7, <1>8, <1>9 DEF Types
<1>11. TrialsFirst'
  <2>. SUFFICES ASSUME NEW c \in Groups, c = fallback \/ c = running' PROVE AskedBefore(c)'
    BY <1>2 DEF TrialsFirst
  <2>1. c = fallback \/ c = g
    BY <1>3, <1>7
  <2>2. AskedBefore(c)
    BY <1>6, <2>1 DEF IInv, TrialsFirst
  <2>3. g = c \/ env'.left[g] <= armed'[g]
    <3>1. armed[g] \in NotAsked .. 3
      BY <1>4, <1>6 DEF Types
    <3>. QED
      BY <1>6, <1>8, <1>9, <2>1, <3>1 DEF n, NotAsked
  <2>. QED
    BY <1>6, <1>8, <1>9, <2>2, <2>3, SameOrder
<1>12. AttemptsLeft'
  <2>1. CASE g = fallback
    <3>1. Unsettled' /\ armed' = armed /\ fallback' = fallback
      BY <1>2, <1>5, <1>7, <2>1 DEF Unsettled
    <3>2. armed[fallback] = NotAsked => env.left[fallback] >= 3 - earlyCuts
      BY <1>4, <1>5 DEF IInv, AttemptsLeft
    <3>. QED
      BY <1>2, <1>4, <1>6, <1>8, <2>1, <3>1, <3>2 DEF AttemptsLeft, n
  <2>2. CASE g # fallback
    <3>1. ~Unsettled' /\ armed'[fallback] = armed[fallback] /\ fallback' = fallback
          /\ env'.left[fallback] = env.left[fallback]
      BY <1>2, <1>3, <1>4, <1>7, <1>8, <1>9, <2>2 DEF Unsettled
    <3>. QED
      BY <1>2, <1>5, <3>1 DEF IInv, AttemptsLeft
  <2>. QED
    BY <2>1, <2>2
<1>. QED
  BY <1>2, <1>5, <1>8, <1>10, <1>11, <1>12 DEF IInv

LEMMA StepInv ==
    ASSUME UsesRaucUboot, MaxEarlyCuts <= 2, IInv, [Next]_vars
    PROVE  IInv'
<1>1. CASE UNCHANGED vars
  BY <1>1 DEF vars, IInv, Types, TrialsFirst, AskedBefore, AttemptsLeft, Unsettled
<1>. QED
  BY <1>1, MarkGoodStep, TryNextStep, CommitStep, MarkBadStep, DownStep, BootStep DEF Next

-----------------------------------------------------------------------------
(* The theorems.  U-Boot gives every group three attempts: two that the    *)
(* power cuts short are survived.                                          *)

\* "Allow booting into the selected slot once.": with any number of groups, no group but
\* the fallback is ever booted more often than set_try_next, or mark-good of a group that
\* was tried, has asked for since the last commit.
THEOREM RaucAttemptsAllowed ==
    ASSUME UsesRaucUboot, MaxEarlyCuts <= 2
    PROVE  Spec => []AttemptsAllowed
<1>1. IInv => AttemptsAllowed
  <2>. SUFFICES ASSUME IInv, running = NoGroup, NEW a \in Attempts(env)
                PROVE  a.group = fallback \/ armed[a.group] > 0
    BY DEF AttemptsAllowed
  <2>1. ~Unsettled
    BY Constants DEF Unsettled, IInv, Types, NoGroup, Groups
  <2>2. /\ a.group \in Groups /\ env.left[a.group] \in 1 .. 3
        /\ a.group = fallback \/ env.left[a.group] <= armed[a.group]
    BY <2>1, AttemptIs
  <2>3. armed[a.group] \in NotAsked .. 3
    BY <2>2 DEF IInv, Types
  <2>. QED
    BY <2>2, <2>3 DEF NotAsked
<1>. QED
  BY <1>1, InitInv, StepInv, PTL DEF Spec

\* With no attempt pending get_default returns the group that was last committed or
\* marked good while it ran, and nothing else.
THEOREM RaucDefaultIsFallback ==
    ASSUME UsesRaucUboot, MaxEarlyCuts <= 2
    PROVE  Spec => []DefaultIsFallback
<1>1. IInv => DefaultIsFallback
  <2>. SUFFICES ASSUME IInv, settled, \A g \in Groups : armed[g] <= 0
                PROVE  Defaults(env) = {fallback}
    BY DEF DefaultIsFallback
  <2>1. /\ env \in [order : Seq(Groups), left : [Groups -> 0 .. 3]] /\ fallback \in Groups
        /\ earlyCuts \in Nat /\ earlyCuts <= 2 /\ env.left[fallback] \in 0 .. 3
        /\ armed \in [Groups -> NotAsked .. 3]
    BY Constants DEF IInv, Types
  <2>2. ~Unsettled /\ env.left[fallback] >= 1
    BY <2>1 DEF IInv, AttemptsLeft, Unsettled
  <2>3. RaucFirst(env) # {} /\ \A g, h \in RaucFirst(env) : g = h
    <3>1. \E i \in 1 .. Len(env.order) : env.order[i] = fallback
      BY <2>1 DEF IInv, Once
    <3>2. env.left[fallback] > 0
      BY <2>1, <2>2
    <3>. QED
      BY <2>1, <3>1, <3>2, FirstLeft
  <2>4. ASSUME NEW g \in RaucFirst(env) PROVE g = fallback
    <3>. DEFINE a == [group |-> g, env |-> [env EXCEPT !.left[g] = @ - 1]]
    <3>1. a \in Attempts(env) /\ a.group = g
      BY DEF UsesRaucUboot, RaucAttempts
    <3>2. a.group \in Groups /\ env.left[a.group] \in 1 .. 3
          /\ (a.group = fallback \/ env.left[a.group] <= armed[a.group])
      BY <2>2, <3>1, AttemptIs
    <3>3. g \in Groups /\ env.left[g] \in 1 .. 3 /\ (g = fallback \/ env.left[g] <= armed[g])
      BY <3>1, <3>2
    <3>4. armed[g] \in NotAsked .. 3 /\ armed[g] <= 0
      BY <2>1, <3>3
    <3>. QED
      BY <3>3, <3>4 DEF NotAsked
  <2>. QED
    BY <2>3, <2>4 DEF UsesRaucUboot, RaucDefaults
<1>. QED
  BY <1>1, InitInv, StepInv, PTL DEF Spec
=============================================================================
