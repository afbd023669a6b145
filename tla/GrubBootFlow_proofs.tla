------------------------- MODULE GrubBootFlow_proofs -------------------------
(***************************************************************************)
(* For any number of processes: the files of the native Grub boot flow     *)
(* implement the promise of the boot flow, a device boots wherever a       *)
(* commit was interrupted or lost power before its writes reached the      *)
(* disk, and commits that race but run to their ends leave get_default and *)
(* the bootloader in agreement.  At the end, the same device with the      *)
(* Mender-compatible flow.                                                 *)
(***************************************************************************)
EXTENDS MCGrubFlows, TLAPS

Committing(p) == pc[p] \in CommitPCs

\* The copies of the environment that process p has begun, and not finished, to replace.
Replaces(p, c) == copy[p] = c /\ pc[p] \in {"write", "digest", "sum", "rename"}

\* Commands run on a system that is up.
UpInv == \A p \in Procs : pc[p] # "idle" => running \in Groups

-----------------------------------------------------------------------------
(* Commits that do not race.                                               *)

AloneInv == \A p, q \in Procs : Committing(p) /\ Committing(q) => p = q

\* How far a commit has come, and what it has written by then.
ProgressInv ==
    \A p \in Procs :
        /\ pc[p] = "write" => handle[p] = "new"
        /\ pc[p] \in {"digest", "sum", "rename"} => new[copy[p]] = running
        /\ pc[p] = "rename" => digest[copy[p]] = running
        /\ Committing(p) /\ copy[p] = "primary" =>
               file["secondary"] = running /\ digest["secondary"] = running

\* Until its digest is touched the primary copy verifies.
PrimaryInv ==
    Verifies("primary") \/ \E p \in Procs : copy[p] = "primary" /\ pc[p] \in {"sum", "rename"}

\* If a copy is in sync then one that is in sync verifies.
InSync(c) == fileLeft[c] = {file[c]} /\ digestLeft[c] = {digest[c]}
SyncInv == \A d \in Copies : InSync(d) => \E c \in Copies : InSync(c) /\ Verifies(c)

\* When nobody commits, a copy verifies, unless a power failure has lost writes to both.
SomeVerifies == Verifies("primary") \/ Verifies("secondary")
SurvivesInv == (\A p \in Procs : ~Committing(p)) => SomeVerifies \/ Copies \subseteq lost

CommitInv ==
    ~raced =>
        /\ AloneInv /\ ProgressInv
        /\ interruptions = 0 => PrimaryInv /\ SyncInv
        /\ interruptions <= 1 => SurvivesInv

-----------------------------------------------------------------------------
(* Commits that race and run to their ends.                                *)

HandleInv == \A p \in Procs : pc[p] = "write" => handle[p] \in {"new", "file", "gone"}

\* Processes whose next step fills the file that copy c, or its successor, is.
Writes(p, c, h) == Replaces(p, c) /\ pc[p] = "write" /\ handle[p] = h

NewInv ==
    \A c \in Copies :
        /\ new[c] # NoFile => \E p \in Procs : Replaces(p, c)
        /\ new[c] \in {running, Partial, NoFile}
        /\ new[c] = Partial => \E p \in Procs : Writes(p, c, "new")

FileInv ==
    \A c \in Copies :
        /\ file[c] = Partial => \E p \in Procs : Writes(p, c, "file")
        /\ digest[c] = Partial => \E p \in Procs : Replaces(p, c) /\ pc[p] = "sum"
        /\ (\A p \in Procs : ~Replaces(p, c)) => file[c] = digest[c]

\* Who finds no new file has been overtaken by somebody who renamed it.
ReplacerInv ==
    \A p \in Procs : \A c \in Copies : Replaces(p, c) =>
        /\ new[c] = NoFile => file[c] \in {running, Partial}
        /\ pc[p] = "rename" => digest[c] \in {running, Partial}

RaceInv == HandleInv /\ NewInv /\ FileInv /\ ReplacerInv

\* What is on the disk may always be what the files hold.
LeftInv ==
    /\ \A c \in Copies : file[c] \in fileLeft[c] /\ digest[c] \in digestLeft[c]
    /\ flag \in flagLeft
    /\ lost # {} => running = NoGroup

IInv == TypeOK /\ LeftInv /\ UpInv /\ CommitInv /\ (interruptions = 0 => RaceInv)

-----------------------------------------------------------------------------

LEMMA InitInv == Init => IInv
<1>. SUFFICES ASSUME Init PROVE IInv
  OBVIOUS
<1>. USE Distinct, Bound DEF Init
<1>1. TypeOK
  <2>1. /\ file \in [Copies -> Groups \cup {Partial}]
        /\ digest \in [Copies -> Groups \cup {Partial}]
        /\ new \in [Copies -> Groups \cup {Partial, NoFile}]
        /\ fileLeft \in [Copies -> SUBSET (Groups \cup {Partial})]
        /\ digestLeft \in [Copies -> SUBSET (Groups \cup {Partial})]
    BY DEF Groups
  <2>2. /\ copy \in [Procs -> Copies]
        /\ pc \in [Procs -> {"idle", "truncate", "flag"} \cup CommitPCs]
        /\ handle \in [Procs -> {"none", "new", "file", "gone"}]
        /\ want \in [Procs -> {"true", "false"}]
    BY DEF Copies
  <2>3. flag \in Flags /\ flagLeft \subseteq Flags /\ running \in Groups \cup {NoGroup}
    BY DEF Flags
  <2>4. interruptions \in 0 .. MaxInterruptions /\ lost \subseteq Copies \cup {"flag"}
    OBVIOUS
  <2>5. raced \in BOOLEAN
    BY Zenon
  <2>. HIDE DEF Init
  <2>. QED
    BY <2>1, <2>2, <2>3, <2>4, <2>5, Zenon DEF TypeOK
<1>2. UpInv /\ LeftInv
  BY DEF UpInv, LeftInv
<1>3. CommitInv
  BY DEF CommitInv, AloneInv, ProgressInv, SurvivesInv, SomeVerifies, PrimaryInv, SyncInv, InSync,
         Committing, CommitPCs, Verifies, Groups, Copies
<1>4. RaceInv
  BY DEF RaceInv, HandleInv, NewInv, FileInv, ReplacerInv, Writes, Replaces, Copies
<1>. QED
  BY <1>1, <1>2, <1>3, <1>4 DEF IInv

-----------------------------------------------------------------------------
(* The page cache.                                                         *)

Holds ==
    /\ file \in [Copies -> Groups \cup {Partial}]
    /\ digest \in [Copies -> Groups \cup {Partial}]
    /\ flag \in Flags
LeftTypes ==
    /\ fileLeft \in [Copies -> SUBSET (Groups \cup {Partial})]
    /\ digestLeft \in [Copies -> SUBSET (Groups \cup {Partial})]
    /\ flagLeft \subseteq Flags
    /\ \A c \in Copies : file[c] \in fileLeft[c] /\ digest[c] \in digestLeft[c]
    /\ flag \in flagLeft

Same(c) == file'[c] = file[c] /\ digest'[c] = digest[c]

LEMMA Types == IInv => Holds /\ LeftTypes
BY DEF IInv, TypeOK, LeftInv, Holds, LeftTypes

\* A copy that is in sync after a write is as it was, and was in sync.
LEMMA CachedCopies ==
    ASSUME LeftTypes, Holds', Cached
    PROVE  LeftTypes' /\ \A c \in Copies : InSync(c)' <=> InSync(c) /\ Same(c)
<1>1. \A c \in Copies : /\ fileLeft'[c] = fileLeft[c] \cup {file'[c]}
                        /\ digestLeft'[c] = digestLeft[c] \cup {digest'[c]}
  BY DEF Cached
<1>2. LeftTypes'
  BY <1>1 DEF LeftTypes, Holds, Cached
<1>3. ASSUME NEW c \in Copies
      PROVE  InSync(c)' <=> InSync(c) /\ Same(c)
  <2>1. fileLeft'[c] = {file'[c]} <=> fileLeft[c] = {file[c]} /\ file'[c] = file[c]
    BY <1>1 DEF LeftTypes
  <2>2. digestLeft'[c] = {digest'[c]} <=> digestLeft[c] = {digest[c]} /\ digest'[c] = digest[c]
    BY <1>1 DEF LeftTypes
  <2>. QED
    BY <2>1, <2>2 DEF InSync, Same
<1>. QED
  BY <1>2, <1>3

LEMMA SyncedCopies ==
    ASSUME Holds', Synced
    PROVE  LeftTypes' /\ \A c \in Copies : InSync(c)'
BY DEF Synced, Holds, LeftTypes, InSync

\* Every step leaves the disk as it is, adds to what may be on it, or brings it up to date.
LEMMA LeftStep ==
    ASSUME IInv, Holds', DropGuard \/ UNCHANGED <<files, left>>
    PROVE  LeftTypes'
<1>1. CASE Cached
  BY <1>1, Types, CachedCopies
<1>2. CASE Synced
  BY <1>2, SyncedCopies
<1>3. CASE UNCHANGED <<files, left>>
  BY <1>3, Types DEF files, left, LeftTypes
<1>. QED
  BY <1>1, <1>2, <1>3 DEF DropGuard

BaseOK ==
    /\ Holds
    /\ new \in [Copies -> Groups \cup {Partial, NoFile}]
    /\ running \in Groups \cup {NoGroup}
    /\ pc \in [Procs -> {"idle", "truncate", "flag"} \cup CommitPCs]
    /\ copy \in [Procs -> Copies]
    /\ handle \in [Procs -> {"none", "new", "file", "gone"}]
    /\ want \in [Procs -> {"true", "false"}]
    /\ interruptions \in 0 .. MaxInterruptions
    /\ lost \subseteq Copies \cup {"flag"}
    /\ raced \in BOOLEAN

LEMMA TypeStep == IInv /\ [Next]_vars => TypeOK' /\ LeftInv' /\ UpInv'
<1>. SUFFICES ASSUME IInv, [Next]_vars PROVE TypeOK' /\ LeftInv' /\ UpInv'
  OBVIOUS
<1>0. SUFFICES BaseOK' /\ UpInv' /\ (DropGuard \/ UNCHANGED <<files, left>>) /\ (lost' # {} => running' = NoGroup)
  BY LeftStep DEF BaseOK, TypeOK, LeftInv, LeftTypes, Holds
<1>. USE Bound DEF IInv, TypeOK, LeftInv, BaseOK, Holds, UpInv, CommitPCs, Copies, Flags, files, left, history, DropGuard
<1>1. ASSUME NEW p \in Procs, CommitStep(p)
      PROVE  <1>0!1
  <2>0. lost = {}
    BY <1>1 DEF CommitStep, CommitStart, CreateNew, WriteNew, TruncateDigest, WriteDigest, RenameNew,
           RenameFails, Idle, Groups, NoGroup
  <2>1. CASE CommitStart(p)
    BY <2>0, <2>1 DEF CommitStart, Idle, Goto, Groups, NoGroup
  <2>2. CASE CreateNew(p)
    BY <2>0, <2>2 DEF CreateNew, Goto
  <2>3. CASE WriteNew(p)
    BY <2>0, <2>3 DEF WriteNew, Goto
  <2>4. CASE TruncateDigest(p) \/ WriteDigest(p)
    BY <2>0, <2>4 DEF TruncateDigest, WriteDigest, Goto
  <2>5. CASE RenameNew(p)
    <3>1. BaseOK' /\ UpInv' /\ lost' = {}
      BY <2>0, <2>5 DEF RenameNew, Renamed, Goto
    <3>. QED
      BY <2>5, <3>1 DEF RenameNew
  <2>6. CASE RenameFails(p)
    BY <2>0, <2>6 DEF RenameFails, Goto
  <2>. QED
    BY <1>1, <2>1, <2>2, <2>3, <2>4, <2>5, <2>6 DEF CommitStep
<1>2. ASSUME NEW p \in Procs, FlagStep(p)
      PROVE  <1>0!1
  <2>0. lost = {}
    BY <1>2 DEF FlagStep, SetTryNext, TruncateFlag, WriteFlag, Idle, Groups, NoGroup
  <2>. QED
    BY <1>2, <2>0 DEF FlagStep, SetTryNext, TruncateFlag, WriteFlag, Idle, Goto, Groups, NoGroup
<1>3. ASSUME NEW p \in Procs, Kill(p)
      PROVE  <1>0!1
  BY <1>3 DEF Kill, Interrupt, Goto
<1>4. CASE Writeback
  BY <1>4 DEF Writeback
<1>5. CASE Reboot
  BY <1>5 DEF Reboot, Down, Interrupt
<1>6. CASE PowerFails
  <2>1. lost' \subseteq Copies \cup {"flag"}
    BY <1>6 DEF PowerFails, Unsynced
  <2>. QED
    BY <1>6, <2>1 DEF PowerFails, Down, Interrupt
<1>7. CASE Boot
  BY <1>7 DEF Boot, BootDefault, Verifies, Groups, NoGroup
<1>8. CASE UNCHANGED vars
  BY <1>8 DEF vars
<1>. QED
  BY <1>1, <1>2, <1>3, <1>4, <1>5, <1>6, <1>7, <1>8 DEF Next

-----------------------------------------------------------------------------
(* Commits that do not race.                                               *)

\* While a commit that has not raced is not interrupted a copy verifies: the one that it
\* does not write.
LEMMA OtherVerifies ==
    ASSUME IInv, ~raced, interruptions = 0
    PROVE  /\ SomeVerifies
           /\ \A p \in Procs : Committing(p) =>
                Verifies(IF copy[p] = "primary" THEN "secondary" ELSE "primary")
<1>0. AloneInv /\ ProgressInv /\ PrimaryInv /\ UpInv
  BY DEF IInv, CommitInv
<1>1. ASSUME NEW p \in Procs, Committing(p)
      PROVE  Verifies(IF copy[p] = "primary" THEN "secondary" ELSE "primary")
  <2>1. running \in Groups
    BY <1>0, <1>1 DEF UpInv, Committing, CommitPCs
  <2>. QED
    BY <1>0, <1>1, <2>1 DEF AloneInv, ProgressInv, PrimaryInv, Committing, CommitPCs, Verifies
<1>2. ASSUME \A p \in Procs : ~Committing(p)
      PROVE  SomeVerifies
  BY <1>0, <1>2 DEF PrimaryInv, SomeVerifies, Committing, CommitPCs
<1>. QED
  BY <1>1, <1>2 DEF SomeVerifies

\* A write to one copy while the other one verifies.
LEMMA SyncStep ==
    ASSUME IInv, SyncInv, Holds', DropGuard, NEW c \in Copies, NEW d \in Copies, c # d,
           Verifies(d), Same(d)
    PROVE  SyncInv'
<1>1. \A b \in Copies : b = c \/ b = d
  BY DEF Copies
<1>2. Verifies(d)'
  BY DEF Verifies, Same
<1>3. CASE Synced
  BY <1>1, <1>2, <1>3, SyncedCopies DEF SyncInv
<1>4. CASE Cached
  <2>1. ASSUME NEW a \in Copies, InSync(a)'
        PROVE  \E b \in Copies : InSync(b)' /\ Verifies(b)'
    <3>1. \A b \in Copies : InSync(b)' <=> InSync(b) /\ Same(b)
      BY <1>4, CachedCopies, Types
    <3>2. CASE InSync(d)
      BY <1>2, <3>1, <3>2
    <3>3. CASE ~InSync(d)
      <4>1. InSync(c) /\ Same(c)
        BY <1>1, <2>1, <3>1, <3>3
      <4>2. Verifies(c)
        BY <1>1, <3>3, <4>1 DEF SyncInv
      <4>3. Verifies(c)'
        BY <4>1, <4>2 DEF Verifies, Same
      <4>. QED
        BY <2>1, <3>1, <4>1, <4>3
    <3>. QED
      BY <3>2, <3>3
  <2>. QED
    BY <2>1 DEF SyncInv
<1>. QED
  BY <1>3, <1>4 DEF DropGuard

\* Steps that write no copy.
LEMMA SyncKept ==
    ASSUME IInv, ~raced, interruptions = 0, SyncInv, Holds', \A c \in Copies : Same(c),
           DropGuard \/ UNCHANGED <<files, left>>
    PROVE  SyncInv'
<1>1. \A c \in Copies : Verifies(c) => Verifies(c)'
  BY DEF Verifies, Same
<1>2. \E c \in Copies : Verifies(c)
  BY OtherVerifies DEF SomeVerifies, Copies
<1>3. CASE Synced
  BY <1>1, <1>2, <1>3, SyncedCopies DEF SyncInv
<1>4. CASE Cached
  BY <1>1, <1>4, CachedCopies, Types DEF SyncInv
<1>5. CASE UNCHANGED <<files, left>>
  BY <1>1, <1>5 DEF SyncInv, InSync, files, left
<1>. QED
  BY <1>3, <1>4, <1>5 DEF DropGuard

\* What another process does leaves a commit that is alone as it is.
LEMMA CommitStepKeeps ==
    ASSUME IInv, NEW p \in Procs, CommitStep(p), Holds'
    PROVE  CommitInv'
<1>. SUFFICES ASSUME ~raced' PROVE CommitInv'
  BY DEF CommitInv
<1>0. ~raced /\ interruptions' = interruptions
  <2>1. CASE CommitStart(p)
    BY <2>1 DEF CommitStart, IInv, TypeOK
  <2>2. CASE ~CommitStart(p)
    <3>1. UNCHANGED history
      BY <2>2 DEF CommitStep, CreateNew, WriteNew, TruncateDigest, WriteDigest, RenameNew, RenameFails
    <3>. QED
      BY <3>1 DEF history
  <2>. QED
    BY <2>1, <2>2
<1>9. interruptions = 0 => SyncInv'
  <2>. SUFFICES ASSUME interruptions = 0 PROVE SyncInv'
    OBVIOUS
  <2>0. SyncInv /\ copy[p] \in Copies /\ Holds /\ AloneInv
    BY <1>0, Types DEF IInv, CommitInv, TypeOK
  <2>1. CASE CommitStart(p) \/ CreateNew(p) \/ RenameFails(p)
    <3>1. (\A c \in Copies : Same(c)) /\ (DropGuard \/ UNCHANGED <<files, left>>)
      BY <2>1 DEF CommitStart, CreateNew, RenameFails, Same, files
    <3>. QED
      BY <1>0, <2>0, <3>1, SyncKept
  <2>2. CASE WriteNew(p) \/ TruncateDigest(p) \/ WriteDigest(p) \/ RenameNew(p)
    <3>1. DropGuard /\ \A c \in Copies : c # copy[p] => Same(c)
      BY <2>0, <2>2 DEF WriteNew, TruncateDigest, WriteDigest, RenameNew, Same, Holds, DropGuard
    <3>2. Committing(p)
      BY <2>2 DEF WriteNew, TruncateDigest, WriteDigest, RenameNew, Committing, CommitPCs
    <3>. DEFINE d == IF copy[p] = "primary" THEN "secondary" ELSE "primary"
    <3>3. Verifies(d) /\ d \in Copies /\ d # copy[p]
      BY <1>0, <2>0, <3>2, OtherVerifies DEF Copies
    <3>. HIDE DEF d
    <3>. QED
      BY <2>0, <3>1, <3>3, SyncStep
  <2>. QED
    BY <2>1, <2>2 DEF CommitStep
<1>1. running \in Groups /\ lost = {} /\ lost' = {}
  <2>1. lost' = lost /\ (pc[p] # "idle" \/ running # NoGroup)
    BY DEF CommitStep, CommitStart, CreateNew, WriteNew, TruncateDigest, WriteDigest, RenameNew,
           RenameFails, Idle, history
  <2>2. running \in Groups
    BY <2>1 DEF IInv, TypeOK, UpInv
  <2>. QED
    BY <2>1, <2>2 DEF IInv, LeftInv, Groups, NoGroup
<1>. USE DEF IInv, TypeOK, LeftInv, CommitInv, AloneInv, ProgressInv, PrimaryInv, SurvivesInv, SomeVerifies,
            Committing, CommitPCs, Verifies, Copies, files, left, history
<1>2. CASE CommitStart(p)
  <2>1. \A q \in Procs : ~Committing(q) /\ (Committing(q)' => q = p)
    BY <1>2 DEF CommitStart, Goto
  <2>2. pc'[p] = "create" /\ copy'[p] = "secondary"
    BY <1>2 DEF CommitStart, Goto
  <2>3. AloneInv' /\ ProgressInv' /\ SurvivesInv'
    BY <2>1, <2>2
  <2>4. PrimaryInv => PrimaryInv'
    BY <1>2, <2>1 DEF CommitStart
  <2>. QED
    BY <1>0, <1>2, <1>9, <2>3, <2>4 DEF CommitStart
<1>3. CASE CreateNew(p)
  BY <1>0, <1>1, <1>3, <1>9 DEF CreateNew, Goto
<1>4. CASE WriteNew(p)
  BY <1>0, <1>1, <1>4, <1>9 DEF WriteNew, Goto
<1>5. CASE TruncateDigest(p)
  BY <1>0, <1>1, <1>5, <1>9 DEF TruncateDigest, Goto
<1>6. CASE WriteDigest(p)
  BY <1>0, <1>1, <1>6, <1>9 DEF WriteDigest, Goto
<1>7. CASE RenameNew(p)
  BY <1>0, <1>1, <1>7, <1>9 DEF RenameNew, Renamed, Goto
<1>8. CASE RenameFails(p)
  BY <1>0, <1>1, <1>8, <1>9, Distinct DEF RenameFails, Goto, Groups
<1>. QED
  BY <1>2, <1>3, <1>4, <1>5, <1>6, <1>7, <1>8 DEF CommitStep

\* All commands end, with or without power.
LEMMA CommitsEnd ==
    ASSUME IInv, BaseOK', UNCHANGED raced, \A p \in Procs : ~Committing(p)', Synced,
           \/ interruptions' = interruptions /\ (\A p \in Procs : ~Committing(p)) /\ (\A c \in Copies : Same(c))
           \/ interruptions' = interruptions + 1 /\ \A c \in Copies : InSync(c) => Same(c),
           (\A c \in Copies : Same(c)) \/ {c \in Copies : ~InSync(c)} \subseteq lost',
           lost = {}
    PROVE  CommitInv'
<1>. SUFFICES ASSUME ~raced' PROVE CommitInv'
  BY DEF CommitInv
<1>0. /\ ~raced /\ interruptions \in Nat /\ Holds'
      /\ \A c \in Copies : Same(c) => (Verifies(c) <=> Verifies(c)')
  BY Bound DEF IInv, TypeOK, BaseOK, Verifies, Same
<1>1. AloneInv' /\ ProgressInv'
  <2>1. \A p \in Procs : pc'[p] \notin CommitPCs
    BY DEF Committing
  <2>. QED
    BY <2>1 DEF AloneInv, ProgressInv, Committing, CommitPCs
<1>2. interruptions' = 0 => PrimaryInv' /\ SyncInv'
  <2>. SUFFICES ASSUME interruptions' = 0 PROVE PrimaryInv' /\ SyncInv'
    OBVIOUS
  <2>1. interruptions = 0 /\ (\A p \in Procs : ~Committing(p)) /\ \A c \in Copies : Same(c)
    BY <1>0
  <2>2. Verifies("primary")
    BY <1>0, <2>1 DEF IInv, CommitInv, PrimaryInv, Committing, CommitPCs
  <2>3. Verifies("primary")'
    BY <1>0, <2>1, <2>2 DEF Copies
  <2>. QED
    BY <1>0, <2>3, SyncedCopies DEF PrimaryInv, SyncInv, Copies
<1>3. interruptions' <= 1 => SurvivesInv'
  <2>. SUFFICES ASSUME interruptions' <= 1 PROVE SomeVerifies' \/ Copies \subseteq lost'
    BY DEF SurvivesInv
  <2>1. CASE \A c \in Copies : Same(c)
    <3>1. SomeVerifies
      BY <1>0, OtherVerifies DEF IInv, CommitInv, SurvivesInv, Copies
    <3>. QED
      BY <1>0, <2>1, <3>1 DEF SomeVerifies, Copies
  <2>2. CASE /\ interruptions' = interruptions + 1 /\ \A c \in Copies : InSync(c) => Same(c)
             /\ {c \in Copies : ~InSync(c)} \subseteq lost'
    <3>1. interruptions = 0 /\ SyncInv
      BY <1>0, <2>2 DEF IInv, CommitInv
    <3>2. CASE \E c \in Copies : InSync(c)
      <4>1. PICK c \in Copies : InSync(c) /\ Verifies(c)
        BY <3>1, <3>2 DEF SyncInv
      <4>2. Verifies(c)'
        BY <1>0, <2>2, <4>1
      <4>. QED
        BY <4>2 DEF SomeVerifies, Copies
    <3>3. CASE \A c \in Copies : ~InSync(c)
      BY <2>2, <3>3
    <3>. QED
      BY <3>2, <3>3
  <2>. QED
    BY <2>1, <2>2
<1>. QED
  BY <1>1, <1>2, <1>3 DEF CommitInv

LEMMA CommitInvStep ==
    ASSUME IInv, [Next]_vars, BaseOK'
    PROVE  CommitInv'
<1>0. Holds'
  BY DEF BaseOK
<1>1. ASSUME NEW p \in Procs, CommitStep(p)
      PROVE  CommitInv'
  BY <1>0, <1>1, CommitStepKeeps
\* Steps that leave the commits and what they have written alone.
<1>2. ASSUME UNCHANGED <<file, digest, new, copy, handle, interruptions, raced>>,
             DropGuard \/ UNCHANGED <<files, left>>,
             \/ running' = running /\ lost' = lost /\ \A p \in Procs : Committing(p) => pc'[p] = pc[p]
             \/ SomeVerifies /\ \A p \in Procs : ~Committing(p),
             \A p \in Procs : Committing(p)' => Committing(p)
      PROVE  CommitInv'
  <2>. SUFFICES ASSUME ~raced' PROVE CommitInv'
    BY DEF CommitInv
  <2>1. AloneInv /\ ProgressInv
    BY <1>2 DEF IInv, CommitInv
  <2>2. AloneInv' /\ ProgressInv'
    BY <1>2, <2>1 DEF AloneInv, ProgressInv, Committing, CommitPCs
  <2>3. interruptions = 0 => PrimaryInv'
    BY <1>2 DEF IInv, CommitInv, PrimaryInv, Verifies, Committing, CommitPCs
  <2>4. interruptions = 0 => SyncInv'
    <3>1. \A c \in Copies : Same(c)
      BY <1>2 DEF Same
    <3>. QED
      BY <1>0, <1>2, <3>1, SyncKept DEF IInv, CommitInv
  <2>5. interruptions <= 1 => SurvivesInv'
    <3>1. SomeVerifies' <=> SomeVerifies
      BY <1>2 DEF SomeVerifies, Verifies
    <3>2. (\A p \in Procs : ~Committing(p)') => \A p \in Procs : ~Committing(p)
      BY <1>2 DEF Committing
    <3>. QED
      BY <1>2, <3>1, <3>2 DEF IInv, CommitInv, SurvivesInv
  <2>. QED
    BY <1>2, <2>2, <2>3, <2>4, <2>5 DEF CommitInv
<1>3. ASSUME NEW p \in Procs, FlagStep(p)
      PROVE  CommitInv'
  BY <1>2, <1>3 DEF FlagStep, SetTryNext, TruncateFlag, WriteFlag, Idle, Goto, Committing, CommitPCs,
        IInv, TypeOK, DropGuard, files, history
<1>4. ASSUME NEW p \in Procs, Kill(p)
      PROVE  CommitInv'
  <2>0. lost = {} /\ UNCHANGED <<files, left, new, running, copy, lost, raced>>
    BY <1>4 DEF Kill, IInv, LeftInv, UpInv, Groups, NoGroup
  <2>1. CASE Committing(p)
    <3>. SUFFICES ASSUME ~raced' PROVE CommitInv'
      BY DEF CommitInv
    <3>1. interruptions' = interruptions + 1 /\ interruptions \in Nat /\ ~raced
      BY <1>4, <2>0, <2>1, Bound DEF Kill, Interrupt, Committing, IInv, TypeOK
    <3>2. \A q \in Procs : ~Committing(q)'
      BY <1>4, <2>1, <3>1 DEF Kill, Goto, Committing, CommitPCs, IInv, TypeOK, CommitInv, AloneInv
    <3>3. AloneInv' /\ ProgressInv'
      BY <3>2 DEF AloneInv, ProgressInv, Committing, CommitPCs
    <3>4. interruptions' <= 1 => SomeVerifies
      BY <3>1, OtherVerifies
    <3>5. interruptions' <= 1 => SurvivesInv'
      BY <2>0, <3>4 DEF SurvivesInv, SomeVerifies, Verifies, files
    <3>. QED
      BY <3>1, <3>3, <3>5 DEF CommitInv
  <2>2. CASE ~Committing(p)
    <3>. SUFFICES ASSUME ~raced' PROVE CommitInv'
      BY DEF CommitInv
    <3>1. /\ UNCHANGED <<file, digest, new, copy, interruptions, raced, running, lost, files, left>>
          /\ \A q \in Procs : (Committing(q)' <=> Committing(q)) /\ (Committing(q) => pc'[q] = pc[q] /\ handle'[q] = handle[q])
      BY <1>4, <2>0, <2>2 DEF Kill, Interrupt, Goto, Committing, CommitPCs, IInv, TypeOK, files
    <3>2. AloneInv' /\ ProgressInv'
      BY <3>1 DEF IInv, CommitInv, AloneInv, ProgressInv, Committing, CommitPCs
    <3>3. interruptions = 0 => PrimaryInv'
      BY <3>1 DEF IInv, CommitInv, PrimaryInv, Verifies, Committing, CommitPCs
    <3>4. interruptions = 0 => SyncInv'
      BY <3>1 DEF IInv, CommitInv, SyncInv, InSync, Verifies, left
    <3>5. interruptions <= 1 => SurvivesInv'
      BY <3>1 DEF IInv, CommitInv, SurvivesInv, SomeVerifies, Verifies
    <3>. QED
      BY <3>1, <3>2, <3>3, <3>4, <3>5 DEF CommitInv
  <2>. QED
    BY <2>1, <2>2
<1>5. CASE Writeback
  BY <1>2, <1>5 DEF Writeback, DropGuard, files, history, Committing
<1>6. CASE Reboot \/ PowerFails
  <2>1. /\ lost = {} /\ Synced /\ raced' = raced /\ \A p \in Procs : ~Committing(p)'
    BY <1>6 DEF Reboot, PowerFails, Down, IInv, LeftInv, Committing, CommitPCs
  <2>2. CASE Reboot
    <3>1. \A c \in Copies : Same(c)
      BY <2>2 DEF Reboot, files, Same
    <3>2. \/ interruptions' = interruptions /\ \A p \in Procs : ~Committing(p)
          \/ interruptions' = interruptions + 1
      BY <2>2 DEF Reboot, Interrupt, Committing
    <3>. QED
      BY <2>1, <3>1, <3>2, CommitsEnd
  <2>3. CASE PowerFails
    <3>1. /\ lost' = Unsynced
          /\ \A c \in Copies : file'[c] \in fileLeft[c] /\ digest'[c] \in digestLeft[c]
      BY <2>3 DEF PowerFails
    <3>2. \A c \in Copies : InSync(c) => Same(c)
      BY <3>1 DEF InSync, Same
    <3>3. \/ interruptions' = interruptions /\ (\A p \in Procs : ~Committing(p)) /\ \A c \in Copies : InSync(c)
          \/ interruptions' = interruptions + 1
      <4>1. Copies \cap Unsynced = {} => \A c \in Copies : InSync(c)
        BY DEF Unsynced, InSync
      <4>. QED
        BY <2>3, <4>1 DEF PowerFails, Interrupt, Committing
    <3>4. {c \in Copies : ~InSync(c)} \subseteq lost'
      BY <3>1 DEF Unsynced, InSync
    <3>. QED
      BY <2>1, <3>2, <3>3, <3>4, CommitsEnd
  <2>. QED
    BY <1>6, <2>2, <2>3
<1>7. CASE Boot
  <2>1. \A p \in Procs : ~Committing(p)
    BY <1>7 DEF Boot, IInv, UpInv, Committing, CommitPCs, Groups, NoGroup
  <2>2. SomeVerifies
    BY <1>7 DEF Boot, BootDefault, SomeVerifies
  <2>. QED
    BY <1>2, <1>7, <2>1, <2>2 DEF Boot, DropGuard, Committing
<1>8. CASE UNCHANGED vars
  BY <1>2, <1>8 DEF vars, files, left, history, Committing
<1>. QED
  BY <1>1, <1>3, <1>4, <1>5, <1>6, <1>7, <1>8 DEF Next

-----------------------------------------------------------------------------
(* Commits that race.  While one runs the group they write is the same.    *)

LEMMA RaceStep ==
    ASSUME IInv, interruptions = 0, NEW p \in Procs, CommitStep(p)
    PROVE  RaceInv'
<1>. USE Distinct DEF IInv, TypeOK, RaceInv, HandleInv, NewInv, FileInv,
    ReplacerInv, Writes, Replaces, CommitPCs, Copies, files
<1>1. running \in Groups
  BY DEF CommitStep, CommitStart, CreateNew, WriteNew, TruncateDigest, WriteDigest, RenameNew,
         RenameFails, UpInv, Idle, Groups, NoGroup
<1>2. CASE CommitStart(p)
  BY <1>1, <1>2 DEF CommitStart, Idle, Goto
<1>3. CASE CreateNew(p)
  BY <1>1, <1>3 DEF CreateNew, Goto
<1>4. CASE WriteNew(p)
  <2>1. /\ \A q \in Procs : \A c \in Copies : Replaces(q, c)' <=> Replaces(q, c)
        /\ \A q \in Procs \ {p} : \A c \in Copies, h \in {"new", "file"} :
               Writes(q, c, h) => Writes(q, c, h)'
        /\ HandleInv'
    BY <1>4 DEF WriteNew, Goto
  <2>2. NewInv'
    BY <1>1, <1>4, <2>1 DEF WriteNew, Groups
  <2>3. FileInv'
    <3>1. ASSUME NEW c \in Copies, file'[c] = Partial
          PROVE  \E q \in Procs : Writes(q, c, "file")'
      BY <1>1, <1>4, <2>1, <3>1 DEF WriteNew, Groups
    <3>2. ASSUME NEW c \in Copies, digest'[c] = Partial
          PROVE  \E q \in Procs : Replaces(q, c)' /\ pc'[q] = "sum"
      BY <1>4, <2>1, <3>2 DEF WriteNew, Goto
    <3>3. ASSUME NEW c \in Copies, \A q \in Procs : ~Replaces(q, c)'
          PROVE  file'[c] = digest'[c]
      BY <1>4, <2>1, <3>3 DEF WriteNew
    <3>. QED
      BY <3>1, <3>2, <3>3
  <2>4. ReplacerInv'
    BY <1>1, <1>4, <2>1 DEF WriteNew, Goto, Groups
  <2>. QED
    BY <2>1, <2>2, <2>3, <2>4
<1>5. CASE TruncateDigest(p)
  BY <1>1, <1>5 DEF TruncateDigest, Goto
<1>6. CASE WriteDigest(p)
  <2>1. /\ \A q \in Procs : \A c \in Copies : Replaces(q, c)' <=> Replaces(q, c)
        /\ \A q \in Procs : \A c \in Copies, h \in {"new", "file"} :
               Writes(q, c, h) => Writes(q, c, h)'
        /\ HandleInv'
    BY <1>6 DEF WriteDigest, Goto
  <2>2. NewInv'
    BY <1>6, <2>1 DEF WriteDigest
  <2>3. FileInv'
    BY <1>1, <1>6, <2>1 DEF WriteDigest, Goto, Groups
  <2>4. ReplacerInv'
    BY <1>1, <1>6, <2>1 DEF WriteDigest, Goto
  <2>. QED
    BY <2>1, <2>2, <2>3, <2>4
<1>7. CASE RenameNew(p)
  BY <1>1, <1>7 DEF RenameNew, Renamed, Goto
<1>8. CASE RenameFails(p)
  BY <1>1, <1>8 DEF RenameFails, Goto
<1>. QED
  BY <1>2, <1>3, <1>4, <1>5, <1>6, <1>7, <1>8 DEF CommitStep

\* Before the first interruption nothing is lost.
LEMMA RaceInvStep ==
    ASSUME IInv, [Next]_vars, BaseOK', interruptions' = 0
    PROVE  RaceInv'
<1>1. interruptions = 0 /\ RaceInv
  <2>1. interruptions \in Nat
    BY Bound DEF IInv, TypeOK
  <2>2. interruptions' = interruptions \/ interruptions' = interruptions + 1
    <3>1. ASSUME NEW p \in Procs, CommitStep(p) \/ FlagStep(p)
          PROVE  interruptions' = interruptions
      BY <3>1 DEF CommitStep, CommitStart, CreateNew, WriteNew, TruncateDigest, WriteDigest,
         RenameNew, RenameFails, FlagStep, SetTryNext, TruncateFlag, WriteFlag, history
    <3>2. ASSUME NEW p \in Procs, Kill(p)
          PROVE  <2>2
      BY <3>2 DEF Kill, Interrupt
    <3>3. CASE Reboot \/ PowerFails
      BY <3>3 DEF Reboot, PowerFails, Interrupt
    <3>4. CASE Writeback \/ Boot \/ UNCHANGED vars
      BY <3>4 DEF vars, history, Writeback, Boot
    <3>. QED
      BY <3>1, <3>2, <3>3, <3>4 DEF Next
  <2>. QED
    BY <2>1, <2>2 DEF IInv
<1>2. ASSUME NEW p \in Procs, CommitStep(p)
      PROVE  RaceInv'
  BY <1>1, <1>2, RaceStep
<1>. USE DEF RaceInv, HandleInv, NewInv, FileInv, ReplacerInv, Writes, Replaces
<1>3. ASSUME NEW p \in Procs, FlagStep(p)
      PROVE  RaceInv'
  BY <1>1, <1>3 DEF IInv, TypeOK, FlagStep, SetTryNext, TruncateFlag, WriteFlag, Idle, Goto, files, history
<1>4. ASSUME NEW p \in Procs, Kill(p)
      PROVE  RaceInv'
  <2>1. pc[p] \notin CommitPCs
    BY <1>1, <1>4 DEF Kill, Interrupt
  <2>. QED
    BY <1>1, <1>4, <2>1 DEF IInv, TypeOK, Kill, Goto, CommitPCs, files
\* When power fails or the device reboots nobody commits and no copy changes.
<1>5. CASE Reboot \/ PowerFails
  <2>1. \A p \in Procs : pc[p] \notin CommitPCs
    BY <1>1, <1>5 DEF Reboot, PowerFails, Interrupt
  <2>2. new' = new /\ copy' = copy /\ \A p \in Procs : pc'[p] = "idle"
    BY <1>5 DEF Reboot, PowerFails, Down
  <2>3. \A c \in Copies : Same(c)
    <3>1. CASE Reboot
      BY <3>1 DEF Reboot, files, Same
    <3>2. CASE PowerFails
      <4>1. Copies \cap Unsynced = {}
        BY <1>1, <3>2 DEF PowerFails, Interrupt
      <4>2. \A c \in Copies : file'[c] \in fileLeft[c] /\ digest'[c] \in digestLeft[c]
        BY <3>2 DEF PowerFails
      <4>. QED
        BY <4>1, <4>2 DEF Unsynced, Same
    <3>. QED
      BY <1>5, <3>1, <3>2
  <2>4. NewInv
    BY <1>1
  <2>5. \A c \in Copies : new[c] = NoFile /\ file[c] # Partial /\ digest[c] # Partial /\ file[c] = digest[c]
    BY <1>1, <2>1, <2>4 DEF CommitPCs
  <2>6. \A c \in Copies : /\ new'[c] = NoFile /\ file'[c] # Partial /\ digest'[c] # Partial
                          /\ file'[c] = digest'[c]
    BY <2>2, <2>3, <2>5 DEF Same
  <2>. QED
    BY <2>2, <2>6, Distinct
<1>6. CASE Boot
  <2>1. \A p \in Procs : pc[p] = "idle"
    BY <1>6 DEF Boot, IInv, UpInv, Groups, NoGroup
  <2>. QED
    BY <1>1, <1>6, <2>1 DEF Boot
<1>7. CASE Writeback \/ UNCHANGED vars
  <2>1. UNCHANGED <<file, digest, new, running, pc, copy, handle>>
    BY <1>7 DEF Writeback, vars, files
  <2>. QED
    BY <1>1, <2>1
<1>. QED
  BY <1>2, <1>3, <1>4, <1>5, <1>6, <1>7 DEF Next

\* The invariant holds in every reachable state.
LEMMA Invariance == Spec => []IInv
<1>1. IInv /\ [Next]_vars => IInv'
  <2>. SUFFICES ASSUME IInv, [Next]_vars PROVE IInv'
    OBVIOUS
  <2>1. TypeOK' /\ LeftInv' /\ UpInv'
    BY TypeStep
  <2>2. BaseOK'
    BY <2>1 DEF TypeOK, BaseOK, Holds
  <2>. QED
    BY <2>1, <2>2, CommitInvStep, RaceInvStep DEF IInv
<1>. QED
  BY <1>1, InitInv, PTL DEF Spec

-----------------------------------------------------------------------------
(* The theorems.                                                           *)

\* Wherever one commit is killed or loses power or its writes, and however many commits
\* follow, a copy of the environment verifies when the device is down, unless a power
\* failure has lost writes to both copies.
THEOREM AlwaysBoots == Spec => []DeviceBoots
<1>1. IInv => DeviceBoots
  <2>. SUFFICES ASSUME IInv, ~raced, interruptions <= 1, ~(Copies \subseteq lost), running = NoGroup
                PROVE  BootDefault # NoGroup
    BY DEF DeviceBoots
  <2>0. running \notin Groups
    BY DEF Groups, NoGroup
  <2>1. \A p \in Procs : ~Committing(p)
    BY <2>0, Zenon DEF IInv, UpInv, Committing, CommitPCs
  <2>2. Verifies("primary") \/ Verifies("secondary")
    BY <2>1 DEF IInv, CommitInv, SurvivesInv, SomeVerifies
  <2>. QED
    BY <2>2 DEF BootDefault, Verifies, Groups, NoGroup
<1>. QED
  BY <1>1, Invariance, PTL

\* However commits race, when all have run to their ends get_default returns the group
\* that the bootloader boots.
THEOREM DefaultAlwaysAgrees == Spec => []DefaultAgrees
<1>1. IInv => DefaultAgrees
  <2>. SUFFICES ASSUME IInv, interruptions = 0, \A p \in Procs : pc[p] \notin CommitPCs
                PROVE  GetDefault = BootDefault
    BY DEF DefaultAgrees
  <2>1. \A p \in Procs : ~Replaces(p, "primary")
    BY DEF Replaces, CommitPCs
  <2>2. file["primary"] # Partial /\ file["primary"] = digest["primary"]
    BY <2>1 DEF IInv, RaceInv, FileInv, Writes, Copies
  <2>3. file["primary"] \in Groups
    BY <2>2 DEF IInv, TypeOK, Copies
  <2>. QED
    BY <2>2, <2>3 DEF GetDefault, BootDefault, Verifies
<1>. QED
  BY <1>1, Invariance, PTL

\* A step of a commit that is alone leaves the group that the bootloader would boot, or
\* replaces it by the running one.
LEMMA OneChange ==
    ASSUME IInv, ~raced', interruptions = 0, NEW p \in Procs, CommitStep(p)
    PROVE  BootDefault' \in {BootDefault, running}
<1>. USE DEF BootDefault
<1>1. ~raced
  <2>1. CASE CommitStart(p)
    BY <2>1 DEF CommitStart, IInv, TypeOK
  <2>2. CASE ~CommitStart(p)
    <3>1. UNCHANGED history
      BY <2>2 DEF CommitStep, CreateNew, WriteNew, TruncateDigest, WriteDigest, RenameNew, RenameFails
    <3>. QED
      BY <3>1 DEF history
  <2>. QED
    BY <2>1, <2>2
<1>2. AloneInv /\ ProgressInv /\ PrimaryInv
  BY <1>1 DEF IInv, CommitInv
<1>3. CASE CommitStart(p) \/ CreateNew(p) \/ RenameFails(p)
  BY <1>3 DEF CommitStart, CreateNew, RenameFails, Verifies, files
<1>4. CASE WriteNew(p)
  BY <1>2, <1>4 DEF WriteNew, ProgressInv, Verifies
<1>5. ASSUME TruncateDigest(p) \/ WriteDigest(p) \/ RenameNew(p), copy[p] = "secondary"
      PROVE  BootDefault' = BootDefault
  <2>1. Verifies("primary")
    BY <1>2, <1>5 DEF PrimaryInv, AloneInv, Committing, CommitPCs, TruncateDigest, WriteDigest,
           RenameNew
  <2>2. file'["primary"] = file["primary"] /\ digest'["primary"] = digest["primary"]
    BY <1>5 DEF IInv, TypeOK, Copies, TruncateDigest, WriteDigest, RenameNew
  <2>. QED
    BY <2>1, <2>2 DEF Verifies
<1>6. ASSUME TruncateDigest(p) \/ WriteDigest(p) \/ RenameNew(p), copy[p] = "primary"
      PROVE  BootDefault' = running
  <2>1. running \in Groups /\ file["secondary"] = running /\ digest["secondary"] = running
    BY <1>2, <1>6 DEF IInv, UpInv, ProgressInv, Committing, CommitPCs, TruncateDigest,
           WriteDigest, RenameNew
  <2>2. file'["secondary"] = running /\ digest'["secondary"] = running
    BY <1>6, <2>1 DEF IInv, TypeOK, Copies, TruncateDigest, WriteDigest, RenameNew
  <2>3. digest'["primary"] = Partial \/ digest'["primary"] = running
    BY <1>2, <1>6 DEF IInv, TypeOK, Copies, TruncateDigest, WriteDigest, RenameNew, ProgressInv
  <2>. QED
    BY <2>1, <2>2, <2>3, Distinct DEF Verifies, Groups
<1>7. copy[p] \in Copies
  BY DEF IInv, TypeOK
<1>. QED
  BY <1>3, <1>4, <1>5, <1>6, <1>7 DEF CommitStep, Copies

\* A power failure that finds everything on the disk changes nothing.
LEMMA NothingLost ==
    ASSUME IInv, PowerFails, lost' = {}
    PROVE  UNCHANGED files
<1>1. Unsynced = {}
  BY DEF PowerFails
<1>2. flag' = flag
  BY <1>1 DEF PowerFails, Unsynced
<1>3. \A c \in Copies : file'[c] = file[c] /\ digest'[c] = digest[c]
  <2>1. \A c \in Copies : file'[c] \in fileLeft[c] /\ digest'[c] \in digestLeft[c]
    BY DEF PowerFails
  <2>. QED
    BY <1>1, <2>1 DEF Unsynced
<1>4. /\ file \in [Copies -> Groups \cup {Partial}] /\ file' \in [Copies -> Groups \cup {Partial}]
      /\ digest \in [Copies -> Groups \cup {Partial}] /\ digest' \in [Copies -> Groups \cup {Partial}]
  BY DEF IInv, TypeOK, PowerFails
<1>. QED
  BY <1>2, <1>3, <1>4 DEF files

\* The files implement the promise of the boot flow, with any number of processes that
\* set and clear the flag while one commits.
THEOREM CommitsAreAtomic == Spec => CommitIsAtomic
<1>1. Init => Promise!Init
  BY DEF Init, Promise!Init, BootDefault, Verifies, Copies, Groups, NoGroup, Promise!NoGroup
<1>2. ASSUME IInv, Next, ~raced', interruptions = 0, lost' = {}
      PROVE  Promise!Next \/ UNCHANGED <<BootDefault, flag = "true", running>>
  <2>1. ASSUME NEW p \in Procs, CommitStep(p)
        PROVE  Promise!Commit \/ UNCHANGED <<BootDefault, flag = "true", running>>
    <3>1. flag' = flag /\ running' = running /\ (running # NoGroup \/ pc[p] # "idle")
      BY <2>1 DEF files, CommitStep, CommitStart, CreateNew, WriteNew, TruncateDigest, WriteDigest,
             RenameNew, RenameFails, Idle
    <3>2. running # NoGroup
      BY <1>2, <3>1 DEF IInv, UpInv, Groups, NoGroup
    <3>3. BootDefault' \in {BootDefault, running}
      BY <1>2, <2>1, OneChange
    <3>. QED
      BY <3>1, <3>2, <3>3 DEF Promise!Commit, NoGroup, Promise!NoGroup
  <2>2. ASSUME UNCHANGED <<file, digest>>
        PROVE  BootDefault' = BootDefault
    BY <2>2 DEF BootDefault, Verifies
  <2>3. ASSUME NEW p \in Procs, FlagStep(p)
        PROVE  (\E b \in BOOLEAN : Promise!SetTryNext(b))
                  \/ UNCHANGED <<BootDefault, flag = "true", running>>
    <3>1. running' = running /\ UNCHANGED <<file, digest>>
      BY <2>3 DEF files, FlagStep, SetTryNext, TruncateFlag, WriteFlag
    <3>2. running # NoGroup \/ flag' = flag
      BY <1>2, <2>3 DEF files, IInv, UpInv, Groups, NoGroup, FlagStep, SetTryNext, TruncateFlag, WriteFlag
    <3>3. (flag' = "true") \in BOOLEAN
      OBVIOUS
    <3>. QED
      BY <2>2, <3>1, <3>2, <3>3 DEF Promise!SetTryNext, NoGroup, Promise!NoGroup
  <2>4. ASSUME NEW p \in Procs, Kill(p)
        PROVE  UNCHANGED <<BootDefault, flag = "true", running>>
    BY <2>2, <2>4 DEF Kill, files
  <2>5. CASE Reboot \/ PowerFails
    <3>0. UNCHANGED files
      <4>1. CASE Reboot
        BY <4>1 DEF Reboot
      <4>2. CASE PowerFails
        BY <1>2, <4>2, NothingLost
      <4>. QED
        BY <2>5, <4>1, <4>2
    <3>1. BootDefault' = BootDefault
      BY <2>2, <3>0 DEF files
    <3>2. running # NoGroup /\ running' = NoGroup /\ flag' = flag
      BY <2>5, <3>0 DEF Reboot, PowerFails, Down, files
    <3>. QED
      BY <3>1, <3>2 DEF Promise!Next, Promise!Down, NoGroup, Promise!NoGroup
  <2>6. CASE Boot
    <3>1. BootDefault' = BootDefault
      BY <2>2, <2>6 DEF Boot
    <3>2. /\ running = NoGroup /\ flag' # "true"
          /\ running' \in IF flag = "true" THEN {1 - BootDefault, NoGroup} ELSE {BootDefault}
      BY <2>6 DEF Boot
    <3>. QED
      BY <3>1, <3>2 DEF Promise!Next, Promise!Boot, NoGroup, Promise!NoGroup
  <2>7. CASE Writeback
    BY <2>2, <2>7 DEF Writeback, files
  <2>. QED
    BY <1>2, <2>1, <2>3, <2>4, <2>5, <2>6, <2>7 DEF Next, Promise!Next
<1>3. IInv /\ [Next]_vars =>
        [~raced' /\ interruptions = 0 /\ lost' = {} =>
            Promise!Next \/ UNCHANGED <<BootDefault, flag = "true", running>>]_vars
  BY <1>2
<1>. QED
  BY <1>1, <1>3, Invariance, PTL DEF Spec, CommitIsAtomic

-----------------------------------------------------------------------------
(* The device with whichever of the two flows is configured: what          *)
(* MenderGrubFlow_proofs shows of one command at a time carries over.      *)

MenderProofs == INSTANCE MenderGrubFlow_proofs WITH
    Procs <- {only}, MaxInterruptions <- 2,
    running <- mender_running, pc <- mender_pc,
    interruptions <- mender_interruptions, lost <- mender_lost

\* With the native flow the files of the other one never change.
LEMMA DeviceRefinesMender == MCSpec => MenderProofs!Spec
<1>1. MCInit => MenderProofs!Init
  BY DEF MCInit,
      Mender!Init, MenderProofs!Init, Mender!Copies, MenderProofs!Copies, Mender!Factory,
      MenderProofs!Factory, Mender!Info, MenderProofs!Info, Mender!NoGroup,
      MenderProofs!NoGroup
<1>2. [MCNext]_<<flow, vars, mender>> => [MenderProofs!Next]_MenderProofs!vars
  <2>1. Mender!Next => MenderProofs!Next
    BY DEF
        Mender!Factory, MenderProofs!Factory, Mender!Info, MenderProofs!Info,
        Mender!NoGroup, MenderProofs!NoGroup, Mender!Groups, MenderProofs!Groups,
        Mender!Envs, MenderProofs!Envs, Mender!NoEnv, MenderProofs!NoEnv, Mender!Ops,
        MenderProofs!Ops, Mender!Copies, MenderProofs!Copies, Mender!Steps,
        MenderProofs!Steps, Mender!copies, MenderProofs!copies, Mender!left,
        MenderProofs!left, Mender!history, MenderProofs!history, Mender!vars,
        MenderProofs!vars, Mender!Cached, MenderProofs!Cached, Mender!Synced,
        MenderProofs!Synced, Mender!DropGuard, MenderProofs!DropGuard, Mender!InSync,
        MenderProofs!InSync, Mender!Unsynced, MenderProofs!Unsynced, Mender!BootEnv,
        MenderProofs!BootEnv, Mender!DefaultOf, MenderProofs!DefaultOf, Mender!Good,
        MenderProofs!Good, Mender!LoaderEnv, MenderProofs!LoaderEnv, Mender!Repairs,
        MenderProofs!Repairs, Mender!At, MenderProofs!At, Mender!Copy, MenderProofs!Copy,
        Mender!Goto, MenderProofs!Goto, Mender!Proceed, MenderProofs!Proceed,
        Mender!Interrupt, MenderProofs!Interrupt, Mender!Lock, MenderProofs!Lock,
        Mender!WriteEnv, MenderProofs!WriteEnv, Mender!EnvFails, MenderProofs!EnvFails,
        Mender!Unlock, MenderProofs!Unlock, Mender!TruncateSum, MenderProofs!TruncateSum,
        Mender!NextCopy, MenderProofs!NextCopy, Mender!WriteSum, MenderProofs!WriteSum,
        Mender!SumFails, MenderProofs!SumFails, Mender!Start, MenderProofs!Start,
        Mender!Get, MenderProofs!Get, Mender!Decide, MenderProofs!Decide, Mender!LoadAgain,
        MenderProofs!LoadAgain, Mender!NewEnv, MenderProofs!NewEnv, Mender!Save,
        MenderProofs!Save, Mender!Trying, MenderProofs!Trying, Mender!Finish,
        MenderProofs!Finish, Mender!Kill, MenderProofs!Kill, Mender!Writeback,
        MenderProofs!Writeback, Mender!Down, MenderProofs!Down, Mender!Reboot,
        MenderProofs!Reboot, Mender!PowerFails, MenderProofs!PowerFails, Mender!Boot,
        MenderProofs!Boot, Mender!Command, MenderProofs!Command, Mender!Write,
        MenderProofs!Write, Mender!Next, MenderProofs!Next
  <2>2. UNCHANGED mender => UNCHANGED MenderProofs!vars
    BY DEF mender, MenderProofs!vars, MenderProofs!copies, MenderProofs!left, MenderProofs!history
  <2>. QED
    BY <2>1, <2>2 DEF MCNext
<1>. QED
  BY <1>1, <1>2, PTL DEF MCSpec, MenderProofs!Spec

LEMMA DeviceRunsOneCommand == MenderProofs!OneCommand
BY DEF MenderProofs!OneCommand

\* However a command of the Mender-compatible flow is interrupted once, the bootloader
\* finds a copy that it trusts, unless a power failure has lost writes to both copies.
THEOREM DeviceKeepsACopy == MCSpec => []OneCopyUnlocked
<1>1. MenderProofs!Spec => []MenderProofs!OneCopyUnlocked
  BY DeviceRunsOneCommand, MenderProofs!OneCopyAlwaysUnlocked
<1>2. MenderProofs!OneCopyUnlocked => OneCopyUnlocked
  BY DEF OneCopyUnlocked,
      Mender!OneCopyUnlocked, MenderProofs!OneCopyUnlocked, Mender!Good, MenderProofs!Good,
      Mender!Copies, MenderProofs!Copies, Mender!NoGroup, MenderProofs!NoGroup
<1>. QED
  BY <1>1, <1>2, DeviceRefinesMender, PTL

\* What `system commit` has made the default, with its writes on the disk, stays it until
\* another group is asked for.
THEOREM DeviceCommitsLast == MCSpec => []CommitMakesDefault
<1>1. MenderProofs!Spec => []MenderProofs!CommitMakesDefault
  BY DeviceRunsOneCommand, MenderProofs!CommitsLast
<1>2. MenderProofs!CommitMakesDefault => CommitMakesDefault
  BY DEF CommitMakesDefault,
      Mender!CommitMakesDefault, MenderProofs!CommitMakesDefault, Mender!DefaultOf,
      MenderProofs!DefaultOf, Mender!BootEnv, MenderProofs!BootEnv, Mender!LoaderEnv,
      MenderProofs!LoaderEnv, Mender!Good, MenderProofs!Good, Mender!Copies,
      MenderProofs!Copies, Mender!NoEnv, MenderProofs!NoEnv, Mender!NoGroup,
      MenderProofs!NoGroup
<1>. QED
  BY <1>1, <1>2, DeviceRefinesMender, PTL

\* Every step of a command that was never interrupted leaves get_default and the
\* bootloader the environment from before the command or the one the command writes.
THEOREM DeviceUpdatesAtomically == MCSpec => UpdateIsAtomic
<1>1. MenderProofs!Spec => MenderProofs!UpdateIsAtomic
  BY DeviceRunsOneCommand, MenderProofs!UpdatesAreAtomic
<1>. QED
  BY <1>1, DeviceRefinesMender, PTL DEF UpdateIsAtomic,
      Mender!UpdateIsAtomic, MenderProofs!UpdateIsAtomic, Mender!vars, MenderProofs!vars,
      Mender!copies, MenderProofs!copies, Mender!left, MenderProofs!left, Mender!history,
      MenderProofs!history, Mender!BootEnv, MenderProofs!BootEnv, Mender!LoaderEnv,
      MenderProofs!LoaderEnv, Mender!Good, MenderProofs!Good, Mender!NewEnv,
      MenderProofs!NewEnv, Mender!NoEnv, MenderProofs!NoEnv, Mender!NoGroup,
      MenderProofs!NoGroup
=============================================================================
