------------------------ MODULE MenderGrubFlow_proofs ------------------------
(***************************************************************************)
(* The Mender-compatible Grub flow as get_default and the bootloader see   *)
(* it, for one command at a time and any number of interruptions and       *)
(* failing writes.  The invariant says how far each of the two copies has  *)
(* got, at every step of a repair and of an update, and what a power       *)
(* failure may leave of them.                                              *)
(***************************************************************************)
EXTENDS MenderGrubFlow, SequenceTheorems, TLAPS

\* Two commands at once undo each other's locks.
OneCommand == \A p, q \in Procs : p = q

Other(c) == 3 - c
SomeGood == Good(1) \/ Good(2)
Intact == Good(1) /\ Good(2) /\ env[1] = env[2]

\* What is on the disk of a file may always be what the file holds.
TypeInv ==
    /\ env \in [Copies -> Envs] /\ editing \in [Copies -> BOOLEAN] /\ sum \in [Copies -> BOOLEAN]
    /\ envLeft \in [Copies -> SUBSET Envs]
    /\ editingLeft \in [Copies -> SUBSET BOOLEAN] /\ sumLeft \in [Copies -> SUBSET BOOLEAN]
    /\ \A c \in Copies : env[c] \in envLeft[c] /\ editing[c] \in editingLeft[c] /\ sum[c] \in sumLeft[c]
    /\ running \in Groups \cup {NoGroup} /\ expected \in Groups \cup {NoGroup}
    /\ pc \in [Procs -> {"idle", "get", "decide", "load", "save", "finish"}]
    /\ op \in [Procs -> Ops] /\ saw \in [Procs -> Groups]
    /\ step \in [Procs -> Steps]
    /\ DOMAIN queue = Procs
    /\ interruptions \in Nat
    /\ lost # {} => running = NoGroup

Quiet(p) == queue[p] = << >> /\ step[p] = "lock"

\* What is expected to be the default.
Kept(e) == e.part = expected /\ ~e.upgrade

Both(e) == << <<1, e>>, <<2, e>> >>

\* A repair writes one environment over the copies that are locked.
Repairing(p) ==
    \E e \in Envs :
        /\ queue[p] = Both(e) \/ \E c \in Copies : queue[p] = << <<c, e>> >>
        /\ expected # NoGroup => Kept(e)

\* An update writes the first copy and then the second.
First(p) ==
    /\ queue[p] = Both(NewEnv(p))
    /\ step[p] \notin {"lock", "env"} => env[1] = NewEnv(p)

Second(p) ==
    /\ queue[p] = << <<2, NewEnv(p)>> >> /\ env[1] = NewEnv(p)
    /\ step[p] \notin {"lock", "env"} => env[2] = NewEnv(p)

Written(p) == Quiet(p) /\ env[1] = NewEnv(p) /\ env[2] = NewEnv(p)

CommandInv(p) ==
    /\ pc[p] # "idle" => running # NoGroup
    /\ pc[p] \in {"idle", "get", "load"} => Quiet(p)
    /\ pc[p] \in {"decide", "save"} => Quiet(p) \/ Repairing(p)
    /\ pc[p] = "finish" => First(p) \/ Second(p) \/ Written(p)
    /\ pc[p] \in {"load", "save", "finish"} => op[p].cmd \in {"commit", "try"}

\* Without an interruption a copy is bad only while an update writes it, and the other
\* one is good then; the second copy is the old environment until the first is the new one.
Writing(p, c) ==
    /\ Good(Other(c))
    /\ editing[c] <=> step[p] \in {"env", "unlock"}
    /\ sum[c] <=> step[p] # "sum"

FreshInv(p) ==
    interruptions = 0 =>
        /\ pc[p] # "finish" => Quiet(p) /\ Intact
        /\ pc[p] = "finish" =>
            \/ /\ First(p) /\ Writing(p, 1) /\ env[2] = before
               /\ step[p] \in {"lock", "env"} => env[1] = before
            \/ Second(p) /\ Writing(p, 2)
            \/ Written(p) /\ Good(1) /\ Good(2)

\* If a copy is in sync then one that is in sync is good.
SyncInv ==
    interruptions = 0 => \A d \in Copies : InSync(d) => \E c \in Copies : InSync(c) /\ Good(c)

\* After one interruption a copy is good, or will be when the last one is written.
Ends(p) ==
    \/ Tail(queue[p]) # << >> \/ step[p] \in {"lock", "env", "unlock"}
    \/ ~editing[Copy(p)] \/ Good(Other(Copy(p)))

SurvivesInv ==
    /\ interruptions = 0 /\ (\A p \in Procs : pc[p] # "finish") => Intact
    /\ interruptions = 1 =>
        /\ (\A p \in Procs : queue[p] = << >>) => SomeGood \/ Copies \subseteq lost
        /\ \A p \in Procs : queue[p] # << >> => Ends(p)

\* What is expected to be the default is so in both copies, on the disk as well, and a
\* command that has something else to write has been told to, or has seen another default.
ExpectedInv ==
    /\ expected # NoGroup =>
        running \in {NoGroup, expected} /\ \A c \in Copies : \A e \in envLeft[c] : Kept(e)
    /\ \A p \in Procs :
        /\ pc[p] = "decide" /\ expected # NoGroup => saw[p] = expected
        /\ pc[p] = "finish" \/ (pc[p] \in {"load", "save"} /\ op[p].cmd = "commit") => expected = NoGroup

IInv ==
    /\ TypeInv /\ SyncInv /\ SurvivesInv /\ ExpectedInv
    /\ \A p \in Procs : CommandInv(p) /\ FreshInv(p)

-----------------------------------------------------------------------------
(* The queue, the copies and the choice between them.                      *)

LEMMA Pair == ASSUME NEW x, NEW y PROVE << x >> \o << y >> = << x, y >>
<1>. DEFINE s == << x >>
            t == << y >>
            r == s \o t
<1>1. s \in Seq({x, y}) /\ t \in Seq({x, y}) /\ << x, y >> \in Seq({x, y})
  OBVIOUS
<1>2. /\ Len(s) = 1 /\ Len(t) = 1 /\ s[1] = x /\ t[1] = y
      /\ Len(<< x, y >>) = 2 /\ << x, y >>[1] = x /\ << x, y >>[2] = y
  OBVIOUS
<1>3. r \in Seq({x, y}) /\ Len(r) = 2 /\ r[1] = x /\ r[2] = y
  <2>. HIDE DEF s, t
  <2>1. r \in Seq({x, y}) /\ Len(r) = 2
    BY <1>1, <1>2, ConcatProperties
  <2>. QED
    BY <1>1, <1>2, <2>1, ConcatProperties
<1>. HIDE DEF r
<1>4. r = << x, y >>
  BY <1>1, <1>2, <1>3
<1>. QED
  BY <1>4 DEF r

LEMMA Queues ==
    ASSUME NEW x, NEW y
    PROVE  /\ << x >> # << >> /\ Head(<< x >>) = x /\ Tail(<< x >>) = << >>
           /\ << x, y >> # << >> /\ Head(<< x, y >>) = x /\ Tail(<< x, y >>) = << y >>
           /\ << x >> \o << >> = << x >> /\ << >> \o << x >> = << x >>
           /\ << x >> \o << y >> = << x, y >> /\ << >> \o << >> = << >>
<1>1. /\ << x >> # << >> /\ Head(<< x >>) = x /\ Tail(<< x >>) = << >>
      /\ << x, y >> # << >> /\ Head(<< x, y >>) = x /\ Tail(<< x, y >>) = << y >>
      /\ << x >> \o << >> = << x >> /\ << >> \o << x >> = << x >>
  OBVIOUS
<1>2. << >> \o << >> = << >>
  OBVIOUS
<1>. QED
  BY <1>1, <1>2, Pair, Zenon

LEMMA Others ==
    /\ Copies = {1, 2} /\ Other(1) = 2 /\ Other(2) = 1
    /\ \A c \in Copies : Other(c) \in Copies /\ Other(c) # c
BY DEF Copies, Other

LEMMA EnvTypes ==
    ASSUME TypeInv
    PROVE  /\ env[1] \in Envs /\ env[2] \in Envs /\ BootEnv \in {env[1], env[2]} /\ BootEnv \in Envs
           /\ \A p \in Procs : running # NoGroup /\ op[p].cmd # "info" => NewEnv(p) \in Envs
<1>1. env[1] \in Envs /\ env[2] \in Envs
  BY Others DEF TypeInv
<1>2. BootEnv \in {env[1], env[2]}
  BY DEF BootEnv
<1>3. ASSUME NEW p \in Procs, running # NoGroup, op[p].cmd # "info"
      PROVE  NewEnv(p) \in Envs
  <2>1. running \in Groups /\ op[p] \in Ops
    BY <1>3 DEF TypeInv
  <2>2. CASE op[p].cmd = "commit"
    BY <2>1, <2>2 DEF NewEnv, Envs
  <2>3. CASE op[p].cmd = "try"
    <3>1. op[p].group \in Groups
      BY <2>1, <2>3 DEF Ops
    <3>. QED
      BY <2>3, <3>1 DEF NewEnv, Envs
  <2>. QED
    BY <1>3, <2>1, <2>2, <2>3 DEF Ops
<1>. QED
  BY <1>1, <1>2, <1>3

LEMMA Choice ==
    ASSUME TypeInv
    PROVE  /\ ~editing[1] => BootEnv = env[1]
           /\ editing[1] /\ ~editing[2] => BootEnv = env[2]
BY DEF BootEnv

LEMMA RepairsCases ==
    \/ ~editing[1] /\ ~editing[2] /\ Repairs = << >>
    \/ \E c \in Copies : Repairs = << <<c, BootEnv>> >>
    \/ Repairs = Both(BootEnv)
<1>1. CASE editing[1] /\ editing[2]
  BY <1>1, Queues DEF Repairs, Both
<1>2. CASE editing[1] /\ ~editing[2]
  BY <1>2, Queues, Others DEF Repairs
<1>3. CASE ~editing[1] /\ editing[2]
  BY <1>3, Queues, Others DEF Repairs
<1>4. CASE ~editing[1] /\ ~editing[2]
  BY <1>4, Queues DEF Repairs
<1>. QED
  BY <1>1, <1>2, <1>3, <1>4

\* While expected is set get_default and the bootloader agree with it.
LEMMA ChoiceExpected ==
    ASSUME TypeInv, ExpectedInv, expected # NoGroup
    PROVE  /\ \A c \in Copies : Kept(env[c])
           /\ Kept(BootEnv) /\ DefaultOf(BootEnv) = expected
           /\ (\E c \in Copies : Good(c)) => Kept(LoaderEnv) /\ DefaultOf(LoaderEnv) = expected
<1>1. \A c \in Copies : Kept(env[c])
  BY DEF ExpectedInv, TypeInv
<1>2. Kept(BootEnv)
  BY <1>1, Others DEF BootEnv
<1>3. (\E c \in Copies : Good(c)) => Kept(LoaderEnv)
  BY <1>1, Others DEF LoaderEnv
<1>. QED
  BY <1>1, <1>2, <1>3 DEF DefaultOf, Kept

\* With one command there are no others to speak of.
LEMMA Alone ==
    ASSUME OneCommand, NEW p \in Procs
    PROVE  Procs = {p}
BY DEF OneCommand

-----------------------------------------------------------------------------
(* The page cache.                                                         *)

Same(c) == env'[c] = env[c] /\ editing'[c] = editing[c] /\ sum'[c] = sum[c]

Holds ==
    /\ env \in [Copies -> Envs] /\ editing \in [Copies -> BOOLEAN] /\ sum \in [Copies -> BOOLEAN]
LeftTypes ==
    /\ envLeft \in [Copies -> SUBSET Envs]
    /\ editingLeft \in [Copies -> SUBSET BOOLEAN] /\ sumLeft \in [Copies -> SUBSET BOOLEAN]
    /\ \A c \in Copies : env[c] \in envLeft[c] /\ editing[c] \in editingLeft[c] /\ sum[c] \in sumLeft[c]

LEMMA Types == TypeInv => Holds /\ LeftTypes
BY DEF TypeInv, Holds, LeftTypes

\* A copy that is in sync after a write is as it was, and was in sync.
LEMMA CachedCopies ==
    ASSUME LeftTypes, Holds', Cached
    PROVE  /\ LeftTypes'
           /\ \A c \in Copies : InSync(c)' <=> InSync(c) /\ Same(c)
           /\ \A c \in Copies : envLeft'[c] = envLeft[c] \cup {env'[c]}
<1>1. \A c \in Copies : /\ envLeft'[c] = envLeft[c] \cup {env'[c]}
                        /\ editingLeft'[c] = editingLeft[c] \cup {editing'[c]}
                        /\ sumLeft'[c] = sumLeft[c] \cup {sum'[c]}
  BY DEF Cached
<1>2. LeftTypes'
  BY <1>1 DEF LeftTypes, Holds, Cached
<1>3. ASSUME NEW c \in Copies
      PROVE  InSync(c)' <=> InSync(c) /\ Same(c)
  <2>1. envLeft'[c] = {env'[c]} <=> envLeft[c] = {env[c]} /\ env'[c] = env[c]
    BY <1>1 DEF LeftTypes
  <2>2. editingLeft'[c] = {editing'[c]} <=> editingLeft[c] = {editing[c]} /\ editing'[c] = editing[c]
    BY <1>1 DEF LeftTypes
  <2>3. sumLeft'[c] = {sum'[c]} <=> sumLeft[c] = {sum[c]} /\ sum'[c] = sum[c]
    BY <1>1 DEF LeftTypes
  <2>. QED
    BY <2>1, <2>2, <2>3 DEF InSync, Same
<1>. QED
  BY <1>1, <1>2, <1>3

LEMMA SyncedCopies ==
    ASSUME Holds', Synced
    PROVE  /\ LeftTypes' /\ \A c \in Copies : InSync(c)'
           /\ \A c \in Copies : envLeft'[c] = {env'[c]}
BY DEF Synced, Holds, LeftTypes, InSync

\* A write to one copy while the other one is good.
LEMMA SyncStep ==
    ASSUME TypeInv, SyncInv, Holds', DropGuard, NEW c \in Copies, Good(Other(c)), Same(Other(c)),
           interruptions = 0
    PROVE  SyncInv'
<1>1. Other(c) \in Copies /\ \A d \in Copies : d = c \/ d = Other(c)
  BY Others
<1>2. Good(Other(c))'
  BY DEF Good, Same
<1>3. CASE Synced
  BY <1>1, <1>2, <1>3, SyncedCopies DEF SyncInv
<1>4. CASE Cached
  <2>1. ASSUME NEW d \in Copies, InSync(d)'
        PROVE  \E b \in Copies : InSync(b)' /\ Good(b)'
    <3>1. \A b \in Copies : InSync(b)' <=> InSync(b) /\ Same(b)
      BY <1>4, CachedCopies, Types
    <3>2. CASE InSync(Other(c))
      BY <1>1, <1>2, <3>1, <3>2
    <3>3. CASE ~InSync(Other(c))
      <4>1. InSync(c) /\ Same(c)
        BY <1>1, <2>1, <3>1, <3>3
      <4>2. Good(c)
        BY <1>1, <3>3, <4>1 DEF SyncInv
      <4>3. Good(c)'
        BY <4>1, <4>2 DEF Good, Same
      <4>. QED
        BY <2>1, <3>1, <4>1, <4>3
    <3>. QED
      BY <3>2, <3>3
  <2>. QED
    BY <2>1 DEF SyncInv
<1>. QED
  BY <1>3, <1>4 DEF DropGuard

-----------------------------------------------------------------------------
(* The steps of a command that do not write.                               *)

LEMMA TypeStep ==
    ASSUME TypeInv, NEW p \in Procs, NEW l \in {"idle", "get", "decide", "load", "save", "finish"},
           Goto(p, l), UNCHANGED <<copies, left, running, interruptions, lost>>,
           op' \in [Procs -> Ops], saw' \in [Procs -> Groups], expected' \in Groups \cup {NoGroup},
           step' = step, queue' = queue \/ \E s : queue' = [queue EXCEPT ![p] = s]
    PROVE  TypeInv' /\ (SyncInv => SyncInv')
BY DEF TypeInv, Goto, copies, left, SyncInv, InSync, Good

\* A command that runs and is not interrupted leaves the copies as they are between writes.
LEMMA CommandStep ==
    ASSUME OneCommand, IInv, NEW p \in Procs, Command(p)
    PROVE  IInv'
<1>. USE DEF Goto, copies, left, history
<1>0. /\ TypeInv /\ SyncInv /\ SurvivesInv /\ ExpectedInv /\ CommandInv(p) /\ FreshInv(p) /\ Procs = {p}
      /\ pc \in [Procs -> {"idle", "get", "decide", "load", "save", "finish"}]
      /\ DOMAIN queue = Procs /\ op \in [Procs -> Ops] /\ saw \in [Procs -> Groups]
      /\ running \in Groups \cup {NoGroup} /\ expected \in Groups \cup {NoGroup}
      /\ lost # {} => running = NoGroup
  BY Alone DEF IInv, TypeInv
<1>1. ASSUME TypeInv', SyncInv', SurvivesInv', ExpectedInv', CommandInv(p)', FreshInv(p)'
      PROVE  IInv'
  BY <1>0, <1>1 DEF IInv
<1>2. ASSUME UNCHANGED <<copies, interruptions, lost>>, running # NoGroup,
             \/ queue'[p] = queue[p] /\ step'[p] = step[p]
             \/ /\ queue[p] = << >> /\ step'[p] = "lock"
                /\ queue'[p] = << >> \/ interruptions # 0 \/ pc'[p] = "finish",
             pc'[p] # "finish" => pc[p] # "finish" \/ Written(p)
      PROVE  SurvivesInv'
  <2>1. Good(1)' = Good(1) /\ Good(2)' = Good(2) /\ (Intact' <=> Intact)
    BY <1>2 DEF Good, Intact
  <2>2. interruptions = 0 /\ pc'[p] # "finish" => Intact
    <3>1. CASE pc[p] # "finish"
      BY <1>0, <3>1 DEF FreshInv
    <3>2. CASE Written(p)
      <4>1. queue[p] = << >> /\ env[1] = env[2] /\ ~First(p) /\ ~Second(p)
        BY <3>2, Queues DEF Written, Quiet, First, Second, Both
      <4>. QED
        BY <1>0, <4>1 DEF FreshInv, Intact
    <3>. QED
      BY <1>2, <3>1, <3>2
  <2>3. interruptions = 1 /\ queue[p] = << >> => SomeGood
    BY <1>0, <1>2, Others DEF SurvivesInv
  <2>4. interruptions = 1 /\ queue'[p] # << >> => Ends(p)'
    <3>1. CASE queue'[p] = queue[p] /\ step'[p] = step[p]
      <4>1. Copy(p)' = Copy(p)
        BY <3>1 DEF Copy
      <4>2. \A c : Good(c)' = Good(c)
        BY <1>2 DEF Good
      <4>. QED
        BY <1>0, <1>2, <3>1, <4>1, <4>2 DEF SurvivesInv, Ends
    <3>2. CASE step'[p] = "lock"
      BY <3>2 DEF Ends
    <3>. QED
      BY <1>2, <3>1, <3>2
  <2>5. interruptions = 1 /\ queue'[p] = << >> => SomeGood'
    <3>1. interruptions = 1 /\ queue'[p] = << >> => queue[p] = << >>
      BY <1>2
    <3>. QED
      BY <2>1, <2>3, <3>1 DEF SomeGood
  <2>6. (\A q \in Procs : pc'[q] # "finish") => pc'[p] # "finish"
    OBVIOUS
  <2>7. (\A q \in Procs : queue'[q] = << >>) => queue'[p] = << >>
    OBVIOUS
  <2>8. interruptions' = interruptions
    BY <1>2
  <2>. QED
    BY <1>0, <2>1, <2>2, <2>4, <2>5, <2>6, <2>7, <2>8 DEF SurvivesInv
<1>3. CASE Start(p)
  <2>1. /\ pc[p] = "idle" /\ pc'[p] = "get" /\ running # NoGroup
        /\ UNCHANGED <<copies, left, running, saw, queue, step, history>>
    BY <1>0, <1>3 DEF Start
  <2>2. PICK o \in Ops : op' = [op EXCEPT ![p] = o]
    BY <1>3 DEF Start
  <2>3. TypeInv' /\ SyncInv'
    BY <1>0, <1>3, <2>1, <2>2, TypeStep DEF Start
  <2>4. ExpectedInv'
    BY <1>0, <2>1 DEF ExpectedInv, Kept
  <2>5. CommandInv(p)' /\ FreshInv(p)'
    BY <1>0, <2>1 DEF CommandInv, Quiet, FreshInv, Intact, Good
  <2>6. queue'[p] = queue[p] /\ step'[p] = step[p]
    BY <2>1
  <2>7. SurvivesInv'
    BY <1>2, <2>1, <2>6
  <2>. QED
    BY <1>1, <2>3, <2>4, <2>5, <2>7
<1>4. CASE Get(p)
  <2>1. /\ pc[p] = "get" /\ pc'[p] = "decide" /\ queue'[p] = Repairs /\ saw'[p] = DefaultOf(BootEnv)
        /\ UNCHANGED <<copies, left, running, op, step, history>>
    BY <1>0, <1>4 DEF Get
  <2>2. DefaultOf(BootEnv) \in Groups
    BY <1>0, EnvTypes DEF DefaultOf, Envs, Groups
  <2>3. TypeInv' /\ SyncInv'
    BY <1>0, <1>4, <2>1, <2>2, TypeStep DEF Get
  <2>4. ExpectedInv'
    BY <1>0, <2>1, ChoiceExpected DEF ExpectedInv, Kept
  <2>5. Quiet(p) /\ running # NoGroup
    BY <1>0, <2>1 DEF CommandInv
  <2>6. Quiet(p)' \/ Repairing(p)'
    <3>1. BootEnv \in Envs /\ expected' = expected
          /\ (expected # NoGroup => BootEnv.part = expected /\ ~BootEnv.upgrade)
      BY <1>0, <2>1, EnvTypes, ChoiceExpected DEF Kept
    <3>2. CASE Repairs = << >>
      BY <2>1, <2>5, <3>2 DEF Quiet
    <3>3. CASE Repairs = Both(BootEnv) \/ \E c \in Copies : Repairs = << <<c, BootEnv>> >>
      BY <2>1, <3>1, <3>3 DEF Repairing, Kept, Both
    <3>. QED
      BY <3>2, <3>3, RepairsCases
  <2>7. CommandInv(p)'
    BY <2>1, <2>5, <2>6 DEF CommandInv
  <2>8. interruptions = 0 => Intact /\ Repairs = << >>
    BY <1>0, <2>1 DEF FreshInv, Intact, Good, Repairs
  <2>9. FreshInv(p)'
    BY <2>1, <2>5, <2>8 DEF FreshInv, Intact, Good, Quiet
  <2>10. SurvivesInv'
    BY <1>2, <2>1, <2>5, <2>8 DEF Quiet
  <2>. QED
    BY <1>1, <2>3, <2>4, <2>7, <2>9, <2>10
<1>5. CASE Decide(p)
  <2>1. /\ pc[p] = "decide" /\ queue[p] = << >>
        /\ UNCHANGED <<copies, left, running, op, saw, queue, step, history>>
        /\ pc'[p] = IF op[p].cmd = "info" \/ (op[p].cmd = "commit" /\ saw[p] = running) THEN "idle" ELSE "load"
    BY <1>0, <1>5 DEF Decide
  <2>2. TypeInv' /\ SyncInv'
    BY <1>0, <1>5, <2>1, TypeStep DEF Decide
  <2>3. Quiet(p) /\ running # NoGroup
    BY <1>0, <2>1, Queues DEF CommandInv, Repairing, Both
  <2>4. op[p].cmd \in {"info", "commit", "try"}
    BY <1>0 DEF Ops
  <2>5. CommandInv(p)'
    BY <2>1, <2>3, <2>4 DEF CommandInv, Quiet
  <2>6. ExpectedInv'
    BY <1>0, <2>1, <2>3 DEF ExpectedInv, Kept
  <2>7. FreshInv(p)'
    BY <1>0, <2>1 DEF FreshInv, Intact, Good, Quiet
  <2>8. queue'[p] = queue[p] /\ step'[p] = step[p]
    BY <2>1
  <2>9. SurvivesInv'
    BY <1>2, <2>1, <2>3, <2>8
  <2>. QED
    BY <1>1, <2>2, <2>5, <2>6, <2>7, <2>9
<1>6. CASE LoadAgain(p)
  <2>1. /\ pc[p] = "load" /\ pc'[p] = "save" /\ queue'[p] = Repairs
        /\ UNCHANGED <<copies, left, running, op, saw, step, history>>
    BY <1>0, <1>6 DEF LoadAgain
  <2>2. TypeInv' /\ SyncInv'
    BY <1>0, <1>6, <2>1, TypeStep DEF LoadAgain
  <2>3. Quiet(p) /\ running # NoGroup /\ op[p].cmd \in {"commit", "try"}
    BY <1>0, <2>1 DEF CommandInv
  <2>4. Quiet(p)' \/ Repairing(p)'
    <3>1. BootEnv \in Envs /\ expected' = expected
          /\ (expected # NoGroup => BootEnv.part = expected /\ ~BootEnv.upgrade)
      BY <1>0, <2>1, EnvTypes, ChoiceExpected DEF Kept
    <3>2. CASE Repairs = << >>
      BY <2>1, <2>3, <3>2 DEF Quiet
    <3>3. CASE Repairs = Both(BootEnv) \/ \E c \in Copies : Repairs = << <<c, BootEnv>> >>
      BY <2>1, <3>1, <3>3 DEF Repairing, Kept, Both
    <3>. QED
      BY <3>2, <3>3, RepairsCases
  <2>5. CommandInv(p)'
    BY <2>1, <2>3, <2>4 DEF CommandInv
  <2>6. ExpectedInv'
    BY <1>0, <2>1 DEF ExpectedInv, Kept
  <2>7. interruptions = 0 => Intact /\ Repairs = << >>
    BY <1>0, <2>1 DEF FreshInv, Intact, Good, Repairs
  <2>8. FreshInv(p)'
    BY <2>1, <2>3, <2>7 DEF FreshInv, Intact, Good, Quiet
  <2>9. SurvivesInv'
    BY <1>2, <2>1, <2>3, <2>7 DEF Quiet
  <2>. QED
    BY <1>1, <2>2, <2>5, <2>6, <2>8, <2>9
<1>7. CASE Save(p)
  <2>1. /\ pc[p] = "save" /\ pc'[p] = "finish" /\ queue[p] = << >> /\ queue'[p] = Both(NewEnv(p))
        /\ before' = BootEnv
        /\ expected' = IF op[p].cmd = "commit" THEN expected ELSE NoGroup
        /\ UNCHANGED <<copies, left, running, op, saw, step, interruptions, lost>>
    BY <1>0, <1>7 DEF Save, Both
  <2>2. TypeInv' /\ SyncInv'
    BY <1>0, <1>7, <2>1, TypeStep DEF Save
  <2>3. Quiet(p) /\ running # NoGroup /\ op[p].cmd \in {"commit", "try"}
    BY <1>0, <2>1, Queues DEF CommandInv, Repairing, Both
  <2>4. NewEnv(p)' = NewEnv(p) /\ step'[p] = "lock"
    BY <2>1, <2>3 DEF NewEnv, Quiet
  <2>5. First(p)'
    BY <2>1, <2>4 DEF First, Both
  <2>6. CommandInv(p)'
    BY <2>1, <2>3, <2>5 DEF CommandInv
  <2>7. ExpectedInv'
    BY <1>0, <2>1, <2>3 DEF ExpectedInv
  <2>8. FreshInv(p)'
    <3>1. interruptions = 0 => Intact /\ BootEnv = env[1]
      BY <1>0, <2>1, Choice DEF FreshInv, Intact, Good
    <3>2. interruptions = 0 => Writing(p, 1)'
      BY <2>1, <2>4, <3>1, Others DEF Writing, Good, Intact
    <3>3. interruptions = 0 => env'[2] = before' /\ env'[1] = before'
      BY <2>1, <3>1 DEF Intact
    <3>. QED
      BY <2>1, <2>5, <3>2, <3>3 DEF FreshInv
  <2>9. SurvivesInv'
    BY <1>2, <2>1, <2>3, <2>4
  <2>. QED
    BY <1>1, <2>2, <2>6, <2>7, <2>8, <2>9
<1>8. CASE Finish(p)
  <2>1. /\ pc[p] = "finish" /\ pc'[p] = "idle" /\ queue[p] = << >>
        /\ expected' = IF op[p].cmd # "commit" THEN expected
                       ELSE IF Trying \/ Unsynced # {} THEN NoGroup ELSE running
        /\ UNCHANGED <<copies, left, running, op, saw, queue, step, interruptions, lost, before>>
    BY <1>0, <1>8 DEF Finish
  <2>2. TypeInv' /\ SyncInv'
    BY <1>0, <1>8, <2>1, TypeStep DEF Finish
  <2>3. Written(p) /\ running # NoGroup
    BY <1>0, <2>1, Queues DEF CommandInv, First, Second, Both
  <2>4. CommandInv(p)'
    BY <2>1, <2>3 DEF CommandInv, Quiet, Written
  <2>5. expected = NoGroup
    BY <1>0, <2>1 DEF ExpectedInv
  <2>6. op[p].cmd = "commit" /\ Unsynced = {} =>
            \A c \in Copies : \A e \in envLeft[c] : e.part = running /\ ~e.upgrade
    <3>1. Unsynced = {} => \A c \in Copies : envLeft[c] = {env[c]}
      BY DEF Unsynced, InSync
    <3>2. op[p].cmd = "commit" => \A c \in Copies : env[c].part = running /\ ~env[c].upgrade
      BY <2>3, Others DEF Written, NewEnv
    <3>. QED
      BY <3>1, <3>2
  <2>7. ExpectedInv'
    BY <1>0, <2>1, <2>5, <2>6 DEF ExpectedInv, Kept
  <2>8. FreshInv(p)'
    BY <1>0, <2>1, <2>3, Queues DEF FreshInv, Intact, Good, Quiet, Written, First, Second, Both
  <2>9. queue'[p] = queue[p] /\ step'[p] = step[p]
    BY <2>1
  <2>10. SurvivesInv'
    BY <1>2, <2>1, <2>3, <2>9
  <2>. QED
    BY <1>1, <2>2, <2>4, <2>7, <2>8, <2>10
<1>. QED
  BY <1>3, <1>4, <1>5, <1>6, <1>7, <1>8 DEF Command

-----------------------------------------------------------------------------
(* The writes.                                                             *)

\* What is at the head of the queue, and what remains when it has been written.
LEMMA Heads ==
    ASSUME IInv, NEW p \in Procs, queue[p] # << >>
    PROVE  \E c \in Copies, e \in Envs :
                /\ Copy(p) = c /\ Head(queue[p])[2] = e
                /\ \/ queue[p] = << <<c, e>> >> /\ Tail(queue[p]) = << >>
                   \/ c = 1 /\ queue[p] = Both(e) /\ Tail(queue[p]) = << <<2, e>> >> /\ Tail(queue[p]) # << >>
                /\ \/ pc[p] \in {"decide", "save"} /\ interruptions # 0 /\ (expected # NoGroup => Kept(e))
                   \/ /\ pc[p] = "finish" /\ e = NewEnv(p) /\ expected = NoGroup
                      /\ \/ First(p) /\ c = 1 /\ Tail(queue[p]) = << <<2, e>> >>
                         \/ Second(p) /\ c = 2 /\ Tail(queue[p]) = << >>
<1>0. TypeInv /\ CommandInv(p) /\ ExpectedInv /\ FreshInv(p) /\ p \in Procs
  BY DEF IInv
<1>1. pc[p] \in {"decide", "save", "finish"}
  BY <1>0 DEF CommandInv, Quiet, TypeInv
<1>2. CASE pc[p] \in {"decide", "save"}
  <2>1. interruptions # 0 /\ Repairing(p)
    BY <1>0, <1>2 DEF CommandInv, Quiet, FreshInv
  <2>2. PICK e \in Envs : /\ queue[p] = Both(e) \/ \E c \in Copies : queue[p] = << <<c, e>> >>
                          /\ expected # NoGroup => Kept(e)
    BY <2>1 DEF Repairing
  <2>3. CASE queue[p] = Both(e)
    <3>1. Head(queue[p]) = <<1, e>> /\ Tail(queue[p]) = << <<2, e>> >> /\ Tail(queue[p]) # << >>
      BY <2>3, Queues DEF Both
    <3>. QED
      BY <1>2, <2>1, <2>2, <2>3, <3>1, Others DEF Copy
  <2>4. ASSUME NEW c \in Copies, queue[p] = << <<c, e>> >>
        PROVE  Head(queue[p]) = <<c, e>> /\ Tail(queue[p]) = << >>
    BY <2>4, Queues
  <2>. QED
    BY <1>2, <2>1, <2>2, <2>3, <2>4 DEF Copy
<1>3. CASE pc[p] = "finish"
  <2>1. expected = NoGroup /\ NewEnv(p) \in Envs
    BY <1>0, <1>3, EnvTypes DEF ExpectedInv, CommandInv
  <2>2. CASE First(p)
    <3>1. Head(queue[p]) = <<1, NewEnv(p)>> /\ Tail(queue[p]) = << <<2, NewEnv(p)>> >> /\ Tail(queue[p]) # << >>
      BY <2>2, Queues DEF First, Both
    <3>. QED
      BY <1>3, <2>1, <2>2, <3>1, Others DEF Copy, First
  <2>3. CASE Second(p)
    <3>1. Head(queue[p]) = <<2, NewEnv(p)>> /\ Tail(queue[p]) = << >>
      BY <2>3, Queues DEF Second
    <3>. QED
      BY <1>3, <2>1, <2>3, <3>1, Others DEF Copy, Second
  <2>. QED
    BY <1>0, <1>3, <2>2, <2>3 DEF CommandInv, Written, Quiet
<1>. QED
  BY <1>1, <1>2, <1>3

\* What is expected survives writes of what is expected.
LEMMA ExpectedStep ==
    ASSUME TypeInv, ExpectedInv, Holds', DropGuard \/ UNCHANGED <<copies, left>>,
           UNCHANGED <<running, expected, saw, op>>, \A q \in Procs : pc'[q] \in {pc[q], "idle"},
           expected # NoGroup => \A d \in Copies : Kept(env'[d])
    PROVE  ExpectedInv'
<1>1. ASSUME expected # NoGroup, NEW d \in Copies, NEW f \in envLeft'[d]
      PROVE  Kept(f)
  <2>1. envLeft'[d] \subseteq envLeft[d] \cup {env'[d]}
    <3>1. CASE Cached
      BY <3>1, CachedCopies, Types
    <3>2. CASE Synced
      BY <3>2, SyncedCopies
    <3>3. CASE UNCHANGED <<copies, left>>
      BY <3>3 DEF copies, left
    <3>. QED
      BY <3>1, <3>2, <3>3 DEF DropGuard
  <2>. QED
    BY <1>1, <2>1 DEF ExpectedInv
<1>2. \A f : Kept(f)' <=> Kept(f)
  BY DEF Kept
<1>. QED
  BY <1>1, <1>2 DEF ExpectedInv, Kept

LEMMA WriteStep ==
    ASSUME OneCommand, IInv, NEW p \in Procs, Write(p) \/ EnvFails(p) \/ SumFails(p)
    PROVE  IInv'
<1>. USE DEF At, Proceed, copies, history
<1>0. /\ TypeInv /\ SyncInv /\ SurvivesInv /\ ExpectedInv /\ CommandInv(p) /\ FreshInv(p) /\ Procs = {p}
      /\ queue[p] # << >>
      /\ UNCHANGED <<running, op, saw, lost, before, expected>>
  BY Alone DEF IInv, Write, Lock, WriteEnv, Unlock, TruncateSum, WriteSum, EnvFails, SumFails
<1>1. PICK c \in Copies, e \in Envs :
                /\ Copy(p) = c /\ Head(queue[p])[2] = e
                /\ \/ queue[p] = << <<c, e>> >> /\ Tail(queue[p]) = << >>
                   \/ c = 1 /\ queue[p] = Both(e) /\ Tail(queue[p]) = << <<2, e>> >> /\ Tail(queue[p]) # << >>
                /\ \/ pc[p] \in {"decide", "save"} /\ interruptions # 0 /\ (expected # NoGroup => Kept(e))
                   \/ /\ pc[p] = "finish" /\ e = NewEnv(p) /\ expected = NoGroup
                      /\ \/ First(p) /\ c = 1 /\ Tail(queue[p]) = << <<2, e>> >>
                         \/ Second(p) /\ c = 2 /\ Tail(queue[p]) = << >>
  BY <1>0, Heads
<1>2. /\ env \in [Copies -> Envs] /\ editing \in [Copies -> BOOLEAN] /\ sum \in [Copies -> BOOLEAN]
      /\ DOMAIN queue = Procs /\ step \in [Procs -> Steps] /\ interruptions \in Nat
      /\ pc \in [Procs -> {"idle", "get", "decide", "load", "save", "finish"}]
      /\ lost # {} => running = NoGroup
  BY <1>0 DEF TypeInv
<1>3. Other(c) \in Copies /\ Other(c) # c /\ (c = 1 => Other(c) = 2) /\ (c = 2 => Other(c) = 1)
  BY Others
<1>4. NewEnv(p)' = NewEnv(p)
  BY <1>0 DEF NewEnv
<1>5. running # NoGroup /\ (pc[p] = "finish" => op[p].cmd \in {"commit", "try"})
  BY <1>0, <1>1 DEF CommandInv
\* Who is never interrupted writes an update, and the other copy is good.
<1>6. interruptions = 0 => pc[p] = "finish" /\ Good(Other(c)) /\ Writing(p, c)
  <2>1. ~Written(p)
    BY <1>0 DEF Written, Quiet
  <2>2. First(p) => c = 1
    BY <1>1, Queues, Others DEF First, Second, Both
  <2>3. Second(p) => c = 2
    BY <1>1, Queues, Others DEF First, Second, Both
  <2>. QED
    BY <1>0, <1>1, <2>1, <2>2, <2>3 DEF FreshInv, Writing
<1>7. ASSUME Holds', DropGuard \/ (UNCHANGED <<copies, left>> /\ interruptions' # 0), Same(Other(c)),
             env'[c] \in {env[c], e}, interruptions' \in Nat, interruptions' = 0 => interruptions = 0,
             DOMAIN queue' = Procs, step' \in [Procs -> Steps],
             pc' = pc \/ (pc' = [pc EXCEPT ![p] = "idle"] /\ interruptions' # 0),
             CommandInv(p)', FreshInv(p)',
             interruptions' = 1 => IF queue'[p] = << >> THEN SomeGood' ELSE Ends(p)'
      PROVE  IInv'
  <2>1. TypeInv'
    <3>1. LeftTypes'
      <4>1. CASE Cached
        BY <1>0, <1>7, <4>1, CachedCopies, Types
      <4>2. CASE Synced
        BY <1>7, <4>2, SyncedCopies
      <4>3. CASE UNCHANGED <<copies, left>>
        BY <1>0, <4>3, Types DEF left, LeftTypes
      <4>. QED
        BY <1>7, <4>1, <4>2, <4>3 DEF DropGuard
    <3>. QED
      BY <1>0, <1>2, <1>7, <3>1 DEF TypeInv, Holds, LeftTypes
  <2>2. SyncInv'
    <3>1. CASE interruptions' # 0
      BY <3>1 DEF SyncInv
    <3>2. CASE interruptions' = 0
      BY <1>0, <1>6, <1>7, <3>2, SyncStep
    <3>. QED
      BY <3>1, <3>2
  <2>3. SurvivesInv'
    BY <1>0, <1>6, <1>7 DEF SurvivesInv
  <2>4. ExpectedInv'
    <3>1. expected # NoGroup => \A d \in Copies : Kept(env'[d])
      <4>1. ASSUME expected # NoGroup, NEW d \in Copies
            PROVE  Kept(env'[d])
        <5>1. Kept(env[d]) /\ Kept(e)
          BY <1>0, <1>1, <4>1, ChoiceExpected
        <5>2. d = c \/ d = Other(c)
          BY Others
        <5>. QED
          BY <1>7, <5>1, <5>2 DEF Same
      <4>. QED
        BY <4>1
    <3>2. pc'[p] \in {pc[p], "idle"}
      BY <1>2, <1>7
    <3>. QED
      BY <1>0, <1>7, <3>1, <3>2, ExpectedStep
  <2>. QED
    BY <1>0, <1>7, <2>1, <2>2, <2>3, <2>4 DEF IInv
\* A step inside the first entry of the queue.
<1>8. ASSUME queue' = queue, pc' = pc, step'[p] # "lock", Same(Other(c)),
             env'[c] \in {env[c], e}, step'[p] \notin {"lock", "env"} => env'[c] = e \/ pc[p] # "finish"
      PROVE  CommandInv(p)'
  <2>1. pc[p] = "decide" \/ pc[p] = "save" => Repairing(p)'
    BY <1>0, <1>1, <1>8 DEF Repairing, Both, Kept
  <2>2. First(p) /\ c = 1 /\ pc[p] = "finish" => First(p)'
    BY <1>0, <1>1, <1>4, <1>8 DEF First, Both
  <2>3. Second(p) /\ c = 2 /\ pc[p] = "finish" => Second(p)'
    BY <1>0, <1>1, <1>3, <1>4, <1>8 DEF Second, Same
  <2>. QED
    BY <1>0, <1>1, <1>5, <1>8, <2>1, <2>2, <2>3 DEF CommandInv
<1>9. ASSUME queue' = queue, pc' = pc, interruptions = 0, CommandInv(p)', Same(Other(c)), Writing(p, c)',
             step'[p] \in {"lock", "env"} => env'[c] = env[c] /\ step[p] \in {"lock", "env"}
      PROVE  FreshInv(p)'
  <2>1. ~Written(p) /\ ~Written(p)'
    BY <1>0, <1>9 DEF Written, Quiet
  <2>2. CASE First(p) /\ c = 1
    <3>1. ~Second(p)' /\ ~Second(p)
      BY <1>1, <1>9, <2>2, Queues DEF First, Second, Both
    <3>2. First(p)'
      BY <1>6, <1>9, <2>1, <3>1 DEF CommandInv
    <3>. QED
      BY <1>0, <1>3, <1>6, <1>9, <2>1, <2>2, <3>1, <3>2 DEF FreshInv, Same
  <2>3. CASE Second(p) /\ c = 2
    <3>1. ~First(p)'
      BY <1>1, <1>9, <2>3, Queues DEF First, Second, Both
    <3>2. Second(p)'
      BY <1>6, <1>9, <2>1, <3>1 DEF CommandInv
    <3>. QED
      BY <1>6, <1>9, <2>3, <3>2 DEF FreshInv
  <2>. QED
    BY <1>1, <1>6, <1>9, <2>2, <2>3
<1>10. ASSUME interruptions' # 0
       PROVE  FreshInv(p)'
  BY <1>10 DEF FreshInv
<1>11. CASE Lock(p)
  <2>1. /\ step[p] = "lock" /\ step' = [step EXCEPT ![p] = "env"] /\ Cached
        /\ UNCHANGED <<env, sum, pc, queue>>
        /\ \/ editing' = [editing EXCEPT ![c] = TRUE] /\ interruptions' = interruptions
           \/ editing' = editing /\ interruptions' = interruptions + 1
    BY <1>1, <1>11 DEF Lock, Interrupt
  <2>2. step'[p] = "env" /\ Same(Other(c)) /\ Holds' /\ step' \in [Procs -> Steps]
    BY <1>0, <1>2, <1>3, <2>1 DEF Same, Holds, Steps
  <2>3. CommandInv(p)'
    BY <1>8, <2>1, <2>2
  <2>4. interruptions' = 0 => interruptions = 0 /\ Writing(p, c)'
    BY <1>2, <1>3, <1>6, <2>1, <2>2 DEF Writing, Good, Same
  <2>5. FreshInv(p)'
    BY <1>9, <1>10, <2>1, <2>2, <2>3, <2>4
  <2>6. Ends(p)' /\ queue'[p] # << >>
    BY <1>0, <2>1, <2>2 DEF Ends
  <2>. QED
    BY <1>0, <1>2, <1>7, <2>1, <2>2, <2>3, <2>4, <2>5, <2>6 DEF DropGuard
<1>12. CASE WriteEnv(p)
  <2>1. /\ step[p] = "env" /\ step' = [step EXCEPT ![p] = "unlock"] /\ Cached
        /\ UNCHANGED <<editing, sum, pc, queue, interruptions>> /\ env' = [env EXCEPT ![c] = e]
    BY <1>1, <1>12 DEF WriteEnv
  <2>2. step'[p] = "unlock" /\ env'[c] = e /\ Same(Other(c)) /\ Holds' /\ step' \in [Procs -> Steps]
    BY <1>0, <1>2, <1>3, <2>1 DEF Same, Holds, Steps
  <2>3. CommandInv(p)'
    BY <1>8, <2>1, <2>2
  <2>4. interruptions' = 0 => interruptions = 0 /\ Writing(p, c)'
    BY <1>2, <1>3, <1>6, <2>1, <2>2 DEF Writing, Good, Same
  <2>5. FreshInv(p)'
    BY <1>9, <1>10, <2>1, <2>2, <2>3, <2>4
  <2>6. Ends(p)' /\ queue'[p] # << >>
    BY <1>0, <2>1, <2>2 DEF Ends
  <2>. QED
    BY <1>0, <1>2, <1>7, <2>1, <2>2, <2>3, <2>4, <2>5, <2>6 DEF DropGuard
<1>13. step[p] \notin {"lock", "env"} => env[c] = e \/ pc[p] # "finish"
  BY <1>1 DEF First, Second
<1>14. CASE Unlock(p)
  <2>1. /\ step[p] = "unlock" /\ step' = [step EXCEPT ![p] = "truncate"] /\ Cached
        /\ UNCHANGED <<env, sum, pc, queue>>
        /\ \/ editing' = [editing EXCEPT ![c] = FALSE] /\ interruptions' = interruptions
           \/ editing' = editing /\ interruptions' = interruptions + 1
    BY <1>1, <1>14 DEF Unlock, Interrupt
  <2>2. step'[p] = "truncate" /\ Same(Other(c)) /\ Holds' /\ step' \in [Procs -> Steps]
    BY <1>0, <1>2, <1>3, <2>1 DEF Same, Holds, Steps
  <2>3. CommandInv(p)'
    BY <1>8, <1>13, <2>1, <2>2
  <2>4. interruptions' = 0 => interruptions = 0 /\ Writing(p, c)'
    BY <1>2, <1>3, <1>6, <2>1, <2>2 DEF Writing, Good, Same
  <2>5. FreshInv(p)'
    BY <1>9, <1>10, <2>1, <2>2, <2>3, <2>4
  <2>6. interruptions' = 1 => Ends(p)'
    <3>1. Copy(p)' = c
      BY <1>1, <2>1 DEF Copy
    <3>2. CASE ~editing'[c]
      BY <3>1, <3>2 DEF Ends
    <3>3. CASE interruptions = 0
      BY <1>6, <2>2, <3>1, <3>3 DEF Ends, Good, Same
    <3>. QED
      BY <1>2, <2>1, <3>2, <3>3
  <2>. QED
    BY <1>0, <1>2, <1>7, <2>1, <2>2, <2>3, <2>4, <2>5, <2>6 DEF DropGuard
<1>15. CASE TruncateSum(p)
  <2>1. /\ step[p] = "truncate" /\ step' = [step EXCEPT ![p] = "sum"] /\ Cached
        /\ UNCHANGED <<env, editing, pc, queue, interruptions>> /\ sum' = [sum EXCEPT ![c] = FALSE]
    BY <1>1, <1>15 DEF TruncateSum
  <2>2. step'[p] = "sum" /\ Same(Other(c)) /\ Holds' /\ step' \in [Procs -> Steps]
    BY <1>0, <1>2, <1>3, <2>1 DEF Same, Holds, Steps
  <2>3. CommandInv(p)'
    BY <1>8, <1>13, <2>1, <2>2
  <2>4. interruptions' = 0 => interruptions = 0 /\ Writing(p, c)'
    BY <1>2, <1>3, <1>6, <2>1, <2>2 DEF Writing, Good, Same
  <2>5. FreshInv(p)'
    BY <1>9, <1>10, <2>1, <2>2, <2>3, <2>4
  <2>6. interruptions' = 1 => Ends(p)'
    <3>1. Copy(p)' = c /\ (Good(Other(c)) => Good(Other(c))')
      BY <1>1, <2>1, <2>2 DEF Copy, Good, Same
    <3>2. interruptions = 1 => Ends(p)
      BY <1>0 DEF SurvivesInv
    <3>. QED
      BY <1>1, <2>1, <3>1, <3>2 DEF Ends
  <2>. QED
    BY <1>0, <1>2, <1>7, <2>1, <2>2, <2>3, <2>4, <2>5, <2>6 DEF DropGuard
\* On to the next copy, or the end.
<1>16. ASSUME UNCHANGED <<env, pc>>, NextCopy(p), step[p] \notin {"lock", "env"}
       PROVE  /\ CommandInv(p)' /\ step'[p] = "lock" /\ queue'[p] = Tail(queue[p])
              /\ DOMAIN queue' = Procs /\ step' \in [Procs -> Steps]
              /\ pc[p] = "finish" => IF c = 1 THEN First(p) /\ Second(p)' /\ queue'[p] # << >>
                                     ELSE Second(p) /\ Written(p)'
  <2>1. step'[p] = "lock" /\ queue'[p] = Tail(queue[p]) /\ DOMAIN queue' = Procs /\ step' \in [Procs -> Steps]
    BY <1>0, <1>2, <1>16 DEF NextCopy, Steps
  <2>2. pc[p] \in {"decide", "save"} => Quiet(p)' \/ Repairing(p)'
    BY <1>0, <1>1, <2>1, Others DEF Quiet, Repairing, Kept
  <2>3. pc[p] = "finish" /\ c = 1 => First(p) /\ Second(p)' /\ queue'[p] # << >>
    BY <1>1, <1>4, <1>16, <2>1, Queues DEF First, Second
  <2>4. pc[p] = "finish" /\ c = 2 => Second(p) /\ Written(p)'
    BY <1>1, <1>4, <1>16, <2>1, Queues DEF Second, Written, Quiet
  <2>5. CommandInv(p)'
    BY <1>0, <1>1, <1>5, <1>16, <2>2, <2>3, <2>4, Others DEF CommandInv
  <2>. QED
    BY <2>1, <2>3, <2>4, <2>5, Others
<1>17. CASE WriteSum(p)
  <2>1. /\ step[p] = "sum" /\ NextCopy(p) /\ DropGuard
        /\ UNCHANGED <<env, editing, pc, interruptions>> /\ sum' = [sum EXCEPT ![c] = TRUE]
    BY <1>1, <1>17 DEF WriteSum, NextCopy, DropGuard
  <2>2. sum'[c] /\ Same(Other(c)) /\ Holds'
    BY <1>0, <1>2, <1>3, <2>1 DEF Same, Holds
  <2>3. /\ CommandInv(p)' /\ step'[p] = "lock" /\ queue'[p] = Tail(queue[p])
        /\ DOMAIN queue' = Procs /\ step' \in [Procs -> Steps]
        /\ pc[p] = "finish" => IF c = 1 THEN First(p) /\ Second(p)' /\ queue'[p] # << >>
                               ELSE Second(p) /\ Written(p)'
    BY <1>16, <2>1
  <2>4. FreshInv(p)'
    <3>1. SUFFICES ASSUME interruptions = 0 PROVE FreshInv(p)'
      BY <2>1 DEF FreshInv
    <3>2. Good(c)' /\ Good(Other(c))' /\ pc'[p] = "finish"
      BY <1>6, <2>1, <2>2, <3>1 DEF Writing, Good, Same
    <3>3. Good(1)' /\ Good(2)'
      BY <3>2, Others
    <3>4. CASE c = 1
      <4>1. Writing(p, 2)'
        BY <2>3, <3>3, Others DEF Writing, Good
      <4>2. Second(p)'
        BY <1>6, <2>3, <3>1, <3>4
      <4>. QED
        BY <3>2, <4>1, <4>2 DEF FreshInv
    <3>5. CASE c = 2
      <4>1. Written(p)'
        BY <1>6, <2>3, <3>1, <3>5
      <4>. QED
        BY <3>2, <3>3, <4>1 DEF FreshInv
    <3>. QED
      BY <3>4, <3>5, Others
  <2>5. interruptions' = 1 => IF queue'[p] = << >> THEN SomeGood' ELSE Ends(p)'
    <3>1. queue'[p] # << >> => Ends(p)'
      BY <2>3 DEF Ends
    <3>2. ASSUME interruptions = 1, Tail(queue[p]) = << >>
          PROVE  Good(c)' \/ Good(Other(c))'
      BY <1>0, <1>1, <2>1, <2>2, <3>2 DEF SurvivesInv, Ends, Good, Same
    <3>. QED
      BY <2>1, <2>3, <3>1, <3>2, Others DEF SomeGood
  <2>. QED
    BY <1>0, <1>2, <1>7, <2>1, <2>2, <2>3, <2>4, <2>5
<1>18. CASE SumFails(p)
  <2>1. /\ step[p] \in {"truncate", "sum"} /\ NextCopy(p) /\ DropGuard
        /\ UNCHANGED <<env, editing, sum, pc>> /\ interruptions' = interruptions + 1
    BY <1>18 DEF SumFails, NextCopy, DropGuard, Interrupt
  <2>2. Same(Other(c)) /\ Holds'
    BY <1>2, <2>1 DEF Same, Holds
  <2>3. /\ CommandInv(p)' /\ step'[p] = "lock" /\ queue'[p] = Tail(queue[p])
        /\ DOMAIN queue' = Procs /\ step' \in [Procs -> Steps]
    BY <1>16, <2>1
  <2>4. FreshInv(p)'
    BY <1>2, <1>10, <2>1
  <2>5. interruptions' = 1 => IF queue'[p] = << >> THEN SomeGood' ELSE Ends(p)'
    BY <1>2, <1>6, <2>1, <2>2, <2>3, Others DEF Ends, SomeGood, Good, Same
  <2>. QED
    BY <1>0, <1>2, <1>7, <2>1, <2>2, <2>3, <2>4, <2>5
<1>19. CASE EnvFails(p)
  <2>1. step[p] = "env" /\ UNCHANGED <<env, editing, sum>> /\ interruptions' = interruptions + 1
    BY <1>19 DEF EnvFails, Interrupt
  <2>2. Same(Other(c)) /\ Holds'
    BY <1>2, <2>1 DEF Same, Holds
  <2>3. FreshInv(p)'
    BY <1>2, <1>10, <2>1
  <2>4. CASE pc[p] = "finish"
    <3>1. /\ queue' = [queue EXCEPT ![p] = << >>] /\ step' = [step EXCEPT ![p] = "lock"]
          /\ pc' = [pc EXCEPT ![p] = "idle"] /\ DropGuard
      BY <1>19, <2>4 DEF EnvFails, Goto
    <3>2. /\ queue'[p] = << >> /\ step'[p] = "lock" /\ pc'[p] = "idle"
          /\ DOMAIN queue' = Procs /\ step' \in [Procs -> Steps]
      BY <1>0, <1>2, <3>1 DEF Steps
    <3>3. CommandInv(p)'
      BY <3>2 DEF CommandInv, Quiet
    <3>4. interruptions' = 1 => SomeGood'
      BY <1>2, <1>6, <2>1, <2>2, Others DEF SomeGood, Good, Same
    <3>. QED
      BY <1>0, <1>2, <1>7, <2>1, <2>2, <2>3, <3>1, <3>2, <3>3, <3>4
  <2>5. CASE pc[p] # "finish"
    <3>1. step' = [step EXCEPT ![p] = "unlock"] /\ UNCHANGED <<left, queue, pc>>
      BY <1>19, <2>5 DEF EnvFails
    <3>2. step'[p] = "unlock" /\ step' \in [Procs -> Steps]
      BY <1>0, <1>2, <3>1 DEF Steps
    <3>3. CommandInv(p)'
      BY <1>8, <2>1, <2>2, <2>5, <3>1, <3>2
    <3>4. Ends(p)'
      BY <3>2 DEF Ends
    <3>. QED
      BY <1>0, <1>2, <1>7, <2>1, <2>2, <2>3, <3>1, <3>2, <3>3, <3>4
  <2>. QED
    BY <2>4, <2>5
<1>. QED
  BY <1>11, <1>12, <1>14, <1>15, <1>17, <1>18, <1>19 DEF Write

-----------------------------------------------------------------------------
(* Kills, power and the bootloader.                                        *)

LEMMA SomeoneGood ==
    ASSUME OneCommand, IInv, interruptions = 0
    PROVE  SomeGood /\ ((\A q \in Procs : queue[q] = << >>) => Intact)
<1>1. ASSUME NEW q \in Procs, pc[q] = "finish"
      PROVE  SomeGood /\ (queue[q] = << >> => Intact)
  <2>1. FreshInv(q)
    BY DEF IInv
  <2>2. CASE First(q) /\ Writing(q, 1)
    BY <2>2, Queues, Others DEF Writing, SomeGood, First, Both
  <2>3. CASE Second(q) /\ Writing(q, 2)
    BY <2>3, Queues, Others DEF Writing, SomeGood, Second
  <2>4. CASE Written(q) /\ Good(1) /\ Good(2)
    BY <2>4 DEF SomeGood, Intact, Written
  <2>. QED
    BY <1>1, <2>1, <2>2, <2>3, <2>4 DEF FreshInv
<1>2. CASE \A q \in Procs : pc[q] # "finish"
  BY <1>2 DEF IInv, SurvivesInv, Intact, SomeGood
<1>. QED
  BY <1>1, <1>2

\* All commands end: what remains is what they left of the copies.
LEMMA Stopped ==
    ASSUME IInv, \A q \in Procs : pc'[q] = "idle" /\ queue'[q] = << >> /\ step'[q] = "lock",
           TypeInv', SyncInv', UNCHANGED <<op, saw, expected>>, running' \in {running, NoGroup},
           interruptions' = 0 => Intact',
           interruptions' = 1 => SomeGood' \/ Copies \subseteq lost',
           expected # NoGroup => \A c \in Copies : \A e \in envLeft'[c] : Kept(e)
    PROVE  IInv'
<1>1. SurvivesInv'
  BY DEF SurvivesInv
<1>2. ExpectedInv'
  BY DEF IInv, ExpectedInv, Kept
<1>3. ASSUME NEW q \in Procs
      PROVE  CommandInv(q)' /\ FreshInv(q)'
  BY DEF CommandInv, FreshInv, Quiet
<1>. QED
  BY <1>1, <1>2, <1>3 DEF IInv

LEMMA KillStep ==
    ASSUME OneCommand, IInv, NEW p \in Procs, Kill(p)
    PROVE  IInv'
<1>. USE DEF copies, left
<1>0. TypeInv /\ SyncInv /\ SurvivesInv /\ ExpectedInv /\ CommandInv(p) /\ Procs = {p}
  BY Alone DEF IInv
<1>1. /\ UNCHANGED <<copies, left, running, op, saw, lost, before, expected>>
      /\ pc'[p] = "idle" /\ queue'[p] = << >> /\ step'[p] = "lock" /\ DOMAIN queue' = Procs
      /\ pc' \in [Procs -> {"idle"}] /\ step' \in [Procs -> {"lock"}]
      /\ interruptions' = IF queue[p] # << >> THEN interruptions + 1 ELSE interruptions
      /\ running # NoGroup
  BY <1>0 DEF Kill, Goto, Proceed, Interrupt, TypeInv, CommandInv
<1>2. interruptions \in Nat /\ lost = {}
  BY <1>0, <1>1 DEF TypeInv
<1>3. TypeInv' /\ SyncInv'
  BY <1>0, <1>1 DEF TypeInv, Steps, SyncInv, InSync, Good
<1>4. interruptions' = 0 => Intact'
  BY <1>0, <1>1, <1>2, SomeoneGood DEF Intact, Good
<1>5. interruptions' = 1 => SomeGood'
  <2>1. interruptions = 1 /\ queue[p] = << >> => SomeGood
    BY <1>0, <1>2, Others DEF SurvivesInv
  <2>2. interruptions' = 1 => SomeGood
    BY <1>1, <1>2, <2>1, SomeoneGood
  <2>. QED
    BY <1>1, <2>2 DEF SomeGood, Good
<1>6. expected # NoGroup => \A c \in Copies : \A e \in envLeft'[c] : Kept(e)
  BY <1>0, <1>1 DEF ExpectedInv
<1>. QED
  BY <1>0, <1>1, <1>3, <1>4, <1>5, <1>6, Stopped

LEMMA WritebackStep ==
    ASSUME OneCommand, IInv, Writeback
    PROVE  IInv'
<1>. USE DEF copies, history
<1>0. TypeInv /\ SyncInv /\ SurvivesInv /\ ExpectedInv
  BY DEF IInv
<1>1. Synced /\ UNCHANGED <<env, editing, sum, running, pc, op, saw, queue, step, interruptions, lost, before, expected>>
  BY DEF Writeback
<1>2. Holds'
  BY <1>0, <1>1, Types DEF Holds
<1>3. TypeInv'
  BY <1>0, <1>1, <1>2, SyncedCopies DEF TypeInv, LeftTypes
<1>4. SyncInv'
  <2>1. interruptions = 0 => SomeGood'
    BY <1>1, SomeoneGood DEF SomeGood, Good
  <2>. QED
    BY <1>1, <1>2, <2>1, SyncedCopies, Others DEF SyncInv, SomeGood
<1>5. SurvivesInv'
  <2>1. \A q \in Procs : Ends(q)' <=> Ends(q)
    BY <1>1 DEF Ends, Copy, Good, Other
  <2>. QED
    BY <1>0, <1>1, <2>1 DEF SurvivesInv, Intact, SomeGood, Good
<1>6. ExpectedInv'
  <2>1. ASSUME expected # NoGroup
        PROVE  \A c \in Copies : Kept(env'[c])
    BY <1>0, <1>1, <2>1, ChoiceExpected
  <2>. QED
    BY <1>0, <1>1, <1>2, <2>1, ExpectedStep DEF DropGuard
<1>7. ASSUME NEW q \in Procs
      PROVE  CommandInv(q)' /\ FreshInv(q)'
  <2>0. CommandInv(q) /\ FreshInv(q)
    BY DEF IInv
  <2>1. NewEnv(q)' = NewEnv(q)
    BY <1>1 DEF NewEnv
  <2>2. /\ First(q)' <=> First(q)
        /\ Second(q)' <=> Second(q)
        /\ Written(q)' <=> Written(q)
        /\ Quiet(q)' <=> Quiet(q)
    BY <1>1, <2>1 DEF First, Second, Written, Quiet, Both
  <2>3. Repairing(q)' <=> Repairing(q)
    BY <1>1 DEF Repairing, Kept, Both
  <2>4. \A c \in Copies : Writing(q, c)' <=> Writing(q, c)
    BY <1>1 DEF Writing, Good, Other
  <2>5. (Good(1)' <=> Good(1)) /\ (Good(2)' <=> Good(2)) /\ (Intact' <=> Intact)
    BY <1>1 DEF Good, Intact
  <2>. QED
    BY <1>1, <2>0, <2>2, <2>3, <2>4, <2>5, Others DEF CommandInv, FreshInv
<1>. QED
  BY <1>3, <1>4, <1>5, <1>6, <1>7 DEF IInv

LEMMA DownStep ==
    ASSUME OneCommand, IInv, Reboot \/ PowerFails
    PROVE  IInv'
<1>. USE DEF copies
<1>0. TypeInv /\ SyncInv /\ SurvivesInv /\ ExpectedInv
  BY DEF IInv
<1>1. /\ running # NoGroup /\ running' = NoGroup /\ lost = {} /\ interruptions \in Nat
      /\ UNCHANGED <<op, saw, expected>> /\ Synced
      /\ \A q \in Procs : pc'[q] = "idle" /\ queue'[q] = << >> /\ step'[q] = "lock"
      /\ DOMAIN queue' = Procs /\ pc' \in [Procs -> {"idle"}] /\ step' \in [Procs -> {"lock"}]
      /\ interruptions' \in {interruptions, interruptions + 1}
      /\ interruptions' = interruptions => \A q \in Procs : queue[q] = << >>
  BY <1>0 DEF Reboot, PowerFails, Down, Interrupt, TypeInv
<1>2. /\ Holds' /\ \A c \in Copies : env'[c] \in envLeft[c]
      /\ \/ \A c \in Copies : Same(c)
         \/ /\ interruptions' = interruptions + 1 /\ lost' = Unsynced
            /\ \A c \in Copies : InSync(c) => Same(c)
  <2>1. CASE Reboot
    <3>1. UNCHANGED <<env, editing, sum>>
      BY <2>1 DEF Reboot
    <3>. QED
      BY <1>0, <3>1 DEF Same, TypeInv, Holds
  <2>2. CASE PowerFails
    <3>1. /\ Holds' /\ lost' = Unsynced
          /\ \A c \in Copies : env'[c] \in envLeft[c] /\ editing'[c] \in editingLeft[c] /\ sum'[c] \in sumLeft[c]
          /\ interruptions' = interruptions => Unsynced = {}
      BY <1>1, <2>2 DEF PowerFails, Holds, Interrupt
    <3>2. \A c \in Copies : InSync(c) => Same(c)
      BY <3>1 DEF InSync, Same
    <3>3. Unsynced = {} => \A c \in Copies : InSync(c)
      BY DEF Unsynced
    <3>. QED
      BY <1>1, <3>1, <3>2, <3>3
  <2>. QED
    BY <2>1, <2>2
<1>3. TypeInv' /\ SyncInv' <=> TypeInv' /\ (interruptions' = 0 => SomeGood')
  BY <1>1, <1>2, SyncedCopies, Others DEF SyncInv, SomeGood
<1>4. TypeInv'
  BY <1>0, <1>1, <1>2, SyncedCopies DEF TypeInv, Holds, LeftTypes, Steps
<1>5. \A c \in Copies : Same(c) => (Good(c)' <=> Good(c))
  BY DEF Same, Good
<1>6. interruptions' = 0 => Intact' /\ SomeGood'
  <2>1. interruptions' = 0 => Intact /\ \A c \in Copies : Same(c)
    BY <1>1, <1>2, SomeoneGood
  <2>. QED
    BY <1>5, <2>1, Others DEF Intact, Same, SomeGood
<1>7. interruptions' = 1 => SomeGood' \/ Copies \subseteq lost'
  <2>1. CASE \A c \in Copies : Same(c)
    <3>1. interruptions' = 1 => SomeGood
      BY <1>0, <1>1, SomeoneGood, Others DEF SurvivesInv
    <3>. QED
      BY <1>5, <2>1, <3>1, Others DEF SomeGood
  <2>2. CASE interruptions' = interruptions + 1 /\ lost' = Unsynced /\ \A c \in Copies : InSync(c) => Same(c)
    <3>1. interruptions = 0 /\ ~(Copies \subseteq Unsynced) => \E c \in Copies : InSync(c) /\ Good(c)
      BY <1>0 DEF SyncInv, Unsynced
    <3>. QED
      BY <1>1, <1>5, <2>2, <3>1, Others DEF SomeGood
  <2>. QED
    BY <1>2, <2>1, <2>2
<1>8. expected # NoGroup => \A c \in Copies : \A e \in envLeft'[c] : Kept(e)
  BY <1>0, <1>1, <1>2, SyncedCopies DEF ExpectedInv
<1>. QED
  BY <1>1, <1>3, <1>4, <1>6, <1>7, <1>8, Stopped

LEMMA BootStep ==
    ASSUME OneCommand, IInv, Boot
    PROVE  IInv'
<1>. DEFINE e == LoaderEnv
            n == IF ~e.upgrade THEN e
                 ELSE IF e.count = 0 THEN [e EXCEPT !.count = 1]
                 ELSE [part |-> 1 - e.part, upgrade |-> FALSE, count |-> 0]
<1>0. /\ TypeInv /\ SurvivesInv /\ ExpectedInv /\ (\E c \in Copies : Good(c))
      /\ e \in Envs /\ env \in [Copies -> Envs] /\ sum \in [Copies -> BOOLEAN]
  BY EnvTypes, Others DEF IInv, TypeInv, LoaderEnv, Boot
<1>1. /\ running = NoGroup /\ editing' = [c \in Copies |-> FALSE] /\ lost' = {} /\ Synced
      /\ env' = [c \in Copies |-> IF e.upgrade \/ ~Good(c) THEN n ELSE env[c]]
      /\ running' \in {n.part, NoGroup} /\ (~n.upgrade => running' = n.part)
      /\ UNCHANGED <<sum, pc, op, saw, queue, step, interruptions, before, expected>>
  BY DEF Boot
<1>2. n \in Envs /\ (~e.upgrade => n = e)
  BY <1>0 DEF Envs, Groups
<1>. HIDE DEF e, n
<1>3. Holds'
  BY <1>0, <1>1, <1>2 DEF Holds
<1>4. TypeInv'
  <2>1. n.part \in Groups
    BY <1>2 DEF Envs
  <2>. QED
    BY <1>0, <1>1, <1>3, <2>1, SyncedCopies DEF TypeInv, LeftTypes
<1>5. \A p \in Procs : pc[p] = "idle" /\ Quiet(p)
  BY <1>1 DEF IInv, CommandInv
<1>6. \A c \in Copies : Good(c) => Good(c)'
  BY <1>0, <1>1 DEF Good
<1>7. SyncInv'
  BY <1>0, <1>1, <1>3, <1>6, SyncedCopies DEF SyncInv
<1>8. interruptions = 0 => Intact'
  <2>1. interruptions = 0 => Intact
    BY <1>0, <1>5 DEF SurvivesInv
  <2>2. Intact => env'[1] = env'[2]
    BY <1>1, Others DEF Intact
  <2>. QED
    BY <1>6, <2>1, <2>2, Others DEF Intact
<1>9. SurvivesInv'
  <2>1. SomeGood'
    BY <1>0, <1>6, Others DEF SomeGood
  <2>. QED
    BY <1>1, <1>5, <1>8, <2>1 DEF SurvivesInv, Quiet
<1>10. ExpectedInv'
  <2>1. ASSUME expected # NoGroup
        PROVE  running' = expected /\ \A c \in Copies : \A f \in envLeft'[c] : Kept(f)
    <3>1. Kept(e) /\ \A c \in Copies : Kept(env[c])
      BY <1>0, <2>1, ChoiceExpected DEF e
    <3>2. n = e
      BY <1>2, <3>1 DEF Kept
    <3>3. running' = expected /\ \A c \in Copies : Kept(env'[c])
      BY <1>1, <3>1, <3>2 DEF Kept
    <3>. QED
      BY <1>1, <1>3, <3>3, SyncedCopies
  <2>. QED
    BY <1>1, <1>5, <2>1 DEF ExpectedInv, Kept
<1>11. ASSUME NEW p \in Procs
       PROVE  CommandInv(p)' /\ FreshInv(p)'
  BY <1>1, <1>5, <1>8 DEF CommandInv, FreshInv, Quiet
<1>. QED
  BY <1>4, <1>7, <1>9, <1>10, <1>11 DEF IInv

-----------------------------------------------------------------------------
(* The invariant.                                                          *)

LEMMA InitInv == Init => IInv
<1>. SUFFICES ASSUME Init PROVE IInv
  OBVIOUS
<1>1. Factory \in Envs /\ Info \in Ops
  BY DEF Factory, Envs, Info, Ops, Groups
<1>2. TypeInv
  BY <1>1 DEF Init, TypeInv, Groups, Steps
<1>3. Intact
  BY Others DEF Init, Intact, Good
<1>4. SyncInv
  BY <1>3, Others DEF Init, SyncInv, Intact, InSync
<1>5. SurvivesInv /\ ExpectedInv
  BY <1>3 DEF Init, SurvivesInv, ExpectedInv
<1>6. \A p \in Procs : CommandInv(p) /\ FreshInv(p)
  BY <1>3 DEF Init, CommandInv, FreshInv, Quiet
<1>. QED
  BY <1>2, <1>4, <1>5, <1>6 DEF IInv

LEMMA StutterStep ==
    ASSUME IInv, UNCHANGED vars
    PROVE  IInv'
<1>. USE DEF vars, copies, left, history
<1>1. TypeInv' /\ SyncInv' /\ ExpectedInv'
  BY DEF IInv, TypeInv, SyncInv, InSync, Good, ExpectedInv, Kept
<1>2. SurvivesInv'
  BY DEF IInv, SurvivesInv, Intact, SomeGood, Ends, Copy, Good, Other
<1>3. ASSUME NEW q \in Procs
      PROVE  CommandInv(q)' /\ FreshInv(q)'
  <2>0. CommandInv(q) /\ FreshInv(q)
    BY DEF IInv
  <2>1. NewEnv(q)' = NewEnv(q)
    BY DEF NewEnv
  <2>2. /\ First(q)' <=> First(q)
        /\ Second(q)' <=> Second(q)
        /\ Written(q)' <=> Written(q)
        /\ Quiet(q)' <=> Quiet(q)
    BY <2>1 DEF First, Second, Written, Quiet, Both
  <2>3. Repairing(q)' <=> Repairing(q)
    BY DEF Repairing, Kept, Both
  <2>4. \A c \in Copies : Writing(q, c)' <=> Writing(q, c)
    BY DEF Writing, Good, Other
  <2>5. (Good(1)' <=> Good(1)) /\ (Good(2)' <=> Good(2)) /\ (Intact' <=> Intact)
    BY DEF Good, Intact
  <2>. QED
    BY <2>0, <2>2, <2>3, <2>4, <2>5, Others DEF CommandInv, FreshInv
<1>. QED
  BY <1>1, <1>2, <1>3 DEF IInv

LEMMA StepInv ==
    ASSUME OneCommand, IInv, [Next]_vars
    PROVE  IInv'
BY CommandStep, WriteStep, KillStep, WritebackStep, DownStep, BootStep, StutterStep DEF Next

LEMMA Invariance ==
    ASSUME OneCommand
    PROVE  Spec => []IInv
<1>1. IInv /\ [Next]_vars => IInv'
  BY StepInv
<1>. QED
  BY <1>1, InitInv, PTL DEF Spec

-----------------------------------------------------------------------------
(* The theorems.                                                           *)

\* At every step of a command the bootloader has a copy it trusts, and after one
\* interruption or failing write it still has one when the device is down, unless power
\* failed with unsynced writes to both copies.
THEOREM OneCopyAlwaysUnlocked ==
    ASSUME OneCommand
    PROVE  Spec => []OneCopyUnlocked
<1>1. IInv => OneCopyUnlocked
  <2>. SUFFICES ASSUME IInv,
                       \/ interruptions = 0
                       \/ interruptions <= 1 /\ running = NoGroup /\ ~(Copies \subseteq lost)
                PROVE  \E c \in Copies : Good(c)
    BY DEF OneCopyUnlocked
  <2>1. interruptions \in Nat
    BY DEF IInv, TypeInv
  <2>2. CASE interruptions = 0
    BY <2>2, SomeoneGood, Others DEF SomeGood
  <2>3. CASE interruptions = 1
    <3>1. \A q \in Procs : queue[q] = << >>
      BY <2>3 DEF IInv, CommandInv, Quiet
    <3>. QED
      BY <2>3, <3>1, Others DEF IInv, SurvivesInv, SomeGood
  <2>. QED
    BY <2>1, <2>2, <2>3
<1>. QED
  BY <1>1, Invariance, PTL

\* A commit that has succeeded and reached the disk stays the default until another group
\* is asked for, through repairs, failing writes, power failures and boots.
THEOREM CommitsLast ==
    ASSUME OneCommand
    PROVE  Spec => []CommitMakesDefault
<1>1. IInv => CommitMakesDefault
  BY ChoiceExpected DEF IInv, CommitMakesDefault
<1>. QED
  BY <1>1, Invariance, PTL

\* While nothing was interrupted and no write failed, get_default and the bootloader find
\* the old environment or the new one at every step of a command.
THEOREM UpdatesAreAtomic ==
    ASSUME OneCommand
    PROVE  Spec => UpdateIsAtomic
<1>1. ASSUME IInv, [Next]_vars, interruptions = 0, running # NoGroup, running' # NoGroup
      PROVE  {BootEnv', LoaderEnv'}
                \subseteq {BootEnv, before} \cup {NewEnv(q) : q \in {r \in Procs : pc[r] = "finish"}}
  <2>0. /\ TypeInv /\ editing \in [Copies -> BOOLEAN] /\ sum \in [Copies -> BOOLEAN] /\ env \in [Copies -> Envs]
    BY <1>1 DEF IInv, TypeInv
  <2>1. /\ ~editing[1] => BootEnv = env[1]
        /\ editing[1] /\ ~editing[2] => BootEnv = env[2]
        /\ Good(1) => LoaderEnv = env[1]
        /\ ~Good(1) /\ Good(2) => LoaderEnv = env[2]
    BY <1>1, Choice DEF IInv, LoaderEnv
  <2>2. /\ ~editing'[1] => BootEnv' = env'[1]
        /\ editing'[1] /\ ~editing'[2] => BootEnv' = env'[2]
        /\ Good(1)' => LoaderEnv' = env'[1]
        /\ ~Good(1)' /\ Good(2)' => LoaderEnv' = env'[2]
    BY DEF BootEnv, LoaderEnv
  <2>3. ASSUME NEW p \in Procs, pc[p] = "finish", FreshInv(p)
        PROVE  {BootEnv, LoaderEnv} \subseteq {before, NewEnv(p)}
    <3>1. CASE First(p) /\ Writing(p, 1) /\ env[2] = before /\ (step[p] \in {"lock", "env"} => env[1] = before)
      BY <2>1, <3>1, Others DEF First, Writing, Good
    <3>2. CASE Second(p) /\ Writing(p, 2)
      BY <2>1, <3>2, Others DEF Second, Writing, Good
    <3>3. CASE Written(p) /\ Good(1) /\ Good(2)
      BY <2>1, <3>3 DEF Written, Good
    <3>. QED
      BY <1>1, <2>3, <3>1, <3>2, <3>3 DEF FreshInv
  <2>4. ASSUME UNCHANGED copies
        PROVE  {BootEnv', LoaderEnv'}
                  \subseteq {BootEnv, before} \cup {NewEnv(q) : q \in {r \in Procs : pc[r] = "finish"}}
    <3>1. BootEnv' = BootEnv /\ LoaderEnv' = LoaderEnv
      BY <2>4 DEF BootEnv, LoaderEnv, Good, copies
    <3>2. CASE \E q \in Procs : pc[q] = "finish"
      BY <1>1, <2>3, <3>1, <3>2 DEF IInv
    <3>3. CASE \A q \in Procs : pc[q] # "finish"
      BY <1>1, <2>1, <3>1, <3>3 DEF IInv, SurvivesInv, Intact, Good
    <3>. QED
      BY <3>2, <3>3
  <2>5. ASSUME NEW p \in Procs, Write(p)
        PROVE  {BootEnv', LoaderEnv'}
                  \subseteq {BootEnv, before} \cup {NewEnv(q) : q \in {r \in Procs : pc[r] = "finish"}}
    <3>1. queue[p] # << >> /\ NewEnv(p)' = NewEnv(p) /\ before' = before
      BY <2>5 DEF Write, Lock, WriteEnv, Unlock, TruncateSum, WriteSum, At, NewEnv, history
    <3>2. pc[p] = "finish" /\ FreshInv(p)' /\ pc'[p] = "finish"
      <4>1. pc[p] = "finish"
        BY <1>1, <3>1 DEF IInv, FreshInv, Quiet
      <4>2. pc'[p] = "finish"
        BY <2>5, <4>1 DEF Write, Lock, WriteEnv, Unlock, TruncateSum, WriteSum
      <4>. QED
        BY <1>1, <4>1, <4>2, StepInv DEF IInv
    <3>3. CASE UNCHANGED copies
      BY <2>4, <3>3
    <3>4. CASE interruptions' = 0
      <4>1. CASE First(p)' /\ Writing(p, 1)' /\ env'[2] = before /\ (step'[p] \in {"lock", "env"} => env'[1] = before)
        <5>1. {BootEnv', LoaderEnv'} \subseteq {before, NewEnv(p)}
          BY <2>2, <3>1, <4>1, Others DEF First, Writing, Good
        <5>. QED
          BY <3>2, <5>1
      <4>2. CASE Second(p)' /\ Writing(p, 2)'
        <5>1. BootEnv' = NewEnv(p) /\ LoaderEnv' = NewEnv(p)
          BY <2>2, <3>1, <4>2, Others DEF Second, Writing, Good
        <5>. QED
          BY <3>2, <5>1
      <4>3. CASE Written(p)' /\ Good(1)' /\ Good(2)'
        <5>1. BootEnv' = NewEnv(p) /\ LoaderEnv' = NewEnv(p)
          BY <2>2, <3>1, <4>3 DEF Written, Good
        <5>. QED
          BY <3>2, <5>1
      <4>. QED
        BY <3>1, <3>2, <3>4, <4>1, <4>2, <4>3 DEF FreshInv
    <3>5. interruptions' = 0 \/ UNCHANGED copies
      BY <1>1, <2>5 DEF Write, Lock, WriteEnv, Unlock, TruncateSum, WriteSum, copies, history
    <3>. QED
      BY <3>3, <3>4, <3>5
  <2>6. ASSUME NEW p \in Procs, Command(p) \/ EnvFails(p) \/ SumFails(p) \/ Kill(p)
        PROVE  UNCHANGED copies
    BY <2>6 DEF Command, Start, Get, Decide, LoadAgain, Save, Finish, EnvFails, SumFails, Kill
  <2>7. Writeback \/ UNCHANGED vars => UNCHANGED copies
    BY DEF Writeback, vars
  <2>8. ~Reboot /\ ~PowerFails /\ ~Boot
    BY <1>1 DEF Reboot, PowerFails, Down, Boot
  <2>. QED
    BY <1>1, <2>4, <2>5, <2>6, <2>7, <2>8 DEF Next
<1>2. IInv /\ [Next]_vars =>
        [interruptions = 0 /\ running # NoGroup /\ running' # NoGroup =>
            {BootEnv', LoaderEnv'}
                \subseteq {BootEnv, before} \cup {NewEnv(q) : q \in {r \in Procs : pc[r] = "finish"}}]_vars
  BY <1>1
<1>. QED
  BY <1>2, Invariance, PTL DEF Spec, UpdateIsAtomic
=============================================================================
