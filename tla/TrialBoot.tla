------------------------------ MODULE TrialBoot ------------------------------
(***************************************************************************)
(* Trial boots under the boot flows for existing RAUC and Mender devices,  *)
(* which keep their state in bootloader variables that every boot changes  *)
(* and that `rugix-ctrl boot mark-good` has to set back.  The boot flow is *)
(* a parameter, one operator per method of the trait BootFlow.             *)
(***************************************************************************)
EXTENDS Integers, FiniteSets

CONSTANTS
    NumGroups,
    MaxEarlyCuts,      \* bound: power failures before the default is marked good

    BootEnvs, InitEnv,
    SetTryNext(_, _, _), \* set_try_next(group), given what get_default returns
    Defaults(_),         \* what get_default may return; empty if it fails
    CommitTo(_, _),
    MarkGood(_, _),
    MarkBad(_, _),
    Attempts(_),         \* the boot attempts the bootloader may make next
    GoodAttempts         \* how many mark_good gives a group

Groups == 0 .. (NumGroups - 1)
NoGroup == -1
NotAsked == -1

ASSUME Constants ==
    /\ NumGroups \in Nat /\ NumGroups >= 2 /\ MaxEarlyCuts \in Nat
    /\ GoodAttempts \in Nat /\ GoodAttempts >= 1

VARIABLES
    env,
    running,
    settled,   \* whether the running fallback has been marked good
    fallback,  \* history: the group last committed, or marked good while it ran
    armed,     \* history: the attempts somebody asked for that have not been made yet;
               \* NotAsked if no set_try_next has named the group since the last commit
    earlyCuts

vars == <<env, running, settled, fallback, armed, earlyCuts>>

TypeOK ==
    /\ env \in BootEnvs
    /\ running \in Groups \cup {NoGroup}
    /\ settled \in BOOLEAN
    /\ fallback \in Groups /\ armed \in [Groups -> NotAsked .. GoodAttempts]
    /\ earlyCuts \in 0 .. MaxEarlyCuts

Init ==
    /\ env = InitEnv
    /\ running = NoGroup /\ settled = FALSE
    /\ fallback = 0 /\ armed = [g \in Groups |-> NotAsked]
    /\ earlyCuts = 0

\* `boot mark-good`, of the active group or of any other.  A group that has been tried
\* gets its attempts back; one that is marked while it runs is the one to fall back to.
MarkGroupGood ==
    /\ running # NoGroup
    /\ \E g \in Groups :
        /\ env' = MarkGood(env, g)
        /\ settled' = (settled \/ g = running)
        /\ fallback' = IF g = running THEN g ELSE fallback
        /\ armed' = [armed EXCEPT ![g] = IF g = running \/ @ = NotAsked THEN NotAsked ELSE GoodAttempts]
    /\ UNCHANGED <<running, earlyCuts>>

\* The system marks its default group good on every boot, before anything else.
Busy == running # NoGroup /\ (running = fallback => settled)

\* Any group but the default for an update, which is refused while a commit is
\* needed; the first group that is not the default for `system reboot --spare`.
TryNext ==
    /\ Busy
    /\ \E d \in Defaults(env), g \in Groups :
        /\ g # d
        /\ \/ d = running
           \/ \A h \in Groups : h < g => h = d
        /\ env' = SetTryNext(env, g, d)
        /\ armed' = [armed EXCEPT ![g] = 1]
    /\ UNCHANGED <<running, settled, fallback, earlyCuts>>

\* `system commit` does nothing unless the active group is not the default.
Commit ==
    /\ Busy
    /\ \E d \in Defaults(env) : d # running
    /\ env' = CommitTo(env, running)
    /\ fallback' = running
    /\ settled' = TRUE
    /\ armed' = [g \in Groups |-> NotAsked]
    /\ UNCHANGED <<running, earlyCuts>>

\* "cannot mark the active boot group as bad"; marking the fallback of a running
\* trial is left out, since nothing would be left to boot from.
MarkGroupBad ==
    /\ Busy
    /\ \E g \in Groups \ {running, fallback} :
        /\ env' = MarkBad(env, g)
        /\ armed' = [armed EXCEPT ![g] = IF @ = NotAsked THEN NotAsked ELSE 0]
    /\ UNCHANGED <<running, settled, fallback, earlyCuts>>

GoDown ==
    /\ running' = NoGroup /\ settled' = FALSE
    /\ UNCHANGED <<env, fallback, armed>>

Down == Busy /\ GoDown /\ UNCHANGED earlyCuts

\* Power fails before the default is marked good.  Left out when set_try_next was
\* called for the default itself, which leaves it a single attempt.
EarlyPowerCut ==
    /\ running = fallback /\ ~settled /\ armed[fallback] = NotAsked
    /\ earlyCuts < MaxEarlyCuts
    /\ earlyCuts' = earlyCuts + 1
    /\ GoDown

\* The fallback boots; any other group may fail to.
Boot ==
    /\ running = NoGroup
    /\ \E a \in Attempts(env) :
        /\ env' = a.env
        /\ armed' = IF a.group = fallback THEN armed ELSE [armed EXCEPT ![a.group] = @ - 1]
        /\ running' \in IF a.group = fallback THEN {fallback} ELSE {a.group, NoGroup}
    /\ UNCHANGED <<settled, fallback, earlyCuts>>

Next == MarkGroupGood \/ TryNext \/ Commit \/ MarkGroupBad \/ Down \/ EarlyPowerCut \/ Boot

Spec == Init /\ [][Next]_vars
FairSpec == Spec /\ WF_vars(Boot)

-----------------------------------------------------------------------------

\* A group other than the fallback is booted only in an attempt that somebody asked
\* for: the one of a set_try_next ("Allow booting into the selected slot once."), or
\* those of a mark-good of a group that was tried since the last commit.  After them
\* "the bootloader should fallback to the previous default".
AttemptsAllowed ==
    running = NoGroup => \A a \in Attempts(env) : a.group = fallback \/ armed[a.group] > 0

\* With no attempt pending get_default returns the group that was last committed or
\* marked good while it ran, and nothing else ("Get the default boot group").
DefaultIsFallback ==
    settled /\ (\A g \in Groups : armed[g] <= 0) => Defaults(env) = {fallback}

\* A device that is down comes up, whatever trial it was asked to make.
ComesUp == running = NoGroup ~> running # NoGroup
=============================================================================
