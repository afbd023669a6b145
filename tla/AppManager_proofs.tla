-------------------------- MODULE AppManager_proofs --------------------------
(***************************************************************************)
(* What the state file of an application promises, for any number of       *)
(* users, generations, kills, power failures and failing orchestrators,    *)
(* as long as no two commands have held the lock at once.  The invariant   *)
(* says of every point in the commands what the state file names and what  *)
(* runs there; mutual exclusion makes it the whole story.                  *)
(***************************************************************************)
EXTENDS AppManager, TLAPS

GenOrNone == Gen \cup {None}
States == [k : {"Inactive", "Active", "Starting", "Stopping", "Switching", "Error"},
           from : GenOrNone, to : GenOrNone]
Locals == [from : GenOrNone, to : GenOrNone, target : GenOrNone,
           next : {"exit", "clean", "error", "retry", "remove"}, left : SUBSET Gen]

\* What holds of the types even if the lock has failed.
TypeInv ==
    /\ kind \in Kinds /\ state \in States
    /\ dirs \subseteq Gen /\ metas \subseteq Gen /\ activated \subseteq metas
    /\ running \subseteq Gen
    /\ overlap \in BOOLEAN /\ up \in BOOLEAN
    /\ pc \in [Procs -> Steps] /\ loc \in [Procs -> Locals]
    /\ \A p \in Procs : pc[p] \in {"payloads", "meta", "marker"} => loc[p].to \in Gen
    /\ ~up => \A p \in Procs : pc[p] = "idle"

Holding(p) == pc[p] \notin {"idle", "lock"}
OneHolder == \A p, q \in Procs : Holding(p) /\ Holding(q) => p = q

\* The state file names what runs; an active generation was activated, so it has been
\* installed to the end, and nothing else runs of a compose application.
Settled == state.k \in {"Active", "Starting", "Stopping"}
FileInv ==
    /\ running \subseteq Named \cup forgotten
    /\ state.k = "Inactive" => Named = {}
    /\ Settled => /\ state.from = None /\ state.to \in activated
                  /\ kind = "docker" => running \subseteq {state.to}
    /\ metas \subseteq whole \cup spoiled

-----------------------------------------------------------------------------
(* Where a command is in its work.                                         *)

\* An install has got as far as it says.
InstallInv(p) ==
    /\ pc[p] = "payloads" => loc[p].to \in dirs
    /\ pc[p] = "meta" => loc[p].to \in whole \cup spoiled

\* The state file shows the transition the command is in.
Recorded(p) == state = Switching(loc[p].from, loc[p].to)

SwitchInv(p) ==
    /\ pc[p] \in {"switch", "deactivate"} =>
        /\ loc[p].next = "clean" \/ (loc[p].next \in {"exit", "remove"} /\ loc[p].to = None)
        /\ running \subseteq {loc[p].from, loc[p].to} \cup forgotten
    /\ pc[p] = "deactivate" => Recorded(p) /\ loc[p].target = loc[p].to
    /\ pc[p] = "inactive" => running \subseteq forgotten /\ state.k = "Switching"

\* Before a generation is activated everything else has been stopped or forgotten, and
\* a failure leads on to where the state file still tells the truth.
ActivateInv(p) ==
    /\ pc[p] \in {"activate", "stamp", "active"} =>
        /\ state.k \in {"Switching", "Error"}
        /\ loc[p].target \in {state.from, state.to}
        /\ running \subseteq {loc[p].target} \cup forgotten
        /\ \/ loc[p].next = "clean" /\ Recorded(p) /\ loc[p].target = loc[p].to
           \/ loc[p].next = "error" /\ Recorded(p) /\ loc[p].target = loc[p].from
           \/ loc[p].next = "retry" /\ state.k = "Error" /\ loc[p].to = state.to
           \/ loc[p].next = "exit"
    /\ pc[p] \in {"stamp", "active"} /\ kind = "docker" => running \subseteq {loc[p].target}
    /\ pc[p] = "active" => loc[p].target \in activated

FailedInv(p) ==
    /\ pc[p] = "clean" => Recorded(p) /\ running \subseteq {loc[p].to} \cup forgotten
    /\ pc[p] = "error" => Recorded(p)
    /\ pc[p] = "retry" => state.k = "Error" /\ loc[p].to = state.to

\* A running generation is started, stopped, or left alone by the removal of others.
OtherInv(p) ==
    /\ pc[p] \in {"start", "stop", "settle"} =>
        state.k \in {"Starting", "Stopping"} /\ loc[p].to = state.to
    /\ pc[p] \in {"collect", "delete"} /\ Settled => state.to \notin loc[p].left
    /\ pc[p] = "delete" /\ Settled => state.to # loc[p].target
    /\ pc[p] = "remove" => ~Settled

CommandInv(p) ==
    InstallInv(p) /\ SwitchInv(p) /\ ActivateInv(p) /\ FailedInv(p) /\ OtherInv(p)

IInv ==
    /\ TypeInv
    /\ overlap \/ (OneHolder /\ FileInv /\ \A p \in Procs : CommandInv(p))

-----------------------------------------------------------------------------
(* What the orchestrators do to the workloads.  A generation that runs is  *)
(* forgotten only while it runs.                                           *)

LEMMA RunsEffect ==
    ASSUME NEW r, NEW f, Runs(r, f)
    PROVE  running' = r /\ forgotten' = (forgotten \cup f) \cap r
BY DEF Runs

LEMMA StartedBound ==
    ASSUME TypeInv, NEW g \in dirs
    PROVE  /\ Started(g) \subseteq (running \cup {g}) \cap Gen
           /\ kind = "docker" => Started(g) = {g}
BY AppAssumption DEF TypeInv, Started

LEMMA StoppedBound ==
    ASSUME NEW g
    PROVE  Stopped(g) \subseteq running \ {g}
BY DEF Stopped

LEMMA StartEffect ==
    ASSUME TypeInv, NEW g \in GenOrNone, NEW ok \in BOOLEAN, OrchestratorStart(g, ok)
    PROVE  /\ running' \subseteq (running \cup {g}) \cap Gen
           /\ forgotten \cap running' \subseteq forgotten'
           /\ ok /\ kind = "docker" => running' \subseteq {g}
<1>1. CASE ~ok /\ Unreadable(g)
  BY <1>1 DEF TypeInv, work, Unreadable
<1>2. CASE ok /\ g \in dirs /\ Runs(Started(g), {})
  BY <1>2, StartedBound DEF Runs
<1>3. CASE /\ ~ok /\ g \in dirs
           /\ \E r \in {running, IF kind = "binary" THEN running ELSE running \cup {g}} : Runs(r, {})
  BY <1>3 DEF Runs, TypeInv
<1>. QED
  BY <1>1, <1>2, <1>3 DEF OrchestratorStart

LEMMA StopEffect ==
    ASSUME NEW g, NEW ok \in BOOLEAN, OrchestratorStop(g, ok)
    PROVE  running' \subseteq running /\ forgotten \cap running' \subseteq forgotten'
<1>1. CASE ~ok /\ Unreadable(g)
  BY <1>1 DEF work, Unreadable
<1>2. CASE \E r \in {running, Stopped(g)} : Runs(r, {})
  BY <1>2, StoppedBound DEF Runs
<1>. QED
  BY <1>1, <1>2 DEF OrchestratorStop

\* What runs on after a deactivation is forgotten, unless it is spared.
LEMMA DeactivateEffect ==
    ASSUME NEW g, NEW ok \in BOOLEAN, NEW but, RunDeactivate(g, ok, but)
    PROVE  /\ running' \subseteq running /\ forgotten \cap running' \subseteq forgotten'
           /\ g \notin running' \/ running' \ but \subseteq forgotten'
<1>1. CASE Runs(running, running \ but)
  BY <1>1 DEF Runs
<1>2. CASE Runs(Stopped(g), {})
  BY <1>2, StoppedBound DEF Runs
<1>3. CASE \E r \in {running, Stopped(g)} : Runs(r, r \ but)
  BY <1>3, StoppedBound DEF Runs
<1>. QED
  BY <1>1, <1>2, <1>3 DEF RunDeactivate

-----------------------------------------------------------------------------
(* The types.                                                              *)

LEMMA TypeInit == Init => TypeInv
<1>. SUFFICES ASSUME Init PROVE TypeInv
  OBVIOUS
<1>1. state \in States /\ kind \in Kinds /\ overlap \in BOOLEAN /\ up \in BOOLEAN
  BY DEF Init, States, Inactive, GenOrNone
<1>2. loc \in [Procs -> Locals]
  BY DEF Init, NoLocals, Locals, GenOrNone
<1>3. pc \in [Procs -> Steps] /\ \A p \in Procs : pc[p] = "idle"
  BY DEF Init, Steps
<1>. QED
  BY <1>1, <1>2, <1>3 DEF Init, TypeInv

\* The part of the types that the files and the workloads contribute.
FilesTyped == dirs \subseteq Gen /\ metas \subseteq Gen /\ activated \subseteq metas /\ running \subseteq Gen

\* A command that goes on at l, with well-typed locals.
LEMMA GoesOn ==
    ASSUME TypeInv, NEW p \in Procs, NEW l \in Steps, Goto(p, l), up, up' = up, kind' = kind,
           NEW locals \in Locals, loc' = [loc EXCEPT ![p] = locals],
           l \in {"payloads", "meta", "marker"} => locals.to \in Gen,
           state' \in States, FilesTyped', overlap' \in BOOLEAN
    PROVE  TypeInv'
BY DEF TypeInv, FilesTyped, Goto

LEMMA Stays ==
    ASSUME TypeInv, NEW p \in Procs, NEW l \in Steps, Goto(p, l), up, up' = up, kind' = kind,
           loc' = loc,
           l \in {"payloads", "meta", "marker"} => loc[p].to \in Gen,
           state' \in States, FilesTyped', overlap' \in BOOLEAN
    PROVE  TypeInv'
BY DEF TypeInv, FilesTyped, Goto

LEMMA Exits ==
    ASSUME TypeInv, NEW p \in Procs, Exit(p), up, up' = up, kind' = kind,
           state' \in States, FilesTyped', overlap' \in BOOLEAN
    PROVE  TypeInv'
<1>1. NoLocals \in Locals /\ "idle" \in Steps
  BY DEF NoLocals, Locals, GenOrNone, Steps
<1>. QED
  BY <1>1, GoesOn DEF Exit

LEMMA StateTypes ==
    ASSUME NEW f \in GenOrNone, NEW t \in GenOrNone
    PROVE  {Inactive, Active(t), Starting(t), Stopping(t), Switching(f, t), Error(f, t)} \subseteq States
BY DEF States, GenOrNone, Inactive, Active, Starting, Stopping, Switching, Error

\* The commands.
LEMMA CommandTypes ==
    ASSUME TypeInv, NEW p \in Procs, Command(p)
    PROVE  TypeInv'
<1>. USE DEF At, env, work, lock
<1>0. Current \in GenOrNone /\ state.from \in GenOrNone /\ state.to \in GenOrNone
  BY DEF TypeInv, States, Current, GenOrNone
<1>1. ASSUME NEW l \in Steps, NEW locals \in Locals, Begin(p, l, locals),
             l \in {"payloads", "meta", "marker"} => locals.to \in Gen,
             state' \in States, FilesTyped'
      PROVE  TypeInv'
  BY <1>1, GoesOn DEF TypeInv, Begin
<1>2. FilesTyped /\ state \in States /\ running \subseteq Gen
  BY DEF TypeInv, FilesTyped
<1>3. ASSUME UNCHANGED files, \E f : Runs(running, f) \/ UNCHANGED work
      PROVE  FilesTyped'
  BY <1>2, <1>3 DEF files, FilesTyped, Runs
<1>5. ASSUME Install(p)
      PROVE  TypeInv'
  <2>1. [NoLocals EXCEPT !.to = NextNumber] \in Locals /\ [NoLocals EXCEPT !.to = NextNumber].to \in Gen
    BY <1>5 DEF Install, NoLocals, Locals, GenOrNone
  <2>2. FilesTyped'
    BY <1>2, <1>5 DEF Install, FilesTyped
  <2>. QED
    BY <1>1, <1>2, <1>5, <2>1, <2>2 DEF Install, Steps
<1>6. ASSUME NEW g \in Gen, ActivateGeneration(p, g)
      PROVE  TypeInv'
  <2>1. [NoLocals EXCEPT !.from = Current, !.to = g, !.next = "clean"] \in Locals
    BY <1>0 DEF NoLocals, Locals, GenOrNone, Steps
  <2>. QED
    BY <1>1, <1>2, <1>3, <1>6, <2>1 DEF ActivateGeneration, Steps
<1>7. CASE Activate(p) \/ Rollback(p)
  BY <1>6, <1>7 DEF Activate, Rollback, TypeInv
<1>8. CASE Deactivate(p)
  <2>1. [NoLocals EXCEPT !.from = Current] \in Locals
    BY <1>0 DEF NoLocals, Locals, GenOrNone
  <2>. QED
    BY <1>1, <1>2, <1>3, <1>8, <2>1 DEF Deactivate, Steps
<1>9. CASE StartApp(p) \/ StopApp(p)
  <2>1. [NoLocals EXCEPT !.to = state.to] \in Locals
    BY <1>0 DEF NoLocals, Locals, GenOrNone
  <2>2. {Starting(state.to), Stopping(state.to)} \subseteq States
    BY <1>0, StateTypes
  <2>. QED
    BY <1>1, <1>2, <1>3, <1>9, <2>1, <2>2 DEF StartApp, StopApp, StartStop, Steps
<1>10. CASE Collect(p)
  <2>1. PICK keep \in Keeps : Begin(p, "collect", [NoLocals EXCEPT !.left = Garbage(keep)])
    BY <1>10 DEF Collect
  <2>2. Garbage(keep) \subseteq Gen
    BY DEF Garbage, TypeInv
  <2>3. [NoLocals EXCEPT !.left = Garbage(keep)] \in Locals
    BY <2>2 DEF NoLocals, Locals, GenOrNone
  <2>. QED
    BY <1>1, <1>2, <1>3, <1>10, <2>1, <2>3 DEF Collect, Steps
<1>11. CASE Remove(p)
  <2>1. [NoLocals EXCEPT !.from = Current, !.next = "remove"] \in Locals /\ NoLocals \in Locals
    BY <1>0 DEF NoLocals, Locals, GenOrNone, Steps
  <2>. QED
    BY <1>1, <1>2, <1>3, <1>11, <2>1 DEF Remove, Steps
<1>12. CASE Refuse(p)
  BY <1>2, <1>3, <1>12, Exits DEF Refuse, TypeInv
<1>13. CASE Recover(p)
  <2>1. CASE state.k = "Switching"
    <3>1. [NoLocals EXCEPT !.from = state.from, !.to = state.to,
                           !.next = IF state.to = None THEN "exit" ELSE "clean"] \in Locals
      BY <1>0 DEF NoLocals, Locals, GenOrNone, Steps
    <3>. QED
      BY <1>1, <1>2, <1>3, <1>13, <2>1, <3>1 DEF Recover, Steps
  <2>2. CASE state.k \in {"Starting", "Stopping"}
    <3>1. [NoLocals EXCEPT !.to = state.to] \in Locals
      BY <1>0 DEF NoLocals, Locals, GenOrNone
    <3>. QED
      BY <1>1, <1>2, <1>3, <1>13, <2>2, <3>1 DEF Recover, Steps
  <2>3. CASE state.k = "Error"
    <3>. DEFINE first == IF state.from = None THEN state.to ELSE state.from
    <3>1. [NoLocals EXCEPT !.to = state.to, !.target = first,
                           !.next = IF state.from = None THEN "exit" ELSE "retry"] \in Locals
      BY <1>0 DEF NoLocals, Locals, GenOrNone, Steps
    <3>. QED
      BY <1>1, <1>2, <1>3, <1>13, <2>3, <3>1 DEF Recover, Steps
  <2>4. CASE state.k \in {"Inactive", "Active"}
    BY <1>2, <1>3, <1>13, <2>4, Exits DEF Recover, TypeInv
  <2>. QED
    BY <2>1, <2>2, <2>3, <2>4 DEF TypeInv, States
<1>. QED
  BY <1>5, <1>7, <1>8, <1>9, <1>10, <1>11, <1>12, <1>13 DEF Command

\* What follows a command, to its end.
LEMMA ContinueTypes ==
    ASSUME TypeInv, NEW p \in Procs, Continue(p)
    PROVE  TypeInv'
<1>. USE DEF At, env, work, lock
<1>0. /\ FilesTyped /\ state \in States /\ overlap \in BOOLEAN
      /\ loc[p] \in Locals /\ loc[p].from \in GenOrNone /\ loc[p].to \in GenOrNone
      /\ loc[p].target \in GenOrNone /\ loc[p].left \subseteq Gen
      /\ loc[p].next \in {"exit", "clean", "error", "retry", "remove"}
  BY DEF TypeInv, FilesTyped, Locals
<1>1. ASSUME UNCHANGED files, running' \subseteq Gen
      PROVE  FilesTyped'
  BY <1>0, <1>1 DEF files, FilesTyped
<1>2. ASSUME NEW ok \in BOOLEAN, NEW g \in GenOrNone, OrchestratorStart(g, ok) \/ OrchestratorStop(g, ok)
      PROVE  running' \subseteq Gen
  BY <1>0, <1>2, StartEffect, StopEffect DEF FilesTyped
<1>3. ASSUME NEW ok \in BOOLEAN, NEW g, NEW but, RunDeactivate(g, ok, but)
      PROVE  running' \subseteq Gen
  BY <1>0, <1>3, DeactivateEffect DEF FilesTyped
<1>4. ASSUME Fail(p), up, up' = up, kind' = kind, state' = state, FilesTyped'
      PROVE  TypeInv'
  BY <1>0, <1>4, Exits, Stays DEF Fail, Steps
<1>5. ASSUME NEW l \in Steps \ {"payloads"}, Goto(p, l), up, up' = up, kind' = kind, UNCHANGED <<lock, loc>>,
             l \in {"meta", "marker"} => loc[p].to \in Gen, state' \in States, FilesTyped'
      PROVE  TypeInv'
  BY <1>0, <1>5, Stays DEF Steps
<1>6. CASE WritePayloads(p)
  BY <1>0, <1>5, <1>6 DEF WritePayloads, FilesTyped, TypeInv, Steps
<1>7. CASE WriteMetadata(p)
  BY <1>0, <1>5, <1>7 DEF WriteMetadata, FilesTyped, TypeInv, Steps
<1>8. CASE MarkComplete(p)
  <2>1. loc[p].to \in Gen /\ up
    BY <1>8 DEF MarkComplete, TypeInv
  <2>2. FilesTyped'
    BY <1>0, <1>8, <2>1 DEF MarkComplete, FilesTyped, Runs
  <2>3. [loc[p] EXCEPT !.from = Current, !.next = "clean"] \in Locals
    BY <1>0 DEF Locals, Current, States, GenOrNone
  <2>4. loc' = [loc EXCEPT ![p] = [loc[p] EXCEPT !.from = Current, !.next = "clean"]]
    BY <1>8 DEF MarkComplete
  <2>. QED
    BY <1>0, <1>8, <2>1, <2>2, <2>3, <2>4, GoesOn DEF MarkComplete, Steps
<1>9. CASE WriteSwitching(p)
  <2>1. [loc[p] EXCEPT !.target = loc[p].to] \in Locals
    BY <1>0 DEF Locals
  <2>2. loc' = [loc EXCEPT ![p] = [loc[p] EXCEPT !.target = loc[p].to]]
    BY <1>9 DEF WriteSwitching
  <2>3. \E l \in {"inactive", "activate", "deactivate"} : Goto(p, l)
    BY <1>9 DEF WriteSwitching, AfterDeactivation
  <2>4. state' \in States /\ FilesTyped'
    BY <1>0, <1>1, <1>9, StateTypes DEF WriteSwitching, FilesTyped
  <2>5. PICK l \in Steps \ {"payloads", "meta", "marker"} : Goto(p, l)
    BY <2>3 DEF Steps
  <2>. QED
    BY <1>0, <1>9, <2>1, <2>2, <2>4, <2>5, GoesOn DEF WriteSwitching
<1>10. CASE DeactivateOld(p)
  BY <1>0, <1>1, <1>3, <1>5, <1>10, Exits DEF DeactivateOld, AfterDeactivation, Steps
<1>11. CASE WriteInactive(p)
  <2>1. state' \in States
    BY <1>0, <1>11, StateTypes DEF WriteInactive
  <2>. QED
    BY <1>0, <1>1, <1>5, <1>11, <2>1, Exits DEF WriteInactive, FilesTyped, Steps
<1>12. CASE RunActivate(p)
  BY <1>0, <1>1, <1>2, <1>4, <1>5, <1>12 DEF RunActivate, Steps
<1>13. CASE MarkActivated(p)
  BY <1>0, <1>4, <1>5, <1>13 DEF MarkActivated, FilesTyped, Steps
<1>14. CASE WriteActive(p)
  <2>1. state' \in States
    BY <1>0, <1>14, StateTypes DEF WriteActive
  <2>2. FilesTyped'
    BY <1>0, <1>1, <1>14 DEF WriteActive, FilesTyped
  <2>3. CASE Exit(p) /\ UNCHANGED overlap
    BY <1>0, <1>14, <2>1, <2>2, <2>3, Exits DEF WriteActive
  <2>4. CASE Fail(p) /\ UNCHANGED state
    BY <1>4, <1>14, <2>2, <2>4 DEF WriteActive
  <2>. QED
    BY <1>14, <2>3, <2>4 DEF WriteActive
<1>15. CASE CleanUp(p)
  <2>1. running' \subseteq Gen /\ FilesTyped'
    BY <1>1, <1>3, <1>15 DEF CleanUp
  <2>2. CASE loc[p].from \in complete
    <3>1. [loc[p] EXCEPT !.target = loc[p].from, !.next = "error"] \in Locals
      BY <1>0 DEF Locals
    <3>2. loc' = [loc EXCEPT ![p] = [loc[p] EXCEPT !.target = loc[p].from, !.next = "error"]]
      BY <1>15, <2>2 DEF CleanUp
    <3>. QED
      BY <1>0, <1>15, <2>1, <2>2, <3>1, <3>2, GoesOn DEF CleanUp, Steps
  <2>3. CASE loc[p].from \notin complete
    BY <1>0, <1>5, <1>15, <2>1, <2>3 DEF CleanUp, Steps
  <2>. QED
    BY <2>2, <2>3
<1>16. CASE WriteError(p)
  <2>1. state' \in States
    BY <1>0, <1>16, StateTypes DEF WriteError
  <2>. QED
    BY <1>0, <1>1, <1>16, <2>1, Exits DEF WriteError, FilesTyped
<1>17. CASE Retry(p)
  <2>1. [loc[p] EXCEPT !.target = loc[p].to, !.next = "exit"] \in Locals
    BY <1>0 DEF Locals
  <2>2. loc' = [loc EXCEPT ![p] = [loc[p] EXCEPT !.target = loc[p].to, !.next = "exit"]]
    BY <1>17 DEF Retry
  <2>3. FilesTyped'
    BY <1>0, <1>1, <1>17 DEF Retry, Runs, FilesTyped
  <2>. QED
    BY <1>0, <1>17, <2>1, <2>2, <2>3, GoesOn DEF Retry, Steps
<1>18. CASE RunStart(p) \/ RunStop(p)
  BY <1>0, <1>1, <1>2, <1>5, <1>18 DEF RunStart, RunStop, Steps
<1>19. CASE Settle(p)
  <2>1. state' \in States
    BY <1>0, <1>19, StateTypes DEF Settle
  <2>. QED
    BY <1>0, <1>1, <1>19, <2>1, Exits DEF Settle, FilesTyped
<1>20. CASE RemoveMarker(p)
  <2>1. PICK g \in loc[p].left : loc' = [loc EXCEPT ![p].target = g, ![p].left = @ \ {g}]
    BY <1>20 DEF RemoveMarker
  <2>2. [loc[p] EXCEPT !.target = g, !.left = @ \ {g}] \in Locals
    BY <1>0 DEF Locals, GenOrNone
  <2>3. loc' = [loc EXCEPT ![p] = [loc[p] EXCEPT !.target = g, !.left = @ \ {g}]]
    BY <2>1
  <2>. QED
    BY <1>0, <1>20, <2>2, <2>3, GoesOn DEF RemoveMarker, FilesTyped, Steps
<1>21. ASSUME NEW g, LoseFiles(g), running' \subseteq Gen
      PROVE  FilesTyped'
  BY <1>0, <1>21 DEF LoseFiles, FilesTyped
<1>22. ASSUME NEW gens, Deleted(gens), running' \subseteq Gen
      PROVE  FilesTyped'
  BY <1>0, <1>22 DEF Deleted, FilesTyped
<1>23. CASE DeleteSome(p)
  BY <1>0, <1>21, <1>23 DEF DeleteSome, TypeInv, FilesTyped
<1>24. CASE Delete(p)
  <2>1. FilesTyped'
    BY <1>0, <1>1, <1>22, <1>24 DEF Delete, FilesTyped
  <2>. QED
    BY <1>0, <1>5, <1>24, <2>1, Exits DEF Delete, Steps
<1>25. CASE RemoveSome(p)
  <2>1. FilesTyped'
    BY <1>0, <1>1, <1>21, <1>22, <1>25 DEF RemoveSome, Runs, FilesTyped
  <2>2. state' \in States
    BY <1>0, <1>25, StateTypes DEF RemoveSome
  <2>. QED
    BY <1>25, <2>1, <2>2 DEF RemoveSome, TypeInv, FilesTyped
<1>26. CASE RemoveApp(p)
  <2>1. state' \in States
    BY <1>0, <1>26, StateTypes DEF RemoveApp
  <2>. QED
    BY <1>0, <1>22, <1>26, <2>1, Exits DEF RemoveApp, Runs, FilesTyped
<1>. QED
  BY <1>6, <1>7, <1>8, <1>9, <1>10, <1>11, <1>12, <1>13, <1>14, <1>15, <1>16, <1>17, <1>18,
     <1>19, <1>20, <1>23, <1>24, <1>25, <1>26 DEF Continue

LEMMA TypeNext == TypeInv /\ [Next]_vars => TypeInv'
<1>. SUFFICES ASSUME TypeInv, [Next]_vars PROVE TypeInv'
  OBVIOUS
<1>. USE DEF env, work, lock
<1>1. ASSUME NEW p \in Procs, OpenLock(p)
      PROVE  TypeInv'
  BY <1>1 DEF OpenLock, At, Goto, files, TypeInv, Steps
<1>2. ASSUME NEW p \in Procs, Lock(p)
      PROVE  TypeInv'
  BY <1>2 DEF Lock, At, Goto, files, TypeInv, Steps
<1>3. ASSUME NEW p \in Procs, Kill(p)
      PROVE  TypeInv'
  BY <1>3, Exits DEF Kill, files, TypeInv, FilesTyped
<1>5. CASE PowerCut
  <2>1. loc' \in [Procs -> Locals]
    BY <1>5 DEF PowerCut, NoLocals, Locals, GenOrNone
  <2>2. running' \subseteq running
    BY <1>5, RunsEffect DEF PowerCut
  <2>3. pc' \in [Procs -> Steps] /\ \A p \in Procs : pc'[p] = "idle"
    BY <1>5 DEF PowerCut, Steps
  <2>. QED
    BY <1>5, <2>1, <2>2, <2>3 DEF PowerCut, TypeInv
<1>6. CASE Boot
  BY <1>6 DEF Boot, files, TypeInv
<1>7. CASE UNCHANGED vars
  BY <1>7 DEF vars, files, TypeInv
<1>. QED
  BY <1>1, <1>2, <1>3, <1>5, <1>6, <1>7, CommandTypes, ContinueTypes
     DEF Next, UserCommand, Recovery, Procs

-----------------------------------------------------------------------------
(* One step of the command that holds the lock.                            *)

\* A command that does not hold the lock has nothing to keep.
LEMMA NotHolding ==
    ASSUME NEW p \in Procs, ~Holding(p)
    PROVE  CommandInv(p)
BY DEF Holding, CommandInv, InstallInv, SwitchInv, ActivateInv, FailedInv, OtherInv

\* What a step of p keeps of the processes that do not hold the lock.
LEMMA OthersStay ==
    ASSUME TypeInv, OneHolder, NEW p \in Procs, Holding(p), NEW l, pc' = [pc EXCEPT ![p] = l]
    PROVE  OneHolder' /\ \A q \in Procs \ {p} : CommandInv(q)'
<1>1. ASSUME NEW q \in Procs \ {p}
      PROVE  ~Holding(q)'
  BY <1>1 DEF OneHolder, Holding, TypeInv
<1>2. ASSUME NEW q \in Procs \ {p}
      PROVE  CommandInv(q)'
  BY <1>1, <1>2 DEF Holding, CommandInv, InstallInv, SwitchInv, ActivateInv, FailedInv, OtherInv
<1>. QED
  BY <1>1, <1>2 DEF OneHolder

\* The command ends: only the state file and the workloads matter.
LEMMA Ends ==
    ASSUME TypeInv, NEW p \in Procs, Exit(p)
    PROVE  CommandInv(p)'
BY DEF TypeInv, Exit, Goto, CommandInv, InstallInv, SwitchInv, ActivateInv, FailedInv, OtherInv

\* The files and what runs change for the better, or not at all.
LEMMA FilesKept ==
    ASSUME FileInv, kind' = kind, state' = state,
           running' \subseteq running, forgotten \cap running' \subseteq forgotten',
           Settled => state.to \in activated', metas' \subseteq whole' \cup spoiled'
    PROVE  FileInv'
BY DEF FileInv, Settled, Named

LEMMA CommandStep ==
    ASSUME TypeInv, NEW p \in Procs, FileInv, Command(p)
    PROVE  FileInv' /\ CommandInv(p)'
<1>. USE DEF env, work, files
<1>0. /\ pc \in [Procs -> Steps] /\ loc \in [Procs -> Locals] /\ running \subseteq Gen /\ dirs \subseteq Gen
      /\ activated \subseteq Gen /\ None \notin Gen /\ state \in States
      /\ Settled => state.to \in Gen
  <2>1. None \notin Gen
    BY DEF Gen, None
  <2>. QED
    BY <2>1 DEF TypeInv, FileInv
<1>1. ASSUME NEW l, NEW locals, Begin(p, l, locals)
      PROVE  pc'[p] = l /\ loc'[p] = locals /\ UNCHANGED kind
  BY <1>0, <1>1 DEF Begin, Goto
<1>2. ASSUME UNCHANGED <<kind, files, work, state>>
      PROVE  FileInv'
  BY <1>2, FilesKept DEF FileInv
<1>3. CASE Install(p)
  <2>1. pc'[p] = "payloads" /\ loc'[p].to = NextNumber /\ UNCHANGED kind
    BY <1>1, <1>3 DEF Install, NoLocals
  <2>2. CommandInv(p)'
    BY <1>3, <2>1 DEF Install, CommandInv, InstallInv, SwitchInv, ActivateInv, FailedInv, OtherInv
  <2>. QED
    BY <1>3, <2>1, <2>2, FilesKept DEF Install, FileInv
<1>4. ASSUME NEW g \in Gen, ActivateGeneration(p, g)
      PROVE  FileInv' /\ CommandInv(p)'
  <2>1. pc'[p] = "switch" /\ loc'[p].from = Current /\ loc'[p].to = g /\ loc'[p].next = "clean" /\ UNCHANGED kind
    <3>. DEFINE locals == [NoLocals EXCEPT !.from = Current, !.to = g, !.next = "clean"]
    <3>1. Begin(p, "switch", locals)
      BY <1>4 DEF ActivateGeneration
    <3>2. pc'[p] = "switch" /\ loc'[p] = locals /\ UNCHANGED kind
      BY <1>1, <3>1
    <3>. QED
      BY <3>2 DEF NoLocals
  <2>2. running' = running /\ forgotten \cap running \subseteq forgotten' /\ Unrecorded \cap running \subseteq forgotten'
    BY <1>4 DEF ActivateGeneration, Runs
  <2>3. running' \subseteq {Current, g} \cup forgotten'
    BY <1>0, <2>2 DEF FileInv, Unrecorded, Named, Current, Settled, States
  <2>4. CommandInv(p)'
    BY <2>1, <2>3 DEF CommandInv, InstallInv, SwitchInv, ActivateInv, FailedInv, OtherInv
  <2>. QED
    BY <1>4, <2>1, <2>2, <2>4, FilesKept DEF ActivateGeneration, FileInv
<1>5. CASE Activate(p) \/ Rollback(p)
  BY <1>0, <1>4, <1>5 DEF Activate, Rollback
<1>6. ASSUME Current # None
      PROVE  Settled /\ state.to = Current /\ running \subseteq {Current, None} \cup forgotten
  BY <1>0, <1>6 DEF Current, Settled, FileInv, Named
<1>7. CASE Deactivate(p)
  <2>1. pc'[p] = "switch" /\ loc'[p].from = Current /\ loc'[p].to = None /\ loc'[p].next = "exit" /\ UNCHANGED kind
    BY <1>1, <1>7 DEF Deactivate, NoLocals
  <2>2. CommandInv(p)'
    BY <1>6, <1>7, <2>1 DEF Deactivate, CommandInv, InstallInv, SwitchInv, ActivateInv, FailedInv, OtherInv
  <2>. QED
    BY <1>2, <1>7, <2>1, <2>2 DEF Deactivate
<1>8. CASE StartApp(p) \/ StopApp(p)
  <2>1. PICK l \in {"start", "stop"}, s \in {Starting(state.to), Stopping(state.to)} : StartStop(p, l, s)
    BY <1>8 DEF StartApp, StopApp
  <2>2. /\ pc'[p] = l /\ loc'[p].to = state.to /\ state' = s
        /\ UNCHANGED <<kind, files, work>> /\ state.k = "Active"
    BY <1>1, <2>1 DEF StartStop, NoLocals
  <2>3. s.k \in {"Starting", "Stopping"} /\ s.to = state.to /\ s.from = None
    BY DEF Starting, Stopping
  <2>4. CommandInv(p)'
    BY <2>2, <2>3 DEF CommandInv, InstallInv, SwitchInv, ActivateInv, FailedInv, OtherInv
  <2>. QED
    BY <2>2, <2>3, <2>4 DEF FileInv, Settled, Named
<1>9. CASE Collect(p)
  <2>1. PICK keep \in Keeps : pc'[p] = "collect" /\ loc'[p].left = Garbage(keep) /\ UNCHANGED kind
    BY <1>1, <1>9 DEF Collect, NoLocals
  <2>2. Settled => state.to \notin Garbage(keep)
    BY DEF Settled, FileInv, Garbage, Current
  <2>3. CommandInv(p)'
    BY <1>9, <2>1, <2>2 DEF Collect, CommandInv, InstallInv, SwitchInv, ActivateInv, FailedInv, OtherInv, Settled
  <2>. QED
    BY <1>2, <1>9, <2>1, <2>3 DEF Collect
<1>10. CASE Remove(p)
  <2>1. CASE Current # None
    <3>1. pc'[p] = "switch" /\ loc'[p].from = Current /\ loc'[p].to = None /\ loc'[p].next = "remove" /\ UNCHANGED kind
      <4>. DEFINE locals == [NoLocals EXCEPT !.from = Current, !.next = "remove"]
      <4>1. Begin(p, "switch", locals)
        BY <1>10, <2>1 DEF Remove
      <4>2. pc'[p] = "switch" /\ loc'[p] = locals /\ UNCHANGED kind
        BY <1>1, <4>1
      <4>. QED
        BY <4>2 DEF NoLocals
    <3>2. CommandInv(p)'
      BY <1>6, <1>10, <2>1, <3>1 DEF Remove, CommandInv, InstallInv, SwitchInv, ActivateInv, FailedInv, OtherInv
    <3>. QED
      BY <1>2, <1>10, <3>1, <3>2 DEF Remove
  <2>2. CASE Current = None
    <3>1. pc'[p] = "remove" /\ UNCHANGED kind
      BY <1>1, <1>10, <2>2 DEF Remove
    <3>2. ~Settled
      BY <1>0, <2>2 DEF Settled, Current
    <3>3. CommandInv(p)'
      BY <1>10, <3>1, <3>2 DEF Remove, CommandInv, InstallInv, SwitchInv, ActivateInv, FailedInv, OtherInv, Settled
    <3>. QED
      BY <1>2, <1>10, <3>1, <3>3 DEF Remove
  <2>. QED
    BY <2>1, <2>2
<1>11. CASE Refuse(p)
  BY <1>2, <1>11, Ends DEF Refuse
<1>12. CASE Recover(p)
  <2>1. CASE state.k = "Switching"
    <3>1. /\ pc'[p] = "switch" /\ loc'[p].from = state.from /\ loc'[p].to = state.to /\ UNCHANGED kind
          /\ loc'[p].next = IF state.to = None THEN "exit" ELSE "clean"
      <4>. DEFINE locals == [NoLocals EXCEPT !.from = state.from, !.to = state.to,
                                             !.next = IF state.to = None THEN "exit" ELSE "clean"]
      <4>1. Begin(p, "switch", locals)
        BY <1>12, <2>1 DEF Recover
      <4>2. pc'[p] = "switch" /\ loc'[p] = locals /\ UNCHANGED kind
        BY <1>1, <4>1
      <4>. QED
        BY <4>2 DEF NoLocals
    <3>2. UNCHANGED <<files, work, state>>
      BY <1>12, <2>1 DEF Recover
    <3>3. CommandInv(p)'
      BY <3>1, <3>2 DEF CommandInv, InstallInv, SwitchInv, ActivateInv, FailedInv, OtherInv, FileInv, Named
    <3>. QED
      BY <1>2, <3>1, <3>2, <3>3
  <2>2. CASE state.k \in {"Starting", "Stopping"}
    <3>1. pc'[p] \in {"start", "stop"} /\ loc'[p].to = state.to /\ UNCHANGED kind
      BY <1>1, <1>12, <2>2 DEF Recover, NoLocals
    <3>2. UNCHANGED <<files, work, state>>
      BY <1>12, <2>2 DEF Recover
    <3>3. CommandInv(p)'
      BY <2>2, <3>1, <3>2 DEF CommandInv, InstallInv, SwitchInv, ActivateInv, FailedInv, OtherInv
    <3>. QED
      BY <1>2, <3>1, <3>2, <3>3
  <2>3. CASE state.k = "Error"
    <3>. DEFINE first == IF state.from = None THEN state.to ELSE state.from
    <3>1. /\ pc'[p] = "activate" /\ loc'[p].to = state.to /\ loc'[p].target = first /\ UNCHANGED kind
          /\ loc'[p].next = IF state.from = None THEN "exit" ELSE "retry"
      <4>. DEFINE locals == [NoLocals EXCEPT !.to = state.to, !.target = first,
                                             !.next = IF state.from = None THEN "exit" ELSE "retry"]
      <4>1. Begin(p, "activate", locals)
        BY <1>12, <2>3 DEF Recover
      <4>2. pc'[p] = "activate" /\ loc'[p] = locals /\ UNCHANGED kind
        BY <1>1, <4>1
      <4>. QED
        BY <4>2 DEF NoLocals
    <3>2. UNCHANGED <<files, state>> /\ Runs(running, running \ {first})
      BY <1>12, <2>3 DEF Recover
    <3>3. running' = running /\ running \subseteq {first} \cup forgotten' /\ forgotten \cap running \subseteq forgotten'
      BY <3>2 DEF Runs
    <3>4. CommandInv(p)'
      BY <2>3, <3>1, <3>2, <3>3 DEF CommandInv, InstallInv, SwitchInv, ActivateInv, FailedInv, OtherInv
    <3>. QED
      BY <3>1, <3>2, <3>3, <3>4, FilesKept DEF FileInv
  <2>4. CASE state.k \in {"Inactive", "Active"}
    BY <1>2, <1>12, <2>4, Ends DEF Recover
  <2>. QED
    BY <1>0, <2>1, <2>2, <2>3, <2>4 DEF States
<1>. QED
  BY <1>3, <1>5, <1>7, <1>8, <1>9, <1>10, <1>11, <1>12 DEF Command

\* A failed activation leads to where its caller goes on, and the state file agrees.
LEMMA FailStep ==
    ASSUME TypeInv, NEW p \in Procs, Fail(p), UNCHANGED <<state, kind, metas, whole, spoiled>>,
           loc[p].next \in {"clean", "error", "retry", "exit"},
           loc[p].next \in {"clean", "error"} => Recorded(p),
           loc[p].next = "clean" => running' \subseteq {loc[p].to} \cup forgotten',
           loc[p].next = "retry" => state.k = "Error" /\ loc[p].to = state.to
    PROVE  CommandInv(p)'
<1>1. CASE loc[p].next = "exit"
  BY <1>1, Ends DEF Fail
<1>2. CASE loc[p].next # "exit"
  <2>1. pc'[p] = loc[p].next /\ loc' = loc
    BY <1>2 DEF Fail, Goto, TypeInv
  <2>. QED
    BY <2>1 DEF CommandInv, InstallInv, SwitchInv, ActivateInv, FailedInv, OtherInv, Recorded, Switching
<1>. QED
  BY <1>1, <1>2

LEMMA InstallStep ==
    ASSUME TypeInv, NEW p \in Procs, FileInv, CommandInv(p),
           WritePayloads(p) \/ WriteMetadata(p) \/ MarkComplete(p)
    PROVE  FileInv' /\ CommandInv(p)'
<1>. USE DEF env, work, At
<1>0. pc \in [Procs -> Steps] /\ loc \in [Procs -> Locals] /\ state \in States /\ None \notin Gen
  BY DEF TypeInv, Gen, None
<1>1. CASE WritePayloads(p)
  <2>1. pc'[p] = "meta" /\ loc' = loc /\ loc[p].to \in whole' /\ UNCHANGED <<kind, state, work, activated>>
    BY <1>0, <1>1 DEF WritePayloads, Goto, CommandInv, InstallInv
  <2>2. CommandInv(p)'
    BY <2>1 DEF CommandInv, InstallInv, SwitchInv, ActivateInv, FailedInv, OtherInv
  <2>3. metas' \subseteq whole' \cup spoiled'
    BY <1>1 DEF WritePayloads, FileInv
  <2>. QED
    BY <2>1, <2>2, <2>3, FilesKept DEF FileInv
<1>2. CASE WriteMetadata(p)
  <2>1. pc'[p] = "marker" /\ loc' = loc /\ UNCHANGED <<kind, state, work, activated>>
    BY <1>0, <1>2 DEF WriteMetadata, Goto
  <2>2. CommandInv(p)'
    BY <2>1 DEF CommandInv, InstallInv, SwitchInv, ActivateInv, FailedInv, OtherInv
  <2>3. metas' \subseteq whole' \cup spoiled'
    BY <1>2 DEF WriteMetadata, FileInv, CommandInv, InstallInv
  <2>. QED
    BY <2>1, <2>2, <2>3, FilesKept DEF FileInv
<1>3. CASE MarkComplete(p)
  <2>1. /\ pc'[p] = "switch" /\ loc'[p].from = Current /\ loc'[p].to = loc[p].to /\ loc'[p].next = "clean"
        /\ UNCHANGED <<kind, state, activated, metas, whole, spoiled>>
    BY <1>0, <1>3 DEF MarkComplete, Goto, Locals
  <2>2. running' = running /\ forgotten \cap running \subseteq forgotten' /\ Unrecorded \cap running \subseteq forgotten'
    BY <1>3 DEF MarkComplete, Runs
  <2>3. running' \subseteq {Current, loc[p].to} \cup forgotten'
    BY <1>0, <2>2 DEF FileInv, Unrecorded, Named, Current, Settled, States
  <2>4. CommandInv(p)'
    BY <2>1, <2>3 DEF CommandInv, InstallInv, SwitchInv, ActivateInv, FailedInv, OtherInv
  <2>. QED
    BY <2>1, <2>2, <2>4, FilesKept DEF FileInv
<1>. QED
  BY <1>1, <1>2, <1>3

LEMMA SwitchStep ==
    ASSUME TypeInv, NEW p \in Procs, FileInv, CommandInv(p),
           WriteSwitching(p) \/ DeactivateOld(p) \/ WriteInactive(p)
    PROVE  FileInv' /\ CommandInv(p)'
<1>. USE DEF env, work, At, files
<1>0. /\ pc \in [Procs -> Steps] /\ loc \in [Procs -> Locals] /\ state \in States
      /\ running \subseteq Gen /\ None \notin Gen
  BY DEF TypeInv, Gen, None
<1>1. CASE WriteSwitching(p)
  <2>1. /\ state' = Switching(loc[p].from, loc[p].to)
        /\ loc'[p].from = loc[p].from /\ loc'[p].to = loc[p].to /\ loc'[p].next = loc[p].next
        /\ loc'[p].target = loc[p].to
        /\ UNCHANGED <<kind, work, files>>
    BY <1>0, <1>1 DEF WriteSwitching, Locals
  <2>2. pc'[p] = IF loc[p].from # None THEN "deactivate" ELSE IF loc[p].to = None THEN "inactive" ELSE "activate"
    BY <1>0, <1>1 DEF WriteSwitching, AfterDeactivation, Goto
  <2>3. /\ loc[p].next = "clean" \/ (loc[p].next \in {"exit", "remove"} /\ loc[p].to = None)
        /\ running \subseteq {loc[p].from, loc[p].to} \cup forgotten
    BY <1>1 DEF WriteSwitching, CommandInv, SwitchInv
  <2>4. state'.k = "Switching" /\ state'.from = loc[p].from /\ state'.to = loc[p].to
    BY <2>1 DEF Switching
  <2>5. FileInv'
    BY <1>0, <2>1, <2>3, <2>4 DEF FileInv, Named, Settled
  <2>6. Recorded(p)'
    BY <2>1 DEF Recorded, Switching
  <2>7. CommandInv(p)'
    BY <1>0, <2>1, <2>2, <2>3, <2>4, <2>6 DEF CommandInv, InstallInv, SwitchInv, ActivateInv, FailedInv, OtherInv
  <2>. QED
    BY <2>5, <2>7
<1>2. CASE DeactivateOld(p)
  <2>. DEFINE but(ok) == {IF ~ok /\ loc[p].to = None THEN loc[p].from ELSE loc[p].to}
  <2>1. PICK ok \in BOOLEAN :
            /\ RunDeactivate(loc[p].from, ok, but(ok))
            /\ IF ~ok /\ loc[p].to = None
               THEN Exit(p)
               ELSE Goto(p, AfterDeactivation(p)) /\ UNCHANGED loc
    BY <1>2 DEF DeactivateOld, lock
  <2>2. UNCHANGED <<kind, files, state>>
    BY <1>2 DEF DeactivateOld
  <2>3. /\ running' \subseteq running /\ forgotten \cap running' \subseteq forgotten'
        /\ loc[p].from \notin running' \/ running' \ but(ok) \subseteq forgotten'
    BY <2>1, DeactivateEffect
  <2>4. /\ loc[p].next = "clean" \/ (loc[p].next \in {"exit", "remove"} /\ loc[p].to = None)
        /\ running \subseteq {loc[p].from, loc[p].to} \cup forgotten
        /\ Recorded(p) /\ loc[p].target = loc[p].to
    BY <1>2 DEF DeactivateOld, CommandInv, SwitchInv
  <2>5. FileInv'
    BY <2>2, <2>3, FilesKept DEF FileInv
  <2>6. CASE ~ok /\ loc[p].to = None
    BY <2>1, <2>5, <2>6, Ends
  <2>7. CASE ~(~ok /\ loc[p].to = None)
    <3>1. running' \subseteq {loc[p].to} \cup forgotten'
      BY <2>3, <2>4, <2>7
    <3>2. pc'[p] = (IF loc[p].to = None THEN "inactive" ELSE "activate") /\ loc' = loc
      BY <1>0, <2>1, <2>7 DEF Goto, AfterDeactivation
    <3>3. state'.k = "Switching" /\ state'.from = loc[p].from /\ state'.to = loc[p].to /\ Recorded(p)'
      BY <2>2, <2>4, <3>2 DEF Recorded, Switching
    <3>. QED
      BY <1>0, <2>2, <2>3, <2>4, <2>5, <3>1, <3>2, <3>3
         DEF CommandInv, InstallInv, SwitchInv, ActivateInv, FailedInv, OtherInv
  <2>. QED
    BY <2>6, <2>7
<1>3. CASE WriteInactive(p)
  <2>1. state' = Inactive /\ UNCHANGED <<kind, work, files>> /\ running \subseteq forgotten
    BY <1>3 DEF WriteInactive, CommandInv, SwitchInv
  <2>2. state'.k = "Inactive" /\ state'.from = None /\ state'.to = None
    BY <2>1 DEF Inactive
  <2>3. FileInv'
    BY <2>1, <2>2 DEF FileInv, Named, Settled
  <2>4. CASE loc[p].next = "remove"
    <3>1. pc'[p] = "remove"
      BY <1>0, <1>3, <2>4 DEF WriteInactive, Goto
    <3>2. CommandInv(p)'
      BY <2>2, <3>1 DEF CommandInv, InstallInv, SwitchInv, ActivateInv, FailedInv, OtherInv, Settled
    <3>. QED
      BY <2>3, <3>2
  <2>5. CASE loc[p].next # "remove"
    BY <1>3, <2>3, <2>5, Ends DEF WriteInactive
  <2>. QED
    BY <2>4, <2>5
<1>. QED
  BY <1>1, <1>2, <1>3

LEMMA ActivateStep ==
    ASSUME TypeInv, NEW p \in Procs, FileInv, CommandInv(p),
           RunActivate(p) \/ MarkActivated(p) \/ WriteActive(p)
    PROVE  FileInv' /\ CommandInv(p)'
<1>. USE DEF env, work, At
<1>0. /\ pc \in [Procs -> Steps] /\ loc \in [Procs -> Locals] /\ state \in States
      /\ running \subseteq Gen /\ None \notin Gen /\ loc[p].target \in GenOrNone
  BY DEF TypeInv, Gen, None, Locals
<1>1. /\ state.k \in {"Switching", "Error"} /\ ~Settled
      /\ loc[p].target \in {state.from, state.to}
      /\ running \subseteq {loc[p].target} \cup forgotten
      /\ loc[p].next \in {"clean", "error", "retry", "exit"}
      /\ loc[p].next = "clean" => Recorded(p) /\ loc[p].target = loc[p].to
      /\ loc[p].next = "error" => Recorded(p) /\ loc[p].target = loc[p].from
      /\ loc[p].next = "retry" => state.k = "Error" /\ loc[p].to = state.to
  BY DEF RunActivate, MarkActivated, WriteActive, CommandInv, ActivateInv, Settled
<1>2. CASE RunActivate(p)
  <2>1. PICK ok \in BOOLEAN :
            /\ OrchestratorStart(loc[p].target, ok)
            /\ IF ok THEN Goto(p, "stamp") /\ UNCHANGED loc ELSE Fail(p)
    BY <1>2 DEF RunActivate
  <2>2. UNCHANGED <<kind, state, metas, activated, whole, spoiled>>
    BY <1>2 DEF RunActivate, files
  <2>3. /\ running' \subseteq (running \cup {loc[p].target}) \cap Gen
        /\ forgotten \cap running' \subseteq forgotten'
        /\ ok /\ kind = "docker" => running' \subseteq {loc[p].target}
    BY <1>0, <2>1, StartEffect
  <2>4. FileInv'
    BY <1>0, <1>1, <2>2, <2>3 DEF FileInv, Named, Settled
  <2>5. running' \subseteq {loc[p].target} \cup forgotten'
    BY <1>1, <2>3
  <2>6. CASE ok
    <3>1. pc'[p] = "stamp" /\ loc' = loc
      BY <1>0, <2>1, <2>6 DEF Goto
    <3>2. CommandInv(p)'
      BY <1>1, <2>2, <2>3, <2>5, <2>6, <3>1
         DEF CommandInv, InstallInv, SwitchInv, ActivateInv, FailedInv, OtherInv, Recorded, Switching
    <3>. QED
      BY <2>4, <3>2
  <2>7. CASE ~ok
    BY <1>1, <2>1, <2>2, <2>4, <2>5, <2>7, FailStep
  <2>. QED
    BY <2>6, <2>7
<1>3. CASE MarkActivated(p)
  <2>1. UNCHANGED <<kind, state, work, metas, whole, spoiled>> /\ activated \subseteq activated'
    BY <1>3 DEF MarkActivated
  <2>2. FileInv'
    BY <2>1, FilesKept DEF FileInv
  <2>3. CASE Goto(p, "active") /\ UNCHANGED loc /\ loc[p].target \in activated'
    <3>1. pc'[p] = "active" /\ loc' = loc /\ loc[p].target \in activated'
      BY <1>0, <2>3 DEF Goto
    <3>2. kind = "docker" => running \subseteq {loc[p].target}
      BY <1>3 DEF MarkActivated, CommandInv, ActivateInv
    <3>3. CommandInv(p)'
      BY <1>1, <2>1, <3>1, <3>2
         DEF CommandInv, InstallInv, SwitchInv, ActivateInv, FailedInv, OtherInv, Recorded, Switching
    <3>. QED
      BY <2>2, <3>3
  <2>4. CASE Fail(p) /\ UNCHANGED activated
    BY <1>1, <2>1, <2>2, <2>4, FailStep
  <2>. QED
    BY <1>3, <2>3, <2>4 DEF MarkActivated
<1>4. CASE WriteActive(p)
  <2>1. UNCHANGED <<kind, work, metas, activated, whole, spoiled>>
    BY <1>4 DEF WriteActive, files
  <2>2. CASE state' = Active(loc[p].target) /\ Exit(p)
    <3>1. state'.k = "Active" /\ state'.from = None /\ state'.to = loc[p].target
      BY <2>2 DEF Active
    <3>2. loc[p].target \in activated /\ (kind = "docker" => running \subseteq {loc[p].target})
      BY <1>4 DEF WriteActive, CommandInv, ActivateInv
    <3>3. FileInv'
      BY <1>0, <1>1, <2>1, <3>1, <3>2 DEF FileInv, Named, Settled
    <3>. QED
      BY <2>2, <3>3, Ends
  <2>3. CASE Fail(p) /\ UNCHANGED state
    <3>1. FileInv'
      BY <2>1, <2>3, FilesKept DEF FileInv
    <3>. QED
      BY <1>1, <2>1, <2>3, <3>1, FailStep
  <2>. QED
    BY <1>4, <2>2, <2>3 DEF WriteActive
<1>. QED
  BY <1>2, <1>3, <1>4

LEMMA FailedStep ==
    ASSUME TypeInv, NEW p \in Procs, FileInv, CommandInv(p),
           CleanUp(p) \/ WriteError(p) \/ Retry(p)
    PROVE  FileInv' /\ CommandInv(p)'
<1>. USE DEF env, work, At
<1>0. /\ pc \in [Procs -> Steps] /\ loc \in [Procs -> Locals] /\ state \in States
      /\ running \subseteq Gen /\ None \notin Gen
  BY DEF TypeInv, Gen, None
<1>1. CASE CleanUp(p)
  <2>. DEFINE but == {loc[p].from, IF loc[p].from \in complete THEN None ELSE loc[p].to}
  <2>1. PICK ok \in BOOLEAN : RunDeactivate(loc[p].to, ok, but)
    BY <1>1 DEF CleanUp
  <2>2. UNCHANGED <<kind, state, metas, activated, whole, spoiled>>
    BY <1>1 DEF CleanUp, files
  <2>3. /\ running' \subseteq running /\ forgotten \cap running' \subseteq forgotten'
        /\ loc[p].to \notin running' \/ running' \ but \subseteq forgotten'
    BY <2>1, DeactivateEffect
  <2>4. Recorded(p) /\ running \subseteq {loc[p].to} \cup forgotten
    BY <1>1 DEF CleanUp, CommandInv, FailedInv
  <2>5. state.k = "Switching" /\ state.from = loc[p].from /\ state.to = loc[p].to
    BY <2>4 DEF Recorded, Switching
  <2>6. FileInv'
    BY <2>2, <2>3, FilesKept DEF FileInv
  <2>7. CASE loc[p].from \in complete
    <3>1. /\ pc'[p] = "activate" /\ loc'[p].target = loc[p].from /\ loc'[p].next = "error"
          /\ loc'[p].from = loc[p].from /\ loc'[p].to = loc[p].to
      BY <1>0, <1>1, <2>7 DEF CleanUp, Goto, Locals
    <3>2. running' \subseteq {loc[p].from} \cup forgotten'
      BY <1>0, <2>3, <2>4, <2>7
    <3>3. CommandInv(p)'
      BY <2>2, <2>4, <2>5, <3>1, <3>2
         DEF CommandInv, InstallInv, SwitchInv, ActivateInv, FailedInv, OtherInv, Recorded, Switching
    <3>. QED
      BY <2>6, <3>3
  <2>8. CASE loc[p].from \notin complete
    <3>1. pc'[p] = "error" /\ loc' = loc
      BY <1>0, <1>1, <2>8 DEF CleanUp, Goto
    <3>2. CommandInv(p)'
      BY <2>2, <2>4, <3>1
         DEF CommandInv, InstallInv, SwitchInv, ActivateInv, FailedInv, OtherInv, Recorded, Switching
    <3>. QED
      BY <2>6, <3>2
  <2>. QED
    BY <2>7, <2>8
<1>2. CASE WriteError(p)
  <2>1. /\ state' = Error(loc[p].from, loc[p].to) /\ Exit(p)
        /\ UNCHANGED <<kind, work, metas, activated, whole, spoiled>>
    BY <1>2 DEF WriteError, files
  <2>2. state.from = loc[p].from /\ state.to = loc[p].to
    BY <1>2 DEF WriteError, CommandInv, FailedInv, Recorded, Switching
  <2>3. state'.k = "Error" /\ state'.from = loc[p].from /\ state'.to = loc[p].to
    BY <2>1 DEF Error
  <2>4. FileInv'
    BY <2>1, <2>2, <2>3 DEF FileInv, Named, Settled
  <2>. QED
    BY <2>1, <2>4, Ends
<1>3. CASE Retry(p)
  <2>1. /\ pc'[p] = "activate" /\ loc'[p].target = loc[p].to /\ loc'[p].next = "exit" /\ loc'[p].to = loc[p].to
        /\ Runs(running, running \ {loc[p].to})
        /\ UNCHANGED <<kind, state, metas, activated, whole, spoiled>>
    BY <1>0, <1>3 DEF Retry, Goto, Locals, files
  <2>2. running' = running /\ forgotten \cap running \subseteq forgotten' /\ running \subseteq {loc[p].to} \cup forgotten'
    BY <2>1 DEF Runs
  <2>3. state.k = "Error" /\ loc[p].to = state.to
    BY <1>3 DEF Retry, CommandInv, FailedInv
  <2>4. CommandInv(p)'
    BY <2>1, <2>2, <2>3 DEF CommandInv, InstallInv, SwitchInv, ActivateInv, FailedInv, OtherInv
  <2>. QED
    BY <2>1, <2>2, <2>4, FilesKept DEF FileInv
<1>. QED
  BY <1>1, <1>2, <1>3

LEMMA StartStopStep ==
    ASSUME TypeInv, NEW p \in Procs, FileInv, CommandInv(p),
           RunStart(p) \/ RunStop(p) \/ Settle(p)
    PROVE  FileInv' /\ CommandInv(p)'
<1>. USE DEF env, work, At
<1>0. /\ pc \in [Procs -> Steps] /\ loc \in [Procs -> Locals] /\ state \in States
      /\ running \subseteq Gen /\ None \notin Gen /\ loc[p].to \in GenOrNone
  BY DEF TypeInv, Gen, None, Locals
<1>1. state.k \in {"Starting", "Stopping"} /\ loc[p].to = state.to
  BY DEF RunStart, RunStop, Settle, CommandInv, OtherInv
<1>2. CASE RunStart(p) \/ RunStop(p)
  <2>1. PICK ok \in BOOLEAN : OrchestratorStart(loc[p].to, ok) \/ OrchestratorStop(loc[p].to, ok)
    BY <1>2 DEF RunStart, RunStop
  <2>2. running' \subseteq (running \cup {state.to}) \cap Gen /\ forgotten \cap running' \subseteq forgotten'
    BY <1>0, <1>1, <2>1, StartEffect, StopEffect
  <2>3. /\ pc'[p] = "settle" /\ loc' = loc
        /\ UNCHANGED <<kind, state, metas, activated, whole, spoiled>>
    BY <1>0, <1>2 DEF RunStart, RunStop, Goto, files
  <2>4. FileInv'
    BY <1>0, <2>2, <2>3 DEF FileInv, Named, Settled
  <2>5. CommandInv(p)'
    BY <1>1, <2>3 DEF CommandInv, InstallInv, SwitchInv, ActivateInv, FailedInv, OtherInv
  <2>. QED
    BY <2>4, <2>5
<1>3. CASE Settle(p)
  <2>1. state' = Active(state.to) /\ Exit(p) /\ UNCHANGED <<kind, work, metas, activated, whole, spoiled>>
    BY <1>1, <1>3 DEF Settle, files
  <2>2. state'.k = "Active" /\ state'.from = None /\ state'.to = state.to
    BY <2>1 DEF Active
  <2>3. FileInv'
    BY <1>1, <2>1, <2>2 DEF FileInv, Named, Settled
  <2>. QED
    BY <2>1, <2>3, Ends
<1>. QED
  BY <1>2, <1>3

\* Files go, and with them what says that they were complete.
LEMMA Losing ==
    ASSUME TypeInv, FileInv, NEW g, LoseFiles(g) \/ Deleted({g}),
           Settled => state.to # g, UNCHANGED <<kind, state, work>>
    PROVE  FileInv'
<1>1. metas' \subseteq whole' \cup spoiled'
  BY DEF LoseFiles, Deleted, FileInv
<1>2. Settled => state.to \in activated'
  BY DEF LoseFiles, Deleted, FileInv
<1>. QED
  BY <1>1, <1>2, FilesKept DEF work, FileInv

LEMMA RemoveStep ==
    ASSUME TypeInv, NEW p \in Procs, FileInv, CommandInv(p),
           RemoveMarker(p) \/ DeleteSome(p) \/ Delete(p) \/ RemoveSome(p) \/ RemoveApp(p)
    PROVE  FileInv' /\ CommandInv(p)'
<1>. USE DEF env, At
<1>0. pc \in [Procs -> Steps] /\ loc \in [Procs -> Locals]
  BY DEF TypeInv
<1>1. /\ Settled' <=> state'.k \in {"Active", "Starting", "Stopping"}
      /\ Settled <=> state.k \in {"Active", "Starting", "Stopping"}
  BY DEF Settled
<1>2. CASE RemoveMarker(p)
  <2>1. PICK g \in loc[p].left : loc' = [loc EXCEPT ![p].target = g, ![p].left = @ \ {g}]
    BY <1>2 DEF RemoveMarker
  <2>2. loc'[p].target = g /\ loc'[p].left = loc[p].left \ {g} /\ pc'[p] = "delete"
    <3>1. loc'[p] = [loc[p] EXCEPT !.target = g, !.left = loc[p].left \ {g}]
      BY <1>0, <2>1
    <3>2. loc'[p].target = g /\ loc'[p].left = loc[p].left \ {g}
      BY <1>0, <3>1 DEF Locals
    <3>3. pc'[p] = "delete"
      BY <1>0, <1>2 DEF RemoveMarker, Goto
    <3>. QED
      BY <3>2, <3>3
  <2>3. UNCHANGED <<kind, state, work, metas, activated, whole>> /\ spoiled \subseteq spoiled'
    BY <1>2 DEF RemoveMarker
  <2>4. FileInv'
    BY <2>3, FilesKept DEF work, FileInv
  <2>5. Settled => state.to \notin loc[p].left
    BY <1>2 DEF RemoveMarker, CommandInv, OtherInv
  <2>6. CommandInv(p)'
    BY <1>1, <2>2, <2>3, <2>5 DEF CommandInv, InstallInv, SwitchInv, ActivateInv, FailedInv, OtherInv
  <2>. QED
    BY <2>4, <2>6
<1>3. CASE DeleteSome(p)
  <2>1. /\ pc[p] = "delete" /\ LoseFiles(loc[p].target) /\ UNCHANGED <<kind, state, work, pc, loc>>
        /\ Settled => state.to # loc[p].target /\ state.to \notin loc[p].left
    BY <1>3 DEF DeleteSome, CommandInv, OtherInv
  <2>2. CommandInv(p)'
    BY <1>1, <2>1 DEF CommandInv, InstallInv, SwitchInv, ActivateInv, FailedInv, OtherInv
  <2>. QED
    BY <2>1, <2>2, Losing
<1>4. CASE Delete(p)
  <2>1. /\ UNCHANGED <<kind, state, work>>
        /\ Settled => state.to # loc[p].target /\ state.to \notin loc[p].left
    BY <1>4 DEF Delete, CommandInv, OtherInv
  <2>2. Deleted({loc[p].target}) \/ UNCHANGED files
    BY <1>4 DEF Delete
  <2>3. FileInv'
    <3>1. CASE Deleted({loc[p].target})
      BY <2>1, <3>1, Losing
    <3>2. CASE UNCHANGED files
      BY <2>1, <3>2, FilesKept DEF files, work, FileInv
    <3>. QED
      BY <2>2, <3>1, <3>2
  <2>4. CASE loc[p].left = {}
    BY <1>4, <2>3, <2>4, Ends DEF Delete
  <2>5. CASE loc[p].left # {}
    <3>1. pc'[p] = "collect" /\ loc' = loc
      BY <1>0, <1>4, <2>5 DEF Delete, Goto
    <3>2. CommandInv(p)'
      BY <1>1, <2>1, <3>1 DEF CommandInv, InstallInv, SwitchInv, ActivateInv, FailedInv, OtherInv
    <3>. QED
      BY <2>3, <3>2
  <2>. QED
    BY <2>4, <2>5
<1>5. ASSUME state' = Inactive, Runs(running, running), metas' \subseteq whole' \cup spoiled'
      PROVE  FileInv' /\ ~Settled'
  BY <1>5 DEF Runs, Inactive, FileInv, Settled, Named
<1>6. CASE RemoveSome(p)
  <2>1. pc[p] = "remove" /\ UNCHANGED <<pc, loc, kind>> /\ ~Settled
    BY <1>6 DEF RemoveSome, CommandInv, OtherInv
  <2>2. FileInv' /\ ~Settled'
    <3>1. ASSUME NEW g \in dirs, LoseFiles(g) \/ Deleted({g}), UNCHANGED <<state, work>>
          PROVE  FileInv' /\ ~Settled'
      BY <1>1, <2>1, <3>1, Losing
    <3>2. CASE state' = Inactive /\ Runs(running, running) /\ UNCHANGED files
      BY <1>5, <3>2 DEF files, FileInv
    <3>3. CASE UNCHANGED <<files, work, state>>
      BY <1>1, <2>1, <3>3, FilesKept DEF files, work, FileInv
    <3>. QED
      BY <1>6, <3>1, <3>2, <3>3 DEF RemoveSome
  <2>3. CommandInv(p)'
    BY <2>1, <2>2 DEF CommandInv, InstallInv, SwitchInv, ActivateInv, FailedInv, OtherInv
  <2>. QED
    BY <2>2, <2>3
<1>7. CASE RemoveApp(p)
  <2>1. state' = Inactive /\ Runs(running, running) /\ Exit(p) /\ metas' \subseteq whole' \cup spoiled'
    BY <1>7 DEF RemoveApp, Deleted, FileInv
  <2>. QED
    BY <1>5, <2>1, Ends
<1>. QED
  BY <1>2, <1>3, <1>4, <1>6, <1>7

-----------------------------------------------------------------------------
(* The invariant.                                                          *)

Truthful == OneHolder /\ FileInv /\ \A p \in Procs : CommandInv(p)

\* A step of the one command that holds the lock.
LEMMA HolderStep ==
    ASSUME TypeInv, NEW p \in Procs, Truthful, Command(p) \/ Continue(p)
    PROVE  Truthful' /\ overlap' = overlap
<1>1. FileInv /\ CommandInv(p) /\ OneHolder
  BY DEF Truthful
<1>2. FileInv' /\ CommandInv(p)'
  <2>1. CASE Command(p)
    BY <1>1, <2>1, CommandStep
  <2>2. CASE Continue(p)
    BY <1>1, <2>2, InstallStep, SwitchStep, ActivateStep, FailedStep, StartStopStep, RemoveStep DEF Continue
  <2>. QED
    BY <2>1, <2>2
<1>3. Holding(p) /\ (\E l : pc' = [pc EXCEPT ![p] = l]) /\ overlap' = overlap
  <2>. USE DEF Holding, At, Goto, Exit, lock
  <2>1. CASE Command(p)
    <3>1. ASSUME NEW l, NEW locals, Begin(p, l, locals)
          PROVE  pc[p] = "ready" /\ pc' = [pc EXCEPT ![p] = l] /\ overlap' = overlap
      BY <3>1 DEF Begin
    <3>2. CASE Refuse(p)
      BY <3>2 DEF Refuse
    <3>3. CASE Recover(p)
      BY <3>1, <3>3 DEF Recover
    <3>. QED
      BY <2>1, <3>1, <3>2, <3>3 DEF Command, Install, Activate, Rollback, ActivateGeneration, Deactivate,
         StartApp, StopApp, StartStop, Collect, Remove
  <2>2. CASE Continue(p)
    <3>1. CASE WritePayloads(p) \/ WriteMetadata(p) \/ MarkComplete(p)
      BY <3>1 DEF WritePayloads, WriteMetadata, MarkComplete
    <3>2. CASE WriteSwitching(p) \/ DeactivateOld(p) \/ WriteInactive(p)
      BY <3>2 DEF WriteSwitching, DeactivateOld, WriteInactive
    <3>3. CASE RunActivate(p) \/ MarkActivated(p) \/ WriteActive(p)
      BY <3>3 DEF RunActivate, MarkActivated, WriteActive, Fail
    <3>4. CASE CleanUp(p) \/ WriteError(p) \/ Retry(p)
      BY <3>4 DEF CleanUp, WriteError, Retry
    <3>5. CASE RunStart(p) \/ RunStop(p) \/ Settle(p)
      BY <3>5 DEF RunStart, RunStop, Settle
    <3>6. CASE DeleteSome(p) \/ RemoveSome(p)
      BY <3>6 DEF DeleteSome, RemoveSome, TypeInv
    <3>7. CASE RemoveMarker(p) \/ Delete(p) \/ RemoveApp(p)
      BY <3>7 DEF RemoveMarker, Delete, RemoveApp
    <3>. QED
      BY <2>2, <3>1, <3>2, <3>3, <3>4, <3>5, <3>6, <3>7 DEF Continue
  <2>. QED
    BY <2>1, <2>2
<1>4. OneHolder' /\ \A q \in Procs \ {p} : CommandInv(q)'
  BY <1>1, <1>3, OthersStay
<1>. QED
  BY <1>2, <1>3, <1>4 DEF Truthful

LEMMA InitInv == Init => IInv
<1>. SUFFICES ASSUME Init PROVE IInv
  OBVIOUS
<1>1. \A p \in Procs : ~Holding(p)
  BY DEF Init, Holding
<1>2. FileInv
  BY DEF Init, Inactive, FileInv, Settled, Named
<1>. QED
  BY <1>1, <1>2, TypeInit, NotHolding DEF IInv, OneHolder

LEMMA StepInv == IInv /\ [Next]_vars => IInv'
<1>. SUFFICES ASSUME IInv, [Next]_vars, ~overlap' PROVE Truthful'
  BY TypeNext DEF IInv, Truthful
<1>0. /\ TypeInv /\ TypeInv' /\ pc \in [Procs -> Steps] /\ loc \in [Procs -> Locals]
      /\ overlap \in BOOLEAN
  BY TypeNext DEF IInv, TypeInv
<1>1. ASSUME Truthful, UNCHANGED <<files, work, kind, state>>
      PROVE  FileInv'
  BY <1>1, FilesKept DEF Truthful, files, work, FileInv
<1>2. ASSUME Truthful, NEW q \in Procs, pc'[q] = pc[q], loc'[q] = loc[q], UNCHANGED <<files, work, kind, state>>
      PROVE  CommandInv(q)'
  BY <1>2 DEF Truthful, files, work, CommandInv, InstallInv, SwitchInv, ActivateInv, FailedInv, OtherInv,
     Recorded, Switching, Settled
<1>3. ASSUME Truthful, NEW p \in Procs, NEW l \in {"idle", "lock"}, pc' = [pc EXCEPT ![p] = l],
             \A q \in Procs \ {p} : loc'[q] = loc[q], UNCHANGED <<files, work, kind, state>>
      PROVE  Truthful'
  <2>1. ~Holding(p)' /\ \A q \in Procs \ {p} : pc'[q] = pc[q]
    BY <1>0, <1>3 DEF Holding
  <2>2. CommandInv(p)'
    BY <2>1 DEF Holding, CommandInv, InstallInv, SwitchInv, ActivateInv, FailedInv, OtherInv
  <2>3. \A q \in Procs \ {p} : CommandInv(q)'
    BY <1>2, <1>3, <2>1
  <2>4. OneHolder'
    BY <1>3, <2>1 DEF Truthful, OneHolder, Holding
  <2>. QED
    BY <1>1, <1>3, <2>2, <2>3, <2>4 DEF Truthful
<1>4. ASSUME \A q \in Procs : pc'[q] = "idle", FileInv'
      PROVE  Truthful'
  BY <1>4 DEF Truthful, OneHolder, Holding, CommandInv, InstallInv, SwitchInv, ActivateInv, FailedInv, OtherInv
<1>5. ASSUME NEW p \in Procs, OpenLock(p)
      PROVE  Truthful'
  <2>1. Truthful
    BY <1>5 DEF OpenLock, IInv, Truthful
  <2>. QED
    BY <1>3, <1>5, <2>1 DEF OpenLock, Goto
<1>6. ASSUME NEW p \in Procs, Lock(p)
      PROVE  Truthful'
  <2>1. Truthful /\ Holders = {} /\ pc' = [pc EXCEPT ![p] = "ready"] /\ loc' = loc
        /\ UNCHANGED <<files, work, kind, state>>
    BY <1>6 DEF Lock, Goto, env, IInv, Truthful
  <2>2. pc'[p] = "ready" /\ \A q \in Procs \ {p} : pc'[q] \in {"idle", "lock"}
    BY <1>0, <2>1 DEF Holders
  <2>3. OneHolder' /\ \A q \in Procs : CommandInv(q)'
    BY <2>2 DEF OneHolder, Holding, CommandInv, InstallInv, SwitchInv, ActivateInv, FailedInv, OtherInv
  <2>. QED
    BY <1>1, <2>1, <2>3 DEF Truthful
<1>7. ASSUME NEW p \in Procs, Command(p) \/ Continue(p)
      PROVE  Truthful'
  <2>1. overlap' = overlap
    BY <1>7 DEF Command, Continue, lock, Begin, Install, Activate, Rollback, ActivateGeneration, Deactivate,
       StartApp, StopApp, StartStop, Collect, Remove, Refuse, Recover,
       WritePayloads, WriteMetadata, MarkComplete, WriteSwitching, DeactivateOld, WriteInactive,
       RunActivate, MarkActivated, WriteActive, Fail, CleanUp, WriteError, Retry, RunStart, RunStop, Settle,
       RemoveMarker, DeleteSome, Delete, RemoveSome, RemoveApp
  <2>. QED
    BY <1>0, <1>7, <2>1, HolderStep DEF IInv, Truthful
<1>8. ASSUME NEW p \in Procs, Kill(p)
      PROVE  Truthful'
  <2>1. Truthful
    BY <1>8 DEF Kill, IInv, Truthful
  <2>. QED
    BY <1>0, <1>3, <1>8, <2>1 DEF Kill, Exit, Goto, env
<1>10. CASE PowerCut
  <2>1. FileInv /\ UNCHANGED <<kind, state, metas, activated>>
    BY <1>10 DEF PowerCut, IInv
  <2>2. metas' \subseteq whole' \cup spoiled'
    BY <1>10, <2>1 DEF PowerCut, FileInv
  <2>3. running' \subseteq running /\ forgotten \cap running' \subseteq forgotten'
    BY <1>10 DEF PowerCut, Runs
  <2>4. FileInv'
    BY <2>1, <2>2, <2>3, FilesKept DEF FileInv
  <2>5. \A q \in Procs : pc'[q] = "idle"
    BY <1>10 DEF PowerCut
  <2>. QED
    BY <1>4, <2>4, <2>5
<1>11. CASE Boot
  <2>1. FileInv /\ UNCHANGED <<kind, state, forgotten, metas, activated, whole, spoiled, pc>>
    BY <1>11 DEF Boot, files, lock, IInv
  <2>2. running' = running \/ (kind = "binary" /\ Current \in dirs /\ running' = {Current})
    BY <1>11 DEF Boot
  <2>3. Current \in dirs => Settled /\ Current = state.to /\ Current # None
    <3>1. None \notin Gen /\ dirs \subseteq Gen
      BY <1>0 DEF TypeInv, Gen, None
    <3>. QED
      BY <3>1 DEF Current, Settled
  <2>4. FileInv'
    <3>1. CASE running' = running
      BY <2>1, <3>1, FilesKept DEF FileInv
    <3>2. CASE kind = "binary" /\ Current \in dirs /\ running' = {Current}
      BY <2>1, <2>3, <3>2 DEF FileInv, Settled, Named
    <3>. QED
      BY <2>2, <3>1, <3>2
  <2>5. \A q \in Procs : pc'[q] = "idle"
    BY <1>0, <1>11, <2>1 DEF Boot, TypeInv
  <2>. QED
    BY <1>4, <2>4, <2>5
<1>12. CASE UNCHANGED vars
  <2>1. Truthful /\ UNCHANGED <<files, work, kind, state, pc, loc>>
    BY <1>12 DEF vars, lock, env, IInv, Truthful
  <2>. QED
    BY <1>1, <1>2, <2>1 DEF Truthful, OneHolder, Holding
<1>. QED
  BY <1>5, <1>6, <1>7, <1>8, <1>10, <1>11, <1>12 DEF Next, UserCommand, Recovery, Procs

LEMMA Invariance == Spec => []IInv
BY InitInv, StepInv, PTL DEF Spec

-----------------------------------------------------------------------------
(* The theorems.                                                           *)

\* What runs is named by the state file, or is left over from a deactivation that failed,
\* from a transition that a command replaced, or from a failed activation that is tried
\* again: for any number of users, generations, kills, power failures and failures.
THEOREM RecordAlwaysNames == Spec => []RecordNamesRunning
<1>1. IInv => RecordNamesRunning
  BY DEF IInv, FileInv, RecordNamesRunning
<1>. QED
  BY <1>1, Invariance, PTL

\* When a compose application is active, only its active generation runs, for any number
\* of generations and failures.
THEOREM DockerAlwaysActive == Spec => []DockerRunsActive
<1>1. IInv => DockerRunsActive
  BY DEF IInv, FileInv, Settled, DockerRunsActive
<1>. QED
  BY <1>1, Invariance, PTL

\* The current generation was installed to its end: a recovery may trust the state file
\* without looking at the marker, and numbers may be used again after a collection.
THEOREM CurrentAlwaysWhole == Spec => []CurrentWhole
<1>1. IInv => CurrentWhole
  <2>. SUFFICES ASSUME IInv, Current # None, ~overlap PROVE Current \in whole \cup spoiled
    BY DEF CurrentWhole
  <2>1. Settled /\ Current = state.to
    BY DEF Current, Settled
  <2>. QED
    BY <2>1 DEF IInv, TypeInv, FileInv
<1>. QED
  BY <1>1, Invariance, PTL
=============================================================================
