---------------------------- MODULE SingleKeygen ----------------------------
(***************************************************************************)
(* scripts/keygen-zkir.sh: keying one IR in a container, with a directory  *)
(* whose existence is the guard, a container known by its arm's name, and  *)
(* a watchdog.  Several runs of the script, of one arm or of several, may  *)
(* be under way; each may be killed without its trap, which leaves its     *)
(* container and its watchdog behind.                                      *)
(***************************************************************************)
EXTENDS Naturals, FiniteSets

CONSTANTS
  Runs,      \* the runs of the script
  Arm,       \* run -> the arm name it is given
  Zkir,      \* run -> the IR it is given
  None, Empty, Torn,
  AtOnce,    \* how many runs of one arm may be under way at once
  MaxRemove  \* bound: how often somebody removes an output directory

Arms == {Arm[r] : r \in Runs}
Irs == {Zkir[r] : r \in Runs}
Key(r, ir) == [by |-> r, ir |-> ir]
Running(r, ir, m) == [by |-> r, ir |-> ir, mounted |-> m]

ASSUME KeygenAssumption ==
  /\ IsFiniteSet(Runs)
  /\ AtOnce \in Nat /\ MaxRemove \in Nat
  /\ None # Empty /\ None # Torn /\ Empty # Torn /\ None # "ok"
  /\ \A r \in Runs, ir \in Irs \cup {None} :
       /\ Key(r, ir) \notin {None, Empty, Torn}
       /\ \A m \in BOOLEAN : Running(r, ir, m) # None

VARIABLES
  step,       \* run -> where the script is
  logged,     \* run -> the ZKIR_STAGED_SHA256 it printed
  keygenExit, \* run -> "ok" or "error", once `docker run` returned
  timedOut,   \* run -> its watchdog's flag file
  watchdog,   \* run -> its watchdog: "none", "asleep" or "striking"
  outDir,     \* arm -> None, Empty, Torn or the keys in generated/keys/<arm>
  staged,     \* arm -> the IR in generated/ir-stage/<arm>
  container,  \* arm -> None, or the container of that arm's name
  removals

scriptVars == <<step, logged, keygenExit, timedOut>>
hostVars == <<watchdog, outDir, staged, container>>
vars == <<scriptVars, hostVars, removals>>

IsKey(x) == x \notin {None, Empty, Torn}

At(r, s) == step[r] = s
Goto(r, s) == step' = [step EXCEPT ![r] = s]
Ended == {"idle", "refused", "done", "killed"}
UnderWay == {r \in Runs : step[r] \notin Ended}

Start(r) ==
  /\ At(r, "idle")
  /\ Cardinality({q \in UnderWay : Arm[q] = Arm[r]}) < AtOnce
  /\ Goto(r, "guard")
  /\ UNCHANGED <<logged, keygenExit, timedOut, hostVars, removals>>

(* Mutant of GuardHolds: nothing is refused.                                *)
NoGuard(r) == FALSE
(* `[ -e "$out_dir" ]`.                                                     *)
GuardHolds(r) == outDir[Arm[r]] # None

(* Exit 97, or 98 for a busy marker port; no trap is set yet.               *)
Guard(r) ==
  /\ At(r, "guard")
  /\ \/ Goto(r, "refused")
     \/ ~ GuardHolds(r) /\ Goto(r, "mkdir")
  /\ UNCHANGED <<logged, keygenExit, timedOut, hostVars, removals>>

(* `mkdir -p`: a directory that is there by now is as good.                 *)
MakeOutDir(r) ==
  /\ At(r, "mkdir")
  /\ outDir' = [outDir EXCEPT ![Arm[r]] = IF @ = None THEN Empty ELSE @]
  /\ Goto(r, "stage")
  /\ UNCHANGED <<logged, keygenExit, timedOut, watchdog, staged, container,
                 removals>>

(* Mutant of StagedIr: what an earlier run staged is taken for ours.        *)
KeptStaged(r) ==
  IF staged[Arm[r]] = None THEN Zkir[r] ELSE staged[Arm[r]]
(* `rm -rf` and `cp`.                                                       *)
StagedIr(r) == Zkir[r]

Stage(r) ==
  /\ At(r, "stage")
  /\ staged' = [staged EXCEPT ![Arm[r]] = StagedIr(r)]
  /\ Goto(r, "log")
  /\ UNCHANGED <<logged, keygenExit, timedOut, watchdog, outDir, container,
                 removals>>

(* The hash of the staged copy is printed; then `ensure_image` may refuse,  *)
(* with the trap set.                                                       *)
Log(r) ==
  /\ At(r, "log")
  /\ logged' = [logged EXCEPT ![r] = staged[Arm[r]]]
  /\ \/ Goto(r, "watch") /\ UNCHANGED keygenExit
     \/ Goto(r, "exiting") /\ keygenExit' = [keygenExit EXCEPT ![r] = "error"]
  /\ UNCHANGED <<timedOut, hostVars, removals>>

StartWatchdog(r) ==
  /\ At(r, "watch")
  /\ watchdog' = [watchdog EXCEPT ![r] = "asleep"]
  /\ Goto(r, "run")
  /\ UNCHANGED <<logged, keygenExit, timedOut, outDir, staged, container,
                 removals>>

(* `docker run --name`: it fails if the name is taken.                      *)
RunContainer(r) ==
  LET a == Arm[r]
  IN /\ At(r, "run")
     /\ IF container[a] # None
        THEN /\ keygenExit' = [keygenExit EXCEPT ![r] = "error"]
             /\ Goto(r, "exiting")
             /\ UNCHANGED container
        ELSE /\ container' = [container EXCEPT ![a] = Running(r, staged[a], TRUE)]
             /\ Goto(r, "wait")
             /\ UNCHANGED keygenExit
     /\ UNCHANGED <<logged, timedOut, watchdog, outDir, staged, removals>>

(* What the owner sees of its container's end, if it is still there.        *)
Returned(r, how) ==
  IF At(r, "wait")
  THEN keygenExit' = [keygenExit EXCEPT ![r] = how] /\ Goto(r, "exiting")
  ELSE UNCHANGED <<keygenExit, step>>

(* zkir-v3 ends.  A directory that was removed under a container is not the *)
(* one that was made since.                                                 *)
ContainerEnds(a, how) ==
  LET c == container[a]
  IN /\ c # None
     /\ container' = [container EXCEPT ![a] = None]
     /\ Returned(c.by, how)
     /\ \/ ~ c.mounted /\ UNCHANGED outDir
        \/ /\ c.mounted
           /\ \/ how = "ok" /\ outDir' = [outDir EXCEPT ![a] = Key(c.by, c.ir)]
              \/ how = "error" /\ outDir' = [outDir EXCEPT ![a] = Torn]
              \/ how = "error" /\ UNCHANGED outDir
     /\ UNCHANGED <<logged, timedOut, watchdog, staged, removals>>

(* `docker kill` or `docker rm -f`, by name.                                *)
Kill(a) ==
  /\ container' = [container EXCEPT ![a] = None]
  /\ IF container[a] # None /\ container[a].mounted
     THEN \/ UNCHANGED outDir
          \/ outDir' = [outDir EXCEPT ![a] = Torn]
     ELSE UNCHANGED outDir

(* Mutant of Asleep: the watchdog ends with its script.                     *)
WithScript(r) == watchdog[r] = "asleep" /\ r \in UnderWay
Asleep(r) == watchdog[r] = "asleep"

(* The two hours are up; its script may be gone since long.  The flag is    *)
(* raised before the kill, and the container may end in between.            *)
WatchdogWakes(r) ==
  /\ Asleep(r) /\ step[r] # "run"
  /\ IF container[Arm[r]] = None
     THEN /\ watchdog' = [watchdog EXCEPT ![r] = "none"]
          /\ UNCHANGED timedOut
     ELSE /\ watchdog' = [watchdog EXCEPT ![r] = "striking"]
          /\ timedOut' = [timedOut EXCEPT ![r] = TRUE]
  /\ UNCHANGED <<step, logged, keygenExit, outDir, staged, container, removals>>

WatchdogStrikes(r) ==
  /\ watchdog[r] = "striking"
  /\ watchdog' = [watchdog EXCEPT ![r] = "none"]
  /\ Kill(Arm[r])
  /\ IF container[Arm[r]] # None THEN Returned(container[Arm[r]].by, "error")
     ELSE UNCHANGED <<keygenExit, step>>
  /\ UNCHANGED <<logged, timedOut, staged, removals>>

(* The report, and the EXIT trap: the watchdog, then the container by name. *)
Exit(r) ==
  LET a == Arm[r]
  IN /\ At(r, "exiting")
     /\ watchdog' = [watchdog EXCEPT ![r] = "none"]
     /\ Kill(a)
     /\ IF container[a] # None /\ At(container[a].by, "wait")
        THEN /\ step' = [step EXCEPT ![r] = "done", ![container[a].by] = "exiting"]
             /\ keygenExit' = [keygenExit EXCEPT ![container[a].by] = "error"]
        ELSE Goto(r, "done") /\ UNCHANGED keygenExit
     /\ UNCHANGED <<logged, timedOut, staged, removals>>

(* SIGKILL: no trap runs.                                                   *)
Killed(r) ==
  /\ r \in UnderWay
  /\ Goto(r, "killed")
  /\ UNCHANGED <<logged, keygenExit, timedOut, hostVars, removals>>

(* "Move or remove it deliberately if you really mean to re-key."           *)
Remove(a) ==
  /\ removals < MaxRemove
  /\ outDir[a] # None
  /\ \A r \in UnderWay : Arm[r] # a
  /\ removals' = removals + 1
  /\ outDir' = [outDir EXCEPT ![a] = None]
  /\ container' = [container EXCEPT ![a] =
                     IF @ = None THEN None ELSE [@ EXCEPT !.mounted = FALSE]]
  /\ UNCHANGED <<scriptVars, watchdog, staged>>

Init ==
  /\ step = [r \in Runs |-> "idle"]
  /\ logged = [r \in Runs |-> None]
  /\ keygenExit = [r \in Runs |-> None]
  /\ timedOut = [r \in Runs |-> FALSE]
  /\ watchdog = [r \in Runs |-> "none"]
  /\ outDir = [a \in Arms |-> None]
  /\ staged = [a \in Arms |-> None]
  /\ container = [a \in Arms |-> None]
  /\ removals = 0

Script(r) ==
  \/ Guard(r) \/ MakeOutDir(r) \/ Stage(r) \/ Log(r) \/ StartWatchdog(r)
  \/ RunContainer(r) \/ Exit(r)

Next ==
  \/ \E r \in Runs :
       \/ Start(r) \/ Script(r) \/ Killed(r)
       \/ WatchdogWakes(r) \/ WatchdogStrikes(r)
  \/ \E a \in Arms, how \in {"ok", "error"} : ContainerEnds(a, how)
  \/ \E a \in Arms : Remove(a)

Spec == Init /\ [][Next]_vars

(* A script that is not killed goes on, and a sleep ends.                   *)
FairSpec ==
  Spec /\ \A r \in Runs :
            /\ WF_vars(Script(r))
            /\ WF_vars(WatchdogWakes(r))
            /\ WF_vars(WatchdogStrikes(r))

----------------------------------------------------------------------------
(* "A previous result is never silently overwritten" (keygen-zkir.sh): keys *)
(* a run has reported stay as they are until somebody removes them.         *)
ResultStands ==
  [][\A r \in Runs :
       LET a == Arm[r]
       IN step[r] = "done" /\ IsKey(outDir[a]) /\ outDir[a].by = r
            => outDir'[a] \in {outDir[a], None}]_vars

(* A run that reports success has put the keys of the very IR whose hash is *)
(* in its log there, and that is the IR it was given ("the log proves the   *)
(* container was fed the same bytes").                                      *)
LogNamesKeyedIr ==
  \A r \in Runs :
    keygenExit[r] = "ok" => logged[r] = Zkir[r] /\
      (step[r] = "exiting" => outDir[Arm[r]] = Key(r, logged[r]))

(* No container keys for ever, its script alive or not: the watchdog is not *)
(* a child the trap's absence takes along.                                  *)
ContainersEnd == \A a \in Arms : container[a] # None ~> container[a] = None
=============================================================================
