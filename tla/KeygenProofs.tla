----------------------------- MODULE KeygenProofs -----------------------------
(***************************************************************************)
(* Proofs about SingleKeygen: with one run of an arm at a time, killed or  *)
(* not, keys that a run has reported stay as they are, and the log of a    *)
(* run that succeeds names the IR that was keyed.  A second run of the     *)
(* arm may find the container and the watchdog of an earlier one; what the *)
(* invariant says is that such a container can only write to a directory   *)
(* that the guard has seen.                                                *)
(***************************************************************************)
EXTENDS SingleKeygen, TLAPS, FiniteSetTheorems

Steps ==
  {"idle", "guard", "refused", "mkdir", "stage", "log", "watch", "run", "wait",
   "exiting", "done", "killed"}

KeygenTypeOK ==
  /\ step \in [Runs -> Steps]
  /\ logged \in [Runs -> Irs \cup {None}]
  /\ keygenExit \in [Runs -> {None, "ok", "error"}]
  /\ timedOut \in [Runs -> BOOLEAN]
  /\ watchdog \in [Runs -> {"none", "asleep", "striking"}]
  /\ outDir \in [Arms -> {None, Empty, Torn}
                           \cup [by : Runs, ir : Irs \cup {None}]]
  /\ staged \in [Arms -> Irs \cup {None}]
  /\ container \in [Arms -> {None} \cup [by : Runs, ir : Irs \cup {None},
                                         mounted : BOOLEAN]]
  /\ removals \in Nat

----------------------------------------------------------------------------
(* The parts of the invariant.                                             *)

(* The container of this name, if any, cannot write to the directory.       *)
Detached(a) == container[a] # None => ~ container[a].mounted

OneOfAnArm == \A q, r \in UnderWay : Arm[q] = Arm[r] => q = r

OwnArm == \A a \in Arms : container[a] # None => Arm[container[a].by] = a

NothingMounted == \A a \in Arms : outDir[a] = None => Detached(a)

KeysAtRest ==
  \A a \in Arms :
    IsKey(outDir[a]) =>
      /\ Detached(a)
      /\ \A r \in Runs : Arm[r] = a =>
           step[r] \notin {"mkdir", "stage", "log", "watch", "run", "wait"}

(* What a run can rely on, by how far it is.                                *)
GuardedAt(r) ==
  LET a == Arm[r]
  IN /\ At(r, "mkdir") => outDir[a] = None
     /\ step[r] \in {"stage", "log", "watch", "run"} =>
          outDir[a] = Empty /\ Detached(a)

LoggedAt(r) ==
  /\ step[r] \in {"log", "watch", "run"} => staged[Arm[r]] = Zkir[r]
  /\ step[r] \in {"watch", "run", "wait"} => logged[r] = Zkir[r]

KeyingAt(r) ==
  At(r, "wait") => /\ container[Arm[r]] = Running(r, Zkir[r], TRUE)
                   /\ outDir[Arm[r]] = Empty

SucceededAt(r) ==
  keygenExit[r] = "ok" =>
    /\ step[r] \in {"exiting", "done", "killed"}
    /\ logged[r] = Zkir[r]
    /\ At(r, "exiting") => /\ container[Arm[r]] = None
                           /\ outDir[Arm[r]] = Key(r, Zkir[r])

RunInv(r) == GuardedAt(r) /\ LoggedAt(r) /\ KeyingAt(r) /\ SucceededAt(r)

KeygenInv ==
  /\ KeygenTypeOK
  /\ OneOfAnArm /\ OwnArm /\ NothingMounted /\ KeysAtRest
  /\ \A r \in Runs : RunInv(r)

----------------------------------------------------------------------------
(* Every action keeps the invariant.                                        *)

(* Exclusion: at most one at a time is at most one.                         *)
LEMMA AloneAtStart ==
  ASSUME AtOnce = 1, NEW r \in Runs, Start(r), NEW q \in UnderWay
  PROVE  Arm[q] # Arm[r]
<1> DEFINE S == {p \in UnderWay : Arm[p] = Arm[r]}
<1>1. IsFiniteSet(S)
  <2>1. S \subseteq Runs /\ IsFiniteSet(Runs)
    BY KeygenAssumption DEF UnderWay
  <2> QED
    BY <2>1, FS_Subset
<1>2. Cardinality(S) < 1
  BY DEF Start
<1>3. S = {}
  BY <1>1, <1>2, FS_CardinalityType, FS_EmptySet
<1> QED
  BY <1>3

LEMMA InitKeeps ==
  Init => KeygenInv
  BY KeygenAssumption
  DEF Init, KeygenInv, KeygenTypeOK, Steps, Arms, OneOfAnArm, UnderWay, Ended,
      OwnArm, NothingMounted, Detached, KeysAtRest, IsKey, RunInv, GuardedAt,
      LoggedAt, KeyingAt, SucceededAt, At

LEMMA StartKeeps ==
  ASSUME KeygenInv, AtOnce = 1, NEW r \in Runs, Start(r)
  PROVE  KeygenInv'
<1> USE DEF KeygenInv
<1>1. KeygenTypeOK'
  BY KeygenAssumption DEF KeygenTypeOK, Start, At, Goto, hostVars, Steps, Arms
<1>2. OneOfAnArm'
  BY AloneAtStart
  DEF OneOfAnArm, UnderWay, Ended, KeygenTypeOK, Start, At, Goto, hostVars
<1>3. OwnArm' /\ NothingMounted'
  BY KeygenAssumption
  DEF OwnArm, NothingMounted, Detached, RunInv, GuardedAt, LoggedAt, KeyingAt,
      KeygenTypeOK, Arms, Start, At, Goto, hostVars
<1>4. KeysAtRest'
  BY KeygenAssumption
  DEF KeysAtRest, IsKey, Detached, NothingMounted, RunInv, GuardedAt, KeyingAt,
      OneOfAnArm, UnderWay, Ended, OwnArm, KeygenTypeOK, Arms, Steps, Start, At, Goto, hostVars
<1>5. ASSUME NEW q \in Runs PROVE RunInv(q)'
  BY KeygenAssumption
  DEF RunInv, GuardedAt, LoggedAt, KeyingAt, SucceededAt, NothingMounted,
      Detached, OneOfAnArm, UnderWay, Ended, KeysAtRest, IsKey, OwnArm,
      KeygenTypeOK, Arms, Steps, Start, At, Goto, hostVars
<1> QED
  BY <1>1, <1>2, <1>3, <1>4, <1>5

LEMMA GuardKeeps ==
  ASSUME KeygenInv, NEW r \in Runs, Guard(r)
  PROVE  KeygenInv'
<1> USE DEF KeygenInv
<1>1. KeygenTypeOK'
  BY KeygenAssumption DEF KeygenTypeOK, Guard, GuardHolds, At, Goto, hostVars, Steps, Arms
<1>2. OneOfAnArm'
  BY DEF OneOfAnArm, UnderWay, Ended, KeygenTypeOK, Guard, GuardHolds, At, Goto, hostVars
<1>3. OwnArm' /\ NothingMounted'
  BY KeygenAssumption
  DEF OwnArm, NothingMounted, Detached, RunInv, GuardedAt, LoggedAt, KeyingAt,
      KeygenTypeOK, Arms, Guard, GuardHolds, At, Goto, hostVars
<1>4. KeysAtRest'
  BY KeygenAssumption
  DEF KeysAtRest, IsKey, Detached, NothingMounted, RunInv, GuardedAt, KeyingAt,
      OneOfAnArm, UnderWay, Ended, OwnArm, KeygenTypeOK, Arms, Steps, Guard, GuardHolds, At, Goto, hostVars
<1>5. ASSUME NEW q \in Runs PROVE RunInv(q)'
  <2>1. RunInv(q)
    OBVIOUS
  <2>2. GuardedAt(q)'
    BY <2>1, KeygenAssumption
    DEF RunInv, GuardedAt, NothingMounted, Detached, OneOfAnArm, UnderWay,
        Ended, KeygenTypeOK, Arms, Guard, GuardHolds, At, Goto, hostVars
  <2>3. LoggedAt(q)'
    BY <2>1
    DEF RunInv, LoggedAt, OneOfAnArm, UnderWay, Ended, KeygenTypeOK, Arms,
        Guard, GuardHolds, At, Goto, hostVars
  <2>4. KeyingAt(q)'
    BY <2>1, KeygenAssumption
    DEF RunInv, GuardedAt, LoggedAt, KeyingAt, Detached, OneOfAnArm, UnderWay,
        Ended, OwnArm, KeygenTypeOK, Arms, Guard, GuardHolds, At, Goto, hostVars
  <2>5. SucceededAt(q)'
    BY <2>1, KeygenAssumption
    DEF RunInv, KeyingAt, LoggedAt, SucceededAt, OneOfAnArm, UnderWay, Ended,
        OwnArm, KeygenTypeOK, Arms, Guard, GuardHolds, At, Goto, hostVars
  <2> QED
    BY <2>2, <2>3, <2>4, <2>5 DEF RunInv
<1> QED
  BY <1>1, <1>2, <1>3, <1>4, <1>5

LEMMA MakeOutDirKeeps ==
  ASSUME KeygenInv, NEW r \in Runs, MakeOutDir(r)
  PROVE  KeygenInv'
<1> USE DEF KeygenInv
<1>1. KeygenTypeOK'
  BY KeygenAssumption DEF KeygenTypeOK, MakeOutDir, At, Goto, Steps, Arms
<1>2. OneOfAnArm'
  BY DEF OneOfAnArm, UnderWay, Ended, KeygenTypeOK, MakeOutDir, At, Goto
<1>3. OwnArm' /\ NothingMounted'
  BY KeygenAssumption
  DEF OwnArm, NothingMounted, Detached, RunInv, GuardedAt, LoggedAt, KeyingAt,
      KeygenTypeOK, Arms, MakeOutDir, At, Goto
<1>4. KeysAtRest'
  BY KeygenAssumption
  DEF KeysAtRest, IsKey, Detached, NothingMounted, RunInv, GuardedAt, KeyingAt,
      OneOfAnArm, UnderWay, Ended, OwnArm, KeygenTypeOK, Arms, Steps, MakeOutDir, At, Goto
<1>5. ASSUME NEW q \in Runs PROVE RunInv(q)'
  BY KeygenAssumption
  DEF RunInv, GuardedAt, LoggedAt, KeyingAt, SucceededAt, NothingMounted,
      Detached, OneOfAnArm, UnderWay, Ended, KeysAtRest, IsKey, OwnArm,
      KeygenTypeOK, Arms, Steps, MakeOutDir, At, Goto
<1> QED
  BY <1>1, <1>2, <1>3, <1>4, <1>5

LEMMA StageKeeps ==
  ASSUME KeygenInv, NEW r \in Runs, Stage(r)
  PROVE  KeygenInv'
<1> USE DEF KeygenInv
<1>1. KeygenTypeOK'
  BY KeygenAssumption DEF KeygenTypeOK, Stage, StagedIr, Irs, At, Goto, Steps, Arms
<1>2. OneOfAnArm'
  BY DEF OneOfAnArm, UnderWay, Ended, KeygenTypeOK, Stage, StagedIr, Irs, At, Goto
<1>3. OwnArm' /\ NothingMounted'
  BY KeygenAssumption
  DEF OwnArm, NothingMounted, Detached, RunInv, GuardedAt, LoggedAt, KeyingAt,
      KeygenTypeOK, Arms, Stage, StagedIr, Irs, At, Goto
<1>4. KeysAtRest'
  BY KeygenAssumption
  DEF KeysAtRest, IsKey, Detached, NothingMounted, RunInv, GuardedAt, KeyingAt,
      OneOfAnArm, UnderWay, Ended, OwnArm, KeygenTypeOK, Arms, Steps, Stage, StagedIr, Irs, At, Goto
<1>5. ASSUME NEW q \in Runs PROVE RunInv(q)'
  <2>1. RunInv(q)
    OBVIOUS
  <2>2. GuardedAt(q)'
    BY <2>1, KeygenAssumption
    DEF RunInv, GuardedAt, NothingMounted, Detached, OneOfAnArm, UnderWay,
        Ended, KeygenTypeOK, Arms, Stage, StagedIr, Irs, At, Goto
  <2>3. LoggedAt(q)'
    BY <2>1
    DEF RunInv, LoggedAt, OneOfAnArm, UnderWay, Ended, KeygenTypeOK, Arms,
        Stage, StagedIr, Irs, At, Goto
  <2>4. KeyingAt(q)'
    BY <2>1, KeygenAssumption
    DEF RunInv, GuardedAt, LoggedAt, KeyingAt, Detached, OneOfAnArm, UnderWay,
        Ended, OwnArm, KeygenTypeOK, Arms, Stage, StagedIr, Irs, At, Goto
  <2>5. SucceededAt(q)'
    BY <2>1, KeygenAssumption
    DEF RunInv, KeyingAt, LoggedAt, SucceededAt, OneOfAnArm, UnderWay, Ended,
        OwnArm, KeygenTypeOK, Arms, Stage, StagedIr, Irs, At, Goto
  <2> QED
    BY <2>2, <2>3, <2>4, <2>5 DEF RunInv
<1> QED
  BY <1>1, <1>2, <1>3, <1>4, <1>5

LEMMA LogKeeps ==
  ASSUME KeygenInv, NEW r \in Runs, Log(r)
  PROVE  KeygenInv'
<1> USE DEF KeygenInv
<1>1. KeygenTypeOK'
  BY KeygenAssumption DEF KeygenTypeOK, Log, At, Goto, hostVars, Steps, Arms
<1>2. OneOfAnArm'
  BY DEF OneOfAnArm, UnderWay, Ended, KeygenTypeOK, Log, At, Goto, hostVars
<1>3. OwnArm' /\ NothingMounted'
  BY KeygenAssumption
  DEF OwnArm, NothingMounted, Detached, RunInv, GuardedAt, LoggedAt, KeyingAt,
      KeygenTypeOK, Arms, Log, At, Goto, hostVars
<1>4. KeysAtRest'
  BY KeygenAssumption
  DEF KeysAtRest, IsKey, Detached, NothingMounted, RunInv, GuardedAt, KeyingAt,
      OneOfAnArm, UnderWay, Ended, OwnArm, KeygenTypeOK, Arms, Steps, Log, At, Goto, hostVars
<1>5. ASSUME NEW q \in Runs PROVE RunInv(q)'
  <2>1. RunInv(q)
    OBVIOUS
  <2>2. GuardedAt(q)'
    BY <2>1, KeygenAssumption
    DEF RunInv, GuardedAt, NothingMounted, Detached, OneOfAnArm, UnderWay,
        Ended, KeygenTypeOK, Arms, Log, At, Goto, hostVars
  <2>3. LoggedAt(q)'
    BY <2>1
    DEF RunInv, LoggedAt, OneOfAnArm, UnderWay, Ended, KeygenTypeOK, Arms,
        Log, At, Goto, hostVars
  <2>4. KeyingAt(q)'
    BY <2>1, KeygenAssumption
    DEF RunInv, GuardedAt, LoggedAt, KeyingAt, Detached, OneOfAnArm, UnderWay,
        Ended, OwnArm, KeygenTypeOK, Arms, Log, At, Goto, hostVars
  <2>5. SucceededAt(q)'
    BY <2>1, KeygenAssumption
    DEF RunInv, KeyingAt, LoggedAt, SucceededAt, OneOfAnArm, UnderWay, Ended,
        OwnArm, KeygenTypeOK, Arms, Log, At, Goto, hostVars
  <2> QED
    BY <2>2, <2>3, <2>4, <2>5 DEF RunInv
<1> QED
  BY <1>1, <1>2, <1>3, <1>4, <1>5

LEMMA StartWatchdogKeeps ==
  ASSUME KeygenInv, NEW r \in Runs, StartWatchdog(r)
  PROVE  KeygenInv'
<1> USE DEF KeygenInv
<1>1. KeygenTypeOK'
  BY KeygenAssumption DEF KeygenTypeOK, StartWatchdog, At, Goto, Steps, Arms
<1>2. OneOfAnArm'
  BY DEF OneOfAnArm, UnderWay, Ended, KeygenTypeOK, StartWatchdog, At, Goto
<1>3. OwnArm' /\ NothingMounted'
  BY KeygenAssumption
  DEF OwnArm, NothingMounted, Detached, RunInv, GuardedAt, LoggedAt, KeyingAt,
      KeygenTypeOK, Arms, StartWatchdog, At, Goto
<1>4. KeysAtRest'
  BY KeygenAssumption
  DEF KeysAtRest, IsKey, Detached, NothingMounted, RunInv, GuardedAt, KeyingAt,
      OneOfAnArm, UnderWay, Ended, OwnArm, KeygenTypeOK, Arms, Steps, StartWatchdog, At, Goto
<1>5. ASSUME NEW q \in Runs PROVE RunInv(q)'
  BY KeygenAssumption
  DEF RunInv, GuardedAt, LoggedAt, KeyingAt, SucceededAt, NothingMounted,
      Detached, OneOfAnArm, UnderWay, Ended, KeysAtRest, IsKey, OwnArm,
      KeygenTypeOK, Arms, Steps, StartWatchdog, At, Goto
<1> QED
  BY <1>1, <1>2, <1>3, <1>4, <1>5

LEMMA RunContainerKeeps ==
  ASSUME KeygenInv, NEW r \in Runs, RunContainer(r)
  PROVE  KeygenInv'
<1> USE DEF KeygenInv
<1> DEFINE started == Running(r, staged[Arm[r]], TRUE)
<1>0. /\ Arm[r] \in Arms
      /\ staged[Arm[r]] = Zkir[r]
      /\ started # None /\ started.by = r
      /\ started \in [by : Runs, ir : Irs \cup {None}, mounted : BOOLEAN]
      /\ outDir[Arm[r]] = Empty
  BY KeygenAssumption
  DEF KeygenTypeOK, RunContainer, RunInv, GuardedAt, LoggedAt, Running, Arms, At
<1> HIDE DEF started
<1>c. container' = IF container[Arm[r]] # None THEN container
                  ELSE [container EXCEPT ![Arm[r]] = started]
  BY DEF RunContainer, started
<1>1. KeygenTypeOK'
  BY <1>0, <1>c, KeygenAssumption
  DEF KeygenTypeOK, RunContainer, Running, At, Goto, Steps, Arms
<1>2. OneOfAnArm'
  BY DEF OneOfAnArm, UnderWay, Ended, KeygenTypeOK, RunContainer, Running, At, Goto
<1>3. OwnArm' /\ NothingMounted'
  BY <1>0, <1>c, KeygenAssumption
  DEF OwnArm, NothingMounted, Detached, RunInv, GuardedAt, LoggedAt, KeyingAt,
      KeygenTypeOK, Arms, RunContainer, Running, At, Goto
<1>4. KeysAtRest'
  BY <1>0, <1>c, KeygenAssumption
  DEF KeysAtRest, IsKey, Detached, NothingMounted, RunInv, GuardedAt, KeyingAt,
      OneOfAnArm, UnderWay, Ended, OwnArm, KeygenTypeOK, Arms, Steps, RunContainer, Running, At, Goto
<1>5. ASSUME NEW q \in Runs PROVE RunInv(q)'
  <2>1. RunInv(q)
    OBVIOUS
  <2>2. GuardedAt(q)'
    BY <1>0, <1>c, <2>1, KeygenAssumption
    DEF RunInv, GuardedAt, NothingMounted, Detached, OneOfAnArm, UnderWay,
        Ended, KeygenTypeOK, Arms, RunContainer, Running, At, Goto
  <2>3. LoggedAt(q)'
    BY <2>1
    DEF RunInv, LoggedAt, OneOfAnArm, UnderWay, Ended, KeygenTypeOK, Arms,
        RunContainer, Running, At, Goto
  <2>4. KeyingAt(q)'
    <3>1. CASE q = r
      BY <1>0, <1>c, <3>1
      DEF KeyingAt, KeygenTypeOK, RunContainer, At, Goto, started
    <3>2. CASE q # r
      BY <1>0, <1>c, <2>1, <3>2
      DEF KeyingAt, RunInv, OneOfAnArm, UnderWay, Ended, KeygenTypeOK, Arms,
          RunContainer, At, Goto
    <3> QED
      BY <3>1, <3>2
  <2>5. SucceededAt(q)'
    BY <1>0, <1>c, <2>1, KeygenAssumption
    DEF RunInv, KeyingAt, LoggedAt, SucceededAt, OneOfAnArm, UnderWay, Ended,
        OwnArm, KeygenTypeOK, Arms, RunContainer, Running, At, Goto
  <2> QED
    BY <2>2, <2>3, <2>4, <2>5 DEF RunInv
<1> QED
  BY <1>1, <1>2, <1>3, <1>4, <1>5

LEMMA ContainerEndsKeeps ==
  ASSUME KeygenInv, NEW a \in Arms, NEW how \in {"ok", "error"}, ContainerEnds(a, how)
  PROVE  KeygenInv'
<1> USE DEF KeygenInv
<1>1. KeygenTypeOK'
  BY KeygenAssumption DEF KeygenTypeOK, ContainerEnds, Returned, Running, Key, At, Goto, Steps, Arms
<1>2. OneOfAnArm'
  BY DEF OneOfAnArm, UnderWay, Ended, KeygenTypeOK, ContainerEnds, Returned, Running, Key, At, Goto
<1>3. OwnArm' /\ NothingMounted'
  BY KeygenAssumption
  DEF OwnArm, NothingMounted, Detached, RunInv, GuardedAt, LoggedAt, KeyingAt,
      KeygenTypeOK, Arms, ContainerEnds, Returned, Running, Key, At, Goto
<1>4. KeysAtRest'
  <2> SUFFICES ASSUME NEW b \in Arms, IsKey(outDir[b])'
               PROVE  /\ Detached(b)'
                      /\ \A p \in Runs : Arm[p] = b =>
                           step'[p] \notin {"mkdir", "stage", "log", "watch",
                                            "run", "wait"}
    BY DEF KeysAtRest
  <2>1. CASE b # a
    BY <2>1 DEF ContainerEnds, Returned, Goto, KeygenTypeOK, KeysAtRest, IsKey,
                Detached
  <2>2. CASE b = a /\ IsKey(outDir[a])
    BY <2>2 DEF ContainerEnds, Returned, Goto, KeygenTypeOK, KeysAtRest, Detached
  <2>3. CASE b = a /\ ~ IsKey(outDir[a])
    <3>1. container[a] # None /\ container[a].mounted
      BY <2>3 DEF ContainerEnds, IsKey, KeygenTypeOK
    <3>2. ASSUME NEW p \in Runs, Arm[p] = a
          PROVE  /\ step[p] \notin {"mkdir", "stage", "log", "watch", "run"}
                 /\ step[p] = "wait" => p = container[a].by
      <4>1. GuardedAt(p) /\ KeyingAt(p) /\ ~ Detached(a) /\ outDir[a] # None
        BY <3>1 DEF RunInv, NothingMounted, Detached
      <4> QED
        BY <3>2, <4>1 DEF GuardedAt, KeyingAt, Running, At
    <3> QED
      BY <2>3, <3>2 DEF ContainerEnds, Returned, Goto, At, KeygenTypeOK, Detached
  <2> QED
    BY <2>1, <2>2, <2>3
<1>5. ASSUME NEW q \in Runs PROVE RunInv(q)'
  <2>1. RunInv(q)
    OBVIOUS
  <2>2. GuardedAt(q)'
    BY <2>1, KeygenAssumption
    DEF RunInv, GuardedAt, NothingMounted, Detached, OneOfAnArm, UnderWay,
        Ended, KeygenTypeOK, Arms, ContainerEnds, Returned, Running, Key, At, Goto
  <2>3. LoggedAt(q)'
    BY <2>1
    DEF RunInv, LoggedAt, OneOfAnArm, UnderWay, Ended, KeygenTypeOK, Arms,
        ContainerEnds, Returned, Running, Key, At, Goto
  <2>4. KeyingAt(q)'
    BY <2>1, KeygenAssumption
    DEF RunInv, GuardedAt, LoggedAt, KeyingAt, Detached, OneOfAnArm, UnderWay,
        Ended, OwnArm, KeygenTypeOK, Arms, ContainerEnds, Returned, Running, Key, At, Goto
  <2>5. SucceededAt(q)'
    <3>1. CASE At(q, "wait") /\ q = container[a].by
      <4>1. Arm[q] = a /\ container[a] = Running(q, Zkir[q], TRUE)
        BY <2>1, <3>1 DEF ContainerEnds, RunInv, KeyingAt, OwnArm
      <4>2. /\ step'[q] = "exiting" /\ container'[a] = None
            /\ how = "ok" => outDir'[a] = Key(q, Zkir[q])
        BY <3>1, <4>1
        DEF ContainerEnds, Returned, Goto, At, KeygenTypeOK, Running
      <4>3. keygenExit'[q] = how /\ logged'[q] = Zkir[q]
        BY <2>1, <3>1
        DEF ContainerEnds, Returned, RunInv, LoggedAt, At, KeygenTypeOK
      <4> QED
        BY <4>1, <4>2, <4>3 DEF SucceededAt, At
    <3>2. CASE ~ (At(q, "wait") /\ q = container[a].by)
      <4>1. /\ step'[q] = step[q] /\ keygenExit'[q] = keygenExit[q]
            /\ logged'[q] = logged[q]
        BY <3>2 DEF ContainerEnds, Returned, Goto, At, KeygenTypeOK
      <4>2. CASE Arm[q] = a
        BY <2>1, <4>1, <4>2 DEF RunInv, SucceededAt, ContainerEnds, At
      <4>3. CASE Arm[q] # a
        BY <2>1, <4>1, <4>3
        DEF RunInv, SucceededAt, ContainerEnds, At, KeygenTypeOK, Arms
      <4> QED
        BY <4>2, <4>3
    <3> QED
      BY <3>1, <3>2
  <2> QED
    BY <2>2, <2>3, <2>4, <2>5 DEF RunInv
<1> QED
  BY <1>1, <1>2, <1>3, <1>4, <1>5

LEMMA WatchdogWakesKeeps ==
  ASSUME KeygenInv, NEW r \in Runs, WatchdogWakes(r)
  PROVE  KeygenInv'
<1> USE DEF KeygenInv
<1>1. KeygenTypeOK'
  BY KeygenAssumption DEF KeygenTypeOK, WatchdogWakes, Asleep, At, Steps, Arms
<1>2. OneOfAnArm'
  BY DEF OneOfAnArm, UnderWay, Ended, KeygenTypeOK, WatchdogWakes, Asleep, At
<1>3. OwnArm' /\ NothingMounted'
  BY KeygenAssumption
  DEF OwnArm, NothingMounted, Detached, RunInv, GuardedAt, LoggedAt, KeyingAt,
      KeygenTypeOK, Arms, WatchdogWakes, Asleep, At
<1>4. KeysAtRest'
  BY KeygenAssumption
  DEF KeysAtRest, IsKey, Detached, NothingMounted, RunInv, GuardedAt, KeyingAt,
      OneOfAnArm, UnderWay, Ended, OwnArm, KeygenTypeOK, Arms, Steps, WatchdogWakes, Asleep, At
<1>5. ASSUME NEW q \in Runs PROVE RunInv(q)'
  BY KeygenAssumption
  DEF RunInv, GuardedAt, LoggedAt, KeyingAt, SucceededAt, NothingMounted,
      Detached, OneOfAnArm, UnderWay, Ended, KeysAtRest, IsKey, OwnArm,
      KeygenTypeOK, Arms, Steps, WatchdogWakes, Asleep, At
<1> QED
  BY <1>1, <1>2, <1>3, <1>4, <1>5

LEMMA WatchdogStrikesKeeps ==
  ASSUME KeygenInv, NEW r \in Runs, WatchdogStrikes(r)
  PROVE  KeygenInv'
<1> USE DEF KeygenInv
<1>1. KeygenTypeOK'
  BY KeygenAssumption DEF KeygenTypeOK, WatchdogStrikes, Kill, Returned, Running, Key, At, Goto, Steps, Arms
<1>2. OneOfAnArm'
  BY DEF OneOfAnArm, UnderWay, Ended, KeygenTypeOK, WatchdogStrikes, Kill, Returned, Running, Key, At, Goto
<1>3. OwnArm' /\ NothingMounted'
  BY KeygenAssumption
  DEF OwnArm, NothingMounted, Detached, RunInv, GuardedAt, LoggedAt, KeyingAt,
      KeygenTypeOK, Arms, WatchdogStrikes, Kill, Returned, Running, Key, At, Goto
<1>4. KeysAtRest'
  BY KeygenAssumption
  DEF KeysAtRest, IsKey, Detached, NothingMounted, RunInv, GuardedAt, KeyingAt,
      OneOfAnArm, UnderWay, Ended, OwnArm, KeygenTypeOK, Arms, Steps, WatchdogStrikes, Kill, Returned, Running, Key, At, Goto
<1>5. ASSUME NEW q \in Runs PROVE RunInv(q)'
  BY KeygenAssumption
  DEF RunInv, GuardedAt, LoggedAt, KeyingAt, SucceededAt, NothingMounted,
      Detached, OneOfAnArm, UnderWay, Ended, KeysAtRest, IsKey, OwnArm,
      KeygenTypeOK, Arms, Steps, WatchdogStrikes, Kill, Returned, Running, Key, At, Goto
<1> QED
  BY <1>1, <1>2, <1>3, <1>4, <1>5

LEMMA ExitKeeps ==
  ASSUME KeygenInv, NEW r \in Runs, Exit(r)
  PROVE  KeygenInv'
<1> USE DEF KeygenInv
<1>1. KeygenTypeOK'
  BY KeygenAssumption DEF KeygenTypeOK, Exit, Kill, Running, Key, At, Goto, Steps, Arms
<1>2. OneOfAnArm'
  BY DEF OneOfAnArm, UnderWay, Ended, KeygenTypeOK, Exit, Kill, Running, Key, At, Goto
<1>3. OwnArm' /\ NothingMounted'
  BY KeygenAssumption
  DEF OwnArm, NothingMounted, Detached, RunInv, GuardedAt, LoggedAt, KeyingAt,
      KeygenTypeOK, Arms, Exit, Kill, Running, Key, At, Goto
<1>4. KeysAtRest'
  BY KeygenAssumption
  DEF KeysAtRest, IsKey, Detached, NothingMounted, RunInv, GuardedAt, KeyingAt,
      OneOfAnArm, UnderWay, Ended, OwnArm, KeygenTypeOK, Arms, Steps, Exit, Kill, Running, Key, At, Goto
<1>5. ASSUME NEW q \in Runs PROVE RunInv(q)'
  BY KeygenAssumption
  DEF RunInv, GuardedAt, LoggedAt, KeyingAt, SucceededAt, NothingMounted,
      Detached, OneOfAnArm, UnderWay, Ended, KeysAtRest, IsKey, OwnArm,
      KeygenTypeOK, Arms, Steps, Exit, Kill, Running, Key, At, Goto
<1> QED
  BY <1>1, <1>2, <1>3, <1>4, <1>5

LEMMA KilledKeeps ==
  ASSUME KeygenInv, NEW r \in Runs, Killed(r)
  PROVE  KeygenInv'
<1> USE DEF KeygenInv
<1>1. KeygenTypeOK'
  BY KeygenAssumption DEF KeygenTypeOK, Killed, At, Goto, hostVars, Steps, Arms
<1>2. OneOfAnArm'
  BY DEF OneOfAnArm, UnderWay, Ended, KeygenTypeOK, Killed, At, Goto, hostVars
<1>3. OwnArm' /\ NothingMounted'
  BY KeygenAssumption
  DEF OwnArm, NothingMounted, Detached, RunInv, GuardedAt, LoggedAt, KeyingAt,
      KeygenTypeOK, Arms, Killed, At, Goto, hostVars
<1>4. KeysAtRest'
  BY KeygenAssumption
  DEF KeysAtRest, IsKey, Detached, NothingMounted, RunInv, GuardedAt, KeyingAt,
      OneOfAnArm, UnderWay, Ended, OwnArm, KeygenTypeOK, Arms, Steps, Killed, At, Goto, hostVars
<1>5. ASSUME NEW q \in Runs PROVE RunInv(q)'
  BY KeygenAssumption
  DEF RunInv, GuardedAt, LoggedAt, KeyingAt, SucceededAt, NothingMounted,
      Detached, OneOfAnArm, UnderWay, Ended, KeysAtRest, IsKey, OwnArm,
      KeygenTypeOK, Arms, Steps, Killed, At, Goto, hostVars
<1> QED
  BY <1>1, <1>2, <1>3, <1>4, <1>5

LEMMA RemoveKeeps ==
  ASSUME KeygenInv, NEW a \in Arms, Remove(a)
  PROVE  KeygenInv'
<1> USE DEF KeygenInv
<1>1. KeygenTypeOK'
  <2>1. (IF container[a] = None THEN None
         ELSE [container[a] EXCEPT !.mounted = FALSE])
          \in {None} \cup [by : Runs, ir : Irs \cup {None}, mounted : BOOLEAN]
    BY DEF KeygenTypeOK
  <2> QED
    BY <2>1 DEF KeygenTypeOK, Remove, scriptVars
<1>2. OneOfAnArm'
  BY DEF OneOfAnArm, UnderWay, Ended, KeygenTypeOK, Remove, scriptVars, At
<1>3. OwnArm' /\ NothingMounted'
  BY KeygenAssumption
  DEF OwnArm, NothingMounted, Detached, RunInv, GuardedAt, LoggedAt, KeyingAt,
      KeygenTypeOK, Arms, Remove, scriptVars, At
<1>4. KeysAtRest'
  BY KeygenAssumption
  DEF KeysAtRest, IsKey, Detached, NothingMounted, RunInv, GuardedAt, KeyingAt,
      OneOfAnArm, UnderWay, Ended, OwnArm, KeygenTypeOK, Arms, Steps, Remove, scriptVars, At
<1>5. ASSUME NEW q \in Runs PROVE RunInv(q)'
  BY KeygenAssumption
  DEF RunInv, GuardedAt, LoggedAt, KeyingAt, SucceededAt, NothingMounted,
      Detached, OneOfAnArm, UnderWay, Ended, KeysAtRest, IsKey, OwnArm,
      KeygenTypeOK, Arms, Steps, Remove, scriptVars, At
<1> QED
  BY <1>1, <1>2, <1>3, <1>4, <1>5

LEMMA StutterKeeps ==
  ASSUME KeygenInv, UNCHANGED vars
  PROVE  KeygenInv'
  BY DEF vars, scriptVars, hostVars, KeygenInv, KeygenTypeOK, OneOfAnArm,
         UnderWay, OwnArm, NothingMounted, Detached, KeysAtRest, IsKey, RunInv,
         GuardedAt, LoggedAt, KeyingAt, SucceededAt, At

LEMMA StepKeeps ==
  ASSUME AtOnce = 1, KeygenInv, [Next]_vars
  PROVE  KeygenInv'
<1>1. CASE UNCHANGED vars
  BY <1>1, StutterKeeps
<1>2. ASSUME NEW r \in Runs,
             \/ Start(r) \/ Script(r) \/ Killed(r)
             \/ WatchdogWakes(r) \/ WatchdogStrikes(r)
      PROVE  KeygenInv'
  BY <1>2, StartKeeps, GuardKeeps, MakeOutDirKeeps, StageKeeps, LogKeeps,
     StartWatchdogKeeps, RunContainerKeeps, ExitKeeps, KilledKeeps,
     WatchdogWakesKeeps, WatchdogStrikesKeeps
  DEF Script
<1>3. ASSUME NEW a \in Arms, NEW how \in {"ok", "error"}, ContainerEnds(a, how)
      PROVE  KeygenInv'
  BY <1>3, ContainerEndsKeeps
<1>4. ASSUME NEW a \in Arms, Remove(a)
      PROVE  KeygenInv'
  BY <1>4, RemoveKeeps
<1> QED
  BY <1>1, <1>2, <1>3, <1>4 DEF Next

LEMMA InvariantHolds ==
  ASSUME AtOnce = 1
  PROVE  Spec => []KeygenInv
<1>1. Init => KeygenInv
  BY InitKeeps
<1>2. KeygenInv /\ [Next]_vars => KeygenInv'
  BY StepKeeps
<1> QED
  BY <1>1, <1>2, PTL DEF Spec

----------------------------------------------------------------------------
(* What the runs check.                                                     *)

(* A run that reports success has keyed the IR whose hash its log prints,   *)
(* and that is the IR it was given, whatever containers, watchdogs and      *)
(* staged files killed runs have left behind.                               *)
THEOREM LogsNameTheirIr ==
  ASSUME AtOnce = 1
  PROVE  Spec => []LogNamesKeyedIr
<1>1. KeygenInv => LogNamesKeyedIr
  BY DEF KeygenInv, RunInv, SucceededAt, LogNamesKeyedIr, At
<1> QED
  BY <1>1, InvariantHolds, PTL

(* No step of the invariant touches reported keys, but to remove them: the  *)
(* only containers left have lost the directory.                            *)
LEMMA StepLeavesResult ==
  ASSUME KeygenInv, Next, NEW r \in Runs,
         step[r] = "done", IsKey(outDir[Arm[r]])
  PROVE  outDir'[Arm[r]] \in {outDir[Arm[r]], None}
<1> DEFINE a == Arm[r]
<1>1. /\ a \in Arms /\ Detached(a)
      /\ \A q \in Runs : Arm[q] = a => ~ At(q, "mkdir")
  BY DEF KeygenInv, KeysAtRest, Arms, At
<1>2. ASSUME NEW q \in Runs,
             \/ Start(q) \/ Guard(q) \/ Stage(q) \/ Log(q)
             \/ StartWatchdog(q) \/ RunContainer(q) \/ Killed(q)
             \/ WatchdogWakes(q)
      PROVE  outDir' = outDir
  BY <1>2 DEF Start, Guard, Stage, Log, StartWatchdog, RunContainer, Killed,
              WatchdogWakes, hostVars
<1>3. ASSUME NEW q \in Runs, MakeOutDir(q)
      PROVE  outDir'[a] = outDir[a]
  BY <1>1, <1>3 DEF MakeOutDir, KeygenInv, KeygenTypeOK
<1>4. ASSUME NEW q \in Runs, WatchdogStrikes(q) \/ Exit(q)
      PROVE  outDir'[a] = outDir[a]
  BY <1>1, <1>4
  DEF WatchdogStrikes, Exit, Kill, Detached, KeygenInv, KeygenTypeOK
<1>5. ASSUME NEW b \in Arms, NEW how \in {"ok", "error"}, ContainerEnds(b, how)
      PROVE  outDir'[a] = outDir[a]
  BY <1>1, <1>5 DEF ContainerEnds, Detached, KeygenInv, KeygenTypeOK
<1>6. ASSUME NEW b \in Arms, Remove(b)
      PROVE  outDir'[a] \in {outDir[a], None}
  BY <1>1, <1>6 DEF Remove, KeygenInv, KeygenTypeOK
<1> QED
  BY <1>2, <1>3, <1>4, <1>5, <1>6 DEF Next, Script

(* Keys that a run has reported stay as they are until somebody removes     *)
(* them: no later run, and nothing an earlier one left behind, writes to    *)
(* them.                                                                    *)
THEOREM ResultsStand ==
  ASSUME AtOnce = 1
  PROVE  Spec => ResultStands
<1> DEFINE Kept ==
      \A r \in Runs :
        LET a == Arm[r]
        IN step[r] = "done" /\ IsKey(outDir[a]) /\ outDir[a].by = r
             => outDir'[a] \in {outDir[a], None}
<1>1. KeygenInv /\ [Next]_vars => Kept \/ UNCHANGED vars
  BY StepLeavesResult
<1>2. KeygenInv /\ [Next]_vars => [Kept]_vars
  BY <1>1
<1> HIDE DEF Kept
<1>3. Spec => [][Kept]_vars
  BY <1>2, InvariantHolds, PTL DEF Spec
<1> QED
  BY <1>3 DEF ResultStands, Kept
=============================================================================
