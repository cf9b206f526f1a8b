---------------------------- MODULE ProvingBench ----------------------------
(***************************************************************************)
(* The proving harness, prove-bench/src/main.rs: `check`, the interleaved  *)
(* `bench` of two artifacts and the one-arm `solo`.  All three start from  *)
(* preimages derived from the compactc artifact (TranscriptSynth); `bench` *)
(* and `solo` then prove, verify, write a row to the raw file and count.   *)
(* The process may be killed between any two steps, and a write may fail.  *)
(*                                                                         *)
(* A time is known by the attempt it was measured on.  Upstream's prover   *)
(* and verifier are external: a proof is made or refused, and is good (it  *)
(* verifies under parameters that cover its statement) or bad.             *)
(***************************************************************************)
EXTENDS Naturals, Sequences, FiniteSets, Functions

CONSTANTS
  Requested,       \* `--scenarios`: the names, in order
  Runs,            \* `--runs`
  Reference,       \* the compactc artifact
  Port,            \* the minocrab artifact
  ArmName,         \* arm -> `--a-name` or `--b-name`
  EmbeddedCovers,  \* the arms whose statements the embedded 2p14 set covers
  Earlier          \* the raw file an earlier run left at `--csv`

Artifacts == {Reference, Port}
Scenarios == Range(Requested)

ASSUME BenchAssumption ==
  /\ Requested \in Seq(Scenarios) /\ Len(Requested) > 0
  /\ Runs \in Nat
  /\ Reference # Port
  /\ ArmName[Reference] # ArmName[Port]
  /\ EmbeddedCovers \subseteq Artifacts

VARIABLES
  command,     \* <<"check">>, <<"bench">> or <<"solo", arm>>
  accepts,     \* artifact -> the scenarios whose shared preimage it accepts
  layout,      \* how the artifacts' schemas and `pi_skips` compare
  stage, at,   \* where in the command, and the step it is at
  accepted,    \* `accepts` of `check`: the acceptances counted so far
  attempt,     \* what became of the proof in hand
  csv,         \* the raw file
  cells,       \* `bench`: <<arm's name, scenario>> -> the attempts counted
  unverified,  \* `bench`: how many proofs were made and not counted
  all,         \* `solo`: the attempts counted
  exit         \* "ok" is 0, "undelivered" 70, "panic" 101

artifactVars == <<command, accepts, layout>>
tallyVars == <<cells, unverified, all>>
vars == <<artifactVars, stage, at, accepted, attempt, csv, tallyVars, exit>>

Checking == command[1] = "check"
Solo == command[1] = "solo"
Arms == IF Solo THEN <<command[2]>> ELSE <<Reference, Port>>

(* Mutant of Attempts: all of one arm's proofs, then the other's.           *)
ArmAfterArm ==
  LET perArm == Runs * Len(Requested)
  IN [n \in 1 .. perArm * Len(Arms) |->
        [run |-> 1 + (((n - 1) % perArm) \div Len(Requested)),
         scenario |-> Requested[1 + ((n - 1) % Len(Requested))],
         arm |-> Arms[1 + ((n - 1) \div perArm)]]]

(* `for run { for scenario { A then B } }`: a turn is one scenario of one   *)
(* run, and each of its arms has it once.                                   *)
Attempts ==
  [n \in 1 .. Runs * Len(Requested) * Len(Arms) |->
     LET turn == (n - 1) \div Len(Arms)
     IN [run |-> 1 + (turn \div Len(Requested)),
         scenario |-> Requested[1 + (turn % Len(Requested))],
         arm |-> Arms[1 + ((n - 1) % Len(Arms))]]]

Warmups ==
  [n \in DOMAIN Arms |-> [run |-> 0, scenario |-> Requested[1], arm |-> Arms[n]]]

Row(phase, a, verified) == [phase |-> phase, of |-> a, verified |-> verified]

----------------------------------------------------------------------------
Running == exit = "running"
Goto(s) == stage' = s /\ at' = 1 /\ UNCHANGED exit
Advance == at' = at + 1 /\ UNCHANGED <<stage, exit>>
Finish(how) == exit' = how /\ UNCHANGED <<stage, at>>
Panic == Finish("panic")

(* Mutant of AcceptedOn: one artifact's answer is counted for both.         *)
AcceptedTwice(s) == IF s \in accepts[Reference] THEN 2 ELSE 0
AcceptedOn(s) == Cardinality({a \in Artifacts : s \in accepts[a]})

(* `cmd_check`, scenario by scenario.  A refusal by the port is counted; no *)
(* transcript, a different schema or a different layout of a transcript     *)
(* both accept is fatal at once.                                            *)
CheckScenario ==
  LET s == Requested[at]
  IN /\ Running /\ Checking /\ at <= Len(Requested)
     /\ IF \/ layout = "schemasDiffer"
           \/ s \notin accepts[Reference]
           \/ AcceptedOn(s) = 2 /\ layout = "skipsDiffer"
        THEN Panic /\ UNCHANGED accepted
        ELSE Advance /\ accepted' = accepted + AcceptedOn(s)
     /\ UNCHANGED <<artifactVars, attempt, csv, tallyVars>>

AcceptGate ==
  /\ Running /\ Checking /\ at > Len(Requested)
  /\ Finish(IF accepted = 2 * Len(Requested) THEN "ok" ELSE "panic")
  /\ UNCHANGED <<artifactVars, accepted, attempt, csv, tallyVars>>

----------------------------------------------------------------------------
(* Mutant of Shared: only the artifact it was derived from is asked.        *)
SharedByReference(s) == s \in accepts[Reference]

(* `synthesize` from the reference, then `check` on each arm.               *)
Shared(s) ==
  s \in accepts[Reference] /\ \A i \in DOMAIN Arms : s \in accepts[Arms[i]]

Preimage ==
  /\ Running /\ ~ Checking /\ stage = "preimages"
  /\ IF ~ Shared(Requested[at]) THEN Panic
     ELSE IF at < Len(Requested) THEN Advance ELSE Goto("csv")
  /\ UNCHANGED <<artifactVars, accepted, attempt, csv, tallyVars>>

(* `File::create` empties an earlier file; the header is written at once.   *)
CreateCsv ==
  /\ Running /\ stage = "csv"
  /\ csv' = <<>>
  /\ Goto("warmup")
  /\ UNCHANGED <<artifactVars, accepted, attempt, tallyVars>>

CannotCreate ==
  /\ Running /\ stage = "csv"
  /\ Panic
  /\ UNCHANGED <<artifactVars, accepted, attempt, csv, tallyVars>>

(* `timed_prove`.                                                           *)
Prove ==
  /\ Running /\ attempt = "none"
  /\ stage = "warmup" \/ (stage = "matrix" /\ at <= Len(Attempts))
  /\ attempt' \in {"good", "bad", "failed"}
  /\ UNCHANGED <<artifactVars, stage, at, accepted, csv, tallyVars, exit>>

(* `build_arm`: one choice, whatever the arm; nothing falls back from it.   *)
VerifierParams(arm) == "embedded"

(* `timed_verify`.                                                          *)
Verified(a) ==
  /\ attempt = "good"
  /\ VerifierParams(a.arm) = "embedded" => a.arm \in EmbeddedCovers

(* A warmup proof that does not verify passes; a prover that refuses ends   *)
(* the command, and only `bench` writes that down.                          *)
RecordWarmup ==
  LET a == Warmups[at]
  IN /\ Running /\ stage = "warmup" /\ attempt # "none"
     /\ IF attempt = "failed"
        THEN /\ csv' = IF Solo THEN csv
                       ELSE Append(csv, Row("warmup-failed", a, FALSE))
             /\ Panic
        ELSE /\ csv' = Append(csv, Row("warmup", a, Verified(a)))
             /\ IF at < Len(Arms) THEN Advance ELSE Goto("matrix")
     /\ attempt' = "none"
     /\ UNCHANGED <<artifactVars, accepted, tallyVars>>

(* Mutant of Written: a refusal leaves no row.                              *)
ProofsOnly(a) ==
  IF attempt = "failed" THEN csv ELSE Append(csv, Row("timed", a, Verified(a)))

Written(a) ==
  Append(csv, IF attempt = "failed" THEN Row("prove-failed", a, FALSE)
              ELSE Row("timed", a, Verified(a)))

(* Mutant of Counted: whatever was proved is counted.                       *)
CountedUnverified(times, a) ==
  IF attempt = "failed" THEN times ELSE Append(times, a)

(* `if ok { ..push(ms) }`.                                                  *)
Counted(times, a) == IF Verified(a) THEN Append(times, a) ELSE times

Tally(a) ==
  IF Solo
  THEN all' = Counted(all, a) /\ UNCHANGED <<cells, unverified>>
  ELSE /\ cells' = [cells EXCEPT ![<<ArmName[a.arm], a.scenario>>] = Counted(@, a)]
       /\ unverified' =
            unverified + (IF attempt # "failed" /\ ~ Verified(a) THEN 1 ELSE 0)
       /\ UNCHANGED all

(* Every attempt has its row, flushed before anything is counted.           *)
Record ==
  LET a == Attempts[at]
  IN /\ Running /\ stage = "matrix" /\ attempt # "none"
     /\ csv' = Written(a)
     /\ Tally(a)
     /\ attempt' = "none"
     /\ Advance
     /\ UNCHANGED <<artifactVars, accepted>>

(* Mutant of SoloCode: one verified proof is a delivery.                    *)
AnyVerified == IF all = <<>> THEN "undelivered" ELSE "ok"

(* `solo` is the delivery check.                                            *)
SoloCode ==
  IF Len(all) # Runs * Len(Requested) THEN "undelivered" ELSE "ok"

(* The summary of `bench` reports and always ends well.                     *)
Summary ==
  /\ Running /\ stage = "matrix" /\ attempt = "none" /\ at > Len(Attempts)
  /\ Finish(IF Solo THEN SoloCode ELSE "ok")
  /\ UNCHANGED <<artifactVars, accepted, attempt, csv, tallyVars>>

(* `writeln!(..).unwrap()` of a row.                                        *)
WriteFails ==
  /\ Running /\ attempt # "none"
  /\ Panic
  /\ UNCHANGED <<artifactVars, accepted, attempt, csv, tallyVars>>

Killed ==
  /\ Running
  /\ Finish("killed")
  /\ UNCHANGED <<artifactVars, accepted, attempt, csv, tallyVars>>

Init ==
  /\ command \in {<<"check">>, <<"bench">>} \cup {<<"solo", a>> : a \in Artifacts}
  /\ accepts \in [Artifacts -> SUBSET Scenarios]
  /\ layout \in {"alike", "skipsDiffer", "schemasDiffer"}
  /\ Checking \/ layout = "alike"  \* no other command looks
  /\ stage = "preimages" /\ at = 1
  /\ accepted = 0
  /\ attempt = "none"
  /\ csv = Earlier
  /\ cells = [k \in {ArmName[a] : a \in Artifacts} \X Scenarios |-> <<>>]
  /\ unverified = 0 /\ all = <<>>
  /\ exit = "running"

Next ==
  \/ CheckScenario \/ AcceptGate
  \/ Preimage \/ CreateCsv \/ CannotCreate
  \/ Prove \/ RecordWarmup \/ Record
  \/ Summary \/ WriteFails \/ Killed

Spec == Init /\ [][Next]_vars
----------------------------------------------------------------------------
Made == Range(Attempts)
Of(arm, s) == {a \in Made : a.arm = arm /\ a.scenario = s}

(* What an attempt can leave in the raw file, and the places of some rows.  *)
GoodProofs(A) == {Row("timed", a, TRUE) : a \in A}
BadProofs(A) == {Row("timed", a, FALSE) : a \in A}
Refusals(A) == {Row("prove-failed", a, FALSE) : a \in A}
Finished(A) == GoodProofs(A) \cup BadProofs(A) \cup Refusals(A)
Places(S) == {i \in DOMAIN csv : csv[i] \in S}
HowMany(S) == Cardinality(Places(S))

(* A time that counts is one of a proof that verified, has its row in the   *)
(* raw file, stands under its own arm and scenario, and was measured on a   *)
(* preimage the reference and every arm of the command accept (main.rs:     *)
(* "one preimage per cell", "every counted proof is VERIFIED").             *)
Sound(a) ==
  /\ Row("timed", a, TRUE) \in Range(csv)
  /\ \A x \in Range(Arms) \cup {Reference} : a.scenario \in accepts[x]

CountedIsSound ==
  /\ \A a \in Range(all) : Sound(a)
  /\ \A k \in DOMAIN cells : \A a \in Range(cells[k]) :
       Sound(a) /\ k = <<ArmName[a.arm], a.scenario>>

(* No attempt is lost: the raw file of a command that got to the timed part *)
(* has, after the warmup's rows, one row per attempt finished, in the order *)
(* they were made, however the command ended; and what is in it is either   *)
(* counted, in its own cell, or reported.                                   *)
RawFileComplete ==
  stage = "matrix" =>
    /\ Len(csv) = Len(Arms) + at - 1
    /\ \A n \in 1 .. at - 1 : csv[Len(Arms) + n] \in Finished({Attempts[n]})
    /\ Solo => Len(all) = HowMany(GoodProofs(Made))
    /\ ~ Solo =>
         /\ unverified = HowMany(BadProofs(Made))
         /\ \A x \in Artifacts, s \in Scenarios :
              Len(cells[<<ArmName[x], s>>]) = HowMany(GoodProofs(Of(x, s)))

(* A command that is to refuse a preimage leaves the raw file of an earlier *)
(* run as it was.                                                           *)
EarlierKept ==
  (\E s \in Scenarios : \E x \in Range(Arms) : s \notin accepts[x])
    => csv = Earlier

(* The two arms are measured side by side: at no moment, the one the        *)
(* process is killed at included, has one arm two attempts more of a        *)
(* scenario than the other has, and it is never the second that is ahead.   *)
ArmsAbreast ==
  command[1] = "bench" /\ stage = "matrix" =>
    \A s \in Scenarios :
      LET lead == HowMany(Finished(Of(Reference, s)))
          trail == HowMany(Finished(Of(Port, s)))
      IN trail <= lead /\ lead <= trail + 1

(* `solo` succeeds only with a verified proof of every scenario in every    *)
(* run on the raw file, and fails by its own code only when one is missing. *)
Delivered ==
  LET proved == {n \in DOMAIN Attempts :
                   /\ Len(Arms) + n \in DOMAIN csv
                   /\ csv[Len(Arms) + n] = Row("timed", Attempts[n], TRUE)}
  IN Solo => /\ exit = "ok" => proved = DOMAIN Attempts
             /\ exit = "undelivered" => proved # DOMAIN Attempts

(* The accept gate passes only if both artifacts accept every preimage and  *)
(* lay the same transcript out alike.                                       *)
GatePassed ==
  Checking /\ exit = "ok" =>
    /\ \A a \in Artifacts : Scenarios \subseteq accepts[a]
    /\ layout = "alike"
=============================================================================
